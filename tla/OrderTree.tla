----------------------------- MODULE OrderTree -----------------------------
(***************************************************************************)
(* The data of one order-maintenance structure of C-RACER: nodes in        *)
(* sublists, labelled within their sublist, and a binary tree over the     *)
(* sublists that gives each of them a label.  Comparisons look at labels   *)
(* only; when a gap is used up the crowded sublists are split and           *)
(* relabelled, and the tree makes room for the pieces.                     *)
(*                                                                         *)
(* A node of the tree is named by its depth and the lowest of the labels   *)
(* below it, which is the label of a leaf.                                 *)
(***************************************************************************)
EXTENDS Integers, FiniteSets, SequencesExt

CONSTANTS
  MaxNodes,         \* bound on the nodes of the structure
  MAX_LEVEL,        \* the width of a label
  SUBLIST_SIZE,     \* the nodes of a sublist after a split
  NODE_INTERVAL,    \* ... and the distance of their labels
  HeavyGap          \* a smaller gap makes a sublist heavy

VARIABLES
  lists,            \* the sublists from left to right
  label,            \* bl_node::label
  m_heavy_nodes,    \* the leaves of the sublists to split
  height            \* om::height

treeVars == <<lists, label, m_heavy_nodes, height>>

(* 1 << n                                                                  *)
Pow2[n \in Nat] == IF n = 0 THEN 1 ELSE 2 * Pow2[n - 1]

ASSUME LabelAssumption ==
  /\ MaxNodes \in Nat \ {0} /\ MAX_LEVEL \in Nat \ {0} /\ HeavyGap \in Nat
  /\ SUBLIST_SIZE \in Nat \ {0} /\ NODE_INTERVAL \in Nat \ {0}
  /\ (SUBLIST_SIZE - 1) * NODE_INTERVAL < Pow2[MAX_LEVEL]

Node == 1 .. MaxNodes
MAX_LABEL == Pow2[MAX_LEVEL] - 1
NoNode == 0

Leaf(depth, l) == [depth |-> depth, label |-> l]
Root == Leaf(0, 0)

(* Faulty: bl_create leaves the mark set.                                  *)
HeavySublist(nodes, leaf) == [nodes |-> nodes, heavy |-> TRUE, above |-> leaf]

Sublist(nodes, leaf) == [nodes |-> nodes, heavy |-> FALSE, above |-> leaf]

TreeInit ==
  /\ lists = <<Sublist(<<1>>, Root)>>
  /\ label = [n \in Node |-> 0]
  /\ m_heavy_nodes = <<>>
  /\ height = 0

Nodes == UNION {ToSet(lists[i].nodes) : i \in DOMAIN lists}

ListOf(x) == CHOOSE i \in DOMAIN lists : x \in ToSet(lists[i].nodes)
Index(x) == CHOOSE k \in DOMAIN lists[ListOf(x)].nodes : lists[ListOf(x)].nodes[k] = x

IsTail(x) == Index(x) = Len(lists[ListOf(x)].nodes)
NextLabel(x) ==
  IF IsTail(x) THEN MAX_LABEL ELSE label[lists[ListOf(x)].nodes[Index(x) + 1]]

-----------------------------------------------------------------------------
(* Comparisons.                                                            *)
om_precedes(x, y) ==
  IF ListOf(x) = ListOf(y)
  THEN label[x] < label[y]
  ELSE lists[ListOf(x)].above.label < lists[ListOf(y)].above.label

-----------------------------------------------------------------------------
(* Faulty: the sum is not cut off at the width of a label.                 *)
Unwrapped(b, next, atEnd) ==
  b \div 2 + next \div 2 + (IF b % 2 = 1 /\ next % 2 = 1 THEN 1 ELSE 0)
    + (IF atEnd THEN 1 ELSE 0)

(***************************************************************************)
(* Insertion.  The label of a new node lies half way to the next one; 0    *)
(* stands for no room.                                                     *)
(***************************************************************************)
Halfway(b, next, atEnd) ==
  (b \div 2 + next \div 2 + (IF b % 2 = 1 /\ next % 2 = 1 THEN 1 ELSE 0)
    + (IF atEnd THEN 1 ELSE 0)) % Pow2[MAX_LEVEL]

(* Faulty: the half is rounded up.                                         *)
RoundsUp(b) == (label[b] + NextLabel(b) + 1) \div 2

get_new_label(b) ==
  LET half == Halfway(label[b], NextLabel(b), IsTail(b))
  IN  IF half = label[b] THEN 0 ELSE half

insert_internal(b, n, l) ==
  /\ lists' = [lists EXCEPT ![ListOf(b)].nodes = InsertAt(@, Index(b) + 1, n)]
  /\ label' = [label EXCEPT ![n] = l]
  /\ UNCHANGED <<m_heavy_nodes, height>>

is_heavy(n) == NextLabel(n) - label[n] < HeavyGap

add_heavy(b) ==
  /\ m_heavy_nodes' = Append(m_heavy_nodes, lists[ListOf(b)].above)
  /\ UNCHANGED <<lists, label, height>>

-----------------------------------------------------------------------------
(***************************************************************************)
(* split: the nodes of the sublist of a leaf are dealt out to new sublists *)
(* and labelled afresh.  The new sublists have no leaves of their own yet. *)
(***************************************************************************)
Pieces(s) == (Len(s) + SUBLIST_SIZE - 1) \div SUBLIST_SIZE

Piece(s, k) ==
  SubSeq(s, (k - 1) * SUBLIST_SIZE + 1,
            IF k = Pieces(s) THEN Len(s) ELSE k * SUBLIST_SIZE)

Log2Ceil(k) == CHOOSE e \in 0 .. k : Pow2[e] >= k /\ (e = 0 \/ Pow2[e - 1] < k)

split(leaf) ==
  LET i == CHOOSE j \in DOMAIN lists : lists[j].above = leaf
      s == lists[i].nodes
      new == [k \in 1 .. Pieces(s) |-> Sublist(Piece(s, k), leaf)]
      levels == Log2Ceil(Pieces(s)) + leaf.depth
  IN  /\ lists' = SubSeq(lists, 1, i - 1) \o new \o SubSeq(lists, i + 1, Len(lists))
      /\ label' = [n \in Node |->
                     IF n \in ToSet(s)
                     THEN ((Index(n) - 1) % SUBLIST_SIZE) * NODE_INTERVAL
                     ELSE label[n]]
      /\ height' = IF Pieces(s) > 1 /\ levels > height THEN levels ELSE height

-----------------------------------------------------------------------------
(***************************************************************************)
(* om_rebalance: a leaf that was split becomes a tree over its pieces,     *)
(* unless a child on the way down to it is too heavy: then the whole tree  *)
(* above that child is built anew.                                         *)
(***************************************************************************)
Span(depth) == Pow2[MAX_LEVEL - depth]

Ancestor(p, depth) == Leaf(depth, (p.label \div Span(depth)) * Span(depth))

Left(p) == Leaf(p.depth + 1, p.label)
Right(p) == Leaf(p.depth + 1, p.label + Span(p.depth) \div 2)

Under(p) == {i \in DOMAIN lists : /\ lists[i].above.depth >= p.depth
                                  /\ Ancestor(lists[i].above, p.depth) = p}
num_leaves(p) == Cardinality(Under(p))
is_leaf(p) == \E i \in DOMAIN lists : lists[i].above = p

needs_rebalance(p) ==
  \E i, j \in Under(p) : i # j /\ lists[i].above = lists[j].above

(* A leaf is on the last level, wherever it hangs.                         *)
level(p) == IF is_leaf(p) THEN MAX_LEVEL ELSE p.depth
capacity(p) == IF level(p) = 0 THEN MAX_LABEL ELSE Span(level(p))

(* num_leaves / capacity >= 0.75 + 0.25 * (level / height)                 *)
too_heavy(p) ==
  /\ needs_rebalance(p)
  /\ 4 * height * num_leaves(p) >= capacity(p) * (3 * height + level(p))

rebuilds(p) ==
  needs_rebalance(p) /\ (is_leaf(p) \/ too_heavy(Left(p)) \/ too_heavy(Right(p)))

(* rebuild_recursive: size leaves below a node that has the span labels    *)
(* from l on; the left half gets the odd one.                              *)
Subtree(depth, l, span, size) ==
  [depth |-> depth, label |-> l, span |-> span, size |-> size]
Subtrees == [depth : Nat, label : Nat, span : Nat, size : Nat \ {0}]

LeftHalf(r) == Subtree(r.depth + 1, r.label, r.span \div 2, r.size - r.size \div 2)
RightHalf(r) ==
  Subtree(r.depth + 1, r.label + r.span \div 2, r.span \div 2, r.size \div 2)

Leaves[r \in Subtrees] ==
  IF r.size = 1 THEN <<Leaf(r.depth, r.label)>>
  ELSE Leaves[LeftHalf(r)] \o Leaves[RightHalf(r)]

rebuild(p) ==
  LET under == Under(p)
      leaves == Leaves[Subtree(p.depth, p.label, Span(p.depth), num_leaves(p))]
  IN  lists' = [i \in DOMAIN lists |->
        IF i \in under
        THEN [lists[i] EXCEPT !.above = leaves[Cardinality({j \in under : j <= i})]]
        ELSE lists[i]]

(* The nodes at which the way down ends.                                   *)
om_rebalance ==
  \E i \in DOMAIN lists : \E depth \in 0 .. lists[i].above.depth :
    /\ rebuilds(Ancestor(lists[i].above, depth))
    /\ \A d \in 0 .. depth - 1 : ~ rebuilds(Ancestor(lists[i].above, d))
    /\ rebuild(Ancestor(lists[i].above, depth))

-----------------------------------------------------------------------------
(* Labels stay in their range, no sublist is empty, and the tree never     *)
(* needs more levels than a label has bits.                                *)
TreeNode == [depth : 0 .. MAX_LEVEL, label : 0 .. MAX_LABEL]

TreeTypeOK ==
  /\ lists \in Seq([nodes : Seq(Node) \ {<<>>}, heavy : BOOLEAN, above : TreeNode])
  /\ label \in [Node -> 0 .. MAX_LABEL]
  /\ m_heavy_nodes \in Seq(TreeNode)
  /\ height \in Nat
=============================================================================
