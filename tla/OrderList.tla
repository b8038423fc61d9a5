------------------------------ MODULE OrderList ------------------------------
(***************************************************************************)
(* What an order-maintenance list promises: a total order in which a new   *)
(* node is put right after a node that is there.  C-RACER keeps two of     *)
(* them.  The order is the set of the pairs <<x, y>> with x before y.      *)
(***************************************************************************)
CONSTANTS
  Node,      \* the nodes there may be
  Base       \* the node a new list holds, one of them

VARIABLES nodes, order

Before(R, x) == {y \in Node : <<y, x>> \in R}
After(R, x) == {y \in Node : <<x, y>> \in R}

(* The order R with the new node n right after b.                          *)
InsertedAfter(R, b, n) ==
  R \cup (({b} \cup Before(R, b)) \X {n}) \cup ({n} \X After(R, b))

Init == nodes = {Base} /\ order = {}

Insert(b, n) ==
  /\ b \in nodes /\ n \in Node \ nodes
  /\ nodes' = nodes \cup {n}
  /\ order' = InsertedAfter(order, b, n)

Next == \E b \in nodes, n \in Node \ nodes : Insert(b, n)

Spec == Init /\ [][Next]_<<nodes, order>>

(***************************************************************************)
(* The order is total and strict on the nodes that were inserted: any two  *)
(* of them can be compared, and the answers never contradict each other.   *)
(***************************************************************************)
TotalOrder ==
  /\ order \subseteq nodes \X nodes
  /\ \A x, y \in nodes : x # y <=> <<x, y>> \in order \/ <<y, x>> \in order
  /\ \A x, y, z \in nodes :
       <<x, y>> \in order /\ <<y, z>> \in order => <<x, z>> \in order
  /\ \A x, y \in nodes : ~ (<<x, y>> \in order /\ <<y, x>> \in order)
=============================================================================
