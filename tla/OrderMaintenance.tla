-------------------------- MODULE OrderMaintenance --------------------------
(***************************************************************************)
(* Threads that insert into an order-maintenance structure of C-RACER and  *)
(* compare its nodes.  A thread does both under its own lock only; to      *)
(* relabel, a thread takes the global lock and then the lock of every      *)
(* thread.  All locks are spin locks.                                      *)
(***************************************************************************)
EXTENDS OrderTree

CONSTANTS
  NUM_THREADS,
  MaxCalls          \* bound on the calls of a thread

VARIABLES
  pc,                    \* the next step of each thread
  base,                  \* base of its call of insert
  lab,                   \* the label it has computed
  new,                   \* the node it has linked
  todo,                  \* the calls it has still to make
  thread_local_lock,     \* the owner of each of them, or NULL
  global_relable_lock,   \* its owner or NULL
  g_relabel_id           \* its last bit

lockVars == <<thread_local_lock, global_relable_lock, g_relabel_id>>
localVars == <<base, lab, new, todo>>
vars == <<treeVars, pc, localVars, lockVars>>

Thread == 1 .. NUM_THREADS
NULL == 0

ASSUME ThreadAssumption ==
  /\ NUM_THREADS \in Nat \ {0}
  /\ MaxCalls \in Nat

Init ==
  /\ TreeInit
  /\ pc = [t \in Thread |-> "idle"]
  /\ base = [t \in Thread |-> NoNode]
  /\ lab = [t \in Thread |-> 0]
  /\ new = [t \in Thread |-> NoNode]
  /\ todo \in [Thread -> 0 .. MaxCalls]
  /\ thread_local_lock = [t \in Thread |-> NULL]
  /\ global_relable_lock = NULL
  /\ g_relabel_id = 0

Goto(t, from, to) == pc[t] = from /\ pc' = [pc EXCEPT ![t] = to]

-----------------------------------------------------------------------------
(***************************************************************************)
(* A call of insert or of races_with.  The lock of the task that spawns    *)
(* keeps two calls with the same base apart, and a node is used once the   *)
(* call that made it has returned.                                         *)
(***************************************************************************)
BeginInsert(t, b) ==
  /\ Goto(t, "idle", "lock")
  /\ todo[t] > 0
  /\ b \in Nodes
  /\ \A u \in Thread : b # base[u] /\ b # new[u]
  /\ Cardinality(Nodes) +
       Cardinality({u \in Thread : base[u] # NoNode /\ new[u] = NoNode}) < MaxNodes
  /\ base' = [base EXCEPT ![t] = b]
  /\ todo' = [todo EXCEPT ![t] = @ - 1]
  /\ UNCHANGED <<treeVars, lab, new, lockVars>>

BeginQuery(t) ==
  /\ Goto(t, "idle", "lock_query")
  /\ todo[t] > 0
  /\ todo' = [todo EXCEPT ![t] = @ - 1]
  /\ UNCHANGED <<treeVars, base, lab, new, lockVars>>

LockOwn(t) ==
  /\ Goto(t, "lock", "label") \/ Goto(t, "lock_query", "asking")
  /\ thread_local_lock[t] = NULL
  /\ thread_local_lock' = [thread_local_lock EXCEPT ![t] = t]
  /\ UNCHANGED <<treeVars, localVars, global_relable_lock, g_relabel_id>>

UnlockQuery(t) ==
  /\ Goto(t, "asking", "idle")
  /\ thread_local_lock' = [thread_local_lock EXCEPT ![t] = NULL]
  /\ UNCHANGED <<treeVars, localVars, global_relable_lock, g_relabel_id>>

(* bl_insert: the label is computed from that of the base and its next     *)
(* node, then the node is linked.                                          *)
GetLabel(t) ==
  /\ Goto(t, "label", IF get_new_label(base[t]) > 0 THEN "link" ELSE "mark")
  /\ lab' = [lab EXCEPT ![t] = get_new_label(base[t])]
  /\ UNCHANGED <<treeVars, base, new, todo, lockVars>>

Link(t) ==
  LET n == Cardinality(Nodes) + 1
  IN  /\ Goto(t, "link", "mark")
      /\ insert_internal(base[t], n, lab[t])
      /\ new' = [new EXCEPT ![t] = n]
      /\ UNCHANGED <<base, lab, todo, lockVars>>

(* The sublist is marked if there was no room or little is left.           *)
Mark(t) ==
  LET i == ListOf(base[t])
      mark == (lab[t] = 0 \/ is_heavy(new[t])) /\ ~ lists[i].heavy
  IN  /\ Goto(t, "mark", IF mark THEN "add" ELSE "unlock")
      /\ lists' = [lists EXCEPT ![i].heavy = @ \/ mark]
      /\ UNCHANGED <<label, m_heavy_nodes, height, localVars, lockVars>>

Add(t) ==
  /\ Goto(t, "add", "unlock")
  /\ add_heavy(base[t])
  /\ UNCHANGED <<localVars, lockVars>>

Return(t) ==
  /\ Goto(t, "unlock", "idle")
  /\ lab[t] > 0
  /\ thread_local_lock' = [thread_local_lock EXCEPT ![t] = NULL]
  /\ base' = [base EXCEPT ![t] = NoNode]
  /\ new' = [new EXCEPT ![t] = NoNode]
  /\ UNCHANGED <<treeVars, lab, todo, global_relable_lock, g_relabel_id>>

(* slow_path: the lock is given up to relabel, then the call tries again.  *)
GiveUp(t) ==
  /\ Goto(t, "unlock", "join")
  /\ lab[t] = 0
  /\ thread_local_lock' = [thread_local_lock EXCEPT ![t] = NULL]
  /\ UNCHANGED <<treeVars, localVars, global_relable_lock, g_relabel_id>>

-----------------------------------------------------------------------------
(***************************************************************************)
(* join_batch.  A thread that sees a relabelling under way waits for its   *)
(* own lock only.                                                          *)
(***************************************************************************)
Join(t) ==
  /\ Goto(t, "join", IF g_relabel_id = 1 THEN "lock" ELSE "global")
  /\ UNCHANGED <<treeVars, localVars, lockVars>>

LockGlobal(t) ==
  /\ Goto(t, "global", "collect")
  /\ global_relable_lock = NULL
  /\ global_relable_lock' = t
  /\ UNCHANGED <<treeVars, localVars, thread_local_lock, g_relabel_id>>

(* Faulty: the lock of a thread is not waited for.                         *)
CollectAnyway(t, i) ==
  /\ pc[t] = "collect"
  /\ thread_local_lock[i] # t /\ \A j \in 1 .. i - 1 : thread_local_lock[j] = t
  /\ thread_local_lock' = [thread_local_lock EXCEPT ![i] = t]
  /\ UNCHANGED <<treeVars, pc, localVars, global_relable_lock, g_relabel_id>>

Collect(t, i) ==
  /\ pc[t] = "collect"
  /\ thread_local_lock[i] = NULL /\ \A j \in 1 .. i - 1 : thread_local_lock[j] = t
  /\ thread_local_lock' = [thread_local_lock EXCEPT ![i] = t]
  /\ UNCHANGED <<treeVars, pc, localVars, global_relable_lock, g_relabel_id>>

BeginRelabel(t) ==
  /\ Goto(t, "collect", "relabel")
  /\ \A i \in Thread : thread_local_lock[i] = t
  /\ g_relabel_id' = 1
  /\ UNCHANGED <<treeVars, localVars, thread_local_lock, global_relable_lock>>

Split(t) ==
  /\ pc[t] = "relabel"
  /\ m_heavy_nodes # <<>>
  /\ split(Head(m_heavy_nodes))
  /\ m_heavy_nodes' = Tail(m_heavy_nodes)
  /\ UNCHANGED <<pc, localVars, lockVars>>

(* With more sublists than labels the program ends: the structure is full. *)
Rebalance(t) ==
  /\ pc[t] = "relabel"
  /\ m_heavy_nodes = <<>>
  /\ num_leaves(Root) <= MAX_LABEL + 1
  /\ om_rebalance
  /\ UNCHANGED <<label, m_heavy_nodes, height, pc, localVars, lockVars>>

EndRelabel(t) ==
  /\ Goto(t, "relabel", "release")
  /\ m_heavy_nodes = <<>> /\ ~ needs_rebalance(Root)
  /\ g_relabel_id' = 0
  /\ UNCHANGED <<treeVars, localVars, thread_local_lock, global_relable_lock>>

Release(t, i) ==
  /\ pc[t] = "release"
  /\ thread_local_lock[i] = t /\ \A j \in 1 .. i - 1 : thread_local_lock[j] # t
  /\ thread_local_lock' = [thread_local_lock EXCEPT ![i] = NULL]
  /\ UNCHANGED <<treeVars, pc, localVars, global_relable_lock, g_relabel_id>>

UnlockGlobal(t) ==
  /\ Goto(t, "release", "lock")
  /\ \A i \in Thread : thread_local_lock[i] # t
  /\ global_relable_lock' = NULL
  /\ UNCHANGED <<treeVars, localVars, thread_local_lock, g_relabel_id>>

-----------------------------------------------------------------------------
Step(t) ==
  \/ LockOwn(t) \/ UnlockQuery(t)
  \/ GetLabel(t) \/ Link(t) \/ Mark(t) \/ Add(t) \/ Return(t) \/ GiveUp(t)
  \/ Join(t) \/ LockGlobal(t) \/ BeginRelabel(t)
  \/ Split(t) \/ Rebalance(t) \/ EndRelabel(t) \/ UnlockGlobal(t)
  \/ \E i \in Thread : Collect(t, i) \/ Release(t, i)

Idle == (\A t \in Thread : pc[t] = "idle") /\ UNCHANGED vars

Next ==
  \/ \E t \in Thread : Step(t) \/ BeginQuery(t) \/ \E b \in Node : BeginInsert(t, b)
  \/ Idle

Spec == Init /\ [][Next]_vars

(* The operating system runs every thread; the calls are finitely many, so *)
(* that a lock is free for good when its last user has given it back.      *)
FairSpec == Spec /\ \A t \in Thread : WF_vars(Step(t))

-----------------------------------------------------------------------------
PC == {"idle", "lock", "lock_query", "asking", "label", "link", "mark", "add",
       "unlock", "join", "global", "collect", "relabel", "release"}

(* Labels are in range, the tree has room, and every variable has its type.*)
TypeOK ==
  /\ TreeTypeOK
  /\ pc \in [Thread -> PC]
  /\ base \in [Thread -> Node \cup {NoNode}]
  /\ lab \in [Thread -> 0 .. MAX_LABEL]
  /\ new \in [Thread -> Node \cup {NoNode}]
  /\ todo \in [Thread -> Nat]
  /\ thread_local_lock \in [Thread -> Thread \cup {NULL}]
  /\ global_relable_lock \in Thread \cup {NULL}
  /\ g_relabel_id \in {0, 1}

(***************************************************************************)
(* While a thread relabels, no other one reads a label, writes one or      *)
(* links a node, and no two threads relabel.                               *)
(***************************************************************************)
UsesLabels == {"asking", "label", "link", "mark", "add", "unlock"}

RelabelExclusive ==
  \A t, u \in Thread :
    t # u /\ pc[t] = "relabel" => pc[u] \notin UsesLabels \cup {"relabel"}

(***************************************************************************)
(* The labels answer every comparison as the abstract list does, at every  *)
(* moment at which a thread can ask: the insertions of several threads and *)
(* the relabelling in between change no answer given before.               *)
(***************************************************************************)
LeftOf(x, y) ==
  \/ ListOf(x) < ListOf(y)
  \/ ListOf(x) = ListOf(y) /\ Index(x) < Index(y)

Order ==
  {e \in Nodes \X Nodes :
     IF g_relabel_id = 0
     THEN e[1] # e[2] /\ om_precedes(e[1], e[2])
     ELSE LeftOf(e[1], e[2])}

List == INSTANCE OrderList WITH Base <- 1, nodes <- Nodes, order <- Order

ImplementsOrderList == List!Spec

(***************************************************************************)
(* Every insertion returns: there is room after a relabelling, and nobody  *)
(* waits for a lock for ever.                                              *)
(***************************************************************************)
EveryInsertReturns == \A t \in Thread : pc[t] = "lock" ~> pc[t] = "idle"
=============================================================================
