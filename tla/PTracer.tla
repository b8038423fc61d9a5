------------------------------ MODULE PTracer ------------------------------
(***************************************************************************)
(* PTracer: for each set of locks held, two readers and two writers of the *)
(* address, compared through the tree.  The module gives what the hooks    *)
(* do; it has no next-state relation.                                      *)
(***************************************************************************)
EXTENDS ProgramTree

VARIABLES
  thd_lockset,   \* the stack of locks each task has taken
  entries,       \* Dr_Address_Data: an entry per lockset
  ptracerFound   \* is the address in all_violations of PTracer?

ptracerVars == <<thd_lockset, entries, ptracerFound>>

Empty == [r1 |-> Nobody, r2 |-> Nobody, w1 |-> Nobody, w2 |-> Nobody]

PTracerInit ==
  /\ thd_lockset = [t \in Task |-> <<>>]
  /\ entries = [L \in SUBSET Locks |-> Empty]
  /\ ptracerFound = FALSE

LockAcquired(t, l) ==
  /\ thd_lockset' = [thd_lockset EXCEPT ![t] = Append(@, l)]
  /\ UNCHANGED <<entries, ptracerFound>>

(* A release takes the last lock off the stack, whichever is released.     *)
LockReleased(t) ==
  /\ thd_lockset' = [thd_lockset EXCEPT ![t] = Front(@)]
  /\ UNCHANGED <<entries, ptracerFound>>

Lockset(t) == ToSet(thd_lockset[t])

EntryRaces(t, kind, e) ==
  \/ AreParallel(t, e.w1) \/ AreParallel(t, e.w2)
  \/ kind = WRITE /\ (AreParallel(t, e.r1) \/ AreParallel(t, e.r2))

PTracerFinds(t, kind) ==
  /\ ~ Skipped(t)
  /\ \E L \in SUBSET Locks : L \cap Lockset(t) = {} /\ EntryRaces(t, kind, entries[L])

(* Faulty: a second access is never kept.                                  *)
KeepsOne(t, x, y) == IF AreParallel(t, x) THEN <<x, y>> ELSE <<Recorded(t), Nobody>>

(* The two accesses kept of one kind: both are replaced by an access that  *)
(* follows them, a second one is kept if it is parallel to the first.      *)
Slots(t, x, y) ==
  CASE ~ AreParallel(t, x) /\ ~ AreParallel(t, y) -> <<Recorded(t), Nobody>>
    [] AreParallel(t, x) /\ AreParallel(t, y) /\ Widens(t, x, y) -> <<Recorded(t), y>>
    [] AreParallel(t, x) /\ y = Nobody -> <<x, Recorded(t)>>
    [] OTHER -> <<x, y>>

Updated(t, kind, e) ==
  LET r == Slots(t, e.r1, e.r2)
      w == Slots(t, e.w1, e.w2)
  IN  IF kind = READ
      THEN [e EXCEPT !.r1 = r[1], !.r2 = r[2]]
      ELSE [e EXCEPT !.w1 = w[1], !.w2 = w[2]]

(* RecordMem of PTracer, under the lock of the address.                    *)
PTracerRecordMem(t, kind) ==
  /\ ptracerFound' = (ptracerFound \/ PTracerFinds(t, kind))
  /\ entries' = IF Skipped(t) \/ ptracerFound \/ PTracerFinds(t, kind)
                THEN entries
                ELSE [entries EXCEPT ![Lockset(t)] = Updated(t, kind, @)]
  /\ UNCHANGED thd_lockset
=============================================================================
