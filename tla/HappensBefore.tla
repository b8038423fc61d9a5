--------------------------- MODULE HappensBefore ---------------------------
(***************************************************************************)
(* The ground truth the race detectors are measured against: the           *)
(* happens-before order of a task-parallel execution, and the data races   *)
(* on one shared address.  Nothing here is read from a detector.           *)
(*                                                                         *)
(* The life of a task is cut into segments, numbered from 1; a segment     *)
(* ends when the task spawns or has waited.  before[t] is the set of the   *)
(* segments <<u, n>> that happened before the current segment of t.        *)
(***************************************************************************)
EXTENDS Integers, FiniteSets

CONSTANT MaxTasks      \* size of tstate_nodes; task 0 is the main program

ASSUME MaxTasksAssumption == MaxTasks \in Nat \ {0}

Task == 0 .. MaxTasks - 1

VARIABLES
  seg,         \* the current segment of each task, 0 before its spawn
  before,      \* [Task -> SUBSET (Task \X Nat)]
  history,     \* the accesses made to the address so far
  raced        \* TRUE once two of them were a data race

orderVars == <<seg, before>>
hbVars == <<orderVars, history, raced>>

READ == "READ"
WRITE == "WRITE"
AccessType == {READ, WRITE}

HBInit ==
  /\ seg = [t \in Task |-> IF t = 0 THEN 1 ELSE 0]
  /\ before = [t \in Task |-> {}]
  /\ history = {}
  /\ raced = FALSE

PastOf(t) == before[t] \cup {<<t, seg[t]>>}

(* s created task c: its past is the past of c, and s goes on in parallel. *)
HBFork(s, c) ==
  /\ seg' = [seg EXCEPT ![s] = @ + 1, ![c] = 1]
  /\ before' = [before EXCEPT ![s] = PastOf(s), ![c] = PastOf(s)]

(* p has waited until the tasks in S finished.                             *)
HBJoin(p, S) ==
  /\ seg' = [seg EXCEPT ![p] = @ + 1]
  /\ before' = [before EXCEPT ![p] = PastOf(p) \cup UNION {PastOf(c) : c \in S}]

(***************************************************************************)
(* An access races with an earlier one that did not happen before it when  *)
(* one of the two is a write and no lock is held during both.              *)
(***************************************************************************)
AccessOf(t, kind, locks) ==
  [task |-> t, seg |-> seg[t], kind |-> kind, locks |-> locks]

Concurrent(t, a) == a.task # t /\ <<a.task, a.seg>> \notin before[t]

RacesWith(t, kind, locks) ==
  {a \in history : /\ Concurrent(t, a)
                   /\ WRITE \in {a.kind, kind}
                   /\ a.locks \cap locks = {}}

HBAccess(t, kind, locks) ==
  /\ raced' = (raced \/ RacesWith(t, kind, locks) # {})
  /\ history' = history \cup {AccessOf(t, kind, locks)}
  /\ UNCHANGED orderVars
=============================================================================
