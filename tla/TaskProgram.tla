----------------------------- MODULE TaskProgram -----------------------------
(***************************************************************************)
(* A TBB program as the detectors see it: tasks that are spawned, run,     *)
(* wait and end, and locks that are taken and given back, with the         *)
(* happens-before order these events create.  The module is external to    *)
(* every detector; a detector adds what its hook does to each event.       *)
(*                                                                         *)
(* Main starts roots and waits for them; every other task waits for the    *)
(* children it spawned before it returns.  A program is strict as long as  *)
(* children are spawned by their parent only; a child may also spawn a     *)
(* sibling while the parent waits for both, as the halves of parallel_for. *)
(***************************************************************************)
EXTENDS HappensBefore

CONSTANTS
  Locks,           \* the locks of the program
  Siblings,        \* may a task spawn a sibling?
  LockOrder,       \* is a release ordered before the next acquisition?
  MaxSegments      \* bound: a task in this segment takes no lock any more

VARIABLES
  status,          \* what each task is doing
  tbb_children,    \* the tasks counted in the reference count of each task
  tbb_roots,       \* the tasks its spawn_root_and_wait is waiting for
  parent,          \* the task under which a task was spawned
  spawned,         \* the number of tasks spawned so far
  strict,          \* history: has no sibling been spawned?
  held,            \* the locks each task holds
  lockPast         \* what happened before the last release of each lock

taskStateVars == <<status, tbb_children, tbb_roots, parent, spawned, strict>>
lockStateVars == <<held, lockPast>>
programVars == <<taskStateVars, lockStateVars, hbVars>>

Status == {"unborn", "ready", "running", "waiting", "rootwait", "finished"}

ASSUME IdiomAssumption ==
  /\ Siblings \in BOOLEAN
  /\ LockOrder \in BOOLEAN
  /\ MaxSegments \in Nat

Running(t) == status[t] = "running"

ProgramInit ==
  /\ HBInit
  /\ status = [t \in Task |-> IF t = 0 THEN "running" ELSE "unborn"]
  /\ tbb_children = [t \in Task |-> {}]
  /\ tbb_roots = [t \in Task |-> {}]
  /\ parent = [t \in Task |-> 0]
  /\ spawned = 0
  /\ strict = TRUE
  /\ held = [t \in Task |-> {}]
  /\ lockPast = [l \in Locks |-> {}]

(***************************************************************************)
(* Task s creates c under p (p is s except for a sibling) and continues in *)
(* the state next.                                                         *)
(***************************************************************************)
Create(s, p, c, next) ==
  /\ Running(s)
  /\ c = spawned + 1 /\ c \in Task
  /\ spawned' = c
  /\ parent' = [parent EXCEPT ![c] = p]
  /\ status' = [status EXCEPT ![c] = "ready", ![s] = next]
  /\ HBFork(s, c)
  /\ UNCHANGED <<lockStateVars, history, raced>>

SpawnChild(s, c, next) ==
  /\ s # 0
  /\ Create(s, s, c, next)
  /\ tbb_children' = [tbb_children EXCEPT ![s] = @ \cup {c}]
  /\ UNCHANGED <<tbb_roots, strict>>

Spawn(s, c) == SpawnChild(s, c, "running")
SpawnAndWaitForAll(s, c) == SpawnChild(s, c, "waiting")

SpawnSibling(s, c) ==
  /\ Siblings /\ s # 0
  /\ status[parent[s]] = "rootwait"
  /\ Create(s, parent[s], c, "running")
  /\ strict' = FALSE
  /\ tbb_roots' = [tbb_roots EXCEPT ![parent[s]] = @ \cup {c}]
  /\ UNCHANGED tbb_children

SpawnRootAndWait(s, c) ==
  /\ s = 0
  /\ Create(s, s, c, "rootwait")
  /\ tbb_roots' = [tbb_roots EXCEPT ![s] = {c}]
  /\ UNCHANGED <<tbb_children, strict>>

(* A task moves on by itself.                                              *)
Move(t, from, to) ==
  /\ status[t] = from
  /\ status' = [status EXCEPT ![t] = to]
  /\ UNCHANGED <<tbb_children, tbb_roots, parent, spawned, strict, lockStateVars, hbVars>>

ExecBegin(t) == Move(t, "ready", "running")

ExecEnd(t) ==
  /\ t # 0
  /\ held[t] = {}
  /\ tbb_children[t] = {}
  /\ Move(t, "running", "finished")

MainReturns == held[0] = {} /\ Move(0, "running", "finished")

WaitForAll(t) == tbb_children[t] # {} /\ Move(t, "running", "waiting")

(* A wait with no child outstanding returns at once.  The hooks of         *)
(* FastRacer, FastTrack and C-RACER leave everything as it is, so that     *)
(* their modules leave it out; those of PTracer and SPD3 do not.           *)
WaitForNothing(t) ==
  Running(t) /\ t # 0 /\ tbb_children[t] = {} /\ UNCHANGED programVars

WaitReturn(t, state, awaited) ==
  /\ status[t] = state
  /\ \A c \in awaited[t] : status[c] = "finished"
  /\ status' = [status EXCEPT ![t] = "running"]
  /\ HBJoin(t, awaited[t])
  /\ UNCHANGED <<parent, spawned, strict, lockStateVars, history, raced>>

WaitForAllReturn(t) ==
  /\ WaitReturn(t, "waiting", tbb_children)
  /\ tbb_children' = [tbb_children EXCEPT ![t] = {}]
  /\ UNCHANGED tbb_roots

RootWaitReturn(t) ==
  /\ WaitReturn(t, "rootwait", tbb_roots)
  /\ tbb_roots' = [tbb_roots EXCEPT ![t] = {}]
  /\ UNCHANGED tbb_children

(* A task ends a segment at a release: what follows is not ordered before  *)
(* the next holder.                                                        *)
Acquire(t, l) ==
  /\ Running(t) /\ seg[t] < MaxSegments
  /\ \A u \in Task : l \notin held[u]
  /\ held' = [held EXCEPT ![t] = @ \cup {l}]
  /\ before' = [before EXCEPT ![t] = @ \cup lockPast[l]]
  /\ UNCHANGED <<taskStateVars, lockPast, seg, history, raced>>

Release(t, l) ==
  /\ Running(t) /\ l \in held[t]
  /\ held' = [held EXCEPT ![t] = @ \ {l}]
  /\ IF LockOrder
     THEN /\ lockPast' = [lockPast EXCEPT ![l] = PastOf(t)]
          /\ HBJoin(t, {})
     ELSE UNCHANGED <<lockPast, orderVars>>
  /\ UNCHANGED <<taskStateVars, history, raced>>

(* An access to the one address under consideration.                       *)
Touch(t, kind) ==
  /\ Running(t)
  /\ HBAccess(t, kind, IF LockOrder THEN {} ELSE held[t])
  /\ UNCHANGED <<taskStateVars, lockStateVars>>

-----------------------------------------------------------------------------
ProgramTypeOK ==
  /\ seg \in [Task -> Nat]
  /\ before \in [Task -> SUBSET (Task \X Nat)]
  /\ status \in [Task -> Status]
  /\ tbb_children \in [Task -> SUBSET Task]
  /\ tbb_roots \in [Task -> SUBSET Task]
  /\ parent \in [Task -> Task]
  /\ spawned \in Task
  /\ strict \in BOOLEAN
  /\ held \in [Task -> SUBSET Locks]
  /\ lockPast \in [Locks -> SUBSET (Task \X Nat)]
=============================================================================
