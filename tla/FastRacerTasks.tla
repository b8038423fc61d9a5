--------------------------- MODULE FastRacerTasks ---------------------------
(***************************************************************************)
(* The task bookkeeping of FastRacer: the table tstate_nodes, the task     *)
(* scheduler calls that t_debug_task wraps, and the test that decides from *)
(* a recorded (task, clock) pair whether it happened before the running    *)
(* task (parent_clock, find_root, check_dead).                             *)
(*                                                                         *)
(* TBB itself is external: a task is in one of the states of Status, and   *)
(* a wait returns only when the tasks it waits for have finished.  The     *)
(* constants below say which of the spawn idioms the program uses.         *)
(***************************************************************************)
EXTENDS HappensBefore, Sequences, FiniteSetsExt

CONSTANTS
  Locks,           \* the locks of the program
  RootCallers,     \* tasks that call spawn_root_and_wait (main always may)
  SiblingParents,  \* states of the parent in which a child spawns a sibling
  LeaveChildren    \* may a task return without waiting for its children?

VARIABLES
  status,          \* TBB: what each task is doing
  tbb_children,    \* TBB: the tasks counted in the reference count of each
  tbb_roots,       \* TBB: the tasks its spawn_root_and_wait is waiting for
  m_vc,            \* TaskState::m_vc; its length is TaskState::depth
  ancClock,        \* cached_tid/cached_clock and my_vc: 0 where absent
  clock,           \* TaskState::clock
  lockset,         \* TaskState::lockset
  held,            \* the locks the task really holds
  parent_taskId,   \* TaskState::parent_taskId
  child_list,      \* TaskState::child_list
  joinset,         \* 0, or 1 + the task that joined this one
  task_id_ctr,
  num_dead_tasks,
  dead_clock_value

tbbVars == <<status, tbb_children, tbb_roots>>
lockVars == <<lockset, held>>
deadVars == <<num_dead_tasks, dead_clock_value>>
taskVars == <<m_vc, ancClock, clock, parent_taskId, child_list, joinset,
              task_id_ctr>>
allTaskVars == <<tbbVars, lockVars, deadVars, taskVars, hbVars>>

Status == {"unborn", "ready", "running", "waiting", "rootwait", "finished"}

ASSUME ModeAssumption ==
  /\ RootCallers \subseteq Task /\ 0 \in RootCallers
  /\ SiblingParents \subseteq {"running", "waiting", "rootwait"}
  /\ LeaveChildren \in BOOLEAN

depth(t) == Len(m_vc[t])
Running(t) == status[t] = "running"

(***************************************************************************)
(* TD_Activate: task 0 is the main program, its clock starts at 1.         *)
(***************************************************************************)
TasksInit ==
  /\ HBInit
  /\ status = [t \in Task |-> IF t = 0 THEN "running" ELSE "unborn"]
  /\ tbb_children = [t \in Task |-> {}]
  /\ tbb_roots = [t \in Task |-> {}]
  /\ m_vc = [t \in Task |-> <<>>]
  /\ ancClock = [t \in Task |-> [u \in Task |-> 0]]
  /\ clock = [t \in Task |-> IF t = 0 THEN 1 ELSE 0]
  /\ lockset = [t \in Task |-> {}]
  /\ held = [t \in Task |-> {}]
  /\ parent_taskId = [t \in Task |-> 0]
  /\ child_list = [t \in Task |-> {}]
  /\ joinset = [t \in Task |-> 0]
  /\ task_id_ctr = 0
  /\ num_dead_tasks = 0
  /\ dead_clock_value = 0

-----------------------------------------------------------------------------
(* Faulty spawns: the clock is recorded after the increment; the clock of  *)
(* the parent is not incremented.                                          *)
RecordsClockLate(s, p, c) ==
  /\ m_vc' = [m_vc EXCEPT ![c] = Append(m_vc[p], clock[p] + 1)]
  /\ ancClock' = [ancClock EXCEPT ![c] = [ancClock[p] EXCEPT ![p] = clock[p] + 1]]
  /\ clock' = [clock EXCEPT ![p] = @ + 1, ![c] = 1]
  /\ child_list' = [child_list EXCEPT ![p] = @ \cup {c}]
  /\ parent_taskId' = [parent_taskId EXCEPT ![c] = p]
  /\ lockset' = [lockset EXCEPT ![c] = lockset[p]]
  /\ HBFork(s, c)
  /\ UNCHANGED <<joinset, held, deadVars, history, raced>>

KeepsParentClock(s, p, c) ==
  /\ m_vc' = [m_vc EXCEPT ![c] = Append(m_vc[p], clock[p])]
  /\ ancClock' = [ancClock EXCEPT ![c] = [ancClock[p] EXCEPT ![p] = clock[p]]]
  /\ clock' = [clock EXCEPT ![c] = 1]
  /\ child_list' = [child_list EXCEPT ![p] = @ \cup {c}]
  /\ parent_taskId' = [parent_taskId EXCEPT ![c] = p]
  /\ lockset' = [lockset EXCEPT ![c] = lockset[p]]
  /\ HBFork(s, c)
  /\ UNCHANGED <<joinset, held, deadVars, history, raced>>

(***************************************************************************)
(* CaptureSpawn(p, c).  The child takes over what its parent knows of the  *)
(* ancestors, records the clock the parent had before this spawn, and      *)
(* appends the clock it has after it to the path m_vc.  s is the task that *)
(* makes the call; it is p except in a sibling spawn.                      *)
(***************************************************************************)
CaptureSpawn(s, p, c) ==
  /\ m_vc' = [m_vc EXCEPT ![c] = Append(m_vc[p], clock[p] + 1)]
  /\ ancClock' = [ancClock EXCEPT ![c] = [ancClock[p] EXCEPT ![p] = clock[p]]]
  /\ clock' = [clock EXCEPT ![p] = @ + 1, ![c] = 1]
  /\ child_list' = [child_list EXCEPT ![p] = @ \cup {c}]
  /\ parent_taskId' = [parent_taskId EXCEPT ![c] = p]
  /\ lockset' = [lockset EXCEPT ![c] = lockset[p]]
  /\ HBFork(s, c)
  /\ UNCHANGED <<joinset, held, deadVars, history, raced>>

NewTaskId(c) ==
  /\ c = task_id_ctr + 1 /\ c \in Task
  /\ task_id_ctr' = c

(***************************************************************************)
(* t_debug_task::spawn of a child of the caller, alone or as the first     *)
(* half of spawn_and_wait_for_all.                                         *)
(***************************************************************************)
SpawnThen(s, c, next) ==
  /\ Running(s) /\ s # 0
  /\ NewTaskId(c)
  /\ CaptureSpawn(s, s, c)
  /\ status' = [status EXCEPT ![c] = "ready", ![s] = next]
  /\ tbb_children' = [tbb_children EXCEPT ![s] = @ \cup {c}]
  /\ UNCHANGED tbb_roots

Spawn(s, c) == SpawnThen(s, c, "running")
SpawnAndWaitForAll(s, c) == SpawnThen(s, c, "waiting")

(***************************************************************************)
(* t_debug_task::spawn of a task whose TBB parent is not the caller: a     *)
(* further child of the caller's parent, or a child of a continuation that *)
(* took the caller's place.  FastRacer books both as children of the       *)
(* caller's parent.                                                        *)
(***************************************************************************)
SpawnSibling(s, c) ==
  /\ Running(s) /\ s # 0
  /\ status[parent_taskId[s]] \in SiblingParents
  /\ NewTaskId(c)
  /\ CaptureSpawn(s, parent_taskId[s], c)
  /\ status' = [status EXCEPT ![c] = "ready"]
  /\ LET p == parent_taskId[s]
         With(f) == [f EXCEPT ![p] = IF s \in @ THEN @ \cup {c} ELSE @]
     IN  /\ tbb_children' = With(tbb_children)
         /\ tbb_roots' = With(tbb_roots)

(***************************************************************************)
(* t_debug_task::spawn_root_and_wait: TBB waits for the new root only.     *)
(***************************************************************************)
SpawnRootAndWait(s, c) ==
  /\ Running(s) /\ s \in RootCallers
  /\ NewTaskId(c)
  /\ CaptureSpawn(s, s, c)
  /\ status' = [status EXCEPT ![c] = "ready", ![s] = "rootwait"]
  /\ tbb_roots' = [tbb_roots EXCEPT ![s] = {c}]
  /\ UNCHANGED tbb_children

(***************************************************************************)
(* __exec_begin__ and __exec_end__, around the body of a task.             *)
(***************************************************************************)
ExecBegin(t) ==
  /\ status[t] = "ready"
  /\ status' = [status EXCEPT ![t] = "running"]
  /\ child_list' = [child_list EXCEPT ![t] = {}]
  /\ UNCHANGED <<tbb_children, tbb_roots, m_vc, ancClock, clock,
                 parent_taskId, joinset, task_id_ctr, lockVars, deadVars, hbVars>>

ExecEnd(t) ==
  /\ Running(t) /\ t # 0
  /\ held[t] = {}
  /\ LeaveChildren \/ tbb_children[t] = {}
  /\ status' = [status EXCEPT ![t] = "finished"]
  /\ UNCHANGED <<tbb_children, tbb_roots, taskVars, lockVars, deadVars, hbVars>>

(* main returns; what still runs is killed with the process.               *)
MainReturns ==
  /\ Running(0) /\ held[0] = {}
  /\ status' = [status EXCEPT ![0] = "finished"]
  /\ UNCHANGED <<tbb_children, tbb_roots, taskVars, lockVars, deadVars, hbVars>>

(***************************************************************************)
(* wait_for_all blocks the caller until all its TBB children finished (a   *)
(* wait with no child outstanding changes nothing and is left out).        *)
(***************************************************************************)
WaitForAll(t) ==
  /\ Running(t)
  /\ tbb_children[t] # {}
  /\ status' = [status EXCEPT ![t] = "waiting"]
  /\ UNCHANGED <<tbb_children, tbb_roots, taskVars, lockVars, deadVars, hbVars>>

(***************************************************************************)
(* Capturewait_for_all_task: task 0 declares every task spawned so far     *)
(* dead; any other task enters its children in the joinset, and under them *)
(* the children they left behind, and so on: the recursion reaches the     *)
(* least set that holds the child lists of t and of its members.           *)
(***************************************************************************)
Adopts(S, t) ==
  child_list[t] \subseteq S /\ \A c \in S : child_list[c] \subseteq S

LeftBehind(t) ==
  {c \in Task : \A S \in SUBSET Task : Adopts(S, t) => c \in S}

(* Faulty joins: into the parent of the waiting task; into the child.      *)
JoinsTooHigh(t) ==
  LET joined == LeftBehind(t)
  IN  /\ joinset' = [c \in Task |->
                       IF c \in joined THEN parent_taskId[t] + 1 ELSE joinset[c]]
      /\ child_list' = [c \in Task |->
                          IF c \in joined \cup {t} THEN {} ELSE child_list[c]]
      /\ UNCHANGED <<clock, deadVars>>

JoinsToItself(t) ==
  LET joined == LeftBehind(t)
  IN  /\ joinset' = [c \in Task |-> IF c \in joined THEN c + 1 ELSE joinset[c]]
      /\ child_list' = [c \in Task |->
                          IF c \in joined \cup {t} THEN {} ELSE child_list[c]]
      /\ UNCHANGED <<clock, deadVars>>

JoinChildren(t) ==
  LET joined == LeftBehind(t)
  IN  /\ joinset' = [c \in Task |->
                       IF c \in joined THEN parent_taskId[c] + 1 ELSE joinset[c]]
      /\ child_list' = [c \in Task |->
                          IF c \in joined \cup {t} THEN {} ELSE child_list[c]]
      /\ UNCHANGED <<clock, deadVars>>

(* Faulty: the next task to be spawned is declared dead too.               *)
DeclaresTooManyDead ==
  /\ child_list' = [child_list EXCEPT ![0] = {}]
  /\ num_dead_tasks' = task_id_ctr + 1
  /\ dead_clock_value' = clock[0]
  /\ clock' = [clock EXCEPT ![0] = @ + 1]
  /\ UNCHANGED joinset

DeclareDead ==
  /\ child_list' = [child_list EXCEPT ![0] = {}]
  /\ num_dead_tasks' = task_id_ctr
  /\ dead_clock_value' = clock[0]
  /\ clock' = [clock EXCEPT ![0] = @ + 1]
  /\ UNCHANGED joinset

Capturewait_for_all(t) ==
  \/ /\ child_list[t] = {}
     /\ UNCHANGED <<clock, child_list, joinset, deadVars>>
  \/ /\ child_list[t] # {}
     /\ IF t = 0 THEN DeclareDead ELSE JoinChildren(t)

WaitReturn(t, state, awaited) ==
  /\ status[t] = state
  /\ \A c \in awaited[t] : status[c] = "finished"
  /\ Capturewait_for_all(t)
  /\ status' = [status EXCEPT ![t] = "running"]
  /\ HBJoin(t, awaited[t])
  /\ UNCHANGED <<m_vc, ancClock, parent_taskId, task_id_ctr, lockVars, history,
                 raced>>

WaitForAllReturn(t) ==
  /\ WaitReturn(t, "waiting", tbb_children)
  /\ tbb_children' = [tbb_children EXCEPT ![t] = {}]
  /\ UNCHANGED tbb_roots

RootWaitReturn(t) ==
  /\ WaitReturn(t, "rootwait", tbb_roots)
  /\ tbb_roots' = [tbb_roots EXCEPT ![t] = {}]
  /\ UNCHANGED tbb_children

(***************************************************************************)
(* CaptureLockAcquire follows the acquisition of a lock of the program,    *)
(* CaptureLockRelease precedes its release.                                *)
(***************************************************************************)
LockAcquire(t, l) ==
  /\ Running(t)
  /\ \A u \in Task : l \notin held[u]
  /\ held' = [held EXCEPT ![t] = @ \cup {l}]
  /\ lockset' = [lockset EXCEPT ![t] = @ \cup {l}]
  /\ UNCHANGED <<tbbVars, taskVars, deadVars, hbVars>>

LockRelease(t, l) ==
  /\ Running(t) /\ l \in held[t]
  /\ held' = [held EXCEPT ![t] = @ \ {l}]
  /\ lockset' = [lockset EXCEPT ![t] = @ \ {l}]
  /\ UNCHANGED <<tbbVars, taskVars, deadVars, hbVars>>

TaskStep ==
  \/ \E s, c \in Task : \/ Spawn(s, c)
                        \/ SpawnAndWaitForAll(s, c)
                        \/ SpawnSibling(s, c)
                        \/ SpawnRootAndWait(s, c)
  \/ \E t \in Task : \/ ExecBegin(t) \/ ExecEnd(t)
                     \/ WaitForAll(t) \/ WaitForAllReturn(t) \/ RootWaitReturn(t)
  \/ MainReturns
  \/ \E t \in Task, l \in Locks : LockAcquire(t, l) \/ LockRelease(t, l)

-----------------------------------------------------------------------------
(***************************************************************************)
(* The ordering test.  parent_clock is 0 unless u is a proper ancestor of  *)
(* t by depth and by the recorded entries; find_root follows the joinset.  *)
(***************************************************************************)
parent_clock(t, u) == IF depth(u) >= depth(t) THEN 0 ELSE ancClock[t][u]

find_root[u \in Task] == IF joinset[u] = 0 THEN u ELSE find_root[joinset[u] - 1]

(* Faulty: joined descendants of an ancestor are not recognized.           *)
ForgetsJoins(t, u, c) ==
  \/ u = t /\ c <= clock[t]
  \/ u # t /\ parent_clock(t, u) # 0 /\ c <= parent_clock(t, u)
  \/ u # t /\ parent_clock(t, u) = 0 /\ (find_root[u] = t \/ c = 0)

(* The clock up to which t considers u ordered before it; INT_MAX if all.  *)
OrderedBefore(t, u, c) ==
  \/ /\ u = t
     /\ c <= clock[t]
  \/ /\ u # t /\ parent_clock(t, u) # 0
     /\ c <= parent_clock(t, u)
  \/ /\ u # t /\ parent_clock(t, u) = 0
     /\ \/ find_root[u] = t
        \/ parent_clock(t, find_root[u]) # 0
        \/ c = 0

check_dead(u, c) ==
  \/ u > 0 /\ u <= num_dead_tasks
  \/ u = 0 /\ c <= dead_clock_value

-----------------------------------------------------------------------------
(***************************************************************************)
(* The task bookkeeping by itself: no access is recorded.                  *)
(***************************************************************************)
TasksTerminated == status[0] = "finished" /\ UNCHANGED allTaskVars

TasksNext ==
  \/ status[0] # "finished" /\ TaskStep
  \/ TasksTerminated

TasksSpec == TasksInit /\ [][TasksNext]_allTaskVars

(* The variables range over what the fields of the code can hold.          *)
TasksTypeOK ==
  /\ seg \in [Task -> Nat]
  /\ before \in [Task -> SUBSET (Task \X Nat)]
  /\ status \in [Task -> Status]
  /\ tbb_children \in [Task -> SUBSET Task]
  /\ tbb_roots \in [Task -> SUBSET Task]
  /\ m_vc \in [Task -> Seq(Nat)]
  /\ ancClock \in [Task -> [Task -> Nat]]
  /\ clock \in [Task -> Nat]
  /\ lockset \in [Task -> SUBSET Locks]
  /\ held \in [Task -> SUBSET Locks]
  /\ parent_taskId \in [Task -> Task]
  /\ child_list \in [Task -> SUBSET Task]
  /\ joinset \in [Task -> 0 .. MaxTasks]
  /\ task_id_ctr \in Task
  /\ num_dead_tasks \in Task
  /\ dead_clock_value \in Nat

(***************************************************************************)
(* The replacement rule of RecordMem tells tasks apart by their paths, so  *)
(* no two tasks may ever get the same m_vc, although both the clocks and   *)
(* the depths repeat: siblings differ in the clock of their parent.        *)
(***************************************************************************)
UniquePaths ==
  \A t, u \in 0 .. task_id_ctr : m_vc[t] = m_vc[u] => t = u

(***************************************************************************)
(* The clock a task has recorded of an ancestor is one the ancestor has    *)
(* left behind: what the ancestor does after the spawn carries a larger    *)
(* clock and is never taken to be ordered before the task.                 *)
(***************************************************************************)
RecordedClocksArePast ==
  \A t, u \in Task : ancClock[t][u] # 0 => ancClock[t][u] < clock[u]

(***************************************************************************)
(* find_root recurses until it meets a task that is not joined: the links  *)
(* must never form a cycle, whatever the order of the waits.               *)
(***************************************************************************)
JoinsetAcyclic ==
  \A t \in Task : joinset[t] # 0 => joinset[t] - 1 < t
=============================================================================
