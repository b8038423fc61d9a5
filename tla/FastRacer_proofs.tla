-------------------------- MODULE FastRacer_proofs --------------------------
(***************************************************************************)
(* Proofs about the task bookkeeping and RecordMem on top of it, for any   *)
(* number of tasks, accesses and locks and every spawn idiom.              *)
(***************************************************************************)
EXTENDS FastRacer, SequenceTheorems, TLAPS

LEMMA TaskFacts == 0 \in Task /\ \A t \in Task : t \in Nat /\ t < MaxTasks
BY MaxTasksAssumption DEF Task

-----------------------------------------------------------------------------
(***************************************************************************)
(* Type correctness, action by action.                                     *)
(***************************************************************************)
LEMMA PastOfType ==
  ASSUME TasksTypeOK, NEW t \in Task
  PROVE  PastOf(t) \in SUBSET (Task \X Nat)
<1>1. before[t] \in SUBSET (Task \X Nat) /\ seg[t] \in Nat
  BY DEF TasksTypeOK
<1>2. <<t, seg[t]>> \in Task \X Nat
  BY <1>1
<1>3. QED
  BY <1>1, <1>2 DEF PastOf

LEMMA HBForkType ==
  ASSUME TasksTypeOK, NEW s \in Task, NEW c \in Task, HBFork(s, c)
  PROVE  /\ seg' \in [Task -> Nat]
         /\ before' \in [Task -> SUBSET (Task \X Nat)]
<1>1. seg \in [Task -> Nat] /\ before \in [Task -> SUBSET (Task \X Nat)]
  BY DEF TasksTypeOK
<1>2. PastOf(s) \in SUBSET (Task \X Nat)
  BY PastOfType
<1>3. QED
  BY <1>1, <1>2 DEF HBFork

LEMMA HBJoinType ==
  ASSUME TasksTypeOK, NEW p \in Task, NEW S \in SUBSET Task, HBJoin(p, S)
  PROVE  /\ seg' \in [Task -> Nat]
         /\ before' \in [Task -> SUBSET (Task \X Nat)]
<1>1. seg \in [Task -> Nat] /\ before \in [Task -> SUBSET (Task \X Nat)]
  BY DEF TasksTypeOK
<1>2. \A c \in Task : PastOf(c) \in SUBSET (Task \X Nat)
  BY PastOfType
<1>3. PastOf(p) \cup UNION {PastOf(c) : c \in S} \in SUBSET (Task \X Nat)
  BY <1>2
<1>4. QED
  BY <1>1, <1>3 DEF HBJoin

LEMMA CaptureSpawnType ==
  ASSUME TasksTypeOK, NEW s \in Task, NEW p \in Task, NEW c \in Task,
         CaptureSpawn(s, p, c), NewTaskId(c),
         status' \in [Task -> Status],
         tbb_children' \in [Task -> SUBSET Task],
         tbb_roots' \in [Task -> SUBSET Task]
  PROVE  TasksTypeOK'
<1>1. seg' \in [Task -> Nat] /\ before' \in [Task -> SUBSET (Task \X Nat)]
  BY HBForkType DEF CaptureSpawn
<1>2. clock \in [Task -> Nat] /\ m_vc \in [Task -> Seq(Nat)]
  BY DEF TasksTypeOK
<1>3. m_vc' \in [Task -> Seq(Nat)]
  <2>1. m_vc[p] \in Seq(Nat) /\ clock[p] + 1 \in Nat
    BY <1>2
  <2>2. Append(m_vc[p], clock[p] + 1) \in Seq(Nat)
    BY <2>1
  <2>3. QED
    BY <1>2, <2>2 DEF CaptureSpawn
<1>4. ancClock' \in [Task -> [Task -> Nat]]
  <2>1. ancClock \in [Task -> [Task -> Nat]]
    BY DEF TasksTypeOK
  <2>2. QED
    BY <1>2, <2>1 DEF CaptureSpawn
<1>5. clock' \in [Task -> Nat]
  <2>1. clock' = [clock EXCEPT ![p] = @ + 1, ![c] = 1]
    BY DEF CaptureSpawn
  <2>2. \A u \in Task : clock[u] \in Nat /\ clock[u] + 1 \in Nat
    BY <1>2
  <2>3. clock \in [Task -> Nat] /\ 1 \in Nat
    BY <1>2
  <2>4. QED
    BY <2>1, <2>2, <2>3
<1>6. /\ lockset' \in [Task -> SUBSET Locks] /\ held' \in [Task -> SUBSET Locks]
      /\ parent_taskId' \in [Task -> Task]
      /\ child_list' \in [Task -> SUBSET Task]
      /\ joinset' \in [Task -> 0 .. MaxTasks]
  <2>1. /\ lockset \in [Task -> SUBSET Locks] /\ held \in [Task -> SUBSET Locks]
        /\ parent_taskId \in [Task -> Task]
        /\ child_list \in [Task -> SUBSET Task]
        /\ joinset \in [Task -> 0 .. MaxTasks]
    BY DEF TasksTypeOK
  <2>2. QED
    BY <2>1 DEF CaptureSpawn
<1>7. /\ task_id_ctr' \in Task
      /\ num_dead_tasks' \in Task
      /\ dead_clock_value' \in Nat
  BY DEF TasksTypeOK, CaptureSpawn, NewTaskId, deadVars
<1>8. QED
  BY <1>1, <1>3, <1>4, <1>5, <1>6, <1>7 DEF TasksTypeOK

LEMMA WaitReturnType ==
  ASSUME TasksTypeOK, NEW t \in Task, NEW state,
         NEW awaited \in [Task -> SUBSET Task], WaitReturn(t, state, awaited),
         tbb_children' \in [Task -> SUBSET Task],
         tbb_roots' \in [Task -> SUBSET Task]
  PROVE  TasksTypeOK'
<1> USE DEF WaitReturn
<1>1. seg' \in [Task -> Nat] /\ before' \in [Task -> SUBSET (Task \X Nat)]
  BY HBJoinType
<1>2. status' \in [Task -> Status]
  BY DEF TasksTypeOK, Status
<1>3. /\ clock' \in [Task -> Nat]
      /\ child_list' \in [Task -> SUBSET Task]
      /\ joinset' \in [Task -> 0 .. MaxTasks]
      /\ num_dead_tasks' \in Task
      /\ dead_clock_value' \in Nat
  <2>1. CASE child_list[t] = {} /\ UNCHANGED <<clock, child_list, joinset, deadVars>>
    BY <2>1 DEF TasksTypeOK, deadVars
  <2>2. CASE DeclareDead
    <3>1. /\ clock \in [Task -> Nat] /\ child_list \in [Task -> SUBSET Task]
          /\ joinset \in [Task -> 0 .. MaxTasks] /\ task_id_ctr \in Task
      BY DEF TasksTypeOK
    <3>2. QED
      BY <2>2, <3>1, TaskFacts DEF DeclareDead
  <2>3. CASE JoinChildren(t)
    <3>1. /\ clock \in [Task -> Nat] /\ child_list \in [Task -> SUBSET Task]
          /\ joinset \in [Task -> 0 .. MaxTasks]
          /\ parent_taskId \in [Task -> Task]
          /\ num_dead_tasks \in Task /\ dead_clock_value \in Nat
      BY DEF TasksTypeOK
    <3>2. \A c \in Task : parent_taskId[c] + 1 \in 0 .. MaxTasks
      <4>1. \A u \in Task : u + 1 \in 0 .. MaxTasks
        BY MaxTasksAssumption DEF Task
      <4>2. QED
        BY <3>1, <4>1
    <3>3. QED
      BY <2>3, <3>1, <3>2 DEF JoinChildren, deadVars
  <2>4. QED
    BY <2>1, <2>2, <2>3 DEF Capturewait_for_all
<1>4. QED
  BY <1>1, <1>2, <1>3 DEF TasksTypeOK, lockVars

LEMMA TaskStepType == TasksTypeOK /\ TaskStep => TasksTypeOK'
<1> SUFFICES ASSUME TasksTypeOK, TaskStep PROVE TasksTypeOK'
  OBVIOUS
<1>1. ASSUME NEW s \in Task, NEW c \in Task, NEW next \in Status,
             SpawnThen(s, c, next)
      PROVE  TasksTypeOK'
  <2>1. /\ status' \in [Task -> Status]
        /\ tbb_children' \in [Task -> SUBSET Task]
        /\ tbb_roots' \in [Task -> SUBSET Task]
    BY <1>1 DEF TasksTypeOK, SpawnThen, Status
  <2>2. QED
    BY <1>1, <2>1, CaptureSpawnType DEF SpawnThen
<1>2. ASSUME NEW s \in Task, NEW c \in Task, SpawnSibling(s, c)
      PROVE  TasksTypeOK'
  <2>1. parent_taskId[s] \in Task
    BY DEF TasksTypeOK
  <2>2. /\ status' \in [Task -> Status]
        /\ tbb_children' \in [Task -> SUBSET Task]
        /\ tbb_roots' \in [Task -> SUBSET Task]
    BY <1>2, <2>1 DEF TasksTypeOK, SpawnSibling, Status
  <2>3. QED
    BY <1>2, <2>1, <2>2, CaptureSpawnType DEF SpawnSibling
<1>3. ASSUME NEW s \in Task, NEW c \in Task, SpawnRootAndWait(s, c)
      PROVE  TasksTypeOK'
  <2>1. /\ status' \in [Task -> Status]
        /\ tbb_children' \in [Task -> SUBSET Task]
        /\ tbb_roots' \in [Task -> SUBSET Task]
    BY <1>3 DEF TasksTypeOK, SpawnRootAndWait, Status
  <2>2. QED
    BY <1>3, <2>1, CaptureSpawnType DEF SpawnRootAndWait
<1>4. ASSUME NEW t \in Task, ExecBegin(t) PROVE TasksTypeOK'
  BY <1>4 DEF TasksTypeOK, ExecBegin, Status, lockVars, deadVars, hbVars, orderVars
<1>5. ASSUME NEW t \in Task, NEW next \in Status,
             status' = [status EXCEPT ![t] = next],
             UNCHANGED <<tbb_children, tbb_roots, taskVars, lockVars, deadVars,
                         hbVars>>
      PROVE  TasksTypeOK'
  BY <1>5 DEF TasksTypeOK, taskVars, lockVars, deadVars, hbVars, orderVars
<1>6. ASSUME NEW t \in Task, WaitForAllReturn(t) PROVE TasksTypeOK'
  <2>1. /\ tbb_children \in [Task -> SUBSET Task]
        /\ tbb_children' \in [Task -> SUBSET Task]
        /\ tbb_roots' \in [Task -> SUBSET Task]
    BY <1>6 DEF TasksTypeOK, WaitForAllReturn
  <2>2. QED
    BY <1>6, <2>1, WaitReturnType DEF WaitForAllReturn
<1>7. ASSUME NEW t \in Task, RootWaitReturn(t) PROVE TasksTypeOK'
  <2>1. /\ tbb_roots \in [Task -> SUBSET Task]
        /\ tbb_children' \in [Task -> SUBSET Task]
        /\ tbb_roots' \in [Task -> SUBSET Task]
    BY <1>7 DEF TasksTypeOK, RootWaitReturn
  <2>2. QED
    BY <1>7, <2>1, WaitReturnType DEF RootWaitReturn
<1>8. ASSUME NEW t \in Task, NEW l \in Locks, LockAcquire(t, l) \/ LockRelease(t, l)
      PROVE  TasksTypeOK'
  <2>1. lockset \in [Task -> SUBSET Locks] /\ held \in [Task -> SUBSET Locks]
    BY DEF TasksTypeOK
  <2>2. lockset' \in [Task -> SUBSET Locks] /\ held' \in [Task -> SUBSET Locks]
    BY <1>8, <2>1 DEF LockAcquire, LockRelease
  <2>3. UNCHANGED <<tbbVars, taskVars, deadVars, hbVars>>
    BY <1>8 DEF LockAcquire, LockRelease
  <2>4. QED
    BY <2>2, <2>3 DEF TasksTypeOK, tbbVars, taskVars, deadVars, hbVars, orderVars
<1>9. ASSUME NEW t \in Task, ExecEnd(t) \/ WaitForAll(t) PROVE TasksTypeOK'
  BY <1>5, <1>9 DEF ExecEnd, WaitForAll, Status
<1>10. ASSUME MainReturns PROVE TasksTypeOK'
  BY <1>5, <1>10, TaskFacts DEF MainReturns, Status
<1>11. ASSUME NEW s \in Task, NEW c \in Task, Spawn(s, c) \/ SpawnAndWaitForAll(s, c)
       PROVE  TasksTypeOK'
  BY <1>1, <1>11 DEF Spawn, SpawnAndWaitForAll, Status
<1>12. QED
  BY <1>2, <1>3, <1>4, <1>6, <1>7, <1>8, <1>9, <1>10, <1>11 DEF TaskStep

LEMMA TasksInitType == TasksInit => TasksTypeOK
<1> SUFFICES ASSUME TasksInit PROVE TasksTypeOK
  OBVIOUS
<1>1. /\ 0 \in Task /\ 0 \in 0 .. MaxTasks /\ <<>> \in Seq(Nat)
      /\ {} \in SUBSET Task /\ {} \in SUBSET Locks /\ {} \in SUBSET (Task \X Nat)
      /\ "running" \in Status /\ "unborn" \in Status
  BY TaskFacts, MaxTasksAssumption DEF Status
<1>2. 0 \in Nat /\ 1 \in Nat
  OBVIOUS
<1>3. /\ seg \in [Task -> Nat] /\ clock \in [Task -> Nat]
      /\ status \in [Task -> Status]
  BY <1>1, <1>2, Zenon DEF TasksInit, HBInit
<1>4. QED
  BY <1>1, <1>2, <1>3, Zenon DEF TasksInit, HBInit, TasksTypeOK

LEMMA TasksUnchangedType == TasksTypeOK /\ UNCHANGED allTaskVars => TasksTypeOK'
BY DEF TasksTypeOK, allTaskVars, tbbVars, lockVars, deadVars, taskVars, hbVars,
       orderVars

(* Every variable of the task bookkeeping keeps the type of its field.     *)
THEOREM TasksTypeCorrect == TasksSpec => []TasksTypeOK
<1>1. TasksTypeOK /\ [TasksNext]_allTaskVars => TasksTypeOK'
  BY TaskStepType, TasksUnchangedType DEF TasksNext, TasksTerminated
<1>2. QED
  BY TasksInitType, <1>1, PTL DEF TasksSpec

-----------------------------------------------------------------------------
(***************************************************************************)
(* The invariant of the spawn tree.  The identifiers up to task_id_ctr are *)
(* in use; a task has a smaller parent, whose path followed by one of the  *)
(* clocks the parent has reached is its own path.  A new child takes a     *)
(* clock its parent has not reached before, hence a path nobody has.       *)
(***************************************************************************)
Born == 1 .. task_id_ctr

Unused ==
  \A t \in Task : t > task_id_ctr => status[t] = "unborn" /\ clock[t] = 0

Genealogy ==
  /\ \A c \in Born : parent_taskId[c] < c
  /\ \A p \in Task : child_list[p] \subseteq Born

PathOf(c) ==
  \E k \in Nat : /\ k <= clock[parent_taskId[c]]
                 /\ m_vc[c] = Append(m_vc[parent_taskId[c]], k)

Paths ==
  /\ m_vc[0] = <<>>
  /\ \A c \in Born : PathOf(c)

TreeInv ==
  /\ Unused /\ Genealogy /\ Paths
  /\ UniquePaths /\ RecordedClocksArePast /\ JoinsetAcyclic

LEMMA BornTask == TasksTypeOK => Born \subseteq Task /\ 0 .. task_id_ctr \subseteq Task
<1> SUFFICES ASSUME TasksTypeOK
             PROVE  Born \subseteq Task /\ 0 .. task_id_ctr \subseteq Task
  OBVIOUS
<1>1. task_id_ctr \in 0 .. MaxTasks - 1 /\ MaxTasks \in Nat
  BY MaxTasksAssumption DEF TasksTypeOK, Task
<1>2. QED
  BY <1>1 DEF Born, Task

(* Equal extensions of two paths extend the same path by the same clock.   *)
LEMMA AppendFacts ==
  ASSUME NEW a \in Seq(Nat), NEW k \in Nat
  PROVE  /\ Len(a) \in Nat /\ Len(Append(a, k)) = Len(a) + 1
         /\ Append(a, k)[Len(a) + 1] = k
         /\ \A i \in 1 .. Len(a) : Append(a, k)[i] = a[i]
OBVIOUS

LEMMA AppendInjectiveFront ==
  ASSUME NEW a \in Seq(Nat), NEW b \in Seq(Nat), NEW j \in Nat, NEW k \in Nat,
         Append(a, j) = Append(b, k)
  PROVE  a = b
<1>1. /\ Len(a) \in Nat /\ Len(Append(a, j)) = Len(a) + 1
      /\ Append(a, j)[Len(a) + 1] = j
      /\ \A i \in 1 .. Len(a) : Append(a, j)[i] = a[i]
  BY AppendFacts
<1>2. /\ Len(b) \in Nat /\ Len(Append(b, k)) = Len(b) + 1
      /\ Append(b, k)[Len(b) + 1] = k
      /\ \A i \in 1 .. Len(b) : Append(b, k)[i] = b[i]
  BY AppendFacts
<1>3. Len(a) = Len(b)
  BY <1>1, <1>2
<1>4. QED
  BY <1>1, <1>2, <1>3, SeqEqual

LEMMA AppendInjectiveLast ==
  ASSUME NEW a \in Seq(Nat), NEW b \in Seq(Nat), NEW j \in Nat, NEW k \in Nat,
         Append(a, j) = Append(b, k)
  PROVE  j = k
<1>1. /\ Len(a) \in Nat /\ Len(Append(a, j)) = Len(a) + 1
      /\ Append(a, j)[Len(a) + 1] = j
      /\ \A i \in 1 .. Len(a) : Append(a, j)[i] = a[i]
  BY AppendFacts
<1>2. /\ Len(b) \in Nat /\ Len(Append(b, k)) = Len(b) + 1
      /\ Append(b, k)[Len(b) + 1] = k
      /\ \A i \in 1 .. Len(b) : Append(b, k)[i] = b[i]
  BY AppendFacts
<1>3. Len(a) = Len(b)
  BY <1>1, <1>2
<1>4. QED
  BY <1>1, <1>2, <1>3

LEMMA AppendNotEmpty ==
  ASSUME NEW a \in Seq(Nat), NEW k \in Nat
  PROVE  Append(a, k) # <<>>
OBVIOUS

-----------------------------------------------------------------------------
(***************************************************************************)
(* A spawn extends the tree by one leaf.                                   *)
(***************************************************************************)
LEMMA SpawnKeepsTree ==
  ASSUME TasksTypeOK, TreeInv,
         NEW s \in Task, NEW p \in Task, NEW c \in Task, p <= task_id_ctr,
         NewTaskId(c), CaptureSpawn(s, p, c),
         \A t \in Task : t > c => status'[t] = status[t]
  PROVE  TreeInv'
<1>1. /\ task_id_ctr \in Nat /\ c = task_id_ctr + 1 /\ task_id_ctr' = c
      /\ p \in Nat /\ p < c /\ Born' = Born \cup {c} /\ c \notin Born
      /\ Born \subseteq Task /\ Born \subseteq Nat \ {0} /\ c # 0 /\ c # p
      /\ 0 .. task_id_ctr = Born \cup {0}
      /\ 0 .. task_id_ctr' = Born \cup {0, c}
  <2>1. task_id_ctr \in Nat /\ p \in Nat /\ Born \subseteq Task
    BY BornTask, TaskFacts DEF TasksTypeOK
  <2>2. c = task_id_ctr + 1 /\ task_id_ctr' = c
    BY DEF NewTaskId
  <2>3. /\ 1 .. (task_id_ctr + 1) = (1 .. task_id_ctr) \cup {task_id_ctr + 1}
        /\ 0 .. task_id_ctr = (1 .. task_id_ctr) \cup {0}
        /\ 0 .. (task_id_ctr + 1) = (1 .. task_id_ctr) \cup {0, task_id_ctr + 1}
        /\ task_id_ctr + 1 \notin 1 .. task_id_ctr
        /\ 1 .. task_id_ctr \subseteq Nat \ {0}
    BY <2>1
  <2>4. p < c /\ c # 0 /\ c # p
    BY <2>1, <2>2
  <2>5. QED
    BY <2>1, <2>2, <2>3, <2>4 DEF Born
<1>2. /\ m_vc' = [m_vc EXCEPT ![c] = Append(m_vc[p], clock[p] + 1)]
      /\ clock' = [clock EXCEPT ![p] = @ + 1, ![c] = 1]
      /\ ancClock' = [ancClock EXCEPT ![c] = [ancClock[p] EXCEPT ![p] = clock[p]]]
      /\ child_list' = [child_list EXCEPT ![p] = @ \cup {c}]
      /\ parent_taskId' = [parent_taskId EXCEPT ![c] = p]
      /\ joinset' = joinset
  BY DEF CaptureSpawn
<1>3. /\ m_vc \in [Task -> Seq(Nat)] /\ clock \in [Task -> Nat]
      /\ ancClock \in [Task -> [Task -> Nat]]
      /\ child_list \in [Task -> SUBSET Task]
      /\ parent_taskId \in [Task -> Task] /\ status \in [Task -> Status]
  BY DEF TasksTypeOK
<1>4. /\ clock[c] = 0
      /\ \A t \in Task : clock'[t] \in Nat /\ clock[t] <= clock'[t]
      /\ clock'[p] = clock[p] + 1
  <2>1. clock[c] = 0
    BY <1>1, TaskFacts DEF TreeInv, Unused
  <2>2. /\ clock'[c] = 1 /\ clock'[p] = clock[p] + 1
        /\ \A t \in Task \ {p, c} : clock'[t] = clock[t]
    BY <1>1, <1>2, <1>3
  <2>3. clock'[c] \in Nat /\ clock[c] <= clock'[c]
    BY <2>1, <2>2
  <2>4. clock[p] \in Nat /\ clock'[p] \in Nat /\ clock[p] <= clock'[p]
    BY <1>3, <2>2
  <2>5. ASSUME NEW t \in Task \ {p, c}
        PROVE  clock'[t] \in Nat /\ clock[t] <= clock'[t]
    <3>1. clock[t] \in Nat /\ clock'[t] = clock[t]
      BY <1>3, <2>2
    <3>2. QED
      BY <3>1
  <2>6. QED
    BY <2>1, <2>2, <2>3, <2>4, <2>5
<1>5. Unused'
  <2>1. ASSUME NEW t \in Task, t > c PROVE t > task_id_ctr /\ t # p /\ t # c
    <3>1. t \in Nat
      BY TaskFacts
    <3>2. QED
      BY <1>1, <2>1, <3>1
  <2>2. \A t \in Task : t > c => status'[t] = "unborn" /\ clock'[t] = 0
    BY <1>2, <1>3, <2>1 DEF TreeInv, Unused
  <2>3. QED
    BY <1>1, <2>2 DEF Unused
<1>6. Genealogy'
  <2>1. \A d \in Born' : parent_taskId'[d] < d
    BY <1>1, <1>2, <1>3 DEF TreeInv, Genealogy
  <2>2. \A q \in Task : child_list'[q] \subseteq Born'
    BY <1>1, <1>2, <1>3 DEF TreeInv, Genealogy
  <2>3. QED
    BY <2>1, <2>2 DEF Genealogy
<1>7. Paths'
  <2>1. m_vc'[0] = <<>>
    BY <1>1, <1>2, <1>3, TaskFacts DEF TreeInv, Paths
  <2>2. ASSUME NEW d \in Born PROVE PathOf(d)'
    <3>1. /\ d \in Task /\ d # c /\ parent_taskId'[d] = parent_taskId[d]
          /\ m_vc'[d] = m_vc[d]
      BY <1>1, <1>2, <1>3
    <3>2. parent_taskId[d] \in Task /\ parent_taskId[d] # c
      BY <1>1, <1>3, <3>1, TaskFacts DEF TreeInv, Genealogy, Born
    <3>3. m_vc'[parent_taskId[d]] = m_vc[parent_taskId[d]]
      BY <1>2, <1>3, <3>2
    <3>4. PICK k \in Nat : /\ k <= clock[parent_taskId[d]]
                           /\ m_vc[d] = Append(m_vc[parent_taskId[d]], k)
      BY DEF TreeInv, Paths, PathOf
    <3>5. k <= clock'[parent_taskId[d]]
      <4>1. /\ clock[parent_taskId[d]] \in Nat /\ clock'[parent_taskId[d]] \in Nat
            /\ clock[parent_taskId[d]] <= clock'[parent_taskId[d]]
        BY <1>3, <1>4, <3>2
      <4>2. QED
        BY <3>4, <4>1
    <3>6. QED
      BY <3>1, <3>3, <3>4, <3>5 DEF PathOf
  <2>3. PathOf(c)'
    <3>1. /\ parent_taskId'[c] = p /\ m_vc'[p] = m_vc[p]
          /\ m_vc'[c] = Append(m_vc[p], clock[p] + 1)
      BY <1>1, <1>2, <1>3
    <3>2. clock[p] + 1 \in Nat /\ clock[p] + 1 <= clock'[p]
      BY <1>3, <1>4
    <3>3. QED
      BY <3>1, <3>2 DEF PathOf
  <2>4. QED
    BY <1>1, <2>1, <2>2, <2>3 DEF Paths
<1>8. UniquePaths'
  <2>1. ASSUME NEW d \in 0 .. task_id_ctr,
               m_vc[d] = Append(m_vc[p], clock[p] + 1)
        PROVE  FALSE
    <3>1. m_vc[p] \in Seq(Nat) /\ clock[p] + 1 \in Nat
      BY <1>3
    <3>2. d # 0
      BY <2>1, <3>1, AppendNotEmpty DEF TreeInv, Paths
    <3>3. d \in Born /\ parent_taskId[d] \in Task /\ m_vc[parent_taskId[d]] \in Seq(Nat)
      BY <1>1, <1>3, <3>2
    <3>4. PICK k \in Nat : /\ k <= clock[parent_taskId[d]]
                           /\ m_vc[d] = Append(m_vc[parent_taskId[d]], k)
      BY <3>3 DEF TreeInv, Paths, PathOf
    <3>5. m_vc[parent_taskId[d]] = m_vc[p]
      BY <2>1, <3>1, <3>3, <3>4, AppendInjectiveFront
    <3>6. k = clock[p] + 1
      BY <2>1, <3>1, <3>3, <3>4, AppendInjectiveLast
    <3>7. parent_taskId[d] \in 0 .. task_id_ctr
      <4>1. parent_taskId[d] < d /\ parent_taskId[d] \in Nat
        BY <3>3, TaskFacts DEF TreeInv, Genealogy
      <4>2. d \in Nat /\ d <= task_id_ctr /\ task_id_ctr \in Nat
        BY <1>1, <3>3 DEF Born
      <4>3. QED
        BY <4>1, <4>2
    <3>8. p \in 0 .. task_id_ctr
      BY <1>1
    <3>9. parent_taskId[d] = p
      BY <3>5, <3>7, <3>8 DEF TreeInv, UniquePaths
    <3>10. QED
      BY <1>3, <3>4, <3>6, <3>9
  <2>2. /\ m_vc'[c] = Append(m_vc[p], clock[p] + 1)
        /\ \A d \in 0 .. task_id_ctr : m_vc'[d] = m_vc[d]
    BY <1>1, <1>2, <1>3, BornTask
  <2>3. \A d \in 0 .. task_id_ctr : m_vc'[d] # m_vc'[c]
    BY <2>1, <2>2
  <2>4. QED
    BY <1>1, <2>2, <2>3 DEF TreeInv, UniquePaths
<1>9. RecordedClocksArePast'
  <2>1. ASSUME NEW t \in Task, NEW u \in Task, ancClock'[t][u] # 0
        PROVE  ancClock'[t][u] < clock'[u]
    <3>1. /\ clock[u] \in Nat /\ clock'[u] \in Nat /\ clock[u] <= clock'[u]
          /\ \A w \in Task : ancClock[w][u] \in Nat
      BY <1>3, <1>4
    <3>2. \A w \in Task : ancClock[w][u] # 0 => ancClock[w][u] < clock'[u]
      <4>1. \A w \in Task : ancClock[w][u] # 0 => ancClock[w][u] < clock[u]
        BY DEF TreeInv, RecordedClocksArePast
      <4>2. QED
        BY <3>1, <4>1
    <3>3. CASE t # c
      BY <1>2, <1>3, <2>1, <3>2, <3>3
    <3>4. CASE t = c /\ u = p
      <4>1. ancClock'[t][u] = clock[p] /\ clock[p] \in Nat
        BY <1>2, <1>3, <3>4
      <4>2. QED
        BY <1>4, <3>4, <4>1
    <3>5. CASE t = c /\ u # p
      <4>1. ancClock'[t][u] = ancClock[p][u]
        BY <1>2, <1>3, <3>5
      <4>2. QED
        BY <2>1, <3>2, <4>1
    <3>6. QED
      BY <3>3, <3>4, <3>5
  <2>2. QED
    BY <2>1 DEF RecordedClocksArePast
<1>10. JoinsetAcyclic'
  BY <1>2 DEF TreeInv, JoinsetAcyclic
<1>11. QED
  BY <1>5, <1>6, <1>7, <1>8, <1>9, <1>10 DEF TreeInv

(***************************************************************************)
(* What a task left behind are tasks in use: the set of those holds its    *)
(* child list and is closed under taking child lists.                      *)
(***************************************************************************)
LEMMA LeftBehindBorn ==
  ASSUME TasksTypeOK, Genealogy, NEW t \in Task
  PROVE  LeftBehind(t) \subseteq Born
<1>1. Born \in SUBSET Task
  BY BornTask
<1>2. Adopts(Born, t)
  BY <1>1 DEF Genealogy, Adopts
<1>3. QED
  BY <1>1, <1>2 DEF LeftBehind

(***************************************************************************)
(* The other steps leave the tree alone: clocks grow, child lists lose     *)
(* entries, and joinset links are added from a task to its parent.         *)
(***************************************************************************)
LEMMA TreeStays ==
  ASSUME TasksTypeOK, TasksTypeOK', TreeInv,
         UNCHANGED <<m_vc, ancClock, parent_taskId, task_id_ctr>>,
         \A t \in Task : t > task_id_ctr =>
                           status'[t] = status[t] /\ clock'[t] = clock[t],
         \A t \in Task : clock[t] <= clock'[t],
         \A t \in Task : child_list'[t] \subseteq Born,
         JoinsetAcyclic'
  PROVE  TreeInv'
<1>1. /\ clock \in [Task -> Nat] /\ clock' \in [Task -> Nat]
      /\ ancClock \in [Task -> [Task -> Nat]]
      /\ parent_taskId \in [Task -> Task]
  BY DEF TasksTypeOK
<1>2. Born' = Born /\ Born \subseteq Task
  BY BornTask DEF Born
<1>3. Unused'
  BY DEF TreeInv, Unused
<1>4. Genealogy'
  BY <1>2 DEF TreeInv, Genealogy
<1>5. Paths'
  <2>1. ASSUME NEW c \in Born PROVE PathOf(c)'
    <3>1. PICK k \in Nat : /\ k <= clock[parent_taskId[c]]
                           /\ m_vc[c] = Append(m_vc[parent_taskId[c]], k)
      BY DEF TreeInv, Paths, PathOf
    <3>2. /\ clock[parent_taskId[c]] \in Nat /\ clock'[parent_taskId[c]] \in Nat
          /\ clock[parent_taskId[c]] <= clock'[parent_taskId[c]]
      BY <1>1, <1>2
    <3>3. k <= clock'[parent_taskId[c]]
      BY <3>1, <3>2
    <3>4. QED
      BY <3>1, <3>3 DEF PathOf
  <2>2. QED
    BY <1>2, <2>1 DEF TreeInv, Paths
<1>6. UniquePaths'
  BY DEF TreeInv, UniquePaths
<1>7. RecordedClocksArePast'
  <2>1. ASSUME NEW t \in Task, NEW u \in Task, ancClock[t][u] # 0
        PROVE  ancClock[t][u] < clock'[u]
    <3>1. ancClock[t][u] < clock[u]
      BY <2>1 DEF TreeInv, RecordedClocksArePast
    <3>2. ancClock[t][u] \in Nat /\ clock[u] \in Nat /\ clock'[u] \in Nat
      BY <1>1
    <3>3. clock[u] <= clock'[u]
      OBVIOUS
    <3>4. QED
      BY <3>1, <3>2, <3>3
  <2>2. QED
    BY <2>1 DEF RecordedClocksArePast
<1>8. QED
  BY <1>3, <1>4, <1>5, <1>6, <1>7 DEF TreeInv

(* A task that is not unborn, and its parent, have identifiers in use.     *)
LEMMA ActiveIsInUse ==
  ASSUME TasksTypeOK, TreeInv, NEW t \in Task, status[t] # "unborn"
  PROVE  t <= task_id_ctr /\ (t # 0 => parent_taskId[t] <= task_id_ctr)
<1>1. t \in Nat /\ task_id_ctr \in Nat
  BY TaskFacts DEF TasksTypeOK
<1>2. t <= task_id_ctr
  BY <1>1 DEF TreeInv, Unused
<1>3. ASSUME t # 0 PROVE parent_taskId[t] <= task_id_ctr
  <2>1. t \in Born
    BY <1>1, <1>2, <1>3 DEF Born
  <2>2. parent_taskId[t] \in Nat /\ parent_taskId[t] < t
    BY <2>1, TaskFacts DEF TreeInv, Genealogy, TasksTypeOK
  <2>3. QED
    BY <1>1, <1>2, <2>2
<1>4. QED
  BY <1>2, <1>3

LEMMA StatusStepKeepsTree ==
  ASSUME TasksTypeOK, TasksTypeOK', TreeInv, UNCHANGED taskVars,
         \A t \in Task : t > task_id_ctr => status'[t] = status[t]
  PROVE  TreeInv'
<1>1. /\ UNCHANGED <<m_vc, ancClock, parent_taskId, task_id_ctr>>
      /\ clock' = clock /\ child_list' = child_list /\ joinset' = joinset
  BY DEF taskVars
<1>2. \A t \in Task : clock[t] <= clock'[t]
  <2>1. \A t \in Task : clock[t] \in Nat
    BY DEF TasksTypeOK
  <2>2. QED
    BY <1>1, <2>1
<1>3. JoinsetAcyclic'
  BY <1>1 DEF TreeInv, JoinsetAcyclic
<1>4. QED
  BY <1>1, <1>2, <1>3, TreeStays DEF TreeInv, Genealogy

LEMMA WaitReturnKeepsTree ==
  ASSUME TasksTypeOK, TasksTypeOK', TreeInv, NEW t \in Task, NEW state,
         NEW awaited, state # "unborn", WaitReturn(t, state, awaited)
  PROVE  TreeInv'
<1>1. /\ clock \in [Task -> Nat] /\ status \in [Task -> Status]
      /\ child_list \in [Task -> SUBSET Task]
      /\ joinset \in [Task -> 0 .. MaxTasks]
      /\ parent_taskId \in [Task -> Task] /\ task_id_ctr \in Nat
  BY TaskFacts DEF TasksTypeOK
<1>2. /\ UNCHANGED <<m_vc, ancClock, parent_taskId, task_id_ctr>>
      /\ status' = [status EXCEPT ![t] = "running"]
      /\ t <= task_id_ctr
  BY ActiveIsInUse DEF WaitReturn
<1>3. \A u \in Task : u > task_id_ctr => u # t /\ u # 0
  <2>1. \A u \in Task : u \in Nat
    BY TaskFacts
  <2>2. QED
    BY <1>1, <1>2, <2>1
<1>4. \A u \in Task : u > task_id_ctr => status'[u] = status[u]
  BY <1>1, <1>2, <1>3
<1>5. \A u \in Task : clock[u] <= clock[u]
  BY <1>1
<1>6. CASE UNCHANGED <<clock, child_list, joinset>>
  <2>1. JoinsetAcyclic'
    BY <1>6 DEF TreeInv, JoinsetAcyclic
  <2>2. QED
    BY <1>2, <1>4, <1>5, <1>6, <2>1, TreeStays DEF TreeInv, Genealogy
<1>7. CASE DeclareDead
  <2>1. /\ clock' = [clock EXCEPT ![0] = @ + 1] /\ joinset' = joinset
        /\ child_list' = [child_list EXCEPT ![0] = {}]
    BY <1>7 DEF DeclareDead
  <2>2. \A u \in Task : child_list'[u] \subseteq Born
    BY <1>1, <2>1 DEF TreeInv, Genealogy
  <2>3. JoinsetAcyclic'
    BY <2>1 DEF TreeInv, JoinsetAcyclic
  <2>4. ASSUME NEW u \in Task PROVE clock[u] <= clock'[u]
    <3>1. clock[u] \in Nat /\ (clock'[u] = clock[u] \/ clock'[u] = clock[u] + 1)
      BY <1>1, <2>1
    <3>2. QED
      BY <3>1
  <2>5. \A u \in Task : u > task_id_ctr => clock'[u] = clock[u]
    BY <1>1, <1>3, <2>1
  <2>6. QED
    BY <1>2, <1>4, <2>2, <2>3, <2>4, <2>5, TreeStays
<1>8. CASE JoinChildren(t)
  <2>1. /\ clock' = clock
        /\ joinset' = [c \in Task |-> IF c \in LeftBehind(t)
                                        THEN parent_taskId[c] + 1 ELSE joinset[c]]
        /\ child_list' = [c \in Task |-> IF c \in LeftBehind(t) \cup {t}
                                           THEN {} ELSE child_list[c]]
    BY <1>8 DEF JoinChildren
  <2>2. LeftBehind(t) \subseteq Born
    BY LeftBehindBorn DEF TreeInv
  <2>3. \A u \in Task : child_list'[u] \subseteq Born
    BY <2>1 DEF TreeInv, Genealogy
  <2>4. JoinsetAcyclic'
    <3>1. ASSUME NEW c \in Task, joinset'[c] # 0 PROVE joinset'[c] - 1 < c
      <4>1. CASE c \in LeftBehind(t)
        <5>1. joinset'[c] = parent_taskId[c] + 1 /\ parent_taskId[c] < c
          BY <2>1, <2>2, <4>1 DEF TreeInv, Genealogy
        <5>2. parent_taskId[c] \in Nat
          BY <1>1, TaskFacts
        <5>3. QED
          BY <5>1, <5>2
      <4>2. CASE c \notin LeftBehind(t)
        BY <2>1, <3>1, <4>2 DEF TreeInv, JoinsetAcyclic
      <4>3. QED
        BY <4>1, <4>2
    <3>2. QED
      BY <3>1 DEF JoinsetAcyclic
  <2>5. QED
    BY <1>2, <1>4, <1>5, <2>1, <2>3, <2>4, TreeStays
<1>9. QED
  BY <1>6, <1>7, <1>8 DEF WaitReturn, Capturewait_for_all

LEMMA TreeStep == TasksTypeOK /\ TreeInv /\ TaskStep => TreeInv'
<1> SUFFICES ASSUME TasksTypeOK, TreeInv, TaskStep PROVE TreeInv'
  OBVIOUS
<1>1. TasksTypeOK' /\ status \in [Task -> Status] /\ task_id_ctr \in Nat
  BY TaskStepType, TaskFacts DEF TasksTypeOK
<1>2. ASSUME NEW t \in Task, status[t] # "unborn", NEW u \in Task, u > task_id_ctr
      PROVE  u # t
  <2>1. t <= task_id_ctr
    BY <1>2, ActiveIsInUse
  <2>2. t \in Nat /\ u \in Nat
    BY TaskFacts
  <2>3. QED
    BY <1>1, <1>2, <2>1, <2>2
<1>3. ASSUME NEW s \in Task, NEW c \in Task, NewTaskId(c), NEW u \in Task, u > c,
             status[s] # "unborn"
      PROVE  u # c /\ u # s
  <2>1. u \in Nat /\ c \in Nat /\ c = task_id_ctr + 1
    BY <1>3, TaskFacts DEF NewTaskId
  <2>2. u > task_id_ctr /\ u # c
    BY <1>1, <1>3, <2>1
  <2>3. QED
    BY <1>2, <1>3, <2>2
<1>4. ASSUME NEW s \in Task, NEW c \in Task, NEW next, SpawnThen(s, c, next)
      PROVE  TreeInv'
  <2>1. /\ NewTaskId(c) /\ CaptureSpawn(s, s, c) /\ status[s] # "unborn"
        /\ status' = [status EXCEPT ![c] = "ready", ![s] = next]
    BY <1>4 DEF SpawnThen, Running
  <2>2. s <= task_id_ctr
    BY <2>1, ActiveIsInUse
  <2>3. \A u \in Task : u > c => status'[u] = status[u]
    BY <1>1, <1>3, <2>1
  <2>4. QED
    BY <2>1, <2>2, <2>3, SpawnKeepsTree
<1>5. ASSUME NEW s \in Task, NEW c \in Task, SpawnSibling(s, c)
      PROVE  TreeInv'
  <2>1. /\ NewTaskId(c) /\ CaptureSpawn(s, parent_taskId[s], c)
        /\ status[s] # "unborn" /\ s # 0
        /\ status' = [status EXCEPT ![c] = "ready"]
    BY <1>5 DEF SpawnSibling, Running
  <2>2. parent_taskId[s] <= task_id_ctr /\ parent_taskId[s] \in Task
    BY <2>1, ActiveIsInUse DEF TasksTypeOK
  <2>3. \A u \in Task : u > c => status'[u] = status[u]
    BY <1>1, <1>3, <2>1
  <2>4. QED
    BY <2>1, <2>2, <2>3, SpawnKeepsTree
<1>6. ASSUME NEW s \in Task, NEW c \in Task, SpawnRootAndWait(s, c)
      PROVE  TreeInv'
  <2>1. /\ NewTaskId(c) /\ CaptureSpawn(s, s, c) /\ status[s] # "unborn"
        /\ status' = [status EXCEPT ![c] = "ready", ![s] = "rootwait"]
    BY <1>6 DEF SpawnRootAndWait, Running
  <2>2. s <= task_id_ctr
    BY <2>1, ActiveIsInUse
  <2>3. \A u \in Task : u > c => status'[u] = status[u]
    BY <1>1, <1>3, <2>1
  <2>4. QED
    BY <2>1, <2>2, <2>3, SpawnKeepsTree
<1>7. ASSUME NEW t \in Task, ExecBegin(t) PROVE TreeInv'
  <2>1. /\ UNCHANGED <<m_vc, ancClock, parent_taskId, task_id_ctr>>
        /\ clock' = clock /\ joinset' = joinset
        /\ status[t] # "unborn" /\ status' = [status EXCEPT ![t] = "running"]
        /\ child_list' = [child_list EXCEPT ![t] = {}]
    BY <1>7 DEF ExecBegin
  <2>2. \A u \in Task : u > task_id_ctr => status'[u] = status[u]
    BY <1>1, <1>2, <2>1
  <2>3. \A u \in Task : clock[u] <= clock'[u] /\ child_list'[u] \subseteq Born
    <3>1. child_list \in [Task -> SUBSET Task] /\ \A u \in Task : clock[u] \in Nat
      BY DEF TasksTypeOK
    <3>2. QED
      BY <2>1, <3>1 DEF TreeInv, Genealogy
  <2>4. JoinsetAcyclic'
    BY <2>1 DEF TreeInv, JoinsetAcyclic
  <2>5. QED
    BY <1>1, <2>1, <2>2, <2>3, <2>4, TreeStays
<1>8. ASSUME NEW t \in Task, NEW next, status[t] # "unborn", UNCHANGED taskVars,
             status' = [status EXCEPT ![t] = next]
      PROVE  TreeInv'
  <2>1. \A u \in Task : u > task_id_ctr => status'[u] = status[u]
    BY <1>1, <1>2, <1>8
  <2>2. QED
    BY <1>1, <1>8, <2>1, StatusStepKeepsTree
<1>9. ASSUME NEW t \in Task, ExecEnd(t) \/ WaitForAll(t) PROVE TreeInv'
  BY <1>8, <1>9 DEF ExecEnd, WaitForAll, Running
<1>10. ASSUME MainReturns PROVE TreeInv'
  BY <1>8, <1>10, TaskFacts DEF MainReturns, Running
<1>11. ASSUME NEW t \in Task, WaitForAllReturn(t) PROVE TreeInv'
  BY <1>1, <1>11, WaitReturnKeepsTree DEF WaitForAllReturn
<1>12. ASSUME NEW t \in Task, RootWaitReturn(t) PROVE TreeInv'
  BY <1>1, <1>12, WaitReturnKeepsTree DEF RootWaitReturn
<1>13. ASSUME NEW t \in Task, NEW l \in Locks, LockAcquire(t, l) \/ LockRelease(t, l)
       PROVE  TreeInv'
  <2>1. UNCHANGED taskVars /\ status' = status
    BY <1>13 DEF LockAcquire, LockRelease, tbbVars
  <2>2. QED
    BY <1>1, <2>1, StatusStepKeepsTree
<1>14. QED
  BY <1>4, <1>5, <1>6, <1>7, <1>9, <1>10, <1>11, <1>12, <1>13
     DEF TaskStep, Spawn, SpawnAndWaitForAll

LEMMA TreeInit == TasksInit => TreeInv
<1> SUFFICES ASSUME TasksInit PROVE TreeInv
  OBVIOUS
<1>1. /\ 0 \in Task /\ task_id_ctr = 0 /\ m_vc[0] = <<>>
      /\ \A t \in Task : t \in Nat /\ joinset[t] = 0 /\ child_list[t] = {}
      /\ \A t \in Task : t > 0 => status[t] = "unborn" /\ clock[t] = 0
      /\ \A t, u \in Task : ancClock[t][u] = 0
  BY TaskFacts DEF TasksInit
<1>2. Born = {} /\ 0 .. task_id_ctr = {0}
  BY <1>1 DEF Born
<1>3. Unused /\ Genealogy /\ Paths
  BY <1>1, <1>2 DEF Unused, Genealogy, Paths
<1>4. UniquePaths /\ RecordedClocksArePast /\ JoinsetAcyclic
  BY <1>1, <1>2 DEF UniquePaths, RecordedClocksArePast, JoinsetAcyclic
<1>5. QED
  BY <1>3, <1>4 DEF TreeInv

LEMMA TreeUnchanged ==
  TasksTypeOK /\ TreeInv /\ UNCHANGED allTaskVars => TreeInv'
<1> SUFFICES ASSUME TasksTypeOK, TreeInv, UNCHANGED allTaskVars PROVE TreeInv'
  OBVIOUS
<1>1. TasksTypeOK' /\ UNCHANGED taskVars /\ status' = status
  BY TasksUnchangedType DEF allTaskVars, tbbVars
<1>2. QED
  BY <1>1, StatusStepKeepsTree

LEMMA TreeInvariant == TasksSpec => [](TasksTypeOK /\ TreeInv)
<1>1. TasksInit => TasksTypeOK /\ TreeInv
  BY TasksInitType, TreeInit
<1>2. TasksTypeOK /\ TreeInv /\ [TasksNext]_allTaskVars => TasksTypeOK' /\ TreeInv'
  BY TaskStepType, TasksUnchangedType, TreeStep, TreeUnchanged
     DEF TasksNext, TasksTerminated
<1>3. QED
  BY <1>1, <1>2, PTL DEF TasksSpec

(* No two tasks ever have the same path m_vc, in any of the spawn idioms:  *)
(* the replacement rule of RecordMem may tell tasks apart by their paths.  *)
THEOREM PathsAreUnique == TasksSpec => []UniquePaths
BY TreeInvariant, PTL DEF TreeInv

(* The clock recorded of an ancestor is smaller than the ancestor's clock: *)
(* parent_clock never orders what the ancestor does after the spawn.       *)
THEOREM ClocksArePast == TasksSpec => []RecordedClocksArePast
BY TreeInvariant, PTL DEF TreeInv

(* The joinset links lead to smaller tasks, so that find_root terminates.  *)
THEOREM FindRootTerminates == TasksSpec => []JoinsetAcyclic
BY TreeInvariant, PTL DEF TreeInv

-----------------------------------------------------------------------------
(***************************************************************************)
(* RecordMem on top of the task bookkeeping.                               *)
(***************************************************************************)
(* The bookkeeping keeps its invariants while accesses are recorded.       *)
TasksInv == TasksTypeOK /\ TreeInv

LEMMA AccessKeepsTasks ==
  ASSUME TasksInv, UNCHANGED <<tbbVars, taskVars, lockVars, deadVars, orderVars>>
  PROVE  TasksInv'
<1>1. TasksTypeOK'
  BY DEF TasksInv, TasksTypeOK, tbbVars, taskVars, lockVars, deadVars, orderVars
<1>2. TreeInv'
  BY <1>1, StatusStepKeepsTree DEF TasksInv, tbbVars
<1>3. QED
  BY <1>1, <1>2 DEF TasksInv

LEMMA TasksInvStep == TasksInv /\ [Next]_vars => TasksInv'
<1> SUFFICES ASSUME TasksInv, [Next]_vars PROVE TasksInv'
  OBVIOUS
<1>1. CASE TaskStep
  BY <1>1, TaskStepType, TreeStep DEF TasksInv
<1>2. ASSUME NEW t \in Task, NEW kind \in AccessType, Access(t, kind)
      PROVE  TasksInv'
  BY <1>2, AccessKeepsTasks DEF Access, HBAccess
<1>3. CASE UNCHANGED vars
  BY <1>3, TasksUnchangedType, TreeUnchanged DEF TasksInv, vars
<1>4. QED
  BY <1>1, <1>2, <1>3 DEF Next, Terminated

(* Paths stay unique, recorded clocks past and the joinset acyclic in the  *)
(* whole detector.                                                         *)
THEOREM BookkeepingHolds ==
  Spec => [](UniquePaths /\ RecordedClocksArePast /\ JoinsetAcyclic)
<1>1. Init => TasksInv
  BY TasksInitType, TreeInit DEF Init, TasksInv
<1>2. TasksInv => UniquePaths /\ RecordedClocksArePast /\ JoinsetAcyclic
  BY DEF TasksInv, TreeInv
<1>3. QED
  BY <1>1, <1>2, TasksInvStep, PTL DEF Spec

-----------------------------------------------------------------------------
(***************************************************************************)
(* The shadow word.                                                        *)
(***************************************************************************)
LEMMA MinMember ==
  ASSUME NEW S \in SUBSET (0 .. 4), S # {} PROVE Min(S) \in S
<1>1. \E x \in S : \A y \in S : x <= y
  <2>1. 0 .. 4 = {0, 1, 2, 3, 4}
    OBVIOUS
  <2>2. CASE 0 \in S
    BY <2>2
  <2>3. CASE 0 \notin S /\ 1 \in S
    BY <2>1, <2>3
  <2>4. CASE 0 \notin S /\ 1 \notin S /\ 2 \in S
    BY <2>1, <2>4
  <2>5. CASE 0 \notin S /\ 1 \notin S /\ 2 \notin S /\ 3 \in S
    BY <2>1, <2>5
  <2>6. CASE 0 \notin S /\ 1 \notin S /\ 2 \notin S /\ 3 \notin S
    <3>1. \A x \in S : x = 4
      BY <2>1, <2>6
    <3>2. 4 \in S
      BY <3>1
    <3>3. \A y \in S : 4 <= y
      BY <3>1
    <3>4. QED
      BY <3>2, <3>3
  <2>7. QED
    BY <2>2, <2>3, <2>4, <2>5, <2>6
<1>2. QED
  BY <1>1 DEF Min

LEMMA MaxMember ==
  ASSUME NEW S \in SUBSET (0 .. 2), S # {} PROVE Max(S) \in S
<1>1. \E x \in S : \A y \in S : x >= y
  <2>1. 0 .. 2 = {0, 1, 2}
    OBVIOUS
  <2>2. CASE 2 \in S
    BY <2>1, <2>2
  <2>3. CASE 2 \notin S /\ 1 \in S
    BY <2>1, <2>3
  <2>4. CASE 2 \notin S /\ 1 \notin S
    <3>1. \A x \in S : x = 0
      BY <2>1, <2>4
    <3>2. 0 \in S
      BY <3>1
    <3>3. \A y \in S : 0 >= y
      BY <3>1
    <3>4. QED
      BY <3>2, <3>3
  <2>5. QED
    BY <2>2, <2>3, <2>4
<1>2. QED
  BY <1>1 DEF Max

(* What is known of the shadow word, and of an entry of it.                *)
ShadowTypeOK ==
  /\ v \in [Entry -> LockState]
  /\ cursize \in 0 .. NUM_FIXED_VAR_ENTRIES
  /\ is_racy \in BOOLEAN
  /\ all_violations \in {<<>>} \cup (Task \X AccessType \X Task \X AccessType)

LEMMA SlotTypes ==
  ASSUME TasksTypeOK, NEW t \in Task
  PROVE  CurSlot(t) \in Slot /\ Empty \in Slot /\ lockset[t] \in SUBSET Locks
BY TaskFacts DEF CurSlot, Empty, Slot, TasksTypeOK

LEMMA WithSlotsType ==
  ASSUME NEW e \in LockState, NEW kind \in AccessType, NEW pair \in Slot \X Slot
  PROVE  WithSlots(e, kind, pair) \in LockState
BY DEF WithSlots, LockState

LEMMA UpdateSlotsType ==
  ASSUME TasksTypeOK, NEW t \in Task, NEW pair \in Slot \X Slot
  PROVE  UpdateSlots(t, pair) \in Slot \X Slot
<1>1. CurSlot(t) \in Slot /\ pair[1] \in Slot /\ pair[2] \in Slot
  BY SlotTypes
<1>2. QED
  BY <1>1 DEF UpdateSlots

LEMMA NoAccessType == TasksTypeOK => NoAccess \in LockState
<1> SUFFICES ASSUME TasksTypeOK PROVE NoAccess \in LockState
  OBVIOUS
<1>1. Empty \in Slot
  BY SlotTypes, TaskFacts
<1>2. QED
  BY <1>1 DEF NoAccess, LockState

LEMMA ConcatPairs ==
  ASSUME NEW a, NEW b, NEW c, NEW d
  PROVE  <<a, b>> \o <<c, d>> = <<a, b, c, d>>
<1> DEFINE S == {a, b, c, d}
           left == <<a, b>> \o <<c, d>>
           right == <<a, b, c, d>>
<1>1. left \in Seq(S) /\ right \in Seq(S) /\ Len(left) = 4 /\ Len(right) = 4
  OBVIOUS
<1>2. left[1] = a /\ left[2] = b /\ left[3] = c /\ left[4] = d
  OBVIOUS
<1>3. \A i \in 1 .. 4 : i = 1 \/ i = 2 \/ i = 3 \/ i = 4
  OBVIOUS
<1>4. right[1] = a /\ right[2] = b /\ right[3] = c /\ right[4] = d
  OBVIOUS
<1> HIDE DEF left, right
<1>5. \A i \in 1 .. Len(left) : left[i] = right[i]
  BY <1>1, <1>2, <1>3, <1>4
<1>6. left = right
  BY <1>1, <1>5, SeqEqual
<1>7. QED
  BY <1>6 DEF left, right

(* The slots an access is checked against carry a task and a kind.         *)
LEMMA ConflictingType ==
  ASSUME NEW e \in LockState, NEW kind \in AccessType,
         NEW j \in DOMAIN ConflictingSlots(e, kind)
  PROVE  /\ DOMAIN ConflictingSlots(e, kind) \subseteq 1 .. 4
         /\ ConflictingSlots(e, kind)[j].tid \in Task
         /\ ConflictingSlots(e, kind)[j].kind \in AccessType
<1>1. /\ e.wr[1] \in Slot /\ e.wr[2] \in Slot /\ e.rd[1] \in Slot /\ e.rd[2] \in Slot
  BY DEF LockState
<1> DEFINE tag(x, k) == [tid |-> x.tid, clk |-> x.clk, kind |-> k]
<1>2. \A x \in Slot, k \in AccessType :
        tag(x, k).tid \in Task /\ tag(x, k).kind \in AccessType
  BY DEF Slot
<1> HIDE DEF tag
<1>3. /\ kind = READ =>
           ConflictingSlots(e, kind) = <<tag(e.wr[1], WRITE), tag(e.wr[2], WRITE)>>
      /\ kind # READ =>
           ConflictingSlots(e, kind) =
             <<tag(e.wr[1], WRITE), tag(e.wr[2], WRITE),
               tag(e.rd[1], READ), tag(e.rd[2], READ)>>
  BY ConcatPairs DEF ConflictingSlots, tag
<1>4. READ \in AccessType /\ WRITE \in AccessType
  BY DEF AccessType
<1>5. CASE kind = READ
  BY <1>1, <1>2, <1>3, <1>4, <1>5
<1>6. CASE kind # READ
  BY <1>1, <1>2, <1>3, <1>4, <1>6
<1>7. QED
  BY <1>5, <1>6

(* In Access the scan of the entries stays within the array.               *)
LEMMA EntriesInRange ==
  ASSUME ShadowTypeOK, cursize < NUM_FIXED_VAR_ENTRIES, NEW t \in Task,
         NEW kind \in AccessType
  PROVE  /\ cursize \in Entry /\ cursize + 1 \in 0 .. NUM_FIXED_VAR_ENTRIES
         /\ 0 \in Entry /\ 0 \in 0 .. NUM_FIXED_VAR_ENTRIES
         /\ ScanStops(t, kind) # {} => Min(ScanStops(t, kind)) \in Entry
         /\ Matching(t) # {} => Max(Matching(t)) \in Entry
<1>1. /\ cursize \in Nat /\ cursize <= 2 /\ NUM_FIXED_VAR_ENTRIES = 3
      /\ Entry = 0 .. 2
  BY DEF ShadowTypeOK, NUM_FIXED_VAR_ENTRIES, Entry
<1>2. 0 .. cursize \subseteq 0 .. 2 /\ 0 .. cursize \subseteq 0 .. 4
  BY <1>1
<1>3. ScanStops(t, kind) \in SUBSET (0 .. 4) /\ ScanStops(t, kind) \subseteq 0 .. 2
  BY <1>2 DEF ScanStops
<1>4. Matching(t) \in SUBSET (0 .. 2)
  BY <1>2 DEF Matching
<1>5. QED
  BY <1>1, <1>3, <1>4, MinMember, MaxMember

LEMMA RecordMemType ==
  ASSUME TasksTypeOK, ShadowTypeOK, cursize < NUM_FIXED_VAR_ENTRIES,
         NEW t \in Task, NEW kind \in AccessType, RecordMem(t, kind)
  PROVE  ShadowTypeOK'
<1>1. /\ CurSlot(t) \in Slot /\ Empty \in Slot /\ lockset[t] \in SUBSET Locks
      /\ NoAccess \in LockState /\ v \in [Entry -> LockState]
      /\ cursize \in Entry /\ cursize + 1 \in 0 .. NUM_FIXED_VAR_ENTRIES
      /\ 0 \in Entry /\ 0 \in 0 .. NUM_FIXED_VAR_ENTRIES
  BY SlotTypes, NoAccessType, EntriesInRange DEF ShadowTypeOK
<1>2. CASE UNCHANGED shadowVars
  BY <1>2 DEF ShadowTypeOK, shadowVars
<1>3. CASE RecordFirst(t, kind)
  <2>1. WithSlots(NoAccess, kind, <<CurSlot(t), Empty>>) \in LockState
    BY <1>1, WithSlotsType
  <2>2. [WithSlots(NoAccess, kind, <<CurSlot(t), Empty>>)
           EXCEPT !.lockset = lockset[t]] \in LockState
    BY <1>1, <2>1 DEF LockState
  <2>3. QED
    BY <1>1, <1>3, <2>1, <2>2 DEF RecordFirst, ShadowTypeOK
<1>4. ASSUME NEW i \in Entry, StopAt(t, i, kind), Stops(t, i, kind)
      PROVE  ShadowTypeOK'
  <2>1. CASE SameEpoch(t, v[i], kind)
    BY <1>2, <1>4, <2>1 DEF StopAt
  <2>2. CASE ~ SameEpoch(t, v[i], kind)
    <3> DEFINE j == Min(RacingSlots(t, v[i], kind))
    <3>1. RacingSlots(t, v[i], kind) # {} /\ v[i] \in LockState
      BY <1>1, <1>4, <2>2 DEF Stops
    <3>2. \A k \in DOMAIN ConflictingSlots(v[i], kind) :
            /\ k \in 1 .. 4
            /\ ConflictingSlots(v[i], kind)[k].tid \in Task
            /\ ConflictingSlots(v[i], kind)[k].kind \in AccessType
      BY <3>1, ConflictingType
    <3>3. RacingSlots(t, v[i], kind) \in SUBSET (0 .. 4)
      BY <3>2 DEF RacingSlots
    <3>4. j \in RacingSlots(t, v[i], kind)
      BY <3>1, <3>3, MinMember
    <3>5. j \in DOMAIN ConflictingSlots(v[i], kind)
      BY <3>4 DEF RacingSlots
    <3>6. /\ ConflictingSlots(v[i], kind)[j].tid \in Task
          /\ ConflictingSlots(v[i], kind)[j].kind \in AccessType
      BY <3>2, <3>5
    <3>7. /\ is_racy' = TRUE /\ v' = v /\ cursize' = cursize
          /\ all_violations' = <<ConflictingSlots(v[i], kind)[j].tid,
                                 ConflictingSlots(v[i], kind)[j].kind, t, kind>>
      BY <1>4, <2>2 DEF StopAt
    <3>8. all_violations' \in Task \X AccessType \X Task \X AccessType
      BY <3>6, <3>7
    <3>9. QED
      BY <3>7, <3>8 DEF ShadowTypeOK
  <2>3. QED
    BY <2>1, <2>2
<1>5. ASSUME NEW i \in Entry, RecordInEntry(t, i, kind) PROVE ShadowTypeOK'
  <2>1. v[i] \in LockState /\ SlotsOf(v[i], kind) \in Slot \X Slot
    BY <1>1 DEF LockState, SlotsOf
  <2>2. WithSlots(v[i], kind, UpdateSlots(t, SlotsOf(v[i], kind))) \in LockState
    BY <2>1, UpdateSlotsType, WithSlotsType
  <2>3. QED
    BY <1>1, <1>5, <2>2 DEF RecordInEntry, ShadowTypeOK
<1>6. CASE RecordNewEntry(t, kind)
  <2>1. [NoAccess EXCEPT !.lockset = lockset[t]] \in LockState
    BY <1>1 DEF LockState
  <2>2. WithSlots([NoAccess EXCEPT !.lockset = lockset[t]], kind,
                  <<CurSlot(t), Empty>>) \in LockState
    BY <1>1, <2>1, WithSlotsType
  <2>3. QED
    BY <1>1, <1>6, <2>2 DEF RecordNewEntry, ShadowTypeOK
<1>7. ASSUME ScanStops(t, kind) # {}
      PROVE  /\ Min(ScanStops(t, kind)) \in Entry
             /\ Stops(t, Min(ScanStops(t, kind)), kind)
  <2>1. ScanStops(t, kind) \in SUBSET (0 .. 4)
    BY DEF ScanStops, ShadowTypeOK, NUM_FIXED_VAR_ENTRIES
  <2>2. Min(ScanStops(t, kind)) \in ScanStops(t, kind)
    BY <1>7, <2>1, MinMember
  <2>3. QED
    BY <1>7, <2>2, EntriesInRange DEF ScanStops
<1>8. Matching(t) # {} => Max(Matching(t)) \in Entry
  BY EntriesInRange
<1>9. QED
  BY <1>2, <1>3, <1>4, <1>5, <1>6, <1>7, <1>8 DEF RecordMem

LEMMA ShadowInitType == TasksTypeOK /\ ShadowInit => ShadowTypeOK
<1> SUFFICES ASSUME TasksTypeOK, ShadowInit PROVE ShadowTypeOK
  OBVIOUS
<1>1. 0 \in 0 .. NUM_FIXED_VAR_ENTRIES /\ NoAccess \in LockState
  BY NoAccessType DEF NUM_FIXED_VAR_ENTRIES
<1>2. QED
  BY <1>1 DEF ShadowInit, ShadowTypeOK

(* The fields of the shadow word keep their types; in particular cursize   *)
(* is within the array as long as the model goes on recording.             *)
THEOREM DetectorTypeCorrect == Spec => []TypeOK
<1>1. Init => TasksInv /\ ShadowTypeOK
  BY TasksInitType, TreeInit, ShadowInitType DEF Init, TasksInv
<1>2. ASSUME TasksInv, ShadowTypeOK, [Next]_vars PROVE ShadowTypeOK'
  <2>1. CASE UNCHANGED shadowVars
    BY <1>2, <2>1 DEF ShadowTypeOK, shadowVars
  <2>2. ASSUME NEW t \in Task, NEW kind \in AccessType, Access(t, kind)
        PROVE  ShadowTypeOK'
    BY <1>2, <2>2, RecordMemType DEF Access, TasksInv
  <2>3. QED
    BY <1>2, <2>1, <2>2 DEF Next, Terminated, vars
<1>3. TasksInv /\ ShadowTypeOK => TypeOK
  BY DEF TasksInv, ShadowTypeOK, TypeOK
<1>4. QED
  BY <1>1, <1>2, <1>3, TasksInvStep, PTL DEF Spec

-----------------------------------------------------------------------------
(***************************************************************************)
(* Nothing in the shadow word is made up: a slot in use names a task that  *)
(* made an access of that kind, at a clock that is not in its future.      *)
(***************************************************************************)
Made(u, kind, H) == \E a \in H : a.task = u /\ a.kind = kind

GoodSlot(x, kind, H, C) == x.clk # 0 => Made(x.tid, kind, H) /\ x.clk <= C[x.tid]
GoodPair(pair, kind, H, C) ==
  GoodSlot(pair[1], kind, H, C) /\ GoodSlot(pair[2], kind, H, C)
GoodEntry(e, H, C) == GoodPair(e.rd, READ, H, C) /\ GoodPair(e.wr, WRITE, H, C)

SlotsAreAccesses == \A i \in Entry : GoodEntry(v[i], history, clock)

(* A report names two different tasks, each of which made an access of the *)
(* reported kind, one of them a write.                                     *)
ReportNamesAccesses ==
  all_violations # <<>> =>
    LET w == all_violations
    IN  /\ w[1] # w[3] /\ WRITE \in {w[2], w[4]}
        /\ Made(w[1], w[2], history) /\ Made(w[3], w[4], history)

LEMMA ClockGrows ==
  ASSUME TasksInv, TaskStep
  PROVE  (\A u \in Task : clock[u] <= clock'[u]) /\ history' = history
<1>1. clock \in [Task -> Nat] /\ task_id_ctr \in Nat /\ 0 \in Task
  BY TaskFacts DEF TasksInv, TasksTypeOK
<1>2. ASSUME NEW s \in Task, NEW p \in Task, NEW c \in Task, NewTaskId(c),
             CaptureSpawn(s, p, c)
      PROVE  (\A u \in Task : clock[u] <= clock'[u]) /\ history' = history
  <2>1. clock[c] = 0
    BY <1>1, <1>2, TaskFacts DEF NewTaskId, TasksInv, TreeInv, Unused
  <2>2. clock' = [clock EXCEPT ![p] = @ + 1, ![c] = 1] /\ history' = history
    BY <1>2 DEF CaptureSpawn
  <2>3. QED
    BY <1>1, <2>1, <2>2
<1>3. ASSUME NEW t \in Task, NEW state, NEW awaited, WaitReturn(t, state, awaited)
      PROVE  (\A u \in Task : clock[u] <= clock'[u]) /\ history' = history
  <2>1. clock' = clock \/ clock' = [clock EXCEPT ![0] = @ + 1]
    BY <1>3 DEF WaitReturn, Capturewait_for_all, JoinChildren, DeclareDead
  <2>2. history' = history
    BY <1>3 DEF WaitReturn
  <2>3. QED
    BY <1>1, <2>1, <2>2
<1>4. clock' = clock /\ history' = history =>
        (\A u \in Task : clock[u] <= clock'[u]) /\ history' = history
  BY <1>1
<1>5. ASSUME NEW s \in Task, NEW c \in Task,
             \/ Spawn(s, c) \/ SpawnAndWaitForAll(s, c) \/ SpawnSibling(s, c)
             \/ SpawnRootAndWait(s, c)
      PROVE  (\A u \in Task : clock[u] <= clock'[u]) /\ history' = history
  <2>1. parent_taskId[s] \in Task
    BY DEF TasksInv, TasksTypeOK
  <2>2. QED
    BY <1>2, <1>5, <2>1 DEF Spawn, SpawnAndWaitForAll, SpawnThen, SpawnSibling,
       SpawnRootAndWait
<1>6. ASSUME NEW t \in Task, WaitForAllReturn(t) \/ RootWaitReturn(t)
      PROVE  (\A u \in Task : clock[u] <= clock'[u]) /\ history' = history
  BY <1>3, <1>6 DEF WaitForAllReturn, RootWaitReturn
<1>7. ASSUME \/ MainReturns
             \/ \E t \in Task : ExecBegin(t) \/ ExecEnd(t) \/ WaitForAll(t)
             \/ \E t \in Task, l \in Locks : LockAcquire(t, l) \/ LockRelease(t, l)
      PROVE  clock' = clock /\ history' = history
  BY <1>7 DEF MainReturns, ExecBegin, ExecEnd, WaitForAll, LockAcquire, LockRelease,
     taskVars, hbVars
<1>8. QED
  BY <1>4, <1>5, <1>6, <1>7 DEF TaskStep

(* A good entry stays good when the history and the clocks grow.           *)
LEMMA GoodGrows ==
  ASSUME NEW H, NEW K, H \subseteq K,
         NEW C \in [Task -> Nat], NEW D \in [Task -> Nat],
         \A u \in Task : C[u] <= D[u],
         NEW e \in LockState, GoodEntry(e, H, C)
  PROVE  GoodEntry(e, K, D)
<1>1. ASSUME NEW x \in Slot, NEW kind, GoodSlot(x, kind, H, C)
      PROVE  GoodSlot(x, kind, K, D)
  <2>1. x.tid \in Task /\ x.clk \in Nat
    BY DEF Slot
  <2>2. C[x.tid] \in Nat /\ D[x.tid] \in Nat /\ C[x.tid] <= D[x.tid]
    BY <2>1
  <2>3. QED
    BY <1>1, <2>1, <2>2 DEF GoodSlot, Made
<1>2. e.rd[1] \in Slot /\ e.rd[2] \in Slot /\ e.wr[1] \in Slot /\ e.wr[2] \in Slot
  BY DEF LockState
<1>3. QED
  BY <1>1, <1>2 DEF GoodEntry, GoodPair

LEMMA GoodRecord ==
  ASSUME NEW H, NEW C, NEW kind \in AccessType, NEW e \in LockState,
         GoodEntry(e, H, C), NEW pair \in Slot \X Slot, GoodPair(pair, kind, H, C)
  PROVE  GoodEntry(WithSlots(e, kind, pair), H, C)
<1>1. CASE kind = READ
  <2>1. WithSlots(e, kind, pair).rd = pair /\ WithSlots(e, kind, pair).wr = e.wr
    BY <1>1 DEF WithSlots, LockState
  <2>2. QED
    BY <1>1, <2>1 DEF GoodEntry
<1>2. CASE kind = WRITE
  <2>1. WithSlots(e, kind, pair).wr = pair /\ WithSlots(e, kind, pair).rd = e.rd
    BY <1>2 DEF WithSlots, LockState, READ, WRITE
  <2>2. QED
    BY <1>2, <2>1 DEF GoodEntry
<1>3. QED
  BY <1>1, <1>2 DEF AccessType

LEMMA ConflictingGood ==
  ASSUME NEW H, NEW C, NEW kind \in AccessType, NEW e \in LockState,
         GoodEntry(e, H, C), NEW j \in DOMAIN ConflictingSlots(e, kind)
  PROVE  LET x == ConflictingSlots(e, kind)[j]
         IN  GoodSlot(x, x.kind, H, C) /\ WRITE \in {x.kind, kind}
<1> DEFINE tag(x, k) == [tid |-> x.tid, clk |-> x.clk, kind |-> k]
           good(x) == GoodSlot(x, x.kind, H, C)
<1>1. \A x, k : GoodSlot(x, k, H, C) => good(tag(x, k)) /\ tag(x, k).kind = k
  BY DEF GoodSlot
<1>2. /\ good(tag(e.wr[1], WRITE)) /\ tag(e.wr[1], WRITE).kind = WRITE
      /\ good(tag(e.wr[2], WRITE)) /\ tag(e.wr[2], WRITE).kind = WRITE
      /\ good(tag(e.rd[1], READ)) /\ good(tag(e.rd[2], READ))
  BY <1>1 DEF GoodEntry, GoodPair
<1>3. /\ kind = READ =>
           ConflictingSlots(e, kind) = <<tag(e.wr[1], WRITE), tag(e.wr[2], WRITE)>>
      /\ kind # READ =>
           ConflictingSlots(e, kind) =
             <<tag(e.wr[1], WRITE), tag(e.wr[2], WRITE),
               tag(e.rd[1], READ), tag(e.rd[2], READ)>>
  BY ConcatPairs DEF ConflictingSlots
<1> HIDE DEF tag
<1>4. CASE kind = READ
  <2>1. \/ ConflictingSlots(e, kind)[j] = tag(e.wr[1], WRITE)
        \/ ConflictingSlots(e, kind)[j] = tag(e.wr[2], WRITE)
    BY <1>3, <1>4
  <2>2. QED
    BY <1>2, <2>1
<1>5. CASE kind = WRITE
  <2>1. \/ ConflictingSlots(e, kind)[j] = tag(e.wr[1], WRITE)
        \/ ConflictingSlots(e, kind)[j] = tag(e.wr[2], WRITE)
        \/ ConflictingSlots(e, kind)[j] = tag(e.rd[1], READ)
        \/ ConflictingSlots(e, kind)[j] = tag(e.rd[2], READ)
    BY <1>3, <1>5 DEF READ, WRITE
  <2>2. QED
    BY <1>2, <1>5, <2>1
<1>6. QED
  BY <1>4, <1>5 DEF AccessType

LEMMA RecordMemGood ==
  ASSUME TasksTypeOK, ShadowTypeOK, cursize < NUM_FIXED_VAR_ENTRIES,
         NEW t \in Task, NEW kind \in AccessType, RecordMem(t, kind),
         NEW H, Made(t, kind, H), \A i \in Entry : GoodEntry(v[i], H, clock)
  PROVE  /\ \A i \in Entry : GoodEntry(v'[i], H, clock)
         /\ all_violations' # all_violations =>
              LET w == all_violations'
              IN  /\ w[1] # w[3] /\ WRITE \in {w[2], w[4]}
                  /\ Made(w[1], w[2], H) /\ Made(w[3], w[4], H)
<1>1. /\ CurSlot(t) \in Slot /\ Empty \in Slot /\ lockset[t] \in SUBSET Locks
      /\ NoAccess \in LockState /\ v \in [Entry -> LockState]
      /\ cursize \in Entry /\ 0 \in Entry
  BY SlotTypes, NoAccessType, EntriesInRange DEF ShadowTypeOK
<1>2. /\ GoodSlot(Empty, kind, H, clock) /\ GoodSlot(CurSlot(t), kind, H, clock)
      /\ \A k : GoodPair(<<Empty, Empty>>, k, H, clock)
  <2>1. clock[t] \in Nat
    BY DEF TasksTypeOK
  <2>2. QED
    BY <2>1 DEF Empty, CurSlot, GoodSlot, GoodPair
<1>3. /\ <<CurSlot(t), Empty>> \in Slot \X Slot
      /\ GoodPair(<<CurSlot(t), Empty>>, kind, H, clock)
  BY <1>1, <1>2 DEF GoodPair
<1>4. \A L \in SUBSET Locks :
        LET e == [NoAccess EXCEPT !.lockset = L]
        IN  e \in LockState /\ GoodEntry(e, H, clock)
  BY <1>1, <1>2 DEF NoAccess, LockState, GoodEntry
<1>5. GoodEntry(NoAccess, H, clock)
  BY <1>2 DEF NoAccess, GoodEntry
<1>6. CASE UNCHANGED shadowVars
  BY <1>6 DEF shadowVars
<1>7. CASE RecordFirst(t, kind)
  <2> DEFINE e == WithSlots(NoAccess, kind, <<CurSlot(t), Empty>>)
  <2>1. e \in LockState /\ GoodEntry(e, H, clock)
    BY <1>1, <1>3, <1>5, WithSlotsType, GoodRecord
  <2>2. GoodEntry([e EXCEPT !.lockset = lockset[t]], H, clock)
    BY <2>1 DEF GoodEntry, LockState
  <2>3. /\ GoodEntry(v'[0], H, clock)
        /\ \A i \in Entry : i # 0 => v'[i] \in {NoAccess, v[i]}
    BY <1>1, <1>7, <2>1, <2>2 DEF RecordFirst
  <2>4. all_violations' = all_violations
    BY <1>7 DEF RecordFirst
  <2>5. QED
    BY <1>5, <2>3, <2>4
<1>8. ASSUME NEW i \in Entry, RecordInEntry(t, i, kind)
      PROVE  (\A k \in Entry : GoodEntry(v'[k], H, clock))
             /\ all_violations' = all_violations
  <2> DEFINE pair == SlotsOf(v[i], kind)
  <2>1. v[i] \in LockState /\ pair \in Slot \X Slot /\ GoodPair(pair, kind, H, clock)
    BY <1>1 DEF LockState, SlotsOf, GoodEntry, AccessType
  <2>2. /\ UpdateSlots(t, pair) \in Slot \X Slot
        /\ GoodPair(UpdateSlots(t, pair), kind, H, clock)
    <3>1. GoodPair(UpdateSlots(t, pair), kind, H, clock)
      BY <1>2, <2>1 DEF UpdateSlots, GoodPair
    <3>2. QED
      BY <2>1, <3>1, UpdateSlotsType
  <2>3. GoodEntry(WithSlots(v[i], kind, UpdateSlots(t, pair)), H, clock)
    BY <2>1, <2>2, GoodRecord
  <2>4. QED
    BY <1>1, <1>8, <2>3 DEF RecordInEntry
<1>9. CASE RecordNewEntry(t, kind)
  <2> DEFINE e == [NoAccess EXCEPT !.lockset = lockset[t]]
  <2>1. e \in LockState /\ GoodEntry(e, H, clock)
    BY <1>1, <1>4
  <2>2. GoodEntry(WithSlots(e, kind, <<CurSlot(t), Empty>>), H, clock)
    BY <1>3, <2>1, GoodRecord
  <2>3. v' = [v EXCEPT ![cursize] = WithSlots(e, kind, <<CurSlot(t), Empty>>)]
        /\ all_violations' = all_violations
    BY <1>9 DEF RecordNewEntry
  <2>4. QED
    BY <1>1, <2>2, <2>3
<1>10. ASSUME NEW i \in Entry, StopAt(t, i, kind), Stops(t, i, kind),
              ~ SameEpoch(t, v[i], kind)
       PROVE  /\ v' = v
              /\ LET w == all_violations'
                 IN  /\ w[1] # w[3] /\ WRITE \in {w[2], w[4]}
                     /\ Made(w[1], w[2], H) /\ Made(w[3], w[4], H)
  <2> DEFINE j == Min(RacingSlots(t, v[i], kind))
             x == ConflictingSlots(v[i], kind)[j]
  <2>1. RacingSlots(t, v[i], kind) # {} /\ v[i] \in LockState
    BY <1>1, <1>10 DEF Stops
  <2>2. RacingSlots(t, v[i], kind) \in SUBSET (0 .. 4)
    <3>1. \A k \in DOMAIN ConflictingSlots(v[i], kind) : k \in 1 .. 4
      BY <2>1, ConflictingType
    <3>2. QED
      BY <3>1 DEF RacingSlots
  <2>3. j \in RacingSlots(t, v[i], kind)
    BY <2>1, <2>2, MinMember
  <2>4. j \in DOMAIN ConflictingSlots(v[i], kind) /\ ~ HappensBeforeSlot(t, x)
    BY <2>3 DEF RacingSlots
  <2>5. GoodSlot(x, x.kind, H, clock) /\ WRITE \in {x.kind, kind}
    BY <2>1, <2>4, ConflictingGood
  <2>6. x.clk # 0 /\ ~ OrderedBefore(t, x.tid, x.clk)
    BY <2>4 DEF HappensBeforeSlot
  <2>7. x.tid # t
    BY <2>5, <2>6 DEF GoodSlot, OrderedBefore
  <2>8. /\ v' = v
        /\ all_violations' = <<x.tid, x.kind, t, kind>>
    BY <1>10 DEF StopAt
  <2> HIDE DEF x
  <2>9. QED
    BY <2>5, <2>6, <2>7, <2>8 DEF GoodSlot
<1>11. ASSUME ScanStops(t, kind) # {}, StopAt(t, Min(ScanStops(t, kind)), kind)
       PROVE  /\ v' = v
              /\ all_violations' # all_violations =>
                   LET w == all_violations'
                   IN  /\ w[1] # w[3] /\ WRITE \in {w[2], w[4]}
                       /\ Made(w[1], w[2], H) /\ Made(w[3], w[4], H)
  <2> DEFINE i == Min(ScanStops(t, kind))
  <2>1. i \in Entry /\ Stops(t, i, kind)
    <3>1. ScanStops(t, kind) \in SUBSET (0 .. 4)
      BY DEF ScanStops, ShadowTypeOK, NUM_FIXED_VAR_ENTRIES
    <3>2. i \in ScanStops(t, kind)
      BY <1>11, <3>1, MinMember
    <3>3. QED
      BY <1>11, <3>2, EntriesInRange DEF ScanStops
  <2>2. CASE SameEpoch(t, v[i], kind)
    BY <1>11, <2>2 DEF StopAt, shadowVars
  <2>3. CASE ~ SameEpoch(t, v[i], kind)
    BY <1>10, <1>11, <2>1, <2>3
  <2>4. QED
    BY <2>2, <2>3
<1>12. Matching(t) # {} => Max(Matching(t)) \in Entry
  BY EntriesInRange
<1>13. QED
  BY <1>6, <1>7, <1>8, <1>9, <1>11, <1>12 DEF RecordMem

LEMMA GoodInit ==
  ASSUME Init PROVE SlotsAreAccesses /\ ReportNamesAccesses
<1>1. \A i \in Entry : v[i] = NoAccess
  BY DEF Init, ShadowInit
<1>2. GoodEntry(NoAccess, history, clock)
  BY DEF GoodEntry, GoodPair, GoodSlot, NoAccess, Empty
<1>3. QED
  BY <1>1, <1>2 DEF Init, ShadowInit, SlotsAreAccesses, ReportNamesAccesses

(* The part of the argument common to all steps: entries and reports that  *)
(* do not change stay genuine when the history and the clocks grow.        *)
LEMMA GenuineGrows ==
  ASSUME TasksTypeOK, TasksTypeOK', ShadowTypeOK, SlotsAreAccesses,
         ReportNamesAccesses, history \subseteq history',
         \A u \in Task : clock[u] <= clock'[u]
  PROVE  /\ \A i \in Entry : GoodEntry(v[i], history', clock')
         /\ all_violations' = all_violations => ReportNamesAccesses'
<1>1. \A i \in Entry : GoodEntry(v[i], history', clock')
  <2>1. clock \in [Task -> Nat] /\ clock' \in [Task -> Nat]
    BY DEF TasksTypeOK
  <2>2. \A i \in Entry : v[i] \in LockState /\ GoodEntry(v[i], history, clock)
    BY DEF ShadowTypeOK, SlotsAreAccesses
  <2>3. QED
    BY <2>1, <2>2, GoodGrows
<1>2. \A u, k : Made(u, k, history) => Made(u, k, history')
  BY DEF Made
<1>3. all_violations' = all_violations => ReportNamesAccesses'
  BY <1>2 DEF ReportNamesAccesses
<1>4. QED
  BY <1>1, <1>3

LEMMA AccessGenuine ==
  ASSUME TasksInv, TasksInv', ShadowTypeOK, SlotsAreAccesses, ReportNamesAccesses,
         NEW t \in Task, NEW kind \in AccessType, Access(t, kind)
  PROVE  SlotsAreAccesses' /\ ReportNamesAccesses'
<1>1. clock' = clock /\ TasksTypeOK /\ TasksTypeOK'
  BY DEF Access, taskVars, TasksInv
<1>2. history \subseteq history' /\ Made(t, kind, history')
  BY DEF Access, HBAccess, AccessOf, Made
<1>3. \A u \in Task : clock[u] <= clock'[u]
  BY <1>1 DEF TasksTypeOK
<1>4. /\ \A i \in Entry : GoodEntry(v[i], history', clock)
      /\ all_violations' = all_violations => ReportNamesAccesses'
  BY <1>1, <1>2, <1>3, GenuineGrows
<1>5. /\ \A i \in Entry : GoodEntry(v'[i], history', clock)
      /\ all_violations' # all_violations =>
           LET w == all_violations'
           IN  /\ w[1] # w[3] /\ WRITE \in {w[2], w[4]}
               /\ Made(w[1], w[2], history') /\ Made(w[3], w[4], history')
  BY <1>1, <1>2, <1>4, RecordMemGood DEF Access
<1>6. QED
  BY <1>1, <1>4, <1>5 DEF SlotsAreAccesses, ReportNamesAccesses

LEMMA GenuineStep ==
  ASSUME TasksInv, ShadowTypeOK, SlotsAreAccesses, ReportNamesAccesses, [Next]_vars
  PROVE  TasksInv' /\ ShadowTypeOK' /\ SlotsAreAccesses' /\ ReportNamesAccesses'
<1>1. TasksInv' /\ TasksTypeOK /\ TasksTypeOK'
  BY TasksInvStep DEF TasksInv
<1>2. ASSUME TaskStep, UNCHANGED shadowVars
      PROVE  ShadowTypeOK' /\ SlotsAreAccesses' /\ ReportNamesAccesses'
  <2>1. (\A u \in Task : clock[u] <= clock'[u]) /\ history' = history
    BY <1>2, ClockGrows
  <2>2. QED
    BY <1>1, <1>2, <2>1, GenuineGrows DEF shadowVars, ShadowTypeOK, SlotsAreAccesses
<1>3. ASSUME NEW t \in Task, NEW kind \in AccessType, Access(t, kind)
      PROVE  ShadowTypeOK' /\ SlotsAreAccesses' /\ ReportNamesAccesses'
  <2>1. ShadowTypeOK'
    BY <1>1, <1>3, RecordMemType DEF Access
  <2>2. QED
    BY <1>1, <1>3, <2>1, AccessGenuine
<1>4. CASE UNCHANGED vars
  BY <1>1, <1>4 DEF vars, shadowVars, allTaskVars, taskVars, hbVars,
     ShadowTypeOK, SlotsAreAccesses, ReportNamesAccesses
<1>5. QED
  BY <1>1, <1>2, <1>3, <1>4 DEF Next, Terminated

(* Whatever the spawn idioms and the locks, a report names two different   *)
(* tasks that both made an access of the reported kind to the address, and *)
(* at least one of the two is a write: RecordMem never takes a slot that a *)
(* phase change or a replacement left behind for an access.                *)
THEOREM ReportsAreGenuine == Spec => []ReportNamesAccesses
<1> DEFINE Inv == /\ TasksInv /\ ShadowTypeOK
                  /\ SlotsAreAccesses /\ ReportNamesAccesses
<1>1. Init => Inv
  BY TasksInitType, TreeInit, ShadowInitType, GoodInit DEF Init, TasksInv
<1>2. Inv /\ [Next]_vars => Inv'
  BY GenuineStep
<1>3. QED
  BY <1>1, <1>2, PTL DEF Spec
=============================================================================
