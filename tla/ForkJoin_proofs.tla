--------------------------- MODULE ForkJoin_proofs ---------------------------
(***************************************************************************)
(* Proofs about FastRacer on strict fork-join programs, for any number of  *)
(* tasks and accesses; then about what it reports on programs with locks,  *)
(* nested roots and children left behind, and about verdicts that stay.    *)
(***************************************************************************)
EXTENDS FastRacer_proofs, MCIdioms, WellFoundedInduction

-----------------------------------------------------------------------------
(***************************************************************************)
(* find_root is defined: the links of the joinset lead to smaller tasks,   *)
(* and a function that follows them on the tasks below n extends to n.     *)
(***************************************************************************)
LEMMA LeastExists ==
  ASSUME NEW S \in SUBSET Nat, S # {}
  PROVE  \E x \in S : \A y \in S : x <= y
<1>1. PICK x \in S : \A y \in S : <<y, x>> \notin OpToRel(<, Nat)
  BY NatLessThanWellFounded, WFMin, Zenon
<1>2. \A y \in S : ~ (y < x)
  BY <1>1 DEF OpToRel
<1>3. QED
  BY <1>2

LinksDown(j) ==
  j \in [Task -> 0 .. MaxTasks] /\ \A t \in Task : j[t] # 0 => j[t] - 1 < t

Follows(f, j, n) ==
  \A u \in 0 .. n - 1 : f[u] = IF j[u] = 0 THEN u ELSE f[j[u] - 1]

RootMap(j) == CHOOSE f : f = [u \in Task |-> IF j[u] = 0 THEN u ELSE f[j[u] - 1]]

LEMMA FollowerExists ==
  ASSUME NEW j, LinksDown(j)
  PROVE  \A n \in 0 .. MaxTasks : \E f : Follows(f, j, n)
<1> DEFINE Bad == {n \in 0 .. MaxTasks : ~ \E f : Follows(f, j, n)}
<1>1. SUFFICES ASSUME Bad # {} PROVE FALSE
  OBVIOUS
<1>2. MaxTasks \in Nat /\ Bad \in SUBSET Nat
  BY MaxTasksAssumption
<1>3. PICK n \in Bad : \A m \in Bad : n <= m
  BY <1>1, <1>2, LeastExists
<1>4. n \in Nat /\ n <= MaxTasks
  BY <1>2
<1>5. CASE n = 0
  <2>1. Follows(j, j, n)
    BY <1>5 DEF Follows
  <2>2. QED
    BY <2>1
<1>6. CASE n # 0
  <2>1. n - 1 \in 0 .. MaxTasks /\ ~ (n <= n - 1)
    BY <1>2, <1>4, <1>6
  <2>2. n - 1 \notin Bad
    BY <1>3, <2>1
  <2>3. PICK f : Follows(f, j, n - 1)
    BY <2>1, <2>2
  <2> DEFINE r == IF j[n - 1] = 0 THEN n - 1 ELSE f[j[n - 1] - 1]
             g == [u \in 0 .. n - 1 |-> IF u = n - 1 THEN r ELSE f[u]]
  <2>4. n - 1 \in Task
    BY <1>4, <1>6, MaxTasksAssumption DEF Task
  <2>5. g[n - 1] = IF j[n - 1] = 0 THEN n - 1 ELSE g[j[n - 1] - 1]
    <3>1. CASE j[n - 1] = 0
      BY <1>4, <1>6, <3>1
    <3>2. CASE j[n - 1] # 0
      <4>1. j[n - 1] \in Nat /\ j[n - 1] - 1 < n - 1
        BY <2>4, <3>2 DEF LinksDown
      <4>2. j[n - 1] - 1 \in 0 .. n - 1 /\ j[n - 1] - 1 # n - 1
        BY <1>4, <3>2, <4>1
      <4>3. n - 1 \in 0 .. n - 1
        BY <1>4, <1>6
      <4>4. QED
        BY <3>2, <4>2, <4>3
    <3>3. QED
      BY <3>1, <3>2
  <2>6. ASSUME NEW u \in 0 .. n - 1, u # n - 1
        PROVE  g[u] = IF j[u] = 0 THEN u ELSE g[j[u] - 1]
    <3>1. u \in 0 .. (n - 1) - 1 /\ u \in Task
      BY <1>4, <2>6, MaxTasksAssumption DEF Task
    <3>2. f[u] = IF j[u] = 0 THEN u ELSE f[j[u] - 1]
      BY <2>3, <3>1 DEF Follows
    <3>3. CASE j[u] = 0
      BY <2>6, <3>2, <3>3
    <3>4. CASE j[u] # 0
      <4>1. j[u] \in Nat /\ j[u] - 1 < u /\ u \in Nat
        BY <3>1, <3>4, TaskFacts DEF LinksDown
      <4>2. j[u] - 1 \in 0 .. n - 1 /\ j[u] - 1 # n - 1
        BY <1>4, <2>6, <3>4, <4>1
      <4>3. QED
        BY <2>6, <3>2, <3>4, <4>2
    <3>5. QED
      BY <3>3, <3>4
  <2>7. Follows(g, j, n)
    BY <2>5, <2>6 DEF Follows
  <2>8. QED
    BY <2>7
<1>7. QED
  BY <1>5, <1>6

LEMMA RootMapFacts ==
  ASSUME NEW j, LinksDown(j)
  PROVE  \A u \in Task :
           RootMap(j)[u] = IF j[u] = 0 THEN u ELSE RootMap(j)[j[u] - 1]
<1>1. PICK f : Follows(f, j, MaxTasks)
  BY FollowerExists, MaxTasksAssumption
<1> DEFINE g == [u \in Task |-> f[u]]
<1>2. g = [u \in Task |-> IF j[u] = 0 THEN u ELSE g[j[u] - 1]]
  <2>1. ASSUME NEW u \in Task
        PROVE  g[u] = IF j[u] = 0 THEN u ELSE g[j[u] - 1]
    <3>1. f[u] = IF j[u] = 0 THEN u ELSE f[j[u] - 1]
      BY <1>1 DEF Follows, Task
    <3>2. ASSUME j[u] # 0 PROVE j[u] - 1 \in Task
      <4>1. j[u] \in Nat /\ j[u] <= MaxTasks
        BY MaxTasksAssumption DEF LinksDown
      <4>2. QED
        BY <3>2, <4>1, MaxTasksAssumption DEF Task
    <3>3. QED
      BY <3>1, <3>2
  <2>2. QED
    BY <2>1
<1> HIDE DEF g
<1>3. RootMap(j) = [u \in Task |-> IF j[u] = 0 THEN u ELSE RootMap(j)[j[u] - 1]]
  BY <1>2 DEF RootMap
<1>4. QED
  BY <1>3

(* The root of a task is a task no larger than it that nobody joined.      *)
LEMMA RootFacts ==
  ASSUME NEW j, LinksDown(j), NEW m \in Nat,
         \A t \in Task : j[t] # 0 /\ t > m => j[t] - 1 > m
  PROVE  \A u \in Task :
           /\ RootMap(j)[u] \in Task /\ j[RootMap(j)[u]] = 0
           /\ RootMap(j)[u] <= u /\ (u > m => RootMap(j)[u] > m)
<1> DEFINE R == RootMap(j)
           OK(u) == /\ R[u] \in Task /\ j[R[u]] = 0
                    /\ R[u] <= u /\ (u > m => R[u] > m)
           Bad == {u \in Task : ~ OK(u)}
<1>1. SUFFICES ASSUME Bad # {} PROVE FALSE
  OBVIOUS
<1>2. Bad \in SUBSET Nat
  BY TaskFacts
<1>3. PICK u \in Bad : \A w \in Bad : u <= w
  BY <1>1, <1>2, LeastExists
<1>4. u \in Task /\ u \in Nat /\ ~ OK(u)
  BY <1>2
<1>5. R[u] = IF j[u] = 0 THEN u ELSE R[j[u] - 1]
  BY <1>4, RootMapFacts
<1> HIDE DEF R
<1>6. CASE j[u] = 0
  <2>1. R[u] = u /\ u <= u
    BY <1>4, <1>5, <1>6
  <2>2. QED
    BY <1>4, <1>6, <2>1
<1>7. CASE j[u] # 0
  <2> DEFINE w == j[u] - 1
  <2>1. j[u] \in Nat /\ j[u] <= MaxTasks /\ w < u /\ w \in Nat
    BY <1>4, <1>7, MaxTasksAssumption DEF LinksDown
  <2>2. w \in Task
    BY <1>4, <2>1, TaskFacts, MaxTasksAssumption DEF Task
  <2>3. ~ (u <= w)
    BY <1>4, <2>1
  <2>4. OK(w)
    BY <1>3, <2>2, <2>3
  <2>5. R[u] = R[w]
    BY <1>5, <1>7
  <2>6. u > m => w > m
    BY <1>4, <1>7
  <2> HIDE DEF w
  <2>7. R[w] \in Nat
    BY <2>4, TaskFacts
  <2>8. R[u] <= u
    BY <1>4, <2>1, <2>4, <2>5, <2>7
  <2>9. u > m => R[u] > m
    BY <2>4, <2>5, <2>6
  <2>10. QED
    BY <1>4, <2>4, <2>5, <2>8, <2>9
<1>8. QED
  BY <1>6, <1>7

(* When p joins the tasks of S, whoever had its root in S has it in p.     *)
LEMMA RootAfterJoin ==
  ASSUME NEW j, LinksDown(j), NEW k, LinksDown(k),
         NEW p \in Task, NEW S \in SUBSET Task, j[p] = 0, p \notin S,
         \A c \in S : j[c] = 0,
         \A c \in Task : k[c] = IF c \in S THEN p + 1 ELSE j[c]
  PROVE  \A u \in Task :
           RootMap(k)[u] = IF RootMap(j)[u] \in S THEN p ELSE RootMap(j)[u]
<1> DEFINE R == RootMap(j)
           Q == RootMap(k)
           OK(u) == Q[u] = IF R[u] \in S THEN p ELSE R[u]
           Bad == {u \in Task : ~ OK(u)}
<1>1. SUFFICES ASSUME Bad # {} PROVE FALSE
  OBVIOUS
<1>2. Bad \in SUBSET Nat
  BY TaskFacts
<1>3. PICK u \in Bad : \A w \in Bad : u <= w
  BY <1>1, <1>2, LeastExists
<1>4. u \in Task /\ u \in Nat /\ ~ OK(u)
  BY <1>2
<1>5. /\ R[u] = IF j[u] = 0 THEN u ELSE R[j[u] - 1]
      /\ Q[u] = IF k[u] = 0 THEN u ELSE Q[k[u] - 1]
      /\ Q[p] = IF k[p] = 0 THEN p ELSE Q[k[p] - 1]
  BY <1>4, RootMapFacts
<1>6. k[p] = 0 /\ Q[p] = p /\ p \in Nat
  BY <1>5, TaskFacts
<1> HIDE DEF R, Q
<1>7. CASE u \in S
  <2>1. R[u] = u /\ k[u] = p + 1 /\ k[u] # 0 /\ k[u] - 1 = p
    BY <1>4, <1>5, <1>6, <1>7
  <2>2. QED
    BY <1>4, <1>5, <1>6, <1>7, <2>1
<1>8. CASE u \notin S /\ j[u] = 0
  BY <1>4, <1>5, <1>8
<1>9. CASE u \notin S /\ j[u] # 0
  <2> DEFINE w == j[u] - 1
  <2>1. j[u] \in Nat /\ j[u] <= MaxTasks /\ w < u /\ w \in Nat
    BY <1>4, <1>9, MaxTasksAssumption DEF LinksDown
  <2>2. w \in Task
    BY <1>4, <2>1, TaskFacts, MaxTasksAssumption DEF Task
  <2>3. ~ (u <= w)
    BY <1>4, <2>1
  <2>4. OK(w)
    BY <1>3, <2>2, <2>3
  <2>5. R[u] = R[w] /\ Q[u] = Q[w]
    BY <1>4, <1>5, <1>9
  <2>6. QED
    BY <1>4, <2>4, <2>5
<1>10. QED
  BY <1>7, <1>8, <1>9

LEMMA FindRootFacts ==
  ASSUME TasksTypeOK, JoinsetAcyclic
  PROVE  /\ LinksDown(joinset) /\ find_root = RootMap(joinset)
         /\ \A u \in Task :
              find_root[u] = IF joinset[u] = 0 THEN u ELSE find_root[joinset[u] - 1]
<1>1. LinksDown(joinset)
  BY DEF TasksTypeOK, JoinsetAcyclic, LinksDown
<1>2. find_root = RootMap(joinset)
  BY DEF find_root, RootMap
<1>3. QED
  BY <1>1, <1>2, RootMapFacts

LEMMA FindRootFactsNext ==
  ASSUME TasksTypeOK', JoinsetAcyclic'
  PROVE  /\ LinksDown(joinset') /\ find_root' = RootMap(joinset')
         /\ \A u \in Task :
              find_root'[u] = IF joinset'[u] = 0 THEN u ELSE find_root'[joinset'[u] - 1]
<1>1. LinksDown(joinset')
  BY DEF TasksTypeOK, JoinsetAcyclic, LinksDown
<1>2. find_root' = RootMap(joinset')
  BY DEF find_root, RootMap
<1>3. QED
  BY <1>1, <1>2, RootMapFacts

-----------------------------------------------------------------------------
(***************************************************************************)
(* Strict fork-join: main starts roots, every other task spawns children   *)
(* and waits for them before it returns.  Locks may be taken in between.   *)
(***************************************************************************)
ForkJoinStep ==
  \/ \E s, c \in Task : \/ Spawn(s, c) \/ SpawnAndWaitForAll(s, c)
                        \/ s = 0 /\ SpawnRootAndWait(s, c)
  \/ \E t \in Task : \/ ExecBegin(t) \/ (tbb_children[t] = {} /\ ExecEnd(t))
                     \/ WaitForAll(t) \/ WaitForAllReturn(t) \/ RootWaitReturn(t)
  \/ MainReturns
  \/ \E t \in Task, l \in Locks : LockAcquire(t, l) \/ LockRelease(t, l)

(***************************************************************************)
(* The invariant of the live tasks: those that no one has joined and that  *)
(* were not declared dead.  They form a tree in which a task is on the     *)
(* child list of its parent, and what a task knows of its ancestors leads  *)
(* down to it through child lists.                                         *)
(***************************************************************************)
Live(t) ==
  /\ t <= task_id_ctr /\ joinset[t] = 0
  /\ t = 0 \/ t > num_dead_tasks

Lists ==
  /\ \A p \in Task : child_list[p] = tbb_children[p] \cup tbb_roots[p]
  /\ \A t \in Task : t # 0 => tbb_roots[t] = {} /\ status[t] # "rootwait"
  /\ \A t \in Task : t # 0 /\ status[t] \in {"unborn", "ready", "finished"} =>
       tbb_children[t] = {}
  /\ tbb_children[0] = {}
  /\ status[0] \in {"running", "rootwait", "finished"}
  /\ status[0] = "rootwait" => tbb_roots[0] # {}
  /\ status[0] # "rootwait" => tbb_roots[0] = {} /\ num_dead_tasks = task_id_ctr

Family ==
  /\ \A p, c \in Task : c \in child_list[p] => parent_taskId[c] = p /\ c # 0 /\ Live(c)
  /\ \A c \in Task : Live(c) /\ c # 0 =>
       c \in child_list[parent_taskId[c]] /\ Live(parent_taskId[c])

(* The others are finished, and find_root leads from no task that was not  *)
(* declared dead to one that was.                                          *)
Gone ==
  /\ num_dead_tasks <= task_id_ctr
  /\ \A c \in Task : joinset[c] # 0 => c # 0 /\ c <= task_id_ctr /\ status[c] = "finished"
  /\ \A c \in Task : joinset[c] # 0 /\ c > num_dead_tasks => joinset[c] - 1 > num_dead_tasks
  /\ \A c \in Task : c # 0 /\ c <= num_dead_tasks => status[c] = "finished"

Clocks ==
  /\ \A t \in Task : t <= task_id_ctr => clock[t] > 0
  /\ dead_clock_value < clock[0]

Ancestry ==
  /\ \A t, u \in Task : ancClock[t][u] # 0 => u < t /\ depth(u) < depth(t)
  /\ \A t, u \in Task : Live(t) /\ ancClock[t][u] # 0 =>
       \E x \in child_list[u] : x = t \/ ancClock[t][x] # 0

(* A task takes over what its parent knows of the ancestors.               *)
Inherited ==
  \A c \in Task : c # 0 /\ c <= task_id_ctr =>
    /\ ancClock[c][parent_taskId[c]] # 0
    /\ \A u \in Task : u # parent_taskId[c] =>
         ancClock[c][u] = ancClock[parent_taskId[c]][u]

(* Nobody but a task itself knows its present segment while it goes on.    *)
Pasts ==
  /\ \A t \in Task : (t <= task_id_ctr => seg[t] > 0) /\ (t > task_id_ctr => seg[t] = 0)
  /\ \A t \in Task, n \in Nat : 0 < n /\ n < seg[t] => <<t, n>> \in before[t]
  /\ \A t, u \in Task, n \in Nat : <<u, n>> \in before[t] =>
       0 < n /\ n <= seg[u] /\ (n = seg[u] => status[u] = "finished")

ForkInv == Lists /\ Family /\ Gone /\ Clocks /\ Ancestry /\ Inherited /\ Pasts

LEMMA ForkInit == TasksInit => ForkInv
<1> SUFFICES ASSUME TasksInit PROVE ForkInv
  OBVIOUS
<1>1. /\ task_id_ctr = 0 /\ num_dead_tasks = 0 /\ dead_clock_value = 0
      /\ \A t \in Task : /\ joinset[t] = 0 /\ child_list[t] = {}
                         /\ tbb_children[t] = {} /\ tbb_roots[t] = {}
                         /\ before[t] = {}
      /\ \A t, u \in Task : ancClock[t][u] = 0
      /\ clock[0] = 1 /\ seg[0] = 1 /\ status[0] = "running"
      /\ \A t \in Task : t # 0 => seg[t] = 0 /\ status[t] = "unborn"
  BY TaskFacts DEF TasksInit, HBInit
<1>2. \A t \in Task : t <= 0 => t = 0
  BY TaskFacts
<1>3. Lists /\ Family /\ Gone
  BY <1>1, <1>2, TaskFacts DEF Lists, Family, Gone, Live
<1>4. Clocks /\ Ancestry /\ Inherited
  BY <1>1, <1>2 DEF Clocks, Ancestry, Inherited
<1>5. Pasts
  BY <1>1, <1>2, TaskFacts DEF Pasts
<1>6. QED
  BY <1>3, <1>4, <1>5 DEF ForkInv

(* A task that has begun and has not finished is live.                     *)
LEMMA ActiveIsLive ==
  ASSUME TasksTypeOK, TreeInv, ForkInv, NEW t \in Task,
         status[t] # "unborn", status[t] # "finished"
  PROVE  Live(t)
<1>1. t <= task_id_ctr
  BY ActiveIsInUse
<1>2. joinset[t] = 0
  BY DEF ForkInv, Gone
<1>3. t # 0 => ~ (t <= num_dead_tasks)
  BY DEF ForkInv, Gone
<1>4. t \in Nat /\ num_dead_tasks \in Nat
  BY TaskFacts DEF TasksTypeOK
<1>5. QED
  BY <1>1, <1>2, <1>3, <1>4 DEF Live

(***************************************************************************)
(* A spawn, variable by variable.                                          *)
(***************************************************************************)
ForkStep(s, c, next) ==
  /\ Running(s)
  /\ NewTaskId(c)
  /\ CaptureSpawn(s, s, c)
  /\ status' = [status EXCEPT ![c] = "ready", ![s] = next]
  /\ \/ /\ s # 0 /\ next \in {"running", "waiting"}
        /\ tbb_children' = [tbb_children EXCEPT ![s] = @ \cup {c}]
        /\ tbb_roots' = tbb_roots
     \/ /\ s = 0 /\ next = "rootwait"
        /\ tbb_roots' = [tbb_roots EXCEPT ![s] = {c}]
        /\ tbb_children' = tbb_children

LEMMA ForkFacts ==
  ASSUME TasksTypeOK, TreeInv, ForkInv, NEW s \in Task, NEW c \in Task, NEW next,
         ForkStep(s, c, next)
  PROVE  /\ s \in Nat /\ c \in Nat /\ task_id_ctr \in Nat
         /\ c = task_id_ctr + 1 /\ task_id_ctr' = c
         /\ s <= task_id_ctr /\ s # c /\ c # 0 /\ Live(s) /\ ~ Live(c)
         /\ joinset' = joinset /\ num_dead_tasks' = num_dead_tasks
         /\ dead_clock_value' = dead_clock_value
         /\ \A t \in Task : Live(t)' <=> Live(t) \/ t = c
<1>1. /\ s \in Nat /\ c \in Nat /\ task_id_ctr \in Nat /\ num_dead_tasks \in Nat
      /\ c = task_id_ctr + 1 /\ task_id_ctr' = c
      /\ \A t \in Task : t \in Nat
  BY TaskFacts DEF ForkStep, NewTaskId, TasksTypeOK
<1>2. Live(s) /\ s <= task_id_ctr
  BY ActiveIsLive DEF ForkStep, Running, Live
<1>3. s # c /\ c # 0 /\ ~ (c <= task_id_ctr)
  BY <1>1, <1>2
<1>4. joinset' = joinset /\ num_dead_tasks' = num_dead_tasks
      /\ dead_clock_value' = dead_clock_value
  BY DEF ForkStep, CaptureSpawn, deadVars
<1>5. joinset[c] = 0 /\ num_dead_tasks <= task_id_ctr
  BY <1>3 DEF ForkInv, Gone
<1>6. ASSUME NEW t \in Task PROVE Live(t)' <=> Live(t) \/ t = c
  <2>1. t <= task_id_ctr' <=> t <= task_id_ctr \/ t = c
    BY <1>1
  <2>2. c > num_dead_tasks
    BY <1>1, <1>5
  <2>3. QED
    BY <1>4, <1>5, <2>1, <2>2 DEF Live
<1>7. QED
  BY <1>1, <1>2, <1>3, <1>4, <1>6 DEF Live

LEMMA CaptureValues ==
  ASSUME TasksTypeOK, NEW s \in Task, NEW c \in Task, NEW next, s # c,
         CaptureSpawn(s, s, c), status' = [status EXCEPT ![c] = "ready", ![s] = next]
  PROVE  /\ status'[s] = next /\ status'[c] = "ready"
         /\ \A t \in Task : t # s /\ t # c => status'[t] = status[t]
         /\ seg'[s] = seg[s] + 1 /\ seg'[c] = 1
         /\ \A t \in Task : t # s /\ t # c => seg'[t] = seg[t]
         /\ before'[s] = before[s] \cup {<<s, seg[s]>>}
         /\ before'[c] = before[s] \cup {<<s, seg[s]>>}
         /\ \A t \in Task : t # s /\ t # c => before'[t] = before[t]
         /\ clock'[s] = clock[s] + 1 /\ clock'[c] = 1
         /\ \A t \in Task : t # s /\ t # c => clock'[t] = clock[t]
         /\ ancClock'[c][s] = clock[s]
         /\ \A u \in Task : u # s => ancClock'[c][u] = ancClock[s][u]
         /\ \A t \in Task : t # c => ancClock'[t] = ancClock[t]
         /\ m_vc'[c] = Append(m_vc[s], clock[s] + 1)
         /\ \A t \in Task : t # c => m_vc'[t] = m_vc[t]
         /\ depth(c)' = depth(s) + 1 /\ \A t \in Task : t # c => depth(t)' = depth(t)
         /\ parent_taskId'[c] = s
         /\ \A t \in Task : t # c => parent_taskId'[t] = parent_taskId[t]
         /\ child_list'[s] = child_list[s] \cup {c}
         /\ \A t \in Task : t # s => child_list'[t] = child_list[t]
<1>1. s # c /\ CaptureSpawn(s, s, c) /\ status' = [status EXCEPT ![c] = "ready", ![s] = next]
  OBVIOUS
<1>2. /\ status \in [Task -> Status] /\ seg \in [Task -> Nat]
      /\ before \in [Task -> SUBSET (Task \X Nat)] /\ clock \in [Task -> Nat]
      /\ ancClock \in [Task -> [Task -> Nat]] /\ m_vc \in [Task -> Seq(Nat)]
      /\ parent_taskId \in [Task -> Task] /\ child_list \in [Task -> SUBSET Task]
  BY DEF TasksTypeOK
<1>3. /\ status'[s] = next /\ status'[c] = "ready"
      /\ \A t \in Task : t # s /\ t # c => status'[t] = status[t]
  BY <1>1, <1>2
<1>4. /\ seg'[s] = seg[s] + 1 /\ seg'[c] = 1
      /\ \A t \in Task : t # s /\ t # c => seg'[t] = seg[t]
  BY <1>1, <1>2 DEF CaptureSpawn, HBFork
<1>5. /\ before'[s] = before[s] \cup {<<s, seg[s]>>}
      /\ before'[c] = before[s] \cup {<<s, seg[s]>>}
      /\ \A t \in Task : t # s /\ t # c => before'[t] = before[t]
  BY <1>1, <1>2 DEF CaptureSpawn, HBFork, PastOf
<1>6. /\ clock'[s] = clock[s] + 1 /\ clock'[c] = 1
      /\ \A t \in Task : t # s /\ t # c => clock'[t] = clock[t]
  BY <1>1, <1>2 DEF CaptureSpawn
<1>7. /\ ancClock'[c][s] = clock[s]
      /\ \A u \in Task : u # s => ancClock'[c][u] = ancClock[s][u]
      /\ \A t \in Task : t # c => ancClock'[t] = ancClock[t]
  BY <1>1, <1>2 DEF CaptureSpawn
<1>8. /\ m_vc'[c] = Append(m_vc[s], clock[s] + 1)
      /\ \A t \in Task : t # c => m_vc'[t] = m_vc[t]
  BY <1>1, <1>2 DEF CaptureSpawn
<1>9. depth(c)' = depth(s) + 1 /\ \A t \in Task : t # c => depth(t)' = depth(t)
  <2>1. m_vc[s] \in Seq(Nat) /\ clock[s] + 1 \in Nat
    BY <1>2
  <2>2. Len(Append(m_vc[s], clock[s] + 1)) = Len(m_vc[s]) + 1
    BY <2>1, AppendFacts
  <2>3. QED
    BY <1>8, <2>2 DEF depth
<1>10. /\ parent_taskId'[c] = s
       /\ \A t \in Task : t # c => parent_taskId'[t] = parent_taskId[t]
  BY <1>1, <1>2 DEF CaptureSpawn
<1>11. /\ child_list'[s] = child_list[s] \cup {c}
       /\ \A t \in Task : t # s => child_list'[t] = child_list[t]
  BY <1>1, <1>2 DEF CaptureSpawn
<1>12. QED
  BY <1>3, <1>4, <1>5, <1>6, <1>7, <1>8, <1>9, <1>10, <1>11

LEMMA ForkValues ==
  ASSUME TasksTypeOK, TreeInv, ForkInv, NEW s \in Task, NEW c \in Task, NEW next,
         ForkStep(s, c, next)
  PROVE  /\ status'[s] = next /\ status'[c] = "ready"
         /\ \A t \in Task : t # s /\ t # c => status'[t] = status[t]
         /\ seg'[s] = seg[s] + 1 /\ seg'[c] = 1
         /\ \A t \in Task : t # s /\ t # c => seg'[t] = seg[t]
         /\ before'[s] = before[s] \cup {<<s, seg[s]>>}
         /\ before'[c] = before[s] \cup {<<s, seg[s]>>}
         /\ \A t \in Task : t # s /\ t # c => before'[t] = before[t]
         /\ clock'[s] = clock[s] + 1 /\ clock'[c] = 1
         /\ \A t \in Task : t # s /\ t # c => clock'[t] = clock[t]
         /\ ancClock'[c][s] = clock[s]
         /\ \A u \in Task : u # s => ancClock'[c][u] = ancClock[s][u]
         /\ \A t \in Task : t # c => ancClock'[t] = ancClock[t]
         /\ m_vc'[c] = Append(m_vc[s], clock[s] + 1)
         /\ \A t \in Task : t # c => m_vc'[t] = m_vc[t]
         /\ depth(c)' = depth(s) + 1 /\ \A t \in Task : t # c => depth(t)' = depth(t)
         /\ parent_taskId'[c] = s
         /\ \A t \in Task : t # c => parent_taskId'[t] = parent_taskId[t]
         /\ child_list'[s] = child_list[s] \cup {c}
         /\ \A t \in Task : t # s => child_list'[t] = child_list[t]
<1>1. s # c /\ CaptureSpawn(s, s, c)
      /\ status' = [status EXCEPT ![c] = "ready", ![s] = next]
  BY ForkFacts DEF ForkStep
<1>2. QED
  BY <1>1, CaptureValues

(* A spawn keeps the tree of live tasks and the pasts.                     *)
LEMMA ForkKeepsInv ==
  ASSUME TasksTypeOK, TreeInv, ForkInv, NEW s \in Task, NEW c \in Task, NEW next,
         ForkStep(s, c, next)
  PROVE  ForkInv'
<1>1. /\ s \in Nat /\ c \in Nat /\ task_id_ctr \in Nat
      /\ c = task_id_ctr + 1 /\ task_id_ctr' = c
      /\ s <= task_id_ctr /\ s # c /\ c # 0 /\ Live(s) /\ ~ Live(c)
      /\ joinset' = joinset /\ num_dead_tasks' = num_dead_tasks
      /\ dead_clock_value' = dead_clock_value
      /\ \A t \in Task : Live(t)' <=> Live(t) \/ t = c
      /\ \A t \in Task : t \in Nat
      /\ num_dead_tasks \in Nat
  BY ForkFacts, TaskFacts DEF TasksTypeOK
<1>2. /\ status'[s] = next /\ status'[c] = "ready"
      /\ next \in {"running", "waiting", "rootwait"} /\ status[s] = "running"
      /\ \A t \in Task : t # s /\ t # c => status'[t] = status[t]
  <2>1. /\ status'[s] = next /\ status'[c] = "ready"
        /\ \A t \in Task : t # s /\ t # c => status'[t] = status[t]
    BY ForkValues
  <2>2. next \in {"running", "waiting", "rootwait"} /\ status[s] = "running"
    BY DEF ForkStep, Running
  <2>3. QED
    BY <2>1, <2>2
<1>3. /\ child_list'[s] = child_list[s] \cup {c}
      /\ \A t \in Task : t # s => child_list'[t] = child_list[t]
      /\ parent_taskId'[c] = s
      /\ \A t \in Task : t # c => parent_taskId'[t] = parent_taskId[t]
  BY ForkValues
<1>4. child_list[c] = {} /\ \A p \in Task : c \notin child_list[p]
  <2>1. status[c] = "unborn" /\ ~ Live(c)
    BY <1>1 DEF TreeInv, Unused
  <2>2. child_list[c] = {}
    BY <1>1, <2>1 DEF ForkInv, Lists
  <2>3. QED
    BY <2>1, <2>2 DEF ForkInv, Family
<1>5. Lists'
  <2>1. CASE s # 0 /\ next \in {"running", "waiting"}
    <3>1. /\ tbb_children' = [tbb_children EXCEPT ![s] = @ \cup {c}] /\ tbb_roots' = tbb_roots
      BY <2>1 DEF ForkStep
    <3>2. /\ tbb_children'[s] = tbb_children[s] \cup {c}
          /\ \A t \in Task : t # s => tbb_children'[t] = tbb_children[t]
      BY <3>1 DEF TasksTypeOK
    <3>3. status[0] = "rootwait"
      BY <1>1, <2>1 DEF Live, ForkInv, Lists
    <3>4. /\ \A p \in Task : child_list'[p] = tbb_children'[p] \cup tbb_roots'[p]
          /\ \A t \in Task : t # 0 => tbb_roots'[t] = {} /\ status'[t] # "rootwait"
          /\ tbb_children'[0] = {} /\ status'[0] = "rootwait" /\ tbb_roots'[0] # {}
      BY <1>1, <1>2, <1>3, <2>1, <3>1, <3>2, <3>3, TaskFacts DEF ForkInv, Lists
    <3>5. \A t \in Task : t # 0 /\ status'[t] \in {"unborn", "ready", "finished"} =>
             tbb_children'[t] = {}
      BY <1>2, <1>4, <2>1, <3>2 DEF ForkInv, Lists
    <3>6. QED
      BY <3>4, <3>5 DEF Lists
  <2>2. CASE s = 0 /\ next = "rootwait"
    <3>1. /\ tbb_roots' = [tbb_roots EXCEPT ![s] = {c}] /\ tbb_children' = tbb_children
      BY <2>2 DEF ForkStep
    <3>2. /\ tbb_roots'[s] = {c}
          /\ \A t \in Task : t # s => tbb_roots'[t] = tbb_roots[t]
      BY <3>1 DEF TasksTypeOK
    <3>3. tbb_roots[s] = {} /\ child_list[s] = {}
      BY <1>2, <2>2 DEF ForkInv, Lists
    <3>4. QED
      BY <1>1, <1>2, <1>3, <1>4, <2>2, <3>1, <3>2, <3>3 DEF ForkInv, Lists
  <2>3. QED
    BY <2>1, <2>2 DEF ForkStep
<1>6. Family'
  <2>1. ASSUME NEW p \in Task, NEW d \in Task, d \in child_list'[p]
        PROVE  parent_taskId'[d] = p /\ d # 0 /\ Live(d)'
    <3>1. CASE d \in child_list[p]
      BY <1>1, <1>3, <1>4, <3>1 DEF ForkInv, Family
    <3>2. CASE d \notin child_list[p]
      <4>1. p = s /\ d = c
        BY <1>3, <2>1, <3>2
      <4>2. QED
        BY <1>1, <1>3, <4>1
    <3>3. QED
      BY <3>1, <3>2
  <2>2. ASSUME NEW d \in Task, Live(d)', d # 0
        PROVE  d \in child_list'[parent_taskId'[d]] /\ parent_taskId'[d] \in Task
               /\ (Live(parent_taskId'[d]) \/ parent_taskId'[d] = c)
    <3>1. CASE d = c
      BY <1>1, <1>3, <3>1
    <3>2. CASE d # c
      <4>1. Live(d) /\ parent_taskId'[d] = parent_taskId[d] /\ parent_taskId[d] \in Task
        BY <1>1, <1>3, <2>2, <3>2 DEF TasksTypeOK
      <4>2. d \in child_list[parent_taskId[d]] /\ Live(parent_taskId[d])
        BY <2>2, <4>1 DEF ForkInv, Family
      <4>3. QED
        BY <1>3, <4>1, <4>2
    <3>3. QED
      BY <3>1, <3>2
  <2>3. \A x \in Task : Live(x) \/ x = c => Live(x)'
    BY <1>1
  <2>4. \A d \in Task : Live(d)' /\ d # 0 =>
          d \in child_list'[parent_taskId'[d]] /\ Live(parent_taskId[d])'
    <3>1. \A d \in Task : Live(parent_taskId[d])' <=>
            /\ parent_taskId'[d] <= task_id_ctr' /\ joinset'[parent_taskId'[d]] = 0
            /\ (parent_taskId'[d] = 0 \/ parent_taskId'[d] > num_dead_tasks')
      BY DEF Live
    <3>2. \A x \in Task : Live(x)' <=>
            /\ x <= task_id_ctr' /\ joinset'[x] = 0 /\ (x = 0 \/ x > num_dead_tasks')
      BY DEF Live
    <3>3. QED
      BY <2>2, <2>3, <3>1, <3>2
  <2>5. QED
    BY <2>1, <2>4 DEF Family
<1>7. Gone'
  <2>1. num_dead_tasks <= task_id_ctr /\ num_dead_tasks <= c
    BY <1>1 DEF ForkInv, Gone
  <2>2. \A t \in Task : status[t] = "finished" /\ t <= task_id_ctr =>
          status'[t] = "finished" /\ t <= task_id_ctr'
    BY <1>1, <1>2
  <2>3. QED
    BY <1>1, <2>1, <2>2 DEF ForkInv, Gone
<1>8. Clocks'
  <2>1. /\ clock'[s] = clock[s] + 1 /\ clock'[c] = 1
        /\ \A t \in Task : t # s /\ t # c => clock'[t] = clock[t]
        /\ \A t \in Task : clock[t] \in Nat
        /\ dead_clock_value \in Nat
    <3>1. /\ clock'[s] = clock[s] + 1 /\ clock'[c] = 1
          /\ \A t \in Task : t # s /\ t # c => clock'[t] = clock[t]
      BY ForkValues
    <3>2. (\A t \in Task : clock[t] \in Nat) /\ dead_clock_value \in Nat
      BY DEF TasksTypeOK
    <3>3. QED
      BY <3>1, <3>2
  <2>2. \A t \in Task : t <= c => t <= task_id_ctr \/ t = c
    BY <1>1
  <2>3. \A t \in Task : t <= c => clock'[t] > 0
    BY <2>1, <2>2 DEF ForkInv, Clocks
  <2>4. clock'[0] = clock[0] \/ clock'[0] = clock[0] + 1
    BY <1>1, <2>1, TaskFacts
  <2>5. dead_clock_value < clock'[0]
    BY <2>1, <2>4, TaskFacts DEF ForkInv, Clocks
  <2>6. QED
    BY <1>1, <2>3, <2>5 DEF Clocks
<1>9. Ancestry'
  <2>1. /\ ancClock'[c][s] = clock[s] /\ clock[s] > 0
        /\ \A u \in Task : u # s => ancClock'[c][u] = ancClock[s][u]
        /\ \A t \in Task : t # c => ancClock'[t] = ancClock[t]
        /\ depth(c)' = depth(s) + 1 /\ \A t \in Task : t # c => depth(t)' = depth(t)
        /\ \A t \in Task : depth(t) \in Nat
        /\ clock[s] \in Nat
    <3>1. /\ ancClock'[c][s] = clock[s]
          /\ \A u \in Task : u # s => ancClock'[c][u] = ancClock[s][u]
          /\ \A t \in Task : t # c => ancClock'[t] = ancClock[t]
          /\ depth(c)' = depth(s) + 1 /\ \A t \in Task : t # c => depth(t)' = depth(t)
      BY ForkValues
    <3>2. clock[s] \in Nat /\ clock[s] > 0 /\ \A t \in Task : m_vc[t] \in Seq(Nat)
      BY <1>1 DEF ForkInv, Clocks, TasksTypeOK
    <3>3. \A t \in Task : depth(t) \in Nat
      BY <3>2, LenProperties DEF depth
    <3>4. QED
      BY <3>1, <3>2, <3>3
  <2>2. ASSUME NEW t \in Task, NEW u \in Task, ancClock[t][u] # 0
        PROVE  u < t /\ depth(u) < depth(t) /\ u # c
    <3>1. u < t /\ depth(u) < depth(t)
      BY <2>2 DEF ForkInv, Ancestry
    <3>2. clock[u] # 0
      <4>1. ancClock[t][u] < clock[u]
        BY <2>2 DEF TreeInv, RecordedClocksArePast
      <4>2. ancClock[t][u] \in Nat /\ clock[u] \in Nat
        BY DEF TasksTypeOK
      <4>3. QED
        BY <4>1, <4>2
    <3>3. clock[c] = 0
      BY <1>1 DEF TreeInv, Unused
    <3>4. QED
      BY <3>1, <3>2, <3>3
  <2>3. ASSUME NEW t \in Task, NEW u \in Task, ancClock'[t][u] # 0
        PROVE  u < t /\ depth(u)' < depth(t)'
    <3>1. CASE t # c
      <4>1. u < t /\ depth(u) < depth(t) /\ u # c
        BY <2>1, <2>2, <2>3, <3>1
      <4>2. QED
        BY <2>1, <3>1, <4>1
    <3>2. CASE t = c /\ u = s
      <4>1. depth(u)' = depth(s) /\ depth(t)' = depth(s) + 1 /\ s < c
        BY <1>1, <2>1, <3>2
      <4>2. QED
        BY <2>1, <3>2, <4>1
    <3>3. CASE t = c /\ u # s
      <4>1. u < s /\ depth(u) < depth(s) /\ u # c
        BY <2>1, <2>2, <2>3, <3>3
      <4>2. depth(u)' = depth(u) /\ depth(t)' = depth(s) + 1
        BY <2>1, <3>3, <4>1
      <4>3. u < c
        BY <1>1, <4>1
      <4>4. QED
        BY <2>1, <3>3, <4>1, <4>2, <4>3
    <3>4. QED
      BY <3>1, <3>2, <3>3
  <2>4. \A u \in Task : child_list[u] \subseteq child_list'[u]
    BY <1>3
  <2>5. ASSUME NEW t \in Task, NEW u \in Task, Live(t)', ancClock'[t][u] # 0
        PROVE  \E x \in child_list'[u] : x = t \/ ancClock'[t][x] # 0
    <3>1. CASE t # c
      <4>1. Live(t) /\ ancClock[t][u] # 0
        BY <1>1, <2>1, <2>5, <3>1
      <4>2. PICK x \in child_list[u] : x = t \/ ancClock[t][x] # 0
        BY <4>1 DEF ForkInv, Ancestry
      <4>3. QED
        BY <2>1, <2>4, <3>1, <4>2
    <3>2. CASE t = c /\ u = s
      BY <1>3, <3>2
    <3>3. CASE t = c /\ u # s
      <4>1. ancClock[s][u] # 0
        BY <2>1, <2>5, <3>3
      <4>2. PICK x \in child_list[u] : x = s \/ ancClock[s][x] # 0
        BY <1>1, <4>1 DEF ForkInv, Ancestry
      <4>3. x \in Task /\ x \in child_list'[u]
        BY <2>4, <4>2 DEF TasksTypeOK
      <4>4. ancClock'[c][x] # 0
        BY <2>1, <4>2, <4>3
      <4>5. QED
        BY <3>3, <4>3, <4>4
    <3>4. QED
      BY <3>1, <3>2, <3>3
  <2>6. QED
    BY <2>3, <2>5 DEF Ancestry
<1>10. Pasts'
  <2>1. /\ seg'[s] = seg[s] + 1 /\ seg'[c] = 1
        /\ \A t \in Task : t # s /\ t # c => seg'[t] = seg[t]
        /\ before'[s] = before[s] \cup {<<s, seg[s]>>}
        /\ before'[c] = before[s] \cup {<<s, seg[s]>>}
        /\ \A t \in Task : t # s /\ t # c => before'[t] = before[t]
        /\ \A t \in Task : seg[t] \in Nat
    <3>1. /\ seg'[s] = seg[s] + 1 /\ seg'[c] = 1
          /\ \A t \in Task : t # s /\ t # c => seg'[t] = seg[t]
          /\ before'[s] = before[s] \cup {<<s, seg[s]>>}
          /\ before'[c] = before[s] \cup {<<s, seg[s]>>}
          /\ \A t \in Task : t # s /\ t # c => before'[t] = before[t]
      BY ForkValues
    <3>2. \A t \in Task : seg[t] \in Nat
      BY DEF TasksTypeOK
    <3>3. QED
      BY <3>1, <3>2
  <2>2. seg[c] = 0 /\ seg[s] > 0
    BY <1>1 DEF ForkInv, Pasts
  <2>3. \A t \in Task : (t <= c => seg'[t] > 0) /\ (t > c => seg'[t] = 0)
    <3>1. \A t \in Task : (t <= c <=> t <= task_id_ctr \/ t = c)
                          /\ (t > c => t > task_id_ctr /\ t # s /\ t # c)
      BY <1>1
    <3>2. seg'[s] > 0 /\ seg'[c] > 0
      BY <2>1, <2>2
    <3>3. QED
      BY <2>1, <3>1, <3>2 DEF ForkInv, Pasts
  <2>4. ASSUME NEW t \in Task, NEW n \in Nat, 0 < n, n < seg'[t]
        PROVE  <<t, n>> \in before'[t]
    <3>1. CASE t = s
      <4>1. n < seg[s] \/ n = seg[s]
        BY <2>1, <2>4, <3>1
      <4>2. n < seg[s] => <<s, n>> \in before[s]
        BY <2>4 DEF ForkInv, Pasts
      <4>3. QED
        BY <2>1, <3>1, <4>1, <4>2
    <3>2. CASE t = c
      BY <2>1, <2>4, <3>2
    <3>3. CASE t # s /\ t # c
      BY <2>1, <2>4, <3>3 DEF ForkInv, Pasts
    <3>4. QED
      BY <3>1, <3>2, <3>3
  <2>5. ASSUME NEW t \in Task, NEW u \in Task, NEW n \in Nat, <<u, n>> \in before[t]
        PROVE  /\ 0 < n /\ n <= seg'[u]
               /\ n = seg'[u] => status'[u] = "finished"
    <3>1. 0 < n /\ n <= seg[u] /\ (n = seg[u] => status[u] = "finished")
      BY <2>5 DEF ForkInv, Pasts
    <3>2. u # c
      BY <2>2, <3>1
    <3>3. CASE u = s
      <4>1. n <= seg'[u] /\ n # seg'[u]
        BY <2>1, <3>1, <3>3
      <4>2. QED
        BY <3>1, <4>1
    <3>4. CASE u # s
      BY <1>2, <2>1, <3>1, <3>2, <3>4
    <3>5. QED
      BY <3>3, <3>4
  <2>6. 0 < seg[s] /\ seg[s] <= seg'[s] /\ seg[s] # seg'[s]
    BY <2>1, <2>2
  <2>7. ASSUME NEW t \in Task, NEW u \in Task, NEW n \in Nat, <<u, n>> \in before'[t]
        PROVE  /\ 0 < n /\ n <= seg'[u]
               /\ n = seg'[u] => status'[u] = "finished"
    <3>1. (u = s /\ n = seg[s]) \/ \E x \in Task : <<u, n>> \in before[x]
      BY <2>1, <2>7
    <3>2. QED
      BY <2>5, <2>6, <3>1
  <2>8. QED
    BY <1>1, <2>3, <2>4, <2>7 DEF Pasts
<1>11. Inherited'
  <2>1. /\ ancClock'[c][s] = clock[s] /\ clock[s] # 0
        /\ \A u \in Task : u # s => ancClock'[c][u] = ancClock[s][u]
        /\ \A t \in Task : t # c => ancClock'[t] = ancClock[t]
    <3>1. clock[s] \in Nat /\ clock[s] > 0
      BY <1>1 DEF ForkInv, Clocks, TasksTypeOK
    <3>2. QED
      BY <3>1, ForkValues
  <2>2. ASSUME NEW d \in Task, d # 0, d <= c
        PROVE  /\ ancClock'[d][parent_taskId'[d]] # 0
               /\ \A u \in Task : u # parent_taskId'[d] =>
                    ancClock'[d][u] = ancClock'[parent_taskId'[d]][u]
    <3>1. CASE d = c
      BY <1>1, <1>3, <2>1, <3>1
    <3>2. CASE d # c
      <4>1. d <= task_id_ctr /\ d \in Born
        BY <1>1, <2>2, <3>2 DEF Born
      <4>2. parent_taskId[d] \in Task /\ parent_taskId[d] < d /\ parent_taskId[d] \in Nat
        BY <4>1, TaskFacts DEF TreeInv, Genealogy, TasksTypeOK
      <4>3. parent_taskId[d] # c
        BY <1>1, <4>1, <4>2
      <4>4. QED
        BY <1>3, <2>1, <2>2, <3>2, <4>1, <4>2, <4>3 DEF ForkInv, Inherited
    <3>3. QED
      BY <3>1, <3>2
  <2>3. QED
    BY <1>1, <2>2 DEF Inherited
<1>12. QED
  BY <1>5, <1>6, <1>7, <1>8, <1>9, <1>10, <1>11 DEF ForkInv

(***************************************************************************)
(* The return of a wait, variable by variable: t takes in its children S.  *)
(***************************************************************************)
ReturnStep(t, S) ==
  /\ S = child_list[t] /\ t \notin S /\ Live(t)
  /\ \A c \in S : /\ status[c] = "finished" /\ child_list[c] = {}
                  /\ parent_taskId[c] = t /\ c # 0 /\ Live(c)
  /\ status[t] \in {"waiting", "rootwait"}
  /\ status' = [status EXCEPT ![t] = "running"]
  /\ HBJoin(t, S)
  /\ \A c \in Task : child_list'[c] = IF c = t THEN {} ELSE child_list[c]
  /\ UNCHANGED <<m_vc, ancClock, parent_taskId, task_id_ctr, lockVars, history, raced>>

JoinStep(t, S) ==
  /\ ReturnStep(t, S)
  /\ t # 0 /\ status[t] = "waiting"
  /\ \A c \in Task : joinset'[c] = IF c \in S THEN t + 1 ELSE joinset[c]
  /\ tbb_children' = [tbb_children EXCEPT ![t] = {}]
  /\ UNCHANGED <<clock, deadVars, tbb_roots>>

(* When main returns from a wait, every task spawned so far has finished.  *)
DeadStep(S) ==
  /\ ReturnStep(0, S)
  /\ num_dead_tasks' = task_id_ctr
  /\ dead_clock_value' = clock[0]
  /\ clock' = [clock EXCEPT ![0] = @ + 1]
  /\ tbb_roots' = [tbb_roots EXCEPT ![0] = {}]
  /\ UNCHANGED <<joinset, tbb_children>>
  /\ \A c \in Task : Live(c) => c = 0 \/ c \in S
  /\ \A c \in Task : c # 0 /\ c <= task_id_ctr => status[c] = "finished"

(* The other steps change the status of a task or its locks.               *)
QuietStep ==
  /\ UNCHANGED <<taskVars, deadVars, orderVars, tbb_children, tbb_roots>>
  /\ \A t \in Task : status[t] = "finished" => status'[t] = "finished"
  /\ \A t \in Task : t # 0 /\ status'[t] \in {"unborn", "ready", "finished"} =>
       tbb_children[t] = {}
  /\ \A t \in Task : t # 0 => status'[t] # "rootwait"
  /\ status'[0] \in {"running", "rootwait", "finished"}
  /\ status'[0] = "rootwait" <=> status[0] = "rootwait"

(* When everything under main has finished, its children are all that is.  *)
LEMMA OnlyRoots ==
  ASSUME TasksTypeOK, TreeInv, ForkInv, \A c \in child_list[0] : child_list[c] = {}
  PROVE  \A c \in Task : Live(c) => c = 0 \/ c \in child_list[0]
<1> DEFINE Bad == {c \in Task : Live(c) /\ c # 0 /\ c \notin child_list[0]}
<1>1. SUFFICES ASSUME Bad # {} PROVE FALSE
  OBVIOUS
<1>2. Bad \in SUBSET Nat
  BY TaskFacts
<1>3. PICK c \in Bad : \A w \in Bad : c <= w
  BY <1>1, <1>2, LeastExists
<1> DEFINE p == parent_taskId[c]
<1>4. /\ c \in Task /\ c \in Nat /\ Live(c) /\ c # 0 /\ c \notin child_list[0]
      /\ p \in Task /\ p \in Nat
  BY <1>2, TaskFacts DEF TasksTypeOK
<1>5. c \in Born
  BY <1>4 DEF Live, Born, TasksTypeOK, Task
<1>6. p < c
  BY <1>5 DEF TreeInv, Genealogy
<1>7. c \in child_list[p] /\ Live(p)
  BY <1>4 DEF ForkInv, Family
<1>8. p # 0 /\ p \notin child_list[0]
  BY <1>4, <1>7
<1>9. p \in Bad
  BY <1>4, <1>7, <1>8
<1>10. c <= p
  BY <1>3, <1>9
<1> HIDE DEF p
<1>11. QED
  BY <1>4, <1>6, <1>10

(* Nobody below the finished children of t was left behind.                *)
LEMMA LeftBehindIsList ==
  ASSUME TasksTypeOK, NEW t \in Task, \A c \in child_list[t] : child_list[c] = {}
  PROVE  LeftBehind(t) = child_list[t]
<1>1. child_list[t] \in SUBSET Task
  BY DEF TasksTypeOK
<1>2. Adopts(child_list[t], t)
  BY DEF Adopts
<1>3. QED
  BY <1>1, <1>2 DEF LeftBehind, Adopts

LEMMA ReturnFacts ==
  ASSUME TasksTypeOK, TreeInv, ForkInv, NEW t \in Task, NEW state, NEW awaited,
         WaitReturn(t, state, awaited), state \in {"waiting", "rootwait"},
         awaited[t] = child_list[t]
  PROVE  /\ ReturnStep(t, child_list[t])
         /\ LeftBehind(t) = child_list[t]
<1>1. status[t] = state /\ Live(t)
  BY ActiveIsLive DEF WaitReturn
<1>2. child_list \in [Task -> SUBSET Task]
  BY DEF TasksTypeOK
<1>3. \A c \in child_list[t] : /\ c \in Task /\ status[c] = "finished"
                               /\ parent_taskId[c] = t /\ c # 0 /\ Live(c)
  BY <1>2 DEF ForkInv, Family, WaitReturn
<1>4. \A c \in child_list[t] : child_list[c] = {}
  BY <1>3 DEF ForkInv, Lists
<1>5. t \notin child_list[t]
  BY <1>1, <1>3
<1>6. LeftBehind(t) = child_list[t]
  BY <1>4, LeftBehindIsList
<1>7. \A c \in Task : child_list'[c] = IF c = t THEN {} ELSE child_list[c]
  <2>1. CASE child_list[t] = {} /\ child_list' = child_list
    BY <2>1
  <2>2. CASE t = 0 /\ DeclareDead
    BY <1>2, <2>2 DEF DeclareDead
  <2>3. CASE JoinChildren(t)
    BY <1>2, <1>4, <1>6, <2>3 DEF JoinChildren
  <2>4. QED
    BY <2>1, <2>2, <2>3 DEF WaitReturn, Capturewait_for_all
<1>8. QED
  BY <1>1, <1>3, <1>4, <1>5, <1>6, <1>7 DEF WaitReturn, ReturnStep

LEMMA JoinFacts ==
  ASSUME TasksTypeOK, TreeInv, ForkInv, NEW t \in Task, WaitForAllReturn(t)
  PROVE  JoinStep(t, child_list[t])
<1>1. status[t] = "waiting" /\ t # 0
  BY DEF WaitForAllReturn, WaitReturn, ForkInv, Lists
<1>2. tbb_children[t] = child_list[t]
  BY <1>1 DEF ForkInv, Lists
<1>3. ReturnStep(t, child_list[t]) /\ LeftBehind(t) = child_list[t]
  BY <1>2, ReturnFacts DEF WaitForAllReturn
<1>4. /\ \A c \in Task : joinset'[c] = IF c \in child_list[t] THEN t + 1 ELSE joinset[c]
      /\ UNCHANGED <<clock, deadVars>>
  <2>1. CASE child_list[t] = {} /\ UNCHANGED <<clock, child_list, joinset, deadVars>>
    BY <2>1
  <2>2. CASE JoinChildren(t)
    BY <1>3, <2>2 DEF JoinChildren, ReturnStep
  <2>3. QED
    BY <1>1, <2>1, <2>2 DEF WaitForAllReturn, WaitReturn, Capturewait_for_all
<1>5. QED
  BY <1>1, <1>3, <1>4 DEF JoinStep, WaitForAllReturn

LEMMA DeadFacts ==
  ASSUME TasksTypeOK, TreeInv, ForkInv, NEW t \in Task, RootWaitReturn(t)
  PROVE  t = 0 /\ DeadStep(child_list[0])
<1>1. status[t] = "rootwait" /\ t = 0
  BY DEF RootWaitReturn, WaitReturn, ForkInv, Lists
<1>2. tbb_roots[t] = child_list[t] /\ child_list[0] # {}
  BY <1>1 DEF ForkInv, Lists
<1>3. ReturnStep(t, child_list[t])
  BY <1>2, ReturnFacts DEF RootWaitReturn
<1>4. DeclareDead
  BY <1>1, <1>2 DEF RootWaitReturn, WaitReturn, Capturewait_for_all
<1>5. \A c \in Task : Live(c) => c = 0 \/ c \in child_list[0]
  BY <1>1, <1>3, OnlyRoots DEF ReturnStep
<1>6. ASSUME NEW c \in Task, c # 0, c <= task_id_ctr PROVE status[c] = "finished"
  <2>1. CASE Live(c)
    BY <1>1, <1>3, <1>5, <1>6, <2>1 DEF ReturnStep
  <2>2. CASE joinset[c] # 0
    BY <2>2 DEF ForkInv, Gone
  <2>3. CASE ~ (c > num_dead_tasks)
    <3>1. c \in Nat /\ num_dead_tasks \in Nat
      BY TaskFacts DEF TasksTypeOK
    <3>2. c <= num_dead_tasks
      BY <2>3, <3>1
    <3>3. QED
      BY <1>6, <3>2 DEF ForkInv, Gone
  <2>4. QED
    BY <1>6, <2>1, <2>2, <2>3 DEF Live
<1>7. QED
  BY <1>1, <1>3, <1>4, <1>5, <1>6 DEF DeclareDead, DeadStep, RootWaitReturn

(* What every return of a wait does to the pasts.                          *)
LEMMA ReturnValues ==
  ASSUME TasksTypeOK, NEW t \in Task, NEW S \in SUBSET Task, ReturnStep(t, S)
  PROVE  /\ seg'[t] = seg[t] + 1 /\ \A u \in Task : u # t => seg'[u] = seg[u]
         /\ \A u \in Task : u # t => before'[u] = before[u]
         /\ \A x : x \in before'[t] <=>
              \/ x \in before[t] \/ x = <<t, seg[t]>>
              \/ \E c \in S : x \in before[c] \/ x = <<c, seg[c]>>
         /\ status'[t] = "running" /\ \A u \in Task : u # t => status'[u] = status[u]
<1>1. seg \in [Task -> Nat] /\ before \in [Task -> SUBSET (Task \X Nat)]
      /\ status \in [Task -> Status]
  BY DEF TasksTypeOK
<1>2. /\ seg' = [seg EXCEPT ![t] = @ + 1]
      /\ before' = [before EXCEPT ![t] = PastOf(t) \cup UNION {PastOf(c) : c \in S}]
      /\ status' = [status EXCEPT ![t] = "running"]
  BY DEF ReturnStep, HBJoin
<1>3. \A x : x \in before'[t] <=> x \in PastOf(t) \/ \E c \in S : x \in PastOf(c)
  BY <1>1, <1>2
<1>4. \A x, u : x \in PastOf(u) <=> x \in before[u] \/ x = <<u, seg[u]>>
  BY DEF PastOf
<1>5. \A x : x \in before'[t] <=>
              \/ x \in before[t] \/ x = <<t, seg[t]>>
              \/ \E c \in S : x \in before[c] \/ x = <<c, seg[c]>>
  BY <1>3, <1>4
<1>6. QED
  BY <1>1, <1>2, <1>5

LEMMA ReturnKeepsPasts ==
  ASSUME TasksTypeOK, TreeInv, ForkInv, NEW t \in Task, NEW S \in SUBSET Task,
         ReturnStep(t, S)
  PROVE  Pasts'
<1>1. /\ seg'[t] = seg[t] + 1 /\ \A u \in Task : u # t => seg'[u] = seg[u]
      /\ \A u \in Task : u # t => before'[u] = before[u]
      /\ \A x : x \in before'[t] <=>
           \/ x \in before[t] \/ x = <<t, seg[t]>>
           \/ \E c \in S : x \in before[c] \/ x = <<c, seg[c]>>
      /\ status'[t] = "running" /\ \A u \in Task : u # t => status'[u] = status[u]
  BY ReturnValues
<1>2. /\ \A u \in Task : seg[u] \in Nat
      /\ Live(t) /\ t <= task_id_ctr /\ seg[t] > 0
      /\ task_id_ctr' = task_id_ctr
      /\ status[t] # "finished"
      /\ \A c \in S : status[c] = "finished" /\ Live(c) /\ c # t /\ seg[c] > 0
  BY DEF TasksTypeOK, ReturnStep, Live, ForkInv, Pasts
<1>3. \A u \in Task : (u <= task_id_ctr => seg'[u] > 0) /\ (u > task_id_ctr => seg'[u] = 0)
  <2>1. seg'[t] > 0
    BY <1>1, <1>2
  <2>2. task_id_ctr \in Nat /\ t \in Nat
    BY TaskFacts DEF TasksTypeOK
  <2>3. ~ (t > task_id_ctr)
    BY <1>2, <2>2
  <2>4. QED
    BY <1>1, <2>1, <2>3 DEF ForkInv, Pasts
<1>4. ASSUME NEW u \in Task, NEW n \in Nat, 0 < n, n < seg'[u]
      PROVE  <<u, n>> \in before'[u]
  <2>1. CASE u = t
    <3>1. n < seg[t] \/ n = seg[t]
      BY <1>1, <1>2, <1>4, <2>1
    <3>2. n < seg[t] => <<t, n>> \in before[t]
      BY <1>4 DEF ForkInv, Pasts
    <3>3. QED
      BY <1>1, <2>1, <3>1, <3>2
  <2>2. CASE u # t
    BY <1>1, <1>4, <2>2 DEF ForkInv, Pasts
  <2>3. QED
    BY <2>1, <2>2
<1>5. ASSUME NEW d \in Task, NEW u \in Task, NEW n \in Nat, <<u, n>> \in before'[d]
      PROVE  0 < n /\ n <= seg'[u] /\ (n = seg'[u] => status'[u] = "finished")
  <2>1. \/ \E w \in Task : <<u, n>> \in before[w]
        \/ u = t /\ n = seg[t]
        \/ u \in S /\ n = seg[u]
    BY <1>1, <1>5
  <2>2. CASE u = t /\ n = seg[t]
    <3>1. n <= seg'[t] /\ n # seg'[t] /\ 0 < n
      BY <1>1, <1>2, <2>2
    <3>2. QED
      BY <2>2, <3>1
  <2>3. CASE u \in S /\ n = seg[u]
    <3>1. n <= seg[u] /\ 0 < n
      BY <1>2, <2>3
    <3>2. QED
      BY <1>1, <1>2, <2>3, <3>1
  <2>4. CASE \E w \in Task : <<u, n>> \in before[w]
    <3>1. 0 < n /\ n <= seg[u] /\ (n = seg[u] => status[u] = "finished")
      BY <2>4 DEF ForkInv, Pasts
    <3>2. CASE u = t
      <4>1. n <= seg'[t] /\ n # seg'[t]
        BY <1>1, <1>2, <3>1, <3>2
      <4>2. QED
        BY <3>1, <3>2, <4>1
    <3>3. CASE u # t
      BY <1>1, <3>1, <3>3
    <3>4. QED
      BY <3>2, <3>3
  <2>5. QED
    BY <2>1, <2>2, <2>3, <2>4
<1>6. QED
  BY <1>2, <1>3, <1>4, <1>5 DEF Pasts

LEMMA JoinKeepsInv ==
  ASSUME TasksTypeOK, TreeInv, ForkInv, NEW t \in Task, NEW S \in SUBSET Task,
         JoinStep(t, S)
  PROVE  /\ ForkInv'
         /\ \A u \in Task : Live(u)' <=> Live(u) /\ u \notin S
<1>1. ReturnStep(t, S) /\ t # 0 /\ S = child_list[t] /\ t \notin S /\ Live(t)
  BY DEF JoinStep, ReturnStep
<1>2. /\ \A u \in Task : child_list'[u] = IF u = t THEN {} ELSE child_list[u]
      /\ \A u \in Task : joinset'[u] = IF u \in S THEN t + 1 ELSE joinset[u]
      /\ UNCHANGED <<m_vc, ancClock, clock, parent_taskId, task_id_ctr,
                     num_dead_tasks, dead_clock_value, tbb_roots>>
      /\ tbb_children' = [tbb_children EXCEPT ![t] = {}]
  BY DEF JoinStep, ReturnStep, deadVars
<1>3. /\ \A c \in S : /\ c \in Task /\ status[c] = "finished" /\ child_list[c] = {}
                      /\ parent_taskId[c] = t /\ c # 0 /\ Live(c)
  BY DEF ReturnStep, JoinStep
<1>4. /\ status[t] = "waiting" /\ status'[t] = "running"
      /\ \A u \in Task : u # t => status'[u] = status[u]
  BY <1>1, ReturnValues DEF JoinStep
<1>5. t \in Nat /\ num_dead_tasks \in Nat /\ t + 1 # 0 /\ (t + 1) - 1 = t
      /\ t > num_dead_tasks
  <2>1. t \in Nat /\ num_dead_tasks \in Nat
    BY TaskFacts DEF TasksTypeOK
  <2>2. t > num_dead_tasks
    BY <1>1 DEF Live
  <2>3. QED
    BY <2>1, <2>2
<1>6. \A u \in Task : Live(u)' <=> Live(u) /\ u \notin S
  BY <1>2, <1>5 DEF Live
<1>7. Lists'
  <2>1. /\ tbb_children'[t] = {}
        /\ \A u \in Task : u # t => tbb_children'[u] = tbb_children[u]
    BY <1>2 DEF TasksTypeOK
  <2>2. tbb_roots[t] = {}
    BY <1>1 DEF ForkInv, Lists
  <2>3. QED
    BY <1>1, <1>2, <1>4, <2>1, <2>2, TaskFacts DEF ForkInv, Lists
<1>8. Family'
  <2>1. \A p, c \in Task : c \in child_list'[p] =>
           p # t /\ c \in child_list[p] /\ parent_taskId[c] = p
    BY <1>2 DEF ForkInv, Family
  <2>2. \A p, c \in Task : c \in child_list'[p] => c \notin S /\ Live(c) /\ c # 0
    BY <1>3, <2>1 DEF ForkInv, Family
  <2>3. \A p, c \in Task : c \in child_list'[p] => parent_taskId'[c] = p /\ c # 0 /\ Live(c)'
    BY <1>2, <1>6, <2>1, <2>2
  <2>4. ASSUME NEW c \in Task, Live(c)', c # 0
        PROVE  c \in child_list'[parent_taskId'[c]] /\ Live(parent_taskId[c])'
    <3>1. Live(c) /\ c \notin S
      BY <1>6, <2>4
    <3>2. /\ c \in child_list[parent_taskId[c]] /\ Live(parent_taskId[c])
          /\ parent_taskId[c] \in Task
      BY <2>4, <3>1 DEF ForkInv, Family, TasksTypeOK
    <3>3. parent_taskId[c] # t /\ parent_taskId[c] \notin S
      BY <1>1, <1>3, <3>1, <3>2
    <3>4. /\ parent_taskId[c] <= task_id_ctr /\ joinset'[parent_taskId[c]] = 0
          /\ (parent_taskId[c] = 0 \/ parent_taskId[c] > num_dead_tasks)
      BY <1>2, <3>2, <3>3 DEF Live
    <3>5. Live(parent_taskId[c])'
      BY <1>2, <3>4 DEF Live
    <3>6. QED
      BY <1>2, <3>2, <3>3, <3>5
  <2>5. QED
    BY <2>3, <2>4 DEF Family
<1>9. Gone'
  <2>1. ASSUME NEW c \in Task, joinset'[c] # 0
        PROVE  /\ c # 0 /\ c <= task_id_ctr /\ status'[c] = "finished"
               /\ c > num_dead_tasks => joinset'[c] - 1 > num_dead_tasks
    <3>1. CASE c \in S
      BY <1>1, <1>2, <1>3, <1>4, <1>5, <3>1 DEF Live
    <3>2. CASE c \notin S
      <4>1. joinset'[c] = joinset[c]
        BY <1>2, <3>2
      <4>2. QED
        BY <1>4, <2>1, <4>1 DEF ForkInv, Gone
    <3>3. QED
      BY <3>1, <3>2
  <2>2. \A c \in Task : c # 0 /\ c <= num_dead_tasks => status'[c] = "finished"
    <3>1. ~ (t <= num_dead_tasks)
      BY <1>5
    <3>2. QED
      BY <1>4, <3>1 DEF ForkInv, Gone
  <2>3. QED
    BY <1>2, <2>1, <2>2 DEF ForkInv, Gone
<1>10. Clocks'
  BY <1>2 DEF ForkInv, Clocks
<1>11. Ancestry'
  <2>1. \A d, u \in Task : ancClock'[d][u] # 0 => u < d /\ depth(u)' < depth(d)'
    BY <1>2 DEF ForkInv, Ancestry, depth
  <2>2. ASSUME NEW d \in Task, NEW u \in Task, Live(d)', ancClock[d][u] # 0
        PROVE  \E x \in child_list'[u] : x = d \/ ancClock[d][x] # 0
    <3>1. Live(d) /\ d \notin S
      BY <1>6, <2>2
    <3>2. PICK x \in child_list[u] : x = d \/ ancClock[d][x] # 0
      BY <2>2, <3>1 DEF ForkInv, Ancestry
    <3>3. u # t
      <4>1. SUFFICES ASSUME u = t PROVE FALSE
        OBVIOUS
      <4>2. x \in S /\ ancClock[d][x] # 0 /\ x \in Task
        BY <1>1, <3>1, <3>2, <4>1
      <4>3. \E y \in child_list[x] : y = d \/ ancClock[d][y] # 0
        BY <3>1, <4>2 DEF ForkInv, Ancestry
      <4>4. QED
        BY <1>3, <4>2, <4>3
    <3>4. QED
      BY <1>2, <3>2, <3>3
  <2>3. QED
    BY <1>2, <2>1, <2>2 DEF Ancestry
<1>12. Pasts'
  BY <1>1, ReturnKeepsPasts
<1>13. Inherited'
  BY <1>2 DEF ForkInv, Inherited
<1>14. QED
  BY <1>6, <1>7, <1>8, <1>9, <1>10, <1>11, <1>12, <1>13 DEF ForkInv

LEMMA DeadKeepsInv ==
  ASSUME TasksTypeOK, TreeInv, ForkInv, NEW S \in SUBSET Task, DeadStep(S)
  PROVE  /\ ForkInv'
         /\ \A u \in Task : Live(u)' <=> u = 0
<1>1. 0 \in Task /\ ReturnStep(0, S) /\ S = child_list[0]
  BY TaskFacts DEF DeadStep, ReturnStep
<1>2. /\ \A u \in Task : child_list'[u] = IF u = 0 THEN {} ELSE child_list[u]
      /\ UNCHANGED <<m_vc, ancClock, joinset, parent_taskId, task_id_ctr, tbb_children>>
      /\ num_dead_tasks' = task_id_ctr /\ dead_clock_value' = clock[0]
      /\ clock' = [clock EXCEPT ![0] = @ + 1]
      /\ tbb_roots' = [tbb_roots EXCEPT ![0] = {}]
  BY DEF DeadStep, ReturnStep
<1>3. /\ status'[0] = "running"
      /\ \A u \in Task : u # 0 => status'[u] = status[u]
  BY <1>1, ReturnValues
<1>4. /\ \A u \in Task : u \in Nat
      /\ task_id_ctr \in Nat
      /\ clock \in [Task -> Nat]
  BY TaskFacts DEF TasksTypeOK
<1>5. joinset[0] = 0 /\ 0 <= task_id_ctr
  BY <1>1, <1>4 DEF ForkInv, Gone
<1>6. \A u \in Task : Live(u)' <=> u = 0
  <2>1. \A u \in Task : ~ (u <= task_id_ctr /\ u > task_id_ctr)
    BY <1>4
  <2>2. QED
    BY <1>2, <1>5, <2>1 DEF Live
<1>7. \A c \in Task : c # 0 /\ c <= task_id_ctr => status[c] = "finished"
  BY DEF DeadStep
<1>8. \A u \in Task : u # 0 => child_list[u] = {}
  <2>1. ASSUME NEW u \in Task, u # 0 PROVE status[u] \in {"unborn", "finished"}
    <3>1. u <= task_id_ctr \/ u > task_id_ctr
      BY <1>4
    <3>2. QED
      BY <1>7, <2>1, <3>1 DEF TreeInv, Unused
  <2>2. QED
    BY <2>1 DEF ForkInv, Lists
<1>9. \A u \in Task : child_list'[u] = {}
  BY <1>2, <1>8
<1>10. Lists'
  <2>1. /\ tbb_roots'[0] = {}
        /\ \A u \in Task : u # 0 => tbb_roots'[u] = tbb_roots[u]
    BY <1>1, <1>2 DEF TasksTypeOK
  <2>2. QED
    BY <1>1, <1>2, <1>3, <2>1 DEF ForkInv, Lists
<1>11. Family'
  BY <1>6, <1>9 DEF Family
<1>12. Gone'
  <2>1. task_id_ctr <= task_id_ctr /\ \A c \in Task : ~ (c <= task_id_ctr /\ c > task_id_ctr)
    BY <1>4
  <2>2. QED
    BY <1>2, <1>3, <1>7, <2>1 DEF ForkInv, Gone
<1>13. Clocks'
  <2>1. clock'[0] = clock[0] + 1 /\ clock[0] \in Nat
        /\ \A u \in Task : u # 0 => clock'[u] = clock[u]
    BY <1>1, <1>2, <1>4
  <2>2. clock'[0] > 0 /\ clock[0] < clock'[0]
    BY <2>1
  <2>3. QED
    BY <1>2, <2>1, <2>2 DEF ForkInv, Clocks
<1>14. Ancestry'
  <2>1. \A d, u \in Task : ancClock'[d][u] # 0 => u < d /\ depth(u)' < depth(d)'
    BY <1>2 DEF ForkInv, Ancestry, depth
  <2>2. \A u \in Task : ancClock'[0][u] = 0
    <3>1. \A u \in Task : ~ (u < 0)
      BY <1>4
    <3>2. QED
      BY <1>1, <2>1, <3>1
  <2>3. QED
    BY <1>6, <2>1, <2>2 DEF Ancestry
<1>15. Pasts'
  BY <1>1, ReturnKeepsPasts
<1>16. Inherited'
  BY <1>2 DEF ForkInv, Inherited
<1>17. QED
  BY <1>6, <1>10, <1>11, <1>12, <1>13, <1>14, <1>15, <1>16 DEF ForkInv

LEMMA QuietKeepsInv ==
  ASSUME TasksTypeOK, TreeInv, ForkInv, QuietStep
  PROVE  /\ ForkInv'
         /\ \A u \in Task : Live(u)' <=> Live(u)
<1>1. /\ UNCHANGED <<m_vc, ancClock, clock, parent_taskId, child_list, joinset,
                     task_id_ctr, num_dead_tasks, dead_clock_value, seg, before,
                     tbb_children, tbb_roots>>
      /\ \A t \in Task : status[t] = "finished" => status'[t] = "finished"
  BY DEF QuietStep, taskVars, deadVars, orderVars
<1>2. \A u \in Task : Live(u)' <=> Live(u)
  BY <1>1 DEF Live
<1>3. Lists'
  BY <1>1 DEF ForkInv, Lists, QuietStep
<1>4. Family'
  <2>1. \A c \in Task : Live(parent_taskId[c])' <=> Live(parent_taskId[c])
    BY <1>1 DEF Live
  <2>2. QED
    BY <1>1, <1>2, <2>1 DEF ForkInv, Family
<1>5. Gone' /\ Clocks'
  BY <1>1 DEF ForkInv, Gone, Clocks
<1>6. Ancestry' /\ Inherited'
  BY <1>1, <1>2 DEF ForkInv, Ancestry, Inherited, depth
<1>7. Pasts'
  BY <1>1 DEF ForkInv, Pasts
<1>8. QED
  BY <1>2, <1>3, <1>4, <1>5, <1>6, <1>7 DEF ForkInv

(***************************************************************************)
(* Every step of a strict fork-join program is one of the four.            *)
(***************************************************************************)
LEMMA ForkIsFork ==
  ASSUME NEW s \in Task, NEW c \in Task,
         \/ Spawn(s, c) \/ SpawnAndWaitForAll(s, c)
         \/ s = 0 /\ SpawnRootAndWait(s, c)
  PROVE  \E next : ForkStep(s, c, next)
<1>1. CASE Spawn(s, c)
  BY <1>1 DEF Spawn, SpawnThen, ForkStep
<1>2. CASE SpawnAndWaitForAll(s, c)
  BY <1>2 DEF SpawnAndWaitForAll, SpawnThen, ForkStep
<1>3. CASE s = 0 /\ SpawnRootAndWait(s, c)
  BY <1>3 DEF SpawnRootAndWait, ForkStep
<1>4. QED
  BY <1>1, <1>2, <1>3

LEMMA MoveIsQuiet ==
  ASSUME TasksTypeOK, ForkInv, NEW t \in Task, NEW next,
         status[t] = "ready" \/ status[t] = "running",
         status' = [status EXCEPT ![t] = next],
         \/ next = "running"
         \/ next = "waiting" /\ t # 0
         \/ next = "finished" /\ (t # 0 => tbb_children[t] = {}),
         UNCHANGED <<taskVars, deadVars, orderVars, tbb_children, tbb_roots>>
  PROVE  QuietStep
<1>1. /\ status'[t] = next /\ \A u \in Task : u # t => status'[u] = status[u]
      /\ 0 \in Task
  BY TaskFacts DEF TasksTypeOK
<1>2. \A u \in Task : status[u] = "finished" => status'[u] = "finished"
  BY <1>1
<1>3. \A u \in Task : u # 0 /\ status'[u] \in {"unborn", "ready", "finished"} =>
         tbb_children[u] = {}
  BY <1>1 DEF ForkInv, Lists
<1>4. \A u \in Task : u # 0 => status'[u] # "rootwait"
  BY <1>1 DEF ForkInv, Lists
<1>5. /\ status'[0] \in {"running", "rootwait", "finished"}
      /\ status'[0] = "rootwait" <=> status[0] = "rootwait"
  BY <1>1 DEF ForkInv, Lists
<1>6. QED
  BY <1>2, <1>3, <1>4, <1>5 DEF QuietStep

LEMMA StillIsQuiet ==
  ASSUME ForkInv, UNCHANGED <<tbbVars, taskVars, deadVars, orderVars>>
  PROVE  QuietStep
<1>1. UNCHANGED <<status, tbb_children, tbb_roots>>
  BY DEF tbbVars
<1>2. QED
  BY <1>1 DEF ForkInv, Lists, QuietStep

LEMMA FourSteps ==
  ASSUME TasksTypeOK, TreeInv, ForkInv, ForkJoinStep
  PROVE  \/ \E s, c \in Task : \E next : ForkStep(s, c, next)
         \/ \E t \in Task : JoinStep(t, child_list[t])
         \/ DeadStep(child_list[0])
         \/ QuietStep
<1>1. ASSUME NEW t \in Task, ExecBegin(t) PROVE QuietStep
  <2>1. t # 0 /\ child_list[t] = {}
    BY <1>1 DEF ExecBegin, ForkInv, Lists
  <2>2. child_list' = child_list
    BY <1>1, <2>1 DEF ExecBegin, TasksTypeOK
  <2>3. UNCHANGED <<taskVars, deadVars, orderVars, tbb_children, tbb_roots>>
    BY <1>1, <2>2 DEF ExecBegin, taskVars, hbVars
  <2>4. QED
    BY <1>1, <2>1, <2>3, MoveIsQuiet DEF ExecBegin
<1>2. ASSUME NEW t \in Task, tbb_children[t] = {}, ExecEnd(t) PROVE QuietStep
  <2>1. /\ status[t] = "running"
        /\ status' = [status EXCEPT ![t] = "finished"]
        /\ UNCHANGED <<taskVars, deadVars, orderVars, tbb_children, tbb_roots>>
    BY <1>2 DEF ExecEnd, Running, hbVars
  <2>2. QED
    BY <1>2, <2>1, MoveIsQuiet
<1>3. ASSUME NEW t \in Task, WaitForAll(t) PROVE QuietStep
  <2>1. t # 0
    BY <1>3 DEF WaitForAll, ForkInv, Lists
  <2>2. /\ status[t] = "running"
        /\ status' = [status EXCEPT ![t] = "waiting"]
        /\ UNCHANGED <<taskVars, deadVars, orderVars, tbb_children, tbb_roots>>
    BY <1>3 DEF WaitForAll, Running, hbVars
  <2>3. QED
    BY <2>1, <2>2, MoveIsQuiet
<1>4. ASSUME MainReturns PROVE QuietStep
  <2>1. /\ status[0] = "running" /\ 0 \in Task
        /\ status' = [status EXCEPT ![0] = "finished"]
        /\ UNCHANGED <<taskVars, deadVars, orderVars, tbb_children, tbb_roots>>
    BY <1>4, TaskFacts DEF MainReturns, Running, hbVars
  <2>2. QED
    BY <2>1, MoveIsQuiet
<1>5. ASSUME NEW t \in Task, NEW l \in Locks, LockAcquire(t, l) \/ LockRelease(t, l)
      PROVE  QuietStep
  BY <1>5, StillIsQuiet DEF LockAcquire, LockRelease, hbVars
<1>6. QED
  BY <1>1, <1>2, <1>3, <1>4, <1>5, ForkIsFork, JoinFacts, DeadFacts DEF ForkJoinStep

LEMMA ForkInvStep ==
  ASSUME TasksTypeOK, TreeInv, ForkInv, ForkJoinStep
  PROVE  ForkInv'
<1>1. child_list \in [Task -> SUBSET Task] /\ 0 \in Task
  BY TaskFacts DEF TasksTypeOK
<1>2. QED
  BY <1>1, FourSteps, ForkKeepsInv, JoinKeepsInv, DeadKeepsInv, QuietKeepsInv

-----------------------------------------------------------------------------
(***************************************************************************)
(* The verdict of OrderedBefore and the truth.  A live task takes an event *)
(* of segment n of u, recorded at the clock k, for past exactly when it is *)
(* past; what is declared dead is past for all.                            *)
(***************************************************************************)
Judged(t, u, n, k) ==
  IF check_dead(u, k) THEN <<u, n>> \in before[t]
  ELSE <<u, n>> \in before[t] <=> OrderedBefore(t, u, k)

Good(u, n, k) ==
  /\ u <= task_id_ctr /\ 0 < n /\ n <= seg[u] /\ 0 < k /\ k <= clock[u]
  /\ \A t \in Task : Live(t) /\ t # u => Judged(t, u, n, k)

(* The verdict in terms of what t has recorded of its ancestors.           *)
Verdict(t, u, k, anc, root) ==
  \/ anc[t][u] # 0 /\ k <= anc[t][u]
  \/ anc[t][u] = 0 /\ (root[u] = t \/ anc[t][root[u]] # 0)

LEMMA ParentClockIs ==
  ASSUME TasksTypeOK, ForkInv, NEW t \in Task, NEW u \in Task
  PROVE  parent_clock(t, u) = ancClock[t][u]
<1>1. depth(t) \in Nat /\ depth(u) \in Nat
  BY LenProperties DEF depth, TasksTypeOK
<1>2. ancClock[t][u] # 0 => depth(u) < depth(t)
  BY DEF ForkInv, Ancestry
<1>3. QED
  BY <1>1, <1>2 DEF parent_clock

LEMMA ParentClockIsNext ==
  ASSUME TasksTypeOK', ForkInv', NEW t \in Task, NEW u \in Task
  PROVE  parent_clock(t, u)' = ancClock'[t][u]
<1>1. depth(t)' \in Nat /\ depth(u)' \in Nat
  BY LenProperties DEF depth, TasksTypeOK
<1>2. ancClock'[t][u] # 0 => depth(u)' < depth(t)'
  BY DEF ForkInv, Ancestry
<1>3. QED
  BY <1>1, <1>2 DEF parent_clock

LEMMA RootOf ==
  ASSUME TasksTypeOK, TreeInv, ForkInv, NEW u \in Task
  PROVE  /\ find_root[u] \in Task /\ joinset[find_root[u]] = 0 /\ find_root[u] <= u
         /\ u > num_dead_tasks => find_root[u] > num_dead_tasks
         /\ joinset[u] = 0 => find_root[u] = u
<1>1. LinksDown(joinset) /\ find_root = RootMap(joinset) /\ num_dead_tasks \in Nat
      /\ find_root[u] = IF joinset[u] = 0 THEN u ELSE find_root[joinset[u] - 1]
  BY FindRootFacts, TaskFacts DEF TreeInv, TasksTypeOK
<1>2. \A t \in Task : joinset[t] # 0 /\ t > num_dead_tasks => joinset[t] - 1 > num_dead_tasks
  BY DEF ForkInv, Gone
<1>3. \A w \in Task :
        /\ RootMap(joinset)[w] \in Task /\ joinset[RootMap(joinset)[w]] = 0
        /\ RootMap(joinset)[w] <= w
        /\ (w > num_dead_tasks => RootMap(joinset)[w] > num_dead_tasks)
  BY <1>1, <1>2, RootFacts
<1>4. QED
  BY <1>1, <1>3

LEMMA VerdictIs ==
  ASSUME TasksTypeOK, TreeInv, ForkInv, NEW t \in Task, NEW u \in Task, t # u,
         NEW k \in Nat, k > 0
  PROVE  OrderedBefore(t, u, k) <=> Verdict(t, u, k, ancClock, find_root)
<1>1. find_root[u] \in Task /\ k # 0
  BY RootOf
<1>2. parent_clock(t, u) = ancClock[t][u]
      /\ parent_clock(t, find_root[u]) = ancClock[t][find_root[u]]
  BY <1>1, ParentClockIs
<1>3. QED
  BY <1>1, <1>2 DEF OrderedBefore, Verdict

LEMMA VerdictIsNext ==
  ASSUME TasksTypeOK', ForkInv', NEW t \in Task, NEW u \in Task, t # u,
         NEW k \in Nat, k > 0, find_root'[u] \in Task
  PROVE  OrderedBefore(t, u, k)' <=> Verdict(t, u, k, ancClock', find_root')
<1>1. k # 0
  OBVIOUS
<1>2. parent_clock(t, u)' = ancClock'[t][u]
  BY ParentClockIsNext
<1>3. parent_clock(t, find_root[u])' = ancClock'[t][find_root'[u]]
  <2>1. depth(t)' \in Nat /\ Len(m_vc'[find_root'[u]]) \in Nat
    BY LenProperties DEF depth, TasksTypeOK
  <2>2. ancClock'[t][find_root'[u]] # 0 => Len(m_vc'[find_root'[u]]) < depth(t)'
    BY DEF ForkInv, Ancestry, depth
  <2>3. QED
    BY <2>1, <2>2 DEF parent_clock, depth
<1>4. QED
  BY <1>1, <1>2, <1>3 DEF OrderedBefore, Verdict

(* The present clock of a live task is not dead.                           *)
LEMMA NotDeadNow ==
  ASSUME TasksTypeOK, ForkInv, NEW u \in Task, Live(u)
  PROVE  ~ check_dead(u, clock[u]) /\ clock[u] # 0
<1>1. clock[0] \in Nat /\ dead_clock_value \in Nat /\ dead_clock_value < clock[0]
  BY TaskFacts DEF TasksTypeOK, ForkInv, Clocks
<1>2. u \in Nat /\ num_dead_tasks \in Nat
  BY TaskFacts DEF TasksTypeOK
<1>3. (u = 0 \/ u > num_dead_tasks) /\ clock[u] > 0
  BY DEF Live, ForkInv, Clocks
<1>4. QED
  BY <1>1, <1>2, <1>3 DEF check_dead

(* What a task does in its present segment is past for no other task.      *)
LEMMA GoodNow ==
  ASSUME TasksTypeOK, TreeInv, ForkInv, NEW u \in Task, Live(u),
         status[u] # "finished"
  PROVE  Good(u, seg[u], clock[u])
<1>1. /\ u <= task_id_ctr /\ joinset[u] = 0 /\ u \in Nat /\ num_dead_tasks \in Nat
      /\ seg[u] \in Nat /\ clock[u] \in Nat
  BY TaskFacts DEF Live, TasksTypeOK
<1>2. 0 < seg[u] /\ seg[u] <= seg[u] /\ 0 < clock[u] /\ clock[u] <= clock[u]
  BY <1>1 DEF ForkInv, Pasts, Clocks
<1>3. ~ check_dead(u, clock[u])
  BY NotDeadNow
<1>4. ASSUME NEW t \in Task, Live(t), t # u PROVE Judged(t, u, seg[u], clock[u])
  <2>1. <<u, seg[u]>> \notin before[t]
    BY <1>1 DEF ForkInv, Pasts
  <2>2. find_root[u] = u
    BY <1>1, RootOf
  <2>3. ancClock[t][u] \in Nat /\ (ancClock[t][u] # 0 => ancClock[t][u] < clock[u])
    BY DEF TasksTypeOK, TreeInv, RecordedClocksArePast
  <2>4. ~ Verdict(t, u, clock[u], ancClock, find_root)
    BY <1>1, <1>4, <2>2, <2>3 DEF Verdict
  <2>5. ~ OrderedBefore(t, u, clock[u])
    BY <1>1, <1>2, <1>4, <2>4, VerdictIs
  <2>6. QED
    BY <1>3, <2>1, <2>5 DEF Judged
<1>5. QED
  BY <1>1, <1>2, <1>4 DEF Good

(* The parts of Good that do not depend on the other tasks.                *)
LEMMA GoodBounds ==
  ASSUME TasksTypeOK, TasksTypeOK', NEW u \in Task, NEW n \in Nat, NEW k \in Nat,
         Good(u, n, k),
         task_id_ctr <= task_id_ctr', seg[u] <= seg'[u], clock[u] <= clock'[u]
  PROVE  u <= task_id_ctr' /\ 0 < n /\ n <= seg'[u] /\ 0 < k /\ k <= clock'[u]
<1>1. /\ u \in Nat /\ task_id_ctr \in Nat /\ task_id_ctr' \in Nat
      /\ seg[u] \in Nat /\ seg'[u] \in Nat /\ clock[u] \in Nat /\ clock'[u] \in Nat
  BY TaskFacts DEF TasksTypeOK
<1>2. u <= task_id_ctr /\ 0 < n /\ n <= seg[u] /\ 0 < k /\ k <= clock[u]
  BY DEF Good
<1>3. QED
  BY <1>1, <1>2

LEMMA ForkKeepsGood ==
  ASSUME TasksTypeOK, TreeInv, ForkInv, TasksTypeOK', TreeInv', ForkInv',
         NEW s \in Task, NEW c \in Task, NEW next, ForkStep(s, c, next),
         NEW u \in Task, NEW n \in Nat, NEW k \in Nat, Good(u, n, k)
  PROVE  Good(u, n, k)'
<1>1. /\ s \in Nat /\ c \in Nat /\ u \in Nat /\ task_id_ctr \in Nat
      /\ c = task_id_ctr + 1 /\ task_id_ctr' = c
      /\ s # c /\ c # 0 /\ Live(s)
      /\ joinset' = joinset /\ num_dead_tasks' = num_dead_tasks
      /\ dead_clock_value' = dead_clock_value
      /\ \A t \in Task : Live(t)' <=> Live(t) \/ t = c
  BY ForkFacts, TaskFacts
<1>2. /\ seg'[s] = seg[s] + 1 /\ clock'[s] = clock[s] + 1
      /\ \A t \in Task : t # s /\ t # c => seg'[t] = seg[t] /\ clock'[t] = clock[t]
      /\ before'[s] = before[s] \cup {<<s, seg[s]>>}
      /\ before'[c] = before[s] \cup {<<s, seg[s]>>}
      /\ \A t \in Task : t # s /\ t # c => before'[t] = before[t]
      /\ ancClock'[c][s] = clock[s]
      /\ \A w \in Task : w # s => ancClock'[c][w] = ancClock[s][w]
      /\ \A t \in Task : t # c => ancClock'[t] = ancClock[t]
  BY ForkValues
<1>3. /\ u <= task_id_ctr /\ 0 < n /\ n <= seg[u] /\ 0 < k /\ k <= clock[u]
      /\ \A t \in Task : Live(t) /\ t # u => Judged(t, u, n, k)
  BY DEF Good
<1>4. u # c /\ seg[u] \in Nat /\ clock[u] \in Nat /\ clock[s] \in Nat /\ seg[s] \in Nat
  BY <1>1, <1>3 DEF TasksTypeOK
<1>5. find_root' = find_root
  BY <1>1, FindRootFacts, FindRootFactsNext DEF TreeInv
<1>6. find_root[u] \in Task /\ find_root[u] # c
  <2>1. find_root[u] \in Task /\ find_root[u] <= u
    BY RootOf
  <2>2. find_root[u] \in Nat
    BY <2>1, TaskFacts
  <2>3. QED
    BY <1>1, <1>3, <2>1, <2>2
<1>7. check_dead(u, k)' <=> check_dead(u, k)
  BY <1>1 DEF check_dead
<1>8. ASSUME NEW t \in Task, t # u
      PROVE  OrderedBefore(t, u, k)' <=> Verdict(t, u, k, ancClock', find_root)
  BY <1>3, <1>5, <1>6, <1>8, VerdictIsNext
<1>9. ASSUME NEW t \in Task, t # u
      PROVE  OrderedBefore(t, u, k) <=> Verdict(t, u, k, ancClock, find_root)
  BY <1>3, <1>9, VerdictIs
<1>10. ASSUME NEW t \in Task, Live(t), t # u, t # c PROVE Judged(t, u, n, k)'
  <2>1. <<u, n>> \in before'[t] <=> <<u, n>> \in before[t]
    BY <1>2, <1>10
  <2>2. Verdict(t, u, k, ancClock', find_root) <=> Verdict(t, u, k, ancClock, find_root)
    BY <1>2, <1>10 DEF Verdict
  <2>3. Judged(t, u, n, k)
    BY <1>3, <1>10
  <2>4. QED
    BY <1>7, <1>8, <1>9, <1>10, <2>1, <2>2, <2>3 DEF Judged
<1>11. Judged(c, u, n, k)'
  <2>1. CASE u = s
    <3>1. n < seg[s] \/ n = seg[s]
      BY <1>3, <1>4, <2>1
    <3>2. <<u, n>> \in before'[c]
      BY <1>2, <1>3, <2>1, <3>1 DEF ForkInv, Pasts
    <3>3. clock[s] # 0 /\ k <= clock[s]
      BY <1>3, <1>4, <2>1
    <3>4. Verdict(c, u, k, ancClock', find_root)
      BY <1>2, <2>1, <3>3 DEF Verdict
    <3>5. QED
      BY <1>1, <1>8, <2>1, <3>2, <3>4 DEF Judged
  <2>2. CASE u # s
    <3>1. <<u, n>> \in before'[c] <=> <<u, n>> \in before[s]
      BY <1>2, <2>2
    <3>2. Judged(s, u, n, k)
      BY <1>1, <1>3, <2>2
    <3>3. ancClock'[c][u] = ancClock[s][u]
      BY <1>2, <2>2
    <3>4. clock[s] # 0
      BY <1>1, <1>4 DEF ForkInv, Clocks, Live
    <3>5. find_root[u] = c \/ ancClock'[c][find_root[u]] # 0
          <=> find_root[u] = s \/ ancClock[s][find_root[u]] # 0
      BY <1>2, <1>6, <3>4
    <3>6. Verdict(c, u, k, ancClock', find_root) <=> Verdict(s, u, k, ancClock, find_root)
      BY <3>3, <3>5 DEF Verdict
    <3>7. QED
      BY <1>4, <1>7, <1>8, <1>9, <2>2, <3>1, <3>2, <3>6 DEF Judged
  <2>3. QED
    BY <2>1, <2>2
<1>12. \A t \in Task : Live(t)' /\ t # u => Judged(t, u, n, k)'
  BY <1>1, <1>10, <1>11
<1>13. task_id_ctr <= task_id_ctr' /\ seg[u] <= seg'[u] /\ clock[u] <= clock'[u]
  BY <1>1, <1>2, <1>4
<1>14. QED
  BY <1>12, <1>13, GoodBounds DEF Good

LEMMA QuietKeepsGood ==
  ASSUME TasksTypeOK, TreeInv, ForkInv, QuietStep,
         TasksTypeOK', TreeInv', ForkInv',
         NEW u \in Task, NEW n \in Nat, NEW k \in Nat, Good(u, n, k)
  PROVE  Good(u, n, k)'
<1>1. /\ UNCHANGED <<m_vc, ancClock, clock, parent_taskId, child_list, joinset,
                     task_id_ctr, num_dead_tasks, dead_clock_value, seg, before>>
  BY DEF QuietStep, taskVars, deadVars, orderVars
<1>2. \A t \in Task : Live(t)' <=> Live(t)
  BY QuietKeepsInv
<1>3. find_root' = find_root
  BY <1>1, FindRootFacts, FindRootFactsNext DEF TreeInv
<1>4. \A t \in Task : Judged(t, u, n, k)' <=> Judged(t, u, n, k)
  BY <1>1, <1>3 DEF Judged, check_dead, OrderedBefore, parent_clock, depth
<1>5. QED
  BY <1>1, <1>2, <1>4 DEF Good

(* The paths of the ancestors a live task has recorded lead to it.         *)
LEMMA NotAncestor ==
  ASSUME ForkInv, NEW t \in Task, Live(t), NEW c \in Task, child_list[c] = {}
  PROVE  ancClock[t][c] = 0
BY DEF ForkInv, Ancestry

LEMMA JoinKeepsGood ==
  ASSUME TasksTypeOK, TreeInv, ForkInv, TasksTypeOK', TreeInv', ForkInv',
         NEW p \in Task, NEW S \in SUBSET Task, JoinStep(p, S),
         NEW u \in Task, NEW n \in Nat, NEW k \in Nat, Good(u, n, k)
  PROVE  Good(u, n, k)'
<1>1. /\ ReturnStep(p, S) /\ p # 0 /\ S = child_list[p] /\ p \notin S /\ Live(p)
      /\ joinset[p] = 0
      /\ \A c \in S : /\ c \in Task /\ child_list[c] = {} /\ parent_taskId[c] = p
                      /\ c # 0 /\ c <= task_id_ctr /\ Live(c) /\ joinset[c] = 0
  BY DEF JoinStep, ReturnStep, Live
<1>2. /\ \A c \in Task : joinset'[c] = IF c \in S THEN p + 1 ELSE joinset[c]
      /\ UNCHANGED <<ancClock, clock, task_id_ctr, num_dead_tasks, dead_clock_value>>
      /\ \A t \in Task : Live(t)' <=> Live(t) /\ t \notin S
  BY JoinKeepsInv DEF JoinStep, ReturnStep, deadVars
<1>3. /\ seg'[p] = seg[p] + 1 /\ \A t \in Task : t # p => seg'[t] = seg[t]
      /\ \A t \in Task : t # p => before'[t] = before[t]
      /\ \A x : x \in before'[p] <=>
           \/ x \in before[p] \/ x = <<p, seg[p]>>
           \/ \E c \in S : x \in before[c] \/ x = <<c, seg[c]>>
  BY <1>1, ReturnValues
<1>4. /\ u <= task_id_ctr /\ 0 < n /\ n <= seg[u] /\ 0 < k /\ k <= clock[u]
      /\ \A t \in Task : Live(t) /\ t # u => Judged(t, u, n, k)
  BY DEF Good
<1>5. /\ seg[u] \in Nat /\ clock[u] \in Nat /\ seg[p] \in Nat /\ task_id_ctr \in Nat
      /\ u \in Nat
  BY TaskFacts DEF TasksTypeOK
<1>6. find_root'[u] = IF find_root[u] \in S THEN p ELSE find_root[u]
  <2>1. /\ LinksDown(joinset) /\ find_root = RootMap(joinset)
        /\ LinksDown(joinset') /\ find_root' = RootMap(joinset')
    BY FindRootFacts, FindRootFactsNext DEF TreeInv
  <2>2. \A w \in Task : RootMap(joinset')[w] =
          IF RootMap(joinset)[w] \in S THEN p ELSE RootMap(joinset)[w]
    BY <1>1, <1>2, <2>1, RootAfterJoin
  <2>3. QED
    BY <2>1, <2>2
<1>7. find_root[u] \in Task /\ find_root'[u] \in Task
      /\ (joinset[u] = 0 => find_root[u] = u)
  BY <1>6, RootOf
<1>8. check_dead(u, k)' <=> check_dead(u, k)
  BY <1>2 DEF check_dead
<1>9. ASSUME NEW t \in Task, t # u
      PROVE  OrderedBefore(t, u, k)' <=> Verdict(t, u, k, ancClock, find_root')
  BY <1>2, <1>4, <1>7, <1>9, VerdictIsNext
<1>10. ASSUME NEW t \in Task, t # u
       PROVE  OrderedBefore(t, u, k) <=> Verdict(t, u, k, ancClock, find_root)
  BY <1>4, <1>10, VerdictIs
<1>11. \A t \in Task, c \in S : Live(t) => ancClock[t][c] = 0
  BY <1>1, NotAncestor
<1>12. ASSUME NEW t \in Task, Live(t), t \notin S, t # p PROVE ancClock[t][p] = 0
  BY <1>1, <1>11, <1>12 DEF ForkInv, Ancestry
<1>13. ASSUME NEW t \in Task, Live(t), t \notin S, t # u, t # p PROVE Judged(t, u, n, k)'
  <2>1. before'[t] = before[t] /\ Judged(t, u, n, k)
    BY <1>3, <1>4, <1>13
  <2>2. Verdict(t, u, k, ancClock, find_root') <=> Verdict(t, u, k, ancClock, find_root)
    <3>1. CASE find_root[u] \in S
      <4>1. find_root'[u] = p /\ find_root[u] # t /\ p # t
            /\ ancClock[t][find_root[u]] = 0 /\ ancClock[t][p] = 0
        BY <1>6, <1>11, <1>12, <1>13, <3>1
      <4>2. QED
        BY <4>1 DEF Verdict
    <3>2. CASE find_root[u] \notin S
      BY <1>6, <3>2 DEF Verdict
    <3>3. QED
      BY <3>1, <3>2
  <2>3. QED
    BY <1>8, <1>9, <1>10, <1>13, <2>1, <2>2 DEF Judged
<1>14. ASSUME p # u PROVE Judged(p, u, n, k)'
  <2>1. CASE u \in S
    <3>1. find_root[u] = u /\ find_root'[u] = p /\ ancClock[p][u] = 0
      BY <1>1, <1>6, <1>7, <1>11, <2>1
    <3>2. Verdict(p, u, k, ancClock, find_root')
      BY <3>1 DEF Verdict
    <3>3. n < seg[u] \/ n = seg[u]
      BY <1>4, <1>5
    <3>4. <<u, n>> \in before'[p]
      BY <1>3, <1>4, <2>1, <3>3 DEF ForkInv, Pasts
    <3>5. QED
      BY <1>9, <1>14, <3>2, <3>4 DEF Judged
  <2>2. CASE u \notin S
    <3>1. <<u, n>> \in before'[p] <=>
            <<u, n>> \in before[p] \/ \E c \in S : <<u, n>> \in before[c]
      BY <1>3, <1>14, <2>2
    <3>2. Judged(p, u, n, k) /\ \A c \in S : Judged(c, u, n, k)
      BY <1>1, <1>4, <1>14, <2>2
    <3>3. CASE check_dead(u, k)
      BY <1>8, <3>1, <3>2, <3>3 DEF Judged
    <3>4. CASE ~ check_dead(u, k)
      <4>1. \A c \in S : ancClock[c][p] # 0 /\
              \A w \in Task : w # p => ancClock[c][w] = ancClock[p][w]
        BY <1>1 DEF ForkInv, Inherited
      <4>2. /\ <<u, n>> \in before[p] <=> Verdict(p, u, k, ancClock, find_root)
            /\ \A c \in S : <<u, n>> \in before[c] <=> Verdict(c, u, k, ancClock, find_root)
        BY <1>1, <1>10, <1>14, <2>2, <3>2, <3>4 DEF Judged
      <4>3. CASE ancClock[p][u] # 0
        <5>1. \A c \in S : ancClock[c][u] = ancClock[p][u]
          BY <1>14, <4>1
        <5>2. /\ Verdict(p, u, k, ancClock, find_root) <=> k <= ancClock[p][u]
              /\ \A c \in S : Verdict(c, u, k, ancClock, find_root) <=> k <= ancClock[p][u]
              /\ Verdict(p, u, k, ancClock, find_root') <=> k <= ancClock[p][u]
          BY <4>3, <5>1 DEF Verdict
        <5>3. QED
          BY <1>8, <1>9, <1>14, <3>1, <3>4, <4>2, <5>2 DEF Judged
      <4>4. CASE ancClock[p][u] = 0
        <5> DEFINE r == find_root[u]
        <5>1. \A c \in S : ancClock[c][u] = 0
          BY <1>14, <4>1, <4>4
        <5>2. /\ Verdict(p, u, k, ancClock, find_root) <=> r = p \/ ancClock[p][r] # 0
              /\ \A c \in S : Verdict(c, u, k, ancClock, find_root)
                                <=> r = c \/ ancClock[c][r] # 0
              /\ Verdict(p, u, k, ancClock, find_root')
                   <=> find_root'[u] = p \/ ancClock[p][find_root'[u]] # 0
          BY <4>4, <5>1 DEF Verdict
        <5>3. \A c \in S : ancClock[c][r] # 0 <=> r = p \/ ancClock[p][r] # 0
          BY <1>7, <4>1
        <5>4. Verdict(p, u, k, ancClock, find_root') <=>
                \/ Verdict(p, u, k, ancClock, find_root)
                \/ \E c \in S : Verdict(c, u, k, ancClock, find_root)
          <6>1. CASE r \in S
            BY <1>6, <5>2, <6>1
          <6>2. CASE r \notin S
            BY <1>6, <5>2, <5>3, <6>2
          <6>3. QED
            BY <6>1, <6>2
        <5> HIDE DEF r
        <5>5. QED
          BY <1>8, <1>9, <1>14, <3>1, <3>4, <4>2, <5>4 DEF Judged
      <4>5. QED
        BY <4>3, <4>4
    <3>5. QED
      BY <3>3, <3>4
  <2>3. QED
    BY <2>1, <2>2
<1>15. \A t \in Task : Live(t)' /\ t # u => Judged(t, u, n, k)'
  BY <1>2, <1>13, <1>14
<1>16. task_id_ctr <= task_id_ctr' /\ seg[u] <= seg'[u] /\ clock[u] <= clock'[u]
  BY <1>2, <1>3, <1>5
<1>17. QED
  BY <1>15, <1>16, GoodBounds DEF Good

LEMMA DeadKeepsGood ==
  ASSUME TasksTypeOK, TreeInv, ForkInv, TasksTypeOK', TreeInv', ForkInv',
         NEW S \in SUBSET Task, DeadStep(S),
         NEW u \in Task, NEW n \in Nat, NEW k \in Nat, Good(u, n, k)
  PROVE  Good(u, n, k)'
<1>1. /\ 0 \in Task /\ ReturnStep(0, S) /\ Live(0)
      /\ num_dead_tasks' = task_id_ctr /\ task_id_ctr' = task_id_ctr
      /\ clock' = [clock EXCEPT ![0] = @ + 1]
      /\ \A c \in Task : Live(c) => c = 0 \/ c \in S
      /\ \A t \in Task : Live(t)' <=> t = 0
  BY DeadKeepsInv, TaskFacts DEF DeadStep, ReturnStep
<1>2. /\ seg'[0] = seg[0] + 1 /\ \A t \in Task : t # 0 => seg'[t] = seg[t]
      /\ \A x : x \in before'[0] <=>
           \/ x \in before[0] \/ x = <<0, seg[0]>>
           \/ \E c \in S : x \in before[c] \/ x = <<c, seg[c]>>
  BY <1>1, ReturnValues
<1>3. /\ u <= task_id_ctr /\ 0 < n /\ n <= seg[u] /\ 0 < k /\ k <= clock[u]
      /\ \A t \in Task : Live(t) /\ t # u => Judged(t, u, n, k)
  BY DEF Good
<1>4. /\ u \in Nat /\ task_id_ctr \in Nat /\ num_dead_tasks \in Nat
      /\ seg[u] \in Nat /\ clock \in [Task -> Nat] /\ seg[0] \in Nat
  BY TaskFacts DEF TasksTypeOK
<1>5. ASSUME u # 0 PROVE <<u, n>> \in before'[0]
  <2>1. CASE check_dead(u, k)
    <3>1. Judged(0, u, n, k)
      BY <1>1, <1>3, <1>5
    <3>2. QED
      BY <1>2, <2>1, <3>1 DEF Judged
  <2>2. CASE ~ check_dead(u, k)
    <3> DEFINE r == find_root[u]
    <3>1. u > num_dead_tasks
      BY <1>4, <1>5, <2>2 DEF check_dead
    <3>2. r \in Task /\ joinset[r] = 0 /\ r <= u /\ r > num_dead_tasks
      BY <3>1, RootOf
    <3>3. r \in Nat
      BY <3>2, TaskFacts
    <3>4. r <= task_id_ctr /\ r # 0
      BY <1>3, <1>4, <3>2, <3>3
    <3>5. Live(r) /\ r \in S
      BY <1>1, <3>2, <3>4 DEF Live
    <3>6. CASE r = u
      <4>1. n < seg[u] \/ n = seg[u]
        BY <1>3, <1>4
      <4>2. QED
        BY <1>2, <1>3, <3>5, <3>6, <4>1 DEF ForkInv, Pasts
    <3>7. CASE r # u
      <4>1. ancClock[r][u] = 0
        <5>1. ancClock[r][u] # 0 => u < r
          BY <3>2 DEF ForkInv, Ancestry
        <5>2. QED
          BY <1>4, <3>2, <3>3, <5>1
      <4>2. Verdict(r, u, k, ancClock, find_root)
        BY <4>1 DEF Verdict
      <4>3. OrderedBefore(r, u, k)
        BY <1>3, <3>2, <3>7, <4>2, VerdictIs
      <4>4. Judged(r, u, n, k)
        BY <1>3, <3>2, <3>5, <3>7
      <4>5. <<u, n>> \in before[r]
        BY <2>2, <4>3, <4>4 DEF Judged
      <4>6. QED
        BY <1>2, <3>5, <4>5
    <3>8. QED
      BY <3>6, <3>7
  <2>3. QED
    BY <2>1, <2>2
<1>6. u # 0 => check_dead(u, k)'
  BY <1>1, <1>3, <1>4 DEF check_dead
<1>7. \A t \in Task : Live(t)' /\ t # u => Judged(t, u, n, k)'
  BY <1>1, <1>5, <1>6 DEF Judged
<1>8. task_id_ctr <= task_id_ctr' /\ seg[u] <= seg'[u] /\ clock[u] <= clock'[u]
  BY <1>1, <1>2, <1>4
<1>9. QED
  BY <1>7, <1>8, GoodBounds DEF Good

LEMMA GoodStep ==
  ASSUME TasksTypeOK, TreeInv, ForkInv, TasksTypeOK', TreeInv',
         ForkJoinStep \/ QuietStep
  PROVE  /\ ForkInv'
         /\ \A u \in Task, n, k \in Nat : Good(u, n, k) => Good(u, n, k)'
<1>1. ForkInv'
  BY ForkInvStep, QuietKeepsInv
<1>2. \A t \in Task : child_list[t] \in SUBSET Task
  BY DEF TasksTypeOK
<1>3. \/ \E s, c \in Task : \E next : ForkStep(s, c, next)
      \/ \E t \in Task : JoinStep(t, child_list[t])
      \/ DeadStep(child_list[0])
      \/ QuietStep
  BY FourSteps
<1>4. ASSUME NEW u \in Task, NEW n \in Nat, NEW k \in Nat, Good(u, n, k)
      PROVE  Good(u, n, k)'
  <2>1. ASSUME NEW s \in Task, NEW c \in Task, NEW next, ForkStep(s, c, next)
        PROVE  Good(u, n, k)'
    BY <1>1, <1>4, <2>1, ForkKeepsGood
  <2>2. ASSUME NEW t \in Task, JoinStep(t, child_list[t]) PROVE Good(u, n, k)'
    BY <1>1, <1>2, <1>4, <2>2, JoinKeepsGood
  <2>3. CASE DeadStep(child_list[0])
    BY <1>1, <1>2, <1>4, <2>3, TaskFacts, DeadKeepsGood
  <2>4. CASE QuietStep
    BY <1>1, <1>4, <2>4, QuietKeepsGood
  <2>5. QED
    BY <1>3, <2>1, <2>2, <2>3, <2>4
<1>5. QED
  BY <1>1, <1>4

(* A task whose segment or clock changes is live and goes on.              *)
LEMMA ChangedIsLive ==
  ASSUME TasksTypeOK, TreeInv, ForkInv, ForkJoinStep \/ QuietStep, NEW t \in Task
  PROVE  \/ seg'[t] = seg[t] /\ clock'[t] = clock[t]
         \/ Live(t)' /\ status'[t] # "finished"
<1>1. \A p \in Task : child_list[p] \in SUBSET Task
  BY DEF TasksTypeOK
<1>2. \/ \E s, c \in Task : \E next : ForkStep(s, c, next)
      \/ \E p \in Task : JoinStep(p, child_list[p])
      \/ DeadStep(child_list[0])
      \/ QuietStep
  BY FourSteps
<1>3. ASSUME NEW s \in Task, NEW c \in Task, NEW next, ForkStep(s, c, next)
      PROVE  \/ seg'[t] = seg[t] /\ clock'[t] = clock[t]
             \/ Live(t)' /\ status'[t] # "finished"
  <2>1. Live(s) /\ \A u \in Task : Live(u)' <=> Live(u) \/ u = c
    BY <1>3, ForkFacts
  <2>2. status'[s] = next /\ status'[c] = "ready"
        /\ \A u \in Task : u # s /\ u # c => seg'[u] = seg[u] /\ clock'[u] = clock[u]
    BY <1>3, ForkValues
  <2>3. next # "finished"
    BY <1>3 DEF ForkStep
  <2>4. QED
    BY <2>1, <2>2, <2>3
<1>4. ASSUME NEW p \in Task, JoinStep(p, child_list[p])
      PROVE  \/ seg'[t] = seg[t] /\ clock'[t] = clock[t]
             \/ Live(t)' /\ status'[t] # "finished"
  <2>1. ReturnStep(p, child_list[p]) /\ clock' = clock
    BY <1>4 DEF JoinStep
  <2>2. Live(p)'
    BY <1>1, <1>4, <2>1, JoinKeepsInv DEF ReturnStep
  <2>3. status'[p] = "running" /\ \A u \in Task : u # p => seg'[u] = seg[u]
    BY <1>1, <2>1, ReturnValues
  <2>4. QED
    BY <2>1, <2>2, <2>3
<1>5. CASE DeadStep(child_list[0])
  <2>1. 0 \in Task /\ ReturnStep(0, child_list[0])
        /\ clock' = [clock EXCEPT ![0] = @ + 1]
    BY <1>5, TaskFacts DEF DeadStep
  <2>2. Live(0)'
    BY <1>1, <1>5, <2>1, DeadKeepsInv
  <2>3. status'[0] = "running" /\ \A u \in Task : u # 0 => seg'[u] = seg[u]
    BY <1>1, <2>1, ReturnValues
  <2>4. \A u \in Task : u # 0 => clock'[u] = clock[u]
    BY <2>1 DEF TasksTypeOK
  <2>5. QED
    BY <2>2, <2>3, <2>4
<1>6. CASE QuietStep
  BY <1>6 DEF QuietStep, taskVars, orderVars
<1>7. QED
  BY <1>2, <1>3, <1>4, <1>5, <1>6

-----------------------------------------------------------------------------
(***************************************************************************)
(* The stamps of a fork-join program are pairs of a segment and a clock    *)
(* that every other live task judges right.                                *)
(***************************************************************************)
Recent(u, n, k) ==
  Live(u) /\ status[u] # "finished" /\ n = seg[u] /\ k = clock[u]

StampInv ==
  /\ program # "fork_join" => stamps = {}
  /\ program = "fork_join" =>
       /\ ForkInv
       /\ stamps \subseteq Task \X Nat \X Nat
       /\ \A s \in stamps : Good(s[1], s[2], s[3]) \/ Recent(s[1], s[2], s[3])
       /\ \A t \in Task : seg[t] > 0 => <<t, seg[t], clock[t]>> \in stamps

LEMMA RecentIsGood ==
  ASSUME TasksTypeOK, TreeInv, ForkInv, NEW u \in Task, NEW n, NEW k,
         Recent(u, n, k)
  PROVE  Good(u, n, k)
BY GoodNow DEF Recent

(* A spawn of a sibling does not end the segment of the parent booked.      *)
LEMMA SiblingSegment ==
  ASSUME TasksTypeOK, TreeInv, NEW s \in Task, NEW c \in Task, SpawnSibling(s, c)
  PROVE  /\ task_id_ctr' # task_id_ctr
         /\ parent_taskId'[task_id_ctr'] = parent_taskId[s]
         /\ seg'[parent_taskId[s]] = seg[parent_taskId[s]]
<1> DEFINE p == parent_taskId[s]
<1>1. /\ status[s] # "unborn" /\ s # 0 /\ c = task_id_ctr + 1 /\ task_id_ctr' = c
      /\ parent_taskId' = [parent_taskId EXCEPT ![c] = p]
      /\ seg' = [seg EXCEPT ![s] = @ + 1, ![c] = 1]
  BY DEF SpawnSibling, Running, NewTaskId, CaptureSpawn, HBFork
<1>2. s <= task_id_ctr /\ p <= task_id_ctr
  BY <1>1, ActiveIsInUse
<1>3. p \in Task /\ p \in Nat /\ s \in Nat /\ c \in Nat /\ task_id_ctr \in Nat
  BY TaskFacts DEF TasksTypeOK
<1>4. s \in Born
  BY <1>1, <1>2, <1>3 DEF Born
<1>5. p < s
  BY <1>4 DEF TreeInv, Genealogy
<1>6. p # s /\ p # c /\ task_id_ctr' # task_id_ctr
  BY <1>1, <1>2, <1>3, <1>5
<1>7. parent_taskId'[task_id_ctr'] = p
  BY <1>1 DEF TasksTypeOK
<1>8. seg'[p] = seg[p]
  BY <1>1, <1>3, <1>6 DEF TasksTypeOK
<1>9. QED
  BY <1>6, <1>7, <1>8

LEMMA AllowedIsForkJoin ==
  ASSUME TasksTypeOK, TreeInv, ForkInv, program = "fork_join", Next, Allowed
  PROVE  ForkJoinStep \/ QuietStep
<1>1. NoLocks /\ RootsByMain /\ WaitsForChildren /\ SpawnsOwn
  BY DEF Allowed
<1>2. ASSUME NEW s \in Task, NEW c \in Task, SpawnSibling(s, c) PROVE FALSE
  BY <1>1, <1>2, SiblingSegment DEF SpawnsOwn
<1>3. ASSUME NEW s \in Task, NEW c \in Task, SpawnRootAndWait(s, c) PROVE s = 0
  <2>1. tbb_roots'[s] = {c}
    BY <1>3 DEF SpawnRootAndWait, TasksTypeOK
  <2>2. QED
    BY <1>1, <2>1 DEF RootsByMain
<1>4. ASSUME NEW t \in Task, ExecEnd(t) PROVE tbb_children[t] = {}
  <2>1. t # 0 /\ status'[t] = "finished" /\ tbb_children' = tbb_children
    BY <1>4 DEF ExecEnd, TasksTypeOK
  <2>2. QED
    BY <1>1, <2>1 DEF WaitsForChildren
<1>5. CASE TaskStep
  <2>1. ASSUME NEW a \in Task, NEW c \in Task,
               \/ Spawn(a, c) \/ SpawnAndWaitForAll(a, c)
               \/ SpawnSibling(a, c) \/ SpawnRootAndWait(a, c)
        PROVE  ForkJoinStep
    BY <1>2, <1>3, <2>1 DEF ForkJoinStep
  <2>2. ASSUME NEW t \in Task,
               \/ ExecBegin(t) \/ ExecEnd(t)
               \/ WaitForAll(t) \/ WaitForAllReturn(t) \/ RootWaitReturn(t)
        PROVE  ForkJoinStep
    <3>1. tbb_children[t] = {} \/ ~ ExecEnd(t)
      BY <1>4
    <3>2. \/ ExecBegin(t) \/ (tbb_children[t] = {} /\ ExecEnd(t))
          \/ WaitForAll(t) \/ WaitForAllReturn(t) \/ RootWaitReturn(t)
      BY <2>2, <3>1
    <3>3. QED
      BY <3>2, Zenon DEF ForkJoinStep
  <2>3. ASSUME \/ MainReturns
               \/ \E t \in Task, l \in Locks : LockAcquire(t, l) \/ LockRelease(t, l)
        PROVE  ForkJoinStep
    BY <2>3 DEF ForkJoinStep
  <2>4. QED
    BY <1>5, <2>1, <2>2, <2>3 DEF TaskStep
<1>6. ASSUME NEW t \in Task, NEW kind \in AccessType, Access(t, kind)
      PROVE  QuietStep
  BY <1>6, StillIsQuiet DEF Access, HBAccess
<1>7. CASE UNCHANGED vars
  BY <1>7, StillIsQuiet DEF vars, allTaskVars, hbVars
<1>8. QED
  BY <1>5, <1>6, <1>7 DEF Next, Terminated

LEMMA StampInit == MCInit => StampInv
<1> SUFFICES ASSUME MCInit PROVE StampInv
  OBVIOUS
<1>1. TasksInit /\ TasksTypeOK /\ TreeInv /\ ForkInv /\ 0 \in Task
  BY TasksInitType, TreeInit, ForkInit, TaskFacts DEF MCInit, Init
<1>2. /\ status[0] = "running" /\ seg[0] = 1 /\ clock[0] = 1
      /\ \A t \in Task : t # 0 => seg[t] = 0
      /\ 0 <= task_id_ctr /\ joinset[0] = 0
  BY <1>1, TaskFacts DEF TasksInit, HBInit
<1>3. program = "fork_join" => stamps = {<<0, 1, 1>>}
  BY DEF MCInit
<1>4. Recent(0, 1, 1)
  BY <1>2 DEF Recent, Live
<1>5. \A t \in Task : seg[t] > 0 => t = 0
  BY <1>2
<1>6. QED
  BY <1>1, <1>2, <1>3, <1>4, <1>5 DEF StampInv, MCInit

LEMMA StampStep ==
  ASSUME TasksTypeOK, TreeInv, TasksTypeOK', TreeInv', StampInv, MCNext
  PROVE  StampInv'
<1>1. CASE program # "fork_join"
  BY <1>1 DEF MCNext, StampInv
<1>2. CASE program = "fork_join"
  <2>1. program' = program /\ Next /\ Allowed /\ ForkInv
        /\ stamps' = stamps \cup {<<t, seg'[t], clock'[t]>> : t \in {u \in Task : seg'[u] > 0}}
    BY <1>2 DEF MCNext, StampInv
  <2>2. ForkJoinStep \/ QuietStep
    BY <1>2, <2>1, AllowedIsForkJoin
  <2>3. ForkInv' /\ \A u \in Task, n, k \in Nat : Good(u, n, k) => Good(u, n, k)'
    BY <2>1, <2>2, GoodStep
  <2>4. \A t \in Task : \/ seg'[t] = seg[t] /\ clock'[t] = clock[t]
                        \/ Live(t)' /\ status'[t] # "finished"
    BY <2>1, <2>2, ChangedIsLive
  <2>5. \A t \in Task : seg'[t] \in Nat /\ clock'[t] \in Nat
    BY DEF TasksTypeOK
  <2>6. stamps' \subseteq Task \X Nat \X Nat
    BY <1>2, <2>1, <2>5 DEF StampInv
  <2>7. \A t \in Task : seg'[t] > 0 => <<t, seg'[t], clock'[t]>> \in stamps'
    BY <2>1
  <2>8. ASSUME NEW s \in stamps PROVE Good(s[1], s[2], s[3])'
    <3>1. s[1] \in Task /\ s[2] \in Nat /\ s[3] \in Nat
          /\ (Good(s[1], s[2], s[3]) \/ Recent(s[1], s[2], s[3]))
      BY <1>2 DEF StampInv
    <3>2. Good(s[1], s[2], s[3])
      BY <2>1, <3>1, RecentIsGood
    <3>3. QED
      BY <2>3, <3>1, <3>2
  <2>9. ASSUME NEW s \in stamps' PROVE Good(s[1], s[2], s[3])' \/ Recent(s[1], s[2], s[3])'
    <3>1. CASE s \in stamps
      BY <2>8, <3>1
    <3>2. CASE s \notin stamps
      <4>1. PICK t \in Task : seg'[t] > 0 /\ s = <<t, seg'[t], clock'[t]>>
        BY <2>1, <3>2
      <4>2. s[1] = t /\ s[2] = seg'[t] /\ s[3] = clock'[t]
        BY <4>1
      <4>3. ~ (seg'[t] = seg[t] /\ clock'[t] = clock[t])
        BY <1>2, <3>2, <4>1 DEF StampInv
      <4>4. Recent(s[1], s[2], s[3])'
        BY <2>4, <4>2, <4>3 DEF Recent
      <4>5. QED
        BY <4>4
    <3>3. QED
      BY <3>1, <3>2
  <2>10. QED
    BY <1>2, <2>1, <2>3, <2>6, <2>7, <2>9 DEF StampInv
<1>3. QED
  BY <1>1, <1>2

LEMMA StampInvariant == MCSpec => [](TasksTypeOK /\ TreeInv /\ StampInv)
<1>1. MCInit => TasksInv /\ StampInv
  BY StampInit, TasksInitType, TreeInit DEF MCInit, Init, TasksInv
<1>2. TasksInv /\ StampInv /\ [MCNext]_mcVars => TasksInv' /\ StampInv'
  <2> SUFFICES ASSUME TasksInv, StampInv, [MCNext]_mcVars
               PROVE  TasksInv' /\ StampInv'
    OBVIOUS
  <2>1. CASE MCNext
    <3>1. TasksInv'
      BY <2>1, TasksInvStep DEF MCNext
    <3>2. QED
      BY <2>1, <3>1, StampStep DEF TasksInv
  <2>2. CASE UNCHANGED mcVars
    <3>1. TasksInv'
      BY <2>2, TasksInvStep DEF mcVars
    <3>2. UNCHANGED <<tbbVars, taskVars, deadVars, orderVars>>
          /\ program' = program /\ stamps' = stamps /\ status' = status
          /\ seg' = seg /\ clock' = clock
      BY <2>2 DEF mcVars, vars, allTaskVars, hbVars, tbbVars, orderVars, taskVars
    <3>3. CASE program # "fork_join"
      <4>1. program' # "fork_join" /\ stamps' = {}
        BY <3>2, <3>3 DEF StampInv
      <4>2. QED
        BY <3>1, <4>1 DEF StampInv
    <3>4. CASE program = "fork_join"
      <4>1. ForkInv /\ QuietStep
        BY <3>2, <3>4, StillIsQuiet DEF StampInv
      <4>2. ForkInv' /\ \A u \in Task, n, k \in Nat : Good(u, n, k) => Good(u, n, k)'
        BY <3>1, <4>1, GoodStep DEF TasksInv
      <4>3. \A s \in stamps :
              s[1] \in Task /\ s[2] \in Nat /\ s[3] \in Nat /\ Good(s[1], s[2], s[3])
        BY <3>4, <4>1, RecentIsGood DEF StampInv, TasksInv
      <4>4. \A s \in stamps : Good(s[1], s[2], s[3])'
        BY <4>2, <4>3
      <4>5. /\ stamps' \subseteq Task \X Nat \X Nat
            /\ \A x \in Task : seg'[x] > 0 => <<x, seg'[x], clock'[x]>> \in stamps'
        BY <3>2, <3>4 DEF StampInv
      <4>6. \A s \in stamps' : Good(s[1], s[2], s[3])'
        BY <3>2, <4>4
      <4>7. program' = "fork_join"
        BY <3>2, <3>4
      <4>8. QED
        BY <3>1, <4>2, <4>5, <4>6, <4>7 DEF StampInv
    <3>5. QED
      BY <3>1, <3>3, <3>4
  <2>3. QED
    BY <2>1, <2>2
<1>3. QED
  BY <1>1, <1>2, PTL DEF MCSpec, TasksInv

LEMMA StampsAreJudged ==
  ASSUME TasksTypeOK, TreeInv, StampInv, NEW t \in Task, NEW s \in stamps,
         Running(t), s[1] # t
  PROVE  Judged(t, s[1], s[2], s[3])
<1>1. program = "fork_join" /\ ForkInv
  BY DEF StampInv
<1>2. s[1] \in Task /\ s[2] \in Nat /\ s[3] \in Nat /\ Good(s[1], s[2], s[3])
  BY <1>1, RecentIsGood DEF StampInv
<1>3. Live(t)
  BY <1>1, ActiveIsLive DEF Running
<1>4. QED
  BY <1>2, <1>3 DEF Good

(***************************************************************************)
(* In a strict fork-join program, of any size, the clocks of the ancestors *)
(* and the links of the joinset together are the happens-before order:     *)
(* OrderedBefore errs on neither side.                                     *)
(***************************************************************************)
THEOREM OrderingExact == MCSpec => []OrderingIsExact
<1>1. TasksTypeOK /\ TreeInv /\ StampInv => OrderingIsExact
  BY StampsAreJudged DEF OrderingIsExact, Judged
<1>2. QED
  BY <1>1, StampInvariant, PTL

(* What a phase of main leaves dead is past for every task that runs, so   *)
(* the shadow word may forget it.                                          *)
THEOREM DeadIsForgotten == MCSpec => []DeadIsPast
<1>1. TasksTypeOK /\ TreeInv /\ StampInv => DeadIsPast
  BY StampsAreJudged DEF DeadIsPast, Judged
<1>2. QED
  BY <1>1, StampInvariant, PTL

-----------------------------------------------------------------------------
(***************************************************************************)
(* The whole detector on strict fork-join programs without locks: main     *)
(* alone starts roots, nobody spawns a sibling, every task waits for its   *)
(* children.  The shadow word then keeps to its first entry.               *)
(***************************************************************************)
StrictForkJoin ==
  /\ RootCallers = {0} /\ SiblingParents = {} /\ ~ LeaveChildren
  /\ Locks = {}

LEMMA NextIsForkJoin ==
  ASSUME StrictForkJoin, ForkInv, [Next]_vars
  PROVE  \/ ForkJoinStep \/ QuietStep
<1>1. ASSUME TaskStep PROVE ForkJoinStep
  <2>1. ASSUME NEW s \in Task, NEW c \in Task,
               \/ Spawn(s, c) \/ SpawnAndWaitForAll(s, c)
               \/ SpawnSibling(s, c) \/ SpawnRootAndWait(s, c)
        PROVE  ForkJoinStep
    <3>1. ~ SpawnSibling(s, c)
      BY DEF SpawnSibling, StrictForkJoin
    <3>2. SpawnRootAndWait(s, c) => s = 0
      BY DEF SpawnRootAndWait, StrictForkJoin
    <3>3. QED
      BY <2>1, <3>1, <3>2 DEF ForkJoinStep
  <2>2. ASSUME NEW t \in Task,
               \/ ExecBegin(t) \/ ExecEnd(t)
               \/ WaitForAll(t) \/ WaitForAllReturn(t) \/ RootWaitReturn(t)
        PROVE  ForkJoinStep
    <3>1. ExecEnd(t) => tbb_children[t] = {}
      BY DEF ExecEnd, StrictForkJoin
    <3>2. \/ ExecBegin(t) \/ (tbb_children[t] = {} /\ ExecEnd(t))
          \/ WaitForAll(t) \/ WaitForAllReturn(t) \/ RootWaitReturn(t)
      BY <2>2, <3>1
    <3>3. QED
      BY <3>2, Zenon DEF ForkJoinStep
  <2>3. ASSUME \/ MainReturns
               \/ \E t \in Task, l \in Locks : LockAcquire(t, l) \/ LockRelease(t, l)
        PROVE  ForkJoinStep
    BY <2>3 DEF ForkJoinStep
  <2>4. QED
    BY <1>1, <2>1, <2>2, <2>3 DEF TaskStep
<1>2. ASSUME NEW t \in Task, NEW kind \in AccessType, Access(t, kind)
      PROVE  QuietStep
  BY <1>2, StillIsQuiet DEF Access, HBAccess
<1>3. CASE UNCHANGED vars
  BY <1>3, StillIsQuiet DEF vars, allTaskVars, hbVars
<1>4. QED
  BY <1>1, <1>2, <1>3 DEF Next, Terminated

EntryDead(e) ==
  /\ check_dead(e.rd[1].tid, e.rd[1].clk) /\ check_dead(e.rd[2].tid, e.rd[2].clk)
  /\ check_dead(e.wr[1].tid, e.wr[1].clk) /\ check_dead(e.wr[2].tid, e.wr[2].clk)

(* What RecordMem does to the only entry.                                  *)
RecordsFirst(t, kind) ==
  /\ EntryDead(v[0])
  /\ v'[0].rd = IF kind = READ THEN <<CurSlot(t), Empty>> ELSE <<Empty, Empty>>
  /\ v'[0].wr = IF kind = READ THEN <<Empty, Empty>> ELSE <<CurSlot(t), Empty>>
  /\ UNCHANGED is_racy

SeenBefore(t, kind) == SameEpoch(t, v[0], kind) /\ UNCHANGED shadowVars

Reports(t, kind) ==
  /\ RacingSlots(t, v[0], kind) # {}
  /\ is_racy' = TRUE /\ v' = v

Records(t, kind) ==
  /\ ~ SameEpoch(t, v[0], kind)
  /\ RacingSlots(t, v[0], kind) = {}
  /\ v'[0].rd = IF kind = READ THEN UpdateSlots(t, v[0].rd) ELSE v[0].rd
  /\ v'[0].wr = IF kind = READ THEN v[0].wr ELSE UpdateSlots(t, v[0].wr)
  /\ UNCHANGED is_racy

LEMMA OneEntry ==
  ASSUME StrictForkJoin, TasksTypeOK, ShadowTypeOK, cursize = 0,
         NEW t \in Task, NEW kind \in AccessType, RecordMem(t, kind)
  PROVE  /\ cursize' = 0
         /\ \/ is_racy /\ UNCHANGED shadowVars
            \/ ~ is_racy /\ RecordsFirst(t, kind)
            \/ /\ ~ is_racy /\ ~ EntryDead(v[0])
               /\ SeenBefore(t, kind) \/ Reports(t, kind) \/ Records(t, kind)
<1>1. /\ 0 \in Entry /\ v \in [Entry -> LockState] /\ v[0] \in LockState
      /\ lockset[t] = {} /\ v[0].lockset = {}
  <2>1. 0 \in Entry /\ v \in [Entry -> LockState]
    BY DEF Entry, NUM_FIXED_VAR_ENTRIES, ShadowTypeOK
  <2>2. lockset[t] \in SUBSET Locks /\ v[0].lockset \in SUBSET Locks
    BY <2>1 DEF LockState, TasksTypeOK
  <2>3. QED
    BY <2>1, <2>2 DEF StrictForkJoin
<1>2. \A i : i \in 0 .. cursize <=> i = 0
  OBVIOUS
<1>3. kind = READ \/ (kind = WRITE /\ kind # READ)
  BY DEF AccessType, READ, WRITE
<1>4. FirstAccess <=> EntryDead(v[0])
  BY <1>2 DEF FirstAccess, EntryDead, Slots
<1>5. Stops(t, 0, kind) <=> SameEpoch(t, v[0], kind) \/ RacingSlots(t, v[0], kind) # {}
  BY <1>1 DEF Stops
<1>6. CASE is_racy
  BY <1>6 DEF RecordMem, shadowVars
<1>7. CASE ~ is_racy /\ FirstAccess
  <2>1. RecordFirst(t, kind)
    BY <1>7 DEF RecordMem
  <2>2. cursize' = 0 /\ is_racy' = is_racy
    BY <2>1 DEF RecordFirst
  <2>3. v'[0] = LET e == WithSlots(NoAccess, kind, <<CurSlot(t), Empty>>)
                IN  IF kind = READ THEN [e EXCEPT !.lockset = lockset[t]] ELSE e
    BY <1>1, <2>1 DEF RecordFirst
  <2>4. /\ v'[0].rd = IF kind = READ THEN <<CurSlot(t), Empty>> ELSE <<Empty, Empty>>
        /\ v'[0].wr = IF kind = READ THEN <<Empty, Empty>> ELSE <<CurSlot(t), Empty>>
    BY <1>3, <2>3 DEF WithSlots, NoAccess
  <2>5. QED
    BY <1>4, <1>7, <2>2, <2>4 DEF RecordsFirst
<1>8. CASE ~ is_racy /\ ~ FirstAccess /\ ScanStops(t, kind) # {}
  <2>1. ScanStops(t, kind) \in SUBSET (0 .. 4)
    BY <1>2 DEF ScanStops
  <2>2. Min(ScanStops(t, kind)) \in ScanStops(t, kind)
    BY <1>8, <2>1, MinMember
  <2>3. Min(ScanStops(t, kind)) = 0 /\ Stops(t, 0, kind)
    BY <1>2, <2>2 DEF ScanStops
  <2>4. StopAt(t, 0, kind)
    BY <1>8, <2>3 DEF RecordMem
  <2>5. CASE SameEpoch(t, v[0], kind)
    BY <1>4, <1>8, <2>4, <2>5 DEF StopAt, SeenBefore, shadowVars
  <2>6. CASE ~ SameEpoch(t, v[0], kind)
    <3>1. is_racy' = TRUE /\ v' = v /\ cursize' = cursize
      BY <2>4, <2>6 DEF StopAt
    <3>2. QED
      BY <1>4, <1>5, <1>8, <2>3, <2>6, <3>1 DEF Reports
  <2>7. QED
    BY <2>5, <2>6
<1>9. CASE ~ is_racy /\ ~ FirstAccess /\ ScanStops(t, kind) = {}
  <2>1. ~ Stops(t, 0, kind)
    BY <1>2, <1>9 DEF ScanStops
  <2>2. \A i : i \in Matching(t) <=> i = 0
    BY <1>1, <1>2 DEF Matching
  <2>3. Matching(t) \in SUBSET (0 .. 2) /\ Matching(t) # {}
    BY <2>2
  <2>4. Max(Matching(t)) = 0
    BY <2>2, <2>3, MaxMember
  <2>5. RecordInEntry(t, 0, kind)
    BY <1>9, <2>3, <2>4 DEF RecordMem
  <2>6. /\ v'[0] = WithSlots(v[0], kind, UpdateSlots(t, SlotsOf(v[0], kind)))
        /\ cursize' = 0 /\ is_racy' = is_racy
    BY <1>1, <2>5 DEF RecordInEntry
  <2>7. /\ v'[0].rd = IF kind = READ THEN UpdateSlots(t, v[0].rd) ELSE v[0].rd
        /\ v'[0].wr = IF kind = READ THEN v[0].wr ELSE UpdateSlots(t, v[0].wr)
    BY <1>1, <1>3, <2>6 DEF WithSlots, SlotsOf, LockState
  <2>8. QED
    BY <1>4, <1>5, <1>9, <2>1, <2>6, <2>7 DEF Records
<1>10. QED
  BY <1>6, <1>7, <1>8, <1>9

(* The slots a new access is checked against, for the only entry.          *)
LEMMA RacingIs ==
  ASSUME NEW t \in Task, NEW kind \in AccessType, NEW e \in LockState
  PROVE  RacingSlots(t, e, kind) # {} <=>
           \/ ~ HappensBeforeSlot(t, e.wr[1]) \/ ~ HappensBeforeSlot(t, e.wr[2])
           \/ /\ kind = WRITE
              /\ ~ HappensBeforeSlot(t, e.rd[1]) \/ ~ HappensBeforeSlot(t, e.rd[2])
<1> DEFINE tag(x, k) == [tid |-> x.tid, clk |-> x.clk, kind |-> k]
<1>1. \A x, k : HappensBeforeSlot(t, tag(x, k)) <=> HappensBeforeSlot(t, x)
  BY DEF HappensBeforeSlot
<1>2. CASE kind = READ
  <2>1. ConflictingSlots(e, kind) = <<tag(e.wr[1], WRITE), tag(e.wr[2], WRITE)>>
    BY <1>2 DEF ConflictingSlots
  <2> HIDE DEF tag
  <2>2. /\ \A j : j \in DOMAIN ConflictingSlots(e, kind) <=> j = 1 \/ j = 2
        /\ ConflictingSlots(e, kind)[1] = tag(e.wr[1], WRITE)
        /\ ConflictingSlots(e, kind)[2] = tag(e.wr[2], WRITE)
    BY <2>1
  <2>3. kind # WRITE
    BY <1>2 DEF READ, WRITE
  <2>4. QED
    BY <1>1, <2>2, <2>3 DEF RacingSlots
<1>3. CASE kind = WRITE
  <2>1. ConflictingSlots(e, kind) = <<tag(e.wr[1], WRITE), tag(e.wr[2], WRITE),
                                      tag(e.rd[1], READ), tag(e.rd[2], READ)>>
    BY <1>3, ConcatPairs DEF ConflictingSlots, READ, WRITE
  <2> HIDE DEF tag
  <2>2. /\ \A j : j \in DOMAIN ConflictingSlots(e, kind) <=>
                    j = 1 \/ j = 2 \/ j = 3 \/ j = 4
        /\ ConflictingSlots(e, kind)[1] = tag(e.wr[1], WRITE)
        /\ ConflictingSlots(e, kind)[2] = tag(e.wr[2], WRITE)
        /\ ConflictingSlots(e, kind)[3] = tag(e.rd[1], READ)
        /\ ConflictingSlots(e, kind)[4] = tag(e.rd[2], READ)
    BY <2>1
  <2>3. QED
    BY <1>1, <1>3, <2>2 DEF RacingSlots
<1>4. QED
  BY <1>2, <1>3 DEF AccessType

(***************************************************************************)
(* A slot in use stands for an access of the history that is judged right, *)
(* and the word is either all dead, left by an earlier phase of main, or   *)
(* has no dead slot in use.                                                *)
(***************************************************************************)
SlotFrom(x, kind) ==
  IF x.clk = 0 THEN x.tid = 0
  ELSE \E a \in history : /\ a.task = x.tid /\ a.kind = kind
                           /\ a.seg \in Nat /\ Good(x.tid, a.seg, x.clk)

Fresh(x) == x.clk # 0 => ~ check_dead(x.tid, x.clk)

EntryFrom(e) ==
  /\ SlotFrom(e.rd[1], READ) /\ SlotFrom(e.rd[2], READ)
  /\ SlotFrom(e.wr[1], WRITE) /\ SlotFrom(e.wr[2], WRITE)

EntryFresh(e) == Fresh(e.rd[1]) /\ Fresh(e.rd[2]) /\ Fresh(e.wr[1]) /\ Fresh(e.wr[2])

WordInv ==
  /\ cursize = 0
  /\ \A e \in LockState : e = v[0] => EntryFrom(e) /\ (EntryDead(e) \/ EntryFresh(e))

LEMMA SlotTypesIn ==
  ASSUME ShadowTypeOK
  PROVE  /\ v[0] \in LockState
         /\ v[0].rd[1] \in Slot /\ v[0].rd[2] \in Slot
         /\ v[0].wr[1] \in Slot /\ v[0].wr[2] \in Slot
BY DEF ShadowTypeOK, LockState, Entry, NUM_FIXED_VAR_ENTRIES

LEMMA SlotFromGrows ==
  ASSUME NEW x \in Slot, NEW kind, SlotFrom(x, kind), history \subseteq history',
         \A u \in Task, n, k \in Nat : Good(u, n, k) => Good(u, n, k)'
  PROVE  SlotFrom(x, kind)'
<1>1. x.tid \in Task /\ x.clk \in Nat
  BY DEF Slot
<1>2. QED
  BY <1>1 DEF SlotFrom

LEMMA CurSlotFrom ==
  ASSUME TasksTypeOK, TreeInv, ForkInv, NEW t \in Task, NEW kind \in AccessType,
         Access(t, kind),
         \A u \in Task, n, k \in Nat : Good(u, n, k) => Good(u, n, k)'
  PROVE  /\ Live(t) /\ CurSlot(t).tid = t /\ CurSlot(t).clk = clock[t]
         /\ Good(t, seg[t], clock[t])
         /\ Fresh(CurSlot(t))
         /\ \A x \in Slot : x = CurSlot(t) => SlotFrom(x, kind)'
<1>1. Live(t) /\ status[t] # "finished"
  BY ActiveIsLive DEF Access, Running
<1>2. Good(t, seg[t], clock[t]) /\ ~ check_dead(t, clock[t])
  BY <1>1, GoodNow, NotDeadNow
<1>3. seg[t] \in Nat /\ clock[t] \in Nat
  BY DEF TasksTypeOK
<1>4. CurSlot(t).tid = t /\ CurSlot(t).clk = clock[t]
  BY DEF CurSlot
<1>5. AccessOf(t, kind, held[t]) \in history'
  BY DEF Access, HBAccess
<1>6. \A n, k \in Nat : n = seg[t] /\ k = clock[t] => Good(t, n, k)'
  <2>1. Good(t, seg[t], clock[t]) => \A n, k \in Nat : n = seg[t] /\ k = clock[t] => Good(t, n, k)
    OBVIOUS
  <2>2. QED
    BY <1>2, <2>1
<1>7. ASSUME NEW x \in Slot, x = CurSlot(t) PROVE SlotFrom(x, kind)'
  <2> DEFINE a == AccessOf(t, kind, held[t])
  <2>1. x.tid = t /\ x.clk = clock[t]
    BY <1>4, <1>7
  <2>2. a.task = t /\ a.kind = kind /\ a.seg = seg[t]
    BY DEF AccessOf
  <2>3. \A n, k \in Nat : n = a.seg /\ k = x.clk => Good(x.tid, n, k)'
    BY <1>6, <2>1, <2>2
  <2>4. a \in history' /\ a.seg \in Nat /\ x.clk \in Nat
    BY <1>3, <1>5, <2>1, <2>2
  <2> HIDE DEF a
  <2>5. \E b \in history' : b.task = x.tid /\ b.kind = kind
                            /\ b.seg \in Nat /\ Good(x.tid, b.seg, x.clk)'
    BY <2>1, <2>2, <2>3, <2>4
  <2>6. x.clk # 0
    BY <1>1, <2>1, NotDeadNow
  <2>7. QED
    BY <2>5, <2>6 DEF SlotFrom
<1>8. QED
  BY <1>1, <1>2, <1>4, <1>7 DEF Fresh

(* A live task takes a fresh slot for past exactly when it knows of it.    *)
Knows(d, p) == d = p[1] \/ p \in before[d]

LEMMA SlotVerdict ==
  ASSUME NEW t \in Task, Live(t), NEW x \in Slot, x.clk # 0, NEW n \in Nat,
         Good(x.tid, n, x.clk), ~ check_dead(x.tid, x.clk)
  PROVE  HappensBeforeSlot(t, x) <=> Knows(t, <<x.tid, n>>)
<1>1. CASE t = x.tid
  BY <1>1 DEF Good, HappensBeforeSlot, OrderedBefore, Knows
<1>2. CASE t # x.tid
  <2>1. Judged(t, x.tid, n, x.clk)
    BY <1>2 DEF Good
  <2>2. QED
    BY <1>2, <2>1 DEF Judged, HappensBeforeSlot, Knows
<1>3. QED
  BY <1>1, <1>2

LEMMA ReportedRace ==
  ASSUME StrictForkJoin, TasksTypeOK, NEW t \in Task, Live(t), NEW x \in Slot,
         NEW k \in AccessType, NEW kind \in AccessType, WRITE \in {k, kind},
         SlotFrom(x, k), Fresh(x), ~ HappensBeforeSlot(t, x)
  PROVE  RacesWith(t, kind, held[t]) # {}
<1>1. x.clk # 0
  BY DEF HappensBeforeSlot
<1>2. PICK a \in history : /\ a.task = x.tid /\ a.kind = k
                           /\ a.seg \in Nat /\ Good(x.tid, a.seg, x.clk)
  BY <1>1 DEF SlotFrom
<1>3. ~ Knows(t, <<x.tid, a.seg>>)
  BY <1>1, <1>2, SlotVerdict DEF Fresh
<1>4. Concurrent(t, a)
  BY <1>2, <1>3 DEF Concurrent, Knows
<1>5. held[t] = {}
  BY DEF TasksTypeOK, StrictForkJoin
<1>6. a \in RacesWith(t, kind, held[t])
  BY <1>2, <1>4, <1>5 DEF RacesWith
<1>7. QED
  BY <1>6

LEMMA WordInit == TasksTypeOK /\ ShadowInit => WordInv
<1> SUFFICES ASSUME TasksTypeOK, ShadowInit PROVE WordInv
  OBVIOUS
<1>1. cursize = 0 /\ v[0] = NoAccess
  BY DEF ShadowInit, Entry, NUM_FIXED_VAR_ENTRIES
<1>2. \A e : e = NoAccess => /\ e.rd[1] = Empty /\ e.rd[2] = Empty
                             /\ e.wr[1] = Empty /\ e.wr[2] = Empty
  BY DEF NoAccess
<1>3. \A x : x = Empty => x.clk = 0 /\ x.tid = 0
  BY DEF Empty
<1>4. \A e \in LockState : e = v[0] => EntryFrom(e) /\ EntryFresh(e)
  BY <1>1, <1>2, <1>3 DEF EntryFrom, EntryFresh, SlotFrom, Fresh
<1>5. QED
  BY <1>1, <1>4 DEF WordInv

(* What check_dead says after a step: at the end of a phase all is dead.   *)
LEMMA DeadNext ==
  ASSUME TasksTypeOK, TreeInv, ForkInv, ForkJoinStep \/ QuietStep
  PROVE  \/ \A u, k : check_dead(u, k)' <=> check_dead(u, k)
         \/ \A u \in Task, k \in Nat : /\ k = 0 /\ u = 0 => check_dead(u, k)'
                                       /\ \A n : Good(u, n, k) => check_dead(u, k)'
<1>1. \A u, k : /\ num_dead_tasks' = num_dead_tasks
                /\ dead_clock_value' = dead_clock_value
                => (check_dead(u, k)' <=> check_dead(u, k))
  BY DEF check_dead
<1>2. ASSUME NEW s \in Task, NEW c \in Task, NEW next, ForkStep(s, c, next)
      PROVE  num_dead_tasks' = num_dead_tasks /\ dead_clock_value' = dead_clock_value
  BY <1>2, ForkFacts
<1>3. ASSUME NEW p \in Task, JoinStep(p, child_list[p])
      PROVE  num_dead_tasks' = num_dead_tasks /\ dead_clock_value' = dead_clock_value
  BY <1>3 DEF JoinStep, deadVars
<1>4. CASE QuietStep
  BY <1>1, <1>4 DEF QuietStep, deadVars
<1>5. CASE DeadStep(child_list[0])
  <2>1. num_dead_tasks' = task_id_ctr /\ dead_clock_value' = clock[0]
    BY <1>5 DEF DeadStep
  <2>2. ASSUME NEW u \in Task, NEW k \in Nat, NEW n, Good(u, n, k)
        PROVE  check_dead(u, k)'
    <3>1. u <= task_id_ctr /\ k <= clock[u] /\ u \in Nat
      BY <2>2, TaskFacts DEF Good
    <3>2. QED
      BY <2>1, <3>1 DEF check_dead
  <2>3. clock[0] \in Nat
    BY TaskFacts DEF TasksTypeOK
  <2>4. \A u \in Task, k \in Nat : k = 0 /\ u = 0 => check_dead(u, k)'
    BY <2>1, <2>3 DEF check_dead
  <2>5. QED
    BY <2>2, <2>4
<1>6. QED
  BY <1>1, <1>2, <1>3, <1>4, <1>5, FourSteps

LEMMA WordTaskStep ==
  ASSUME TasksTypeOK, TreeInv, ForkInv, TasksTypeOK', TreeInv',
         ShadowTypeOK, WordInv, ForkJoinStep \/ QuietStep,
         UNCHANGED shadowVars, history' = history
  PROVE  WordInv'
<1>1. v' = v /\ cursize' = 0
  BY DEF shadowVars, WordInv
<1>2. \A u \in Task, n, k \in Nat : Good(u, n, k) => Good(u, n, k)'
  BY GoodStep
<1>3. ASSUME NEW e \in LockState, e = v[0]
      PROVE  EntryFrom(e)' /\ (EntryDead(e)' \/ EntryFresh(e)')
  <2>1. EntryFrom(e) /\ (EntryDead(e) \/ EntryFresh(e))
    BY <1>3 DEF WordInv
  <2>2. e.rd[1] \in Slot /\ e.rd[2] \in Slot /\ e.wr[1] \in Slot /\ e.wr[2] \in Slot
    BY DEF LockState
  <2>3. EntryFrom(e)'
    BY <1>2, <2>1, <2>2, SlotFromGrows DEF EntryFrom
  <2>4. CASE \A u, k : check_dead(u, k)' <=> check_dead(u, k)
    BY <2>1, <2>3, <2>4 DEF EntryDead, EntryFresh, Fresh
  <2>5. CASE \A u \in Task, k \in Nat : /\ k = 0 /\ u = 0 => check_dead(u, k)'
                                        /\ \A n : Good(u, n, k) => check_dead(u, k)'
    <3>1. ASSUME NEW x \in Slot, NEW kind, SlotFrom(x, kind)
          PROVE  check_dead(x.tid, x.clk)'
      <4>1. x.tid \in Task /\ x.clk \in Nat
        BY DEF Slot
      <4>2. QED
        BY <2>5, <3>1, <4>1 DEF SlotFrom
    <3>2. EntryDead(e)'
      BY <2>1, <2>2, <3>1 DEF EntryFrom, EntryDead
    <3>3. QED
      BY <2>3, <3>2
  <2>6. QED
    BY <2>4, <2>5, DeadNext
<1>4. QED
  BY <1>1, <1>3 DEF WordInv

LEMMA UpdateSlotsIs ==
  ASSUME NEW t \in Task, NEW pair
  PROVE  \/ UpdateSlots(t, pair) = <<CurSlot(t), pair[2]>>
         \/ UpdateSlots(t, pair) = <<pair[1], CurSlot(t)>>
         \/ UpdateSlots(t, pair) = pair
BY DEF UpdateSlots

LEMMA WordAccess ==
  ASSUME StrictForkJoin, TasksTypeOK, TreeInv, ForkInv, TasksTypeOK', TreeInv',
         ShadowTypeOK, ShadowTypeOK', WordInv,
         NEW t \in Task, NEW kind \in AccessType, Access(t, kind)
  PROVE  WordInv' /\ (is_racy' => is_racy \/ raced')
<1>1. RecordMem(t, kind) /\ cursize = 0
  BY DEF Access, WordInv
<1>2. QuietStep /\ history \subseteq history'
  BY StillIsQuiet DEF Access, HBAccess
<1>3. \A u \in Task, n, k \in Nat : Good(u, n, k) => Good(u, n, k)'
  BY <1>2, GoodStep
<1>4. \A u, k : check_dead(u, k)' <=> check_dead(u, k)
  BY <1>2 DEF QuietStep, deadVars, check_dead
<1>5. /\ Live(t) /\ Fresh(CurSlot(t)) /\ CurSlot(t) \in Slot
      /\ \A x \in Slot : x = CurSlot(t) => SlotFrom(x, kind)'
  BY <1>3, CurSlotFrom, SlotTypes
<1>6. \A x \in Slot : x = Empty => Fresh(x) /\ \A k : SlotFrom(x, k)'
  BY DEF Empty, Fresh, SlotFrom
<1>7. \A x \in Slot : \A k : SlotFrom(x, k) => SlotFrom(x, k)'
  BY <1>2, <1>3, SlotFromGrows
<1>8. /\ v[0] \in LockState
      /\ v[0].rd[1] \in Slot /\ v[0].rd[2] \in Slot
      /\ v[0].wr[1] \in Slot /\ v[0].wr[2] \in Slot
  BY SlotTypesIn
<1>9. EntryFrom(v[0]) /\ (EntryDead(v[0]) \/ EntryFresh(v[0]))
  BY <1>8 DEF WordInv
<1>10. kind = READ \/ (kind = WRITE /\ kind # READ)
  BY DEF AccessType, READ, WRITE
<1>11. /\ cursize' = 0
       /\ \/ is_racy /\ UNCHANGED shadowVars
          \/ ~ is_racy /\ RecordsFirst(t, kind)
          \/ /\ ~ is_racy /\ ~ EntryDead(v[0])
             /\ SeenBefore(t, kind) \/ Reports(t, kind) \/ Records(t, kind)
  BY <1>1, OneEntry
<1>12. ASSUME NEW e \in LockState, e = v[0]
       PROVE  EntryFrom(e)' /\ (EntryDead(e)' \/ EntryFresh(e)')
  BY <1>4, <1>7, <1>8, <1>9, <1>12 DEF EntryFrom, EntryDead, EntryFresh, Fresh
<1>13. CASE v' = v
  <2>1. WordInv'
    BY <1>11, <1>12, <1>13 DEF WordInv
  <2>2. ASSUME is_racy', ~ is_racy PROVE raced'
    <3>1. ~ EntryDead(v[0]) /\ RacingSlots(t, v[0], kind) # {}
      BY <1>11, <2>2 DEF RecordsFirst, SeenBefore, Reports, Records, shadowVars
    <3>2. EntryFresh(v[0])
      BY <1>9, <3>1
    <3>3. \/ ~ HappensBeforeSlot(t, v[0].wr[1]) \/ ~ HappensBeforeSlot(t, v[0].wr[2])
          \/ /\ kind = WRITE
             /\ ~ HappensBeforeSlot(t, v[0].rd[1]) \/ ~ HappensBeforeSlot(t, v[0].rd[2])
      BY <1>8, <3>1, RacingIs
    <3>4. PICK x \in Slot, k \in AccessType :
            /\ WRITE \in {k, kind}
            /\ SlotFrom(x, k) /\ Fresh(x) /\ ~ HappensBeforeSlot(t, x)
      BY <1>8, <1>9, <3>2, <3>3 DEF EntryFrom, EntryFresh, AccessType
    <3>5. RacesWith(t, kind, held[t]) # {}
      BY <1>5, <3>4, ReportedRace
    <3>6. QED
      BY <3>5 DEF Access, HBAccess
  <2>3. QED
    BY <2>1, <2>2
<1>14. CASE RecordsFirst(t, kind)
  <2>1. ASSUME NEW e \in LockState, e = v'[0]
        PROVE  EntryFrom(e)' /\ EntryFresh(e)
    <3>1. /\ e.rd[1] \in Slot /\ e.rd[2] \in Slot /\ e.wr[1] \in Slot /\ e.wr[2] \in Slot
      BY DEF LockState
    <3>2. CASE kind = READ
      <4>1. e.rd[1] = CurSlot(t) /\ e.rd[2] = Empty /\ e.wr[1] = Empty /\ e.wr[2] = Empty
        BY <1>14, <2>1, <3>2 DEF RecordsFirst
      <4>2. QED
        BY <1>5, <1>6, <3>1, <3>2, <4>1 DEF EntryFrom, EntryFresh
    <3>3. CASE kind = WRITE /\ kind # READ
      <4>1. e.wr[1] = CurSlot(t) /\ e.wr[2] = Empty /\ e.rd[1] = Empty /\ e.rd[2] = Empty
        BY <1>14, <2>1, <3>3 DEF RecordsFirst
      <4>2. QED
        BY <1>5, <1>6, <3>1, <3>3, <4>1 DEF EntryFrom, EntryFresh
    <3>4. QED
      BY <1>10, <3>2, <3>3
  <2>2. \A e \in LockState : EntryFresh(e) => EntryFresh(e)'
    BY <1>4 DEF EntryFresh, Fresh
  <2>3. QED
    BY <1>11, <1>14, <2>1, <2>2 DEF WordInv, RecordsFirst
<1>15. CASE ~ EntryDead(v[0]) /\ Records(t, kind)
  <2>1. EntryFresh(v[0])
    BY <1>9, <1>15
  <2>2. ASSUME NEW e \in LockState, e = v'[0]
        PROVE  EntryFrom(e)' /\ EntryFresh(e)
    <3>1. /\ e.rd[1] \in Slot /\ e.rd[2] \in Slot /\ e.wr[1] \in Slot /\ e.wr[2] \in Slot
      BY DEF LockState
    <3>2. CASE kind = READ
      <4>1. /\ e.wr = v[0].wr
            /\ e.rd[1] = CurSlot(t) \/ e.rd[1] = v[0].rd[1]
            /\ e.rd[2] = CurSlot(t) \/ e.rd[2] = v[0].rd[2]
        BY <1>15, <2>2, <3>2, UpdateSlotsIs DEF Records
      <4>2. QED
        BY <1>5, <1>7, <1>9, <2>1, <3>1, <3>2, <4>1 DEF EntryFrom, EntryFresh
    <3>3. CASE kind = WRITE /\ kind # READ
      <4>1. /\ e.rd = v[0].rd
            /\ e.wr[1] = CurSlot(t) \/ e.wr[1] = v[0].wr[1]
            /\ e.wr[2] = CurSlot(t) \/ e.wr[2] = v[0].wr[2]
        BY <1>15, <2>2, <3>3, UpdateSlotsIs DEF Records
      <4>2. QED
        BY <1>5, <1>7, <1>9, <2>1, <3>1, <3>3, <4>1 DEF EntryFrom, EntryFresh
    <3>4. QED
      BY <1>10, <3>2, <3>3
  <2>3. \A e \in LockState : EntryFresh(e) => EntryFresh(e)'
    BY <1>4 DEF EntryFresh, Fresh
  <2>4. QED
    BY <1>11, <1>15, <2>2, <2>3 DEF WordInv, Records
<1>16. QED
  BY <1>11, <1>13, <1>14, <1>15 DEF SeenBefore, Reports, shadowVars

LEMMA NoAccessMade == TaskStep => history' = history /\ raced' = raced
<1> SUFFICES ASSUME TaskStep PROVE history' = history /\ raced' = raced
  OBVIOUS
<1>1. ASSUME NEW s, NEW p, NEW c, CaptureSpawn(s, p, c)
      PROVE  history' = history /\ raced' = raced
  BY <1>1 DEF CaptureSpawn
<1>2. ASSUME NEW s \in Task, NEW c \in Task,
             \/ Spawn(s, c) \/ SpawnAndWaitForAll(s, c) \/ SpawnSibling(s, c)
             \/ SpawnRootAndWait(s, c)
      PROVE  history' = history /\ raced' = raced
  BY <1>1, <1>2 DEF Spawn, SpawnAndWaitForAll, SpawnThen, SpawnSibling, SpawnRootAndWait
<1>3. ASSUME NEW t \in Task,
             \/ ExecBegin(t) \/ ExecEnd(t) \/ WaitForAll(t)
             \/ WaitForAllReturn(t) \/ RootWaitReturn(t)
      PROVE  history' = history /\ raced' = raced
  BY <1>3 DEF ExecBegin, ExecEnd, WaitForAll, WaitForAllReturn, RootWaitReturn,
              WaitReturn, hbVars
<1>4. ASSUME MainReturns \/ \E t \in Task, l \in Locks : LockAcquire(t, l) \/ LockRelease(t, l)
      PROVE  history' = history /\ raced' = raced
  BY <1>4 DEF MainReturns, LockAcquire, LockRelease, hbVars
<1>5. QED
  BY <1>2, <1>3, <1>4 DEF TaskStep

(* The invariant of the detector on such programs, and its steps.          *)
DetectorInv == TasksInv /\ ForkInv /\ ShadowTypeOK /\ WordInv

LEMMA DetectorInit == Init => DetectorInv
BY TasksInitType, TreeInit, ForkInit, ShadowInitType, WordInit
   DEF Init, TasksInv, DetectorInv

LEMMA DetectorStep ==
  ASSUME StrictForkJoin, DetectorInv, [Next]_vars
  PROVE  DetectorInv' /\ ((is_racy' => raced') \/ ~ (is_racy => raced))
<1>1. TasksInv'
  BY TasksInvStep DEF DetectorInv
<1>2. /\ TasksTypeOK /\ TreeInv /\ ForkInv /\ ShadowTypeOK /\ WordInv
      /\ TasksTypeOK' /\ TreeInv'
  BY <1>1 DEF TasksInv, DetectorInv
<1>3. ForkJoinStep \/ QuietStep
  BY <1>2, NextIsForkJoin
<1>4. ForkInv'
  BY <1>2, <1>3, GoodStep
<1>5. CASE UNCHANGED shadowVars /\ history' = history /\ raced' = raced
  <2>1. ShadowTypeOK'
    BY <1>2, <1>5 DEF ShadowTypeOK, shadowVars
  <2>2. WordInv'
    BY <1>2, <1>3, <1>5, WordTaskStep
  <2>3. QED
    BY <1>1, <1>4, <1>5, <2>1, <2>2 DEF DetectorInv, shadowVars
<1>6. ASSUME NEW t \in Task, NEW kind \in AccessType, Access(t, kind)
      PROVE  DetectorInv' /\ ((is_racy' => raced') \/ ~ (is_racy => raced))
  <2>1. ShadowTypeOK'
    BY <1>2, <1>6, RecordMemType DEF Access
  <2>2. WordInv' /\ (is_racy' => is_racy \/ raced')
    BY <1>2, <1>6, <2>1, WordAccess
  <2>3. raced => raced'
    BY <1>6 DEF Access, HBAccess
  <2>4. QED
    BY <1>1, <1>4, <2>1, <2>2, <2>3 DEF DetectorInv
<1>7. QED
  BY <1>5, <1>6, NoAccessMade DEF Next, Terminated, vars, allTaskVars, hbVars

(***************************************************************************)
(* No false report, for any number of tasks and accesses: what the word    *)
(* holds is judged right, so a slot that is not ordered before the access  *)
(* stands for one it races with.                                           *)
(***************************************************************************)
THEOREM NoFalseReports ==
  ASSUME StrictForkJoin
  PROVE  Spec => []NoFalseReport
<1>1. Init => DetectorInv /\ NoFalseReport
  BY DetectorInit DEF Init, ShadowInit, NoFalseReport
<1>2. DetectorInv /\ NoFalseReport /\ [Next]_vars => DetectorInv' /\ NoFalseReport'
  BY DetectorStep DEF NoFalseReport
<1>3. QED
  BY <1>1, <1>2, PTL DEF Spec

-----------------------------------------------------------------------------
(***************************************************************************)
(* The tree as the paths m_vc show it: u is under d when the path of d is  *)
(* the beginning of the path of u.  Paths outlive the tasks, so this also  *)
(* says where a task was that has been joined.                             *)
(***************************************************************************)
Under(u, d) ==
  /\ depth(d) <= depth(u)
  /\ \A i \in Nat : 0 < i /\ i <= depth(d) => m_vc[u][i] = m_vc[d][i]

LEMMA DepthNat == ASSUME TasksTypeOK PROVE \A t \in Task : depth(t) \in Nat
BY LenProperties DEF depth, TasksTypeOK

LEMMA UnderItself ==
  ASSUME TasksTypeOK
  PROVE  /\ \A t \in Task : Under(t, t)
         /\ \A t, u, d \in Task : Under(t, u) /\ Under(u, d) => Under(t, d)
<1>1. \A t \in Task : depth(t) \in Nat
  BY DepthNat
<1>2. \A t \in Task : Under(t, t)
  BY <1>1 DEF Under
<1>3. ASSUME NEW t \in Task, NEW u \in Task, NEW d \in Task, Under(t, u), Under(u, d)
      PROVE  Under(t, d)
  <2>1. depth(t) \in Nat /\ depth(u) \in Nat /\ depth(d) \in Nat
    BY <1>1
  <2>2. depth(d) <= depth(u) /\ depth(u) <= depth(t)
    BY <1>3 DEF Under
  <2>3. ASSUME NEW i \in Nat, 0 < i, i <= depth(d) PROVE m_vc[t][i] = m_vc[d][i]
    <3>1. i <= depth(u)
      BY <2>1, <2>2, <2>3
    <3>2. QED
      BY <1>3, <2>3, <3>1 DEF Under
  <2>4. depth(d) <= depth(t)
    BY <2>1, <2>2
  <2>5. QED
    BY <2>3, <2>4 DEF Under
<1>4. QED
  BY <1>2, <1>3

(* Of two tasks with a task under both, one is under the other.            *)
LEMMA UnderBoth ==
  ASSUME TasksTypeOK, NEW t \in Task, NEW c \in Task, NEW d \in Task,
         Under(t, c), Under(t, d), depth(d) <= depth(c)
  PROVE  Under(c, d)
<1>1. depth(c) \in Nat /\ depth(d) \in Nat
  BY DepthNat
<1>2. ASSUME NEW i \in Nat, 0 < i, i <= depth(d) PROVE m_vc[c][i] = m_vc[d][i]
  <2>1. i <= depth(c)
    BY <1>1, <1>2
  <2>2. QED
    BY <1>2, <2>1 DEF Under
<1>3. QED
  BY <1>2 DEF Under

LEMMA SamePath ==
  ASSUME TasksTypeOK, TreeInv, NEW t \in Task, NEW d \in Task,
         t <= task_id_ctr, d <= task_id_ctr, Under(t, d), depth(d) = depth(t)
  PROVE  t = d
<1>1. m_vc[t] \in Seq(Nat) /\ m_vc[d] \in Seq(Nat) /\ Len(m_vc[t]) = Len(m_vc[d])
      /\ Len(m_vc[t]) \in Nat
  BY DepthNat DEF depth, TasksTypeOK
<1>2. \A i \in 1 .. Len(m_vc[t]) : m_vc[t][i] = m_vc[d][i]
  <2>1. \A i \in 1 .. Len(m_vc[t]) : i \in Nat /\ 0 < i /\ i <= depth(d)
    BY <1>1 DEF depth
  <2>2. QED
    BY <2>1 DEF Under
<1>3. m_vc[t] = m_vc[d]
  BY <1>1, <1>2, SeqEqual
<1>4. t \in 0 .. task_id_ctr /\ d \in 0 .. task_id_ctr
  <2>1. t \in Nat /\ d \in Nat /\ task_id_ctr \in Nat
    BY TaskFacts DEF TasksTypeOK
  <2>2. QED
    BY <2>1
<1>5. QED
  BY <1>3, <1>4 DEF TreeInv, UniquePaths

(* The path of a task is that of its parent and one clock more.            *)
LEMMA PathStep ==
  ASSUME TasksTypeOK, TreeInv, NEW c \in Task, c # 0, c <= task_id_ctr
  PROVE  /\ parent_taskId[c] \in Task /\ parent_taskId[c] < c
         /\ parent_taskId[c] <= task_id_ctr
         /\ depth(c) = depth(parent_taskId[c]) + 1
         /\ Under(c, parent_taskId[c])
<1> DEFINE p == parent_taskId[c]
<1>1. c \in Born /\ p \in Task /\ c \in Nat /\ p \in Nat /\ task_id_ctr \in Nat
  <2>1. c \in Nat /\ task_id_ctr \in Nat /\ p \in Task
    BY TaskFacts DEF TasksTypeOK
  <2>2. p \in Nat
    BY <2>1, TaskFacts
  <2>3. c \in Born
    BY <2>1 DEF Born
  <2>4. QED
    BY <2>1, <2>2, <2>3
<1>2. p < c
  BY <1>1 DEF TreeInv, Genealogy
<1>3. PICK k \in Nat : m_vc[c] = Append(m_vc[p], k)
  BY <1>1 DEF TreeInv, Paths, PathOf
<1>4. m_vc[p] \in Seq(Nat)
  BY <1>1 DEF TasksTypeOK
<1>5. /\ Len(m_vc[p]) \in Nat /\ Len(m_vc[c]) = Len(m_vc[p]) + 1
      /\ \A i \in 1 .. Len(m_vc[p]) : m_vc[c][i] = m_vc[p][i]
  BY <1>3, <1>4, AppendFacts
<1>6. depth(c) = depth(p) + 1 /\ depth(p) \in Nat
      /\ \A i \in Nat : 0 < i /\ i <= depth(p) => m_vc[c][i] = m_vc[p][i]
  BY <1>5 DEF depth
<1>7. Under(c, p)
  BY <1>6 DEF Under
<1>8. QED
  BY <1>1, <1>2, <1>6, <1>7

LEMMA ThroughParent ==
  ASSUME TasksTypeOK, TreeInv, NEW c \in Task, c # 0, c <= task_id_ctr,
         NEW d \in Task, d <= task_id_ctr, d # c
  PROVE  Under(c, d) <=> Under(parent_taskId[c], d)
<1> DEFINE p == parent_taskId[c]
<1>1. p \in Task /\ depth(c) = depth(p) + 1 /\ Under(c, p)
  BY PathStep
<1>2. Under(p, d) => Under(c, d)
  BY <1>1, UnderItself
<1>3. ASSUME Under(c, d) PROVE Under(p, d)
  <2>1. depth(d) # depth(c) /\ depth(d) <= depth(c)
    BY <1>3, SamePath DEF Under
  <2>2. depth(d) \in Nat /\ depth(p) \in Nat
    BY <1>1, DepthNat
  <2>3. depth(d) <= depth(p)
    BY <1>1, <2>1, <2>2
  <2>4. QED
    BY <1>1, <1>3, <2>3, UnderBoth
<1>4. QED
  BY <1>2, <1>3

(* The tasks above a task are those it has a clock of.                     *)
LEMMA UnderIsAncestor ==
  ASSUME TasksTypeOK, TreeInv, ForkInv, NEW d \in Task, d <= task_id_ctr
  PROVE  \A t \in Task : t <= task_id_ctr /\ Under(t, d) => t = d \/ ancClock[t][d] # 0
<1> DEFINE Bad == {t \in Task : /\ t <= task_id_ctr /\ Under(t, d)
                                /\ t # d /\ ancClock[t][d] = 0}
<1>1. SUFFICES ASSUME Bad # {} PROVE FALSE
  OBVIOUS
<1>2. Bad \in SUBSET Nat
  BY TaskFacts
<1>3. PICK t \in Bad : \A y \in Bad : t <= y
  BY <1>1, <1>2, LeastExists, Zenon
<1>4. /\ t \in Task /\ t <= task_id_ctr /\ Under(t, d) /\ t # d /\ ancClock[t][d] = 0
      /\ t \in Nat /\ d \in Nat
  BY TaskFacts
<1> HIDE DEF Bad
<1>5. t # 0
  <2>1. SUFFICES ASSUME t = 0 PROVE FALSE
    OBVIOUS
  <2>2. Len(m_vc[0]) = 0
    BY DEF TreeInv, Paths
  <2>3. depth(d) \in Nat /\ depth(d) <= depth(t) /\ depth(t) = 0
    BY <1>4, <2>1, <2>2, DepthNat DEF Under, depth
  <2>4. QED
    BY <1>4, <2>3, SamePath
<1> DEFINE p == parent_taskId[t]
<1>6. p \in Task /\ p < t /\ p <= task_id_ctr /\ p \in Nat
  BY <1>4, <1>5, PathStep, TaskFacts
<1>7. Under(p, d)
  BY <1>4, <1>5, ThroughParent
<1>8. p \notin Bad
  BY <1>3, <1>4, <1>6
<1>9. p = d \/ ancClock[p][d] # 0
  BY <1>6, <1>7, <1>8 DEF Bad
<1>10. ancClock[t][d] # 0
  BY <1>4, <1>5, <1>9 DEF ForkInv, Inherited
<1>11. QED
  BY <1>4, <1>10

(* A task has a task above it at every depth up to its own, a live one if  *)
(* it is live.                                                             *)
LEMMA AboveAt ==
  ASSUME TasksTypeOK, TreeInv, ForkInv, NEW j \in Nat
  PROVE  \A t \in Task : t <= task_id_ctr /\ j <= depth(t) =>
           \E c \in Task : /\ c <= task_id_ctr /\ (Live(t) => Live(c))
                           /\ depth(c) = j /\ Under(t, c)
<1> DEFINE Above(t) == \E c \in Task : /\ c <= task_id_ctr /\ (Live(t) => Live(c))
                                       /\ depth(c) = j /\ Under(t, c)
           Bad == {t \in Task : t <= task_id_ctr /\ j <= depth(t) /\ ~ Above(t)}
<1>1. SUFFICES ASSUME Bad # {} PROVE FALSE
  OBVIOUS
<1>2. Bad \in SUBSET Nat
  BY TaskFacts
<1>3. PICK t \in Bad : \A y \in Bad : t <= y
  BY <1>1, <1>2, LeastExists, Zenon
<1>4. /\ t \in Task /\ j <= depth(t) /\ t <= task_id_ctr /\ ~ Above(t)
      /\ t \in Nat /\ depth(t) \in Nat
  BY TaskFacts, DepthNat
<1> HIDE DEF Bad
<1>5. j # depth(t)
  BY <1>4, UnderItself
<1>6. t # 0
  <2>1. depth(0) = 0
    BY DEF TreeInv, Paths, depth
  <2>2. QED
    BY <1>4, <1>5, <2>1
<1> DEFINE p == parent_taskId[t]
<1>7. /\ p \in Task /\ p < t /\ p \in Nat /\ p <= task_id_ctr /\ Under(t, p)
      /\ depth(t) = depth(p) + 1 /\ depth(p) \in Nat
  BY <1>4, <1>6, PathStep, TaskFacts, DepthNat
<1>8. j <= depth(p) /\ (Live(t) => Live(p))
  <2>1. j <= depth(p)
    BY <1>4, <1>5, <1>7
  <2>2. Live(t) => Live(p)
    BY <1>4, <1>6 DEF ForkInv, Family
  <2>3. QED
    BY <2>1, <2>2
<1>9. p \notin Bad
  BY <1>3, <1>4, <1>7
<1>10. PICK c \in Task : /\ c <= task_id_ctr /\ (Live(p) => Live(c))
                         /\ depth(c) = j /\ Under(p, c)
  BY <1>7, <1>8, <1>9 DEF Bad
<1>11. Under(t, c)
  BY <1>4, <1>7, <1>10, UnderItself
<1>12. QED
  BY <1>4, <1>8, <1>10, <1>11

LEMMA SameSeq ==
  ASSUME NEW a \in Seq(Nat), NEW b \in Seq(Nat), Len(a) = Len(b),
         \A i \in Nat : 0 < i /\ i <= Len(b) => a[i] = b[i]
  PROVE  a = b
<1>1. Len(a) \in Nat
  BY LenProperties
<1>2. \A i \in 1 .. Len(a) : a[i] = b[i]
  BY <1>1
<1>3. QED
  BY <1>2, SeqEqual

(* The segments that have begun, and who knows of them.                    *)
Begun(u, n) == u <= task_id_ctr /\ 0 < n /\ n <= seg[u]

(***************************************************************************)
(* After a spawn the child c stands for its parent s: it is under the same *)
(* tasks and itself, and knows what its parent knows.                      *)
(***************************************************************************)
LEMMA ForkTree ==
  ASSUME TasksTypeOK, TreeInv, ForkInv, TasksTypeOK', TreeInv',
         NEW s \in Task, NEW c \in Task, NEW next, ForkStep(s, c, next)
  PROVE  /\ \A u, d \in Task : u <= task_id_ctr /\ d <= task_id_ctr =>
                                 (Under(u, d)' <=> Under(u, d))
         /\ \A d \in Task : d <= task_id_ctr => (Under(c, d)' <=> Under(s, d))
         /\ \A u \in Task : u <= task_id_ctr => ~ Under(u, c)'
         /\ Under(c, c)'
<1>1. /\ s \in Nat /\ c \in Nat /\ task_id_ctr \in Nat
      /\ c = task_id_ctr + 1 /\ task_id_ctr' = c /\ s <= task_id_ctr
      /\ \A t \in Task : t \in Nat
      /\ \A t \in Task : t <= task_id_ctr => t # c
  BY ForkFacts, TaskFacts
<1>2. /\ m_vc'[c] = Append(m_vc[s], clock[s] + 1)
      /\ \A t \in Task : t # c => m_vc'[t] = m_vc[t]
      /\ depth(c)' = depth(s) + 1
      /\ \A t \in Task : t # c => depth(t)' = depth(t)
  BY ForkValues
<1>3. \A t \in Task : depth(t) \in Nat /\ depth(t)' \in Nat
  <2>1. \A t \in Task : depth(t) \in Nat
    BY DepthNat
  <2>2. \A t \in Task : t = c \/ t # c
    OBVIOUS
  <2>3. depth(c)' \in Nat
    BY <1>2, <2>1
  <2>4. QED
    BY <1>2, <2>1, <2>2, <2>3
<1>4. \A u, d \in Task : u <= task_id_ctr /\ d <= task_id_ctr =>
                           (Under(u, d)' <=> Under(u, d))
  BY <1>1, <1>2 DEF Under
<1>5. Under(c, c)'
  BY <1>3 DEF Under
<1>6. ASSUME NEW d \in Task, d <= task_id_ctr, depth(d)' = depth(c)'
      PROVE  \E i \in Nat : 0 < i /\ i <= depth(d)' /\ m_vc'[c][i] # m_vc'[d][i]
  <2>1. SUFFICES ASSUME \A i \in Nat : 0 < i /\ i <= depth(d)' => m_vc'[c][i] = m_vc'[d][i]
                 PROVE  FALSE
    OBVIOUS
  <2>2. m_vc'[c] \in Seq(Nat) /\ m_vc'[d] \in Seq(Nat)
    BY DEF TasksTypeOK
  <2>3. m_vc'[c] = m_vc'[d]
    BY <1>6, <2>1, <2>2, SameSeq DEF depth
  <2>4. c \in 0 .. task_id_ctr' /\ d \in 0 .. task_id_ctr' /\ c # d
    BY <1>1, <1>6
  <2>5. QED
    BY <2>3, <2>4 DEF TreeInv, UniquePaths
<1>7. \A i \in Nat : 0 < i /\ i <= depth(s) => m_vc'[c][i] = m_vc[s][i]
  <2>1. m_vc[s] \in Seq(Nat) /\ clock[s] + 1 \in Nat
    <3>1. m_vc \in [Task -> Seq(Nat)] /\ clock \in [Task -> Nat]
      BY DEF TasksTypeOK
    <3>2. m_vc[s] \in Seq(Nat) /\ clock[s] \in Nat
      BY <3>1
    <3>3. QED
      BY <3>2
  <2>2. Len(m_vc[s]) \in Nat /\ \A i \in 1 .. Len(m_vc[s]) : m_vc'[c][i] = m_vc[s][i]
    BY <1>2, <2>1, AppendFacts
  <2>3. QED
    BY <2>2 DEF depth
<1>8. ASSUME NEW d \in Task, d <= task_id_ctr PROVE Under(c, d)' <=> Under(s, d)
  <2>1. d # c /\ m_vc'[d] = m_vc[d] /\ depth(d)' = depth(d)
        /\ depth(d) \in Nat /\ depth(s) \in Nat
    BY <1>1, <1>2, <1>3, <1>8
  <2>2. Under(c, d)' => depth(d)' # depth(c)'
    BY <1>6, <1>8 DEF Under
  <2>3. Under(c, d)' => depth(d) <= depth(s)
    <3>1. Under(c, d)' => depth(d)' <= depth(c)'
      BY DEF Under
    <3>2. QED
      BY <1>2, <2>1, <2>2, <3>1
  <2>4. depth(d) <= depth(s) => depth(d)' <= depth(c)'
    BY <1>2, <2>1
  <2>5. depth(d) <= depth(s) =>
          \A i \in Nat : 0 < i /\ i <= depth(d) => m_vc'[c][i] = m_vc[s][i]
    <3>1. ASSUME depth(d) <= depth(s), NEW i \in Nat, i <= depth(d) PROVE i <= depth(s)
      BY <2>1, <3>1
    <3>2. QED
      BY <1>7, <3>1
  <2>6. ASSUME Under(c, d)' PROVE Under(s, d)
    <3>1. \A i \in Nat : 0 < i /\ i <= depth(d)' => m_vc'[c][i] = m_vc'[d][i]
      BY <2>6 DEF Under
    <3>2. \A i \in Nat : 0 < i /\ i <= depth(d) => m_vc[s][i] = m_vc[d][i]
      BY <2>1, <2>3, <2>5, <2>6, <3>1
    <3>3. QED
      BY <2>3, <2>6, <3>2 DEF Under
  <2>7. ASSUME Under(s, d) PROVE Under(c, d)'
    <3>1. /\ depth(d) <= depth(s)
          /\ \A i \in Nat : 0 < i /\ i <= depth(d) => m_vc[s][i] = m_vc[d][i]
      BY <2>7 DEF Under
    <3>2. \A i \in Nat : 0 < i /\ i <= depth(d)' => m_vc'[c][i] = m_vc'[d][i]
      BY <2>1, <2>5, <3>1
    <3>3. QED
      BY <2>4, <3>1, <3>2 DEF Under
  <2>8. QED
    BY <2>6, <2>7
<1>9. ASSUME NEW u \in Task, u <= task_id_ctr, Under(u, c)' PROVE FALSE
  <2>1. u # c /\ m_vc'[u] = m_vc[u] /\ depth(u)' = depth(u)
    BY <1>1, <1>2, <1>9
  <2>2. depth(c)' <= depth(u) /\ depth(c)' \in Nat
    BY <1>3, <1>9, <2>1 DEF Under
  <2>3. PICK x \in Task : x <= task_id_ctr /\ depth(x) = depth(c)' /\ Under(u, x)
    BY <1>9, <2>2, AboveAt
  <2>4. x # c /\ m_vc'[x] = m_vc[x] /\ depth(x)' = depth(c)'
    BY <1>1, <1>2, <2>3
  <2>5. PICK i \in Nat : 0 < i /\ i <= depth(x)' /\ m_vc'[c][i] # m_vc'[x][i]
    BY <1>6, <2>3, <2>4
  <2>6. m_vc'[u][i] = m_vc'[c][i]
    BY <1>9, <2>4, <2>5 DEF Under
  <2>7. m_vc[u][i] = m_vc[x][i]
    BY <2>3, <2>4, <2>5 DEF Under
  <2>8. QED
    BY <2>1, <2>4, <2>5, <2>6, <2>7
<1>10. QED
  BY <1>4, <1>5, <1>8, <1>9

LEMMA ForkKnows ==
  ASSUME TasksTypeOK, TreeInv, ForkInv,
         NEW s \in Task, NEW c \in Task, NEW next, ForkStep(s, c, next),
         NEW u \in Task, NEW n \in Nat, Begun(u, n)
  PROVE  /\ Begun(u, n)'
         /\ \A d \in Task : d <= task_id_ctr =>
              (Knows(d, <<u, n>>)' <=> Knows(d, <<u, n>>))
         /\ Knows(c, <<u, n>>)' <=> Knows(s, <<u, n>>)
<1>1. /\ s \in Nat /\ c \in Nat /\ task_id_ctr \in Nat
      /\ c = task_id_ctr + 1 /\ task_id_ctr' = c /\ s <= task_id_ctr
      /\ \A t \in Task : t \in Nat
      /\ \A t \in Task : t <= task_id_ctr => t # c
  BY ForkFacts, TaskFacts
<1>2. /\ seg'[s] = seg[s] + 1 /\ seg'[c] = 1
      /\ \A t \in Task : t # s /\ t # c => seg'[t] = seg[t]
      /\ before'[s] = before[s] \cup {<<s, seg[s]>>}
      /\ before'[c] = before[s] \cup {<<s, seg[s]>>}
      /\ \A t \in Task : t # s /\ t # c => before'[t] = before[t]
  BY ForkValues
<1>3. seg[s] \in Nat /\ seg[u] \in Nat /\ u <= task_id_ctr /\ 0 < n /\ n <= seg[u] /\ u # c
  BY <1>1 DEF TasksTypeOK, Begun
<1>4. Begun(u, n)'
  <2>1. u <= task_id_ctr'
    BY <1>1, <1>3
  <2>2. n <= seg'[u]
    BY <1>2, <1>3
  <2>3. QED
    BY <1>3, <2>1, <2>2 DEF Begun
<1>5. <<u, n>> = <<s, seg[s]>> <=> u = s /\ n = seg[s]
  OBVIOUS
<1>6. ASSUME u = s PROVE <<u, n>> \in before[s] \/ n = seg[s]
  <2>1. n = seg[s] \/ n < seg[s]
    BY <1>3, <1>6
  <2>2. QED
    BY <1>3, <1>6, <2>1 DEF ForkInv, Pasts
<1>7. Knows(c, <<u, n>>)' <=> Knows(s, <<u, n>>)
  BY <1>2, <1>3, <1>5, <1>6 DEF Knows
<1>8. ASSUME NEW d \in Task, d <= task_id_ctr
      PROVE  Knows(d, <<u, n>>)' <=> Knows(d, <<u, n>>)
  <2>1. d # c
    BY <1>1, <1>8
  <2>2. CASE d = s
    BY <1>2, <1>5, <1>6, <2>2 DEF Knows
  <2>3. CASE d # s
    BY <1>2, <2>1, <2>3 DEF Knows
  <2>4. QED
    BY <2>2, <2>3
<1>9. QED
  BY <1>4, <1>7, <1>8

(***************************************************************************)
(* When q returns from a wait, it takes the place of the live tasks under  *)
(* it, which are its children S, and knows what any of them knew.          *)
(***************************************************************************)
LEMMA ReturnTree ==
  ASSUME TasksTypeOK, TreeInv, ForkInv, NEW q \in Task, NEW S \in SUBSET Task,
         ReturnStep(q, S)
  PROVE  /\ \A u, d \in Task : Under(u, d)' <=> Under(u, d)
         /\ \A e \in Task : Live(e) => (Under(e, q) <=> e = q \/ e \in S)
         /\ \A e \in S, d \in Task : Live(d) /\ d \notin S => (Under(e, d) <=> Under(q, d))
<1>1. /\ Live(q) /\ q \notin S
      /\ \A e \in S : /\ e \in Task /\ child_list[e] = {} /\ parent_taskId[e] = q
                      /\ e # 0 /\ Live(e)
      /\ S = child_list[q] /\ m_vc' = m_vc
  BY DEF ReturnStep
<1>2. \A u, d \in Task : Under(u, d)' <=> Under(u, d)
  BY <1>1 DEF Under, depth
<1>3. \A t \in Task : Live(t) => t <= task_id_ctr
  BY DEF Live
<1>4. ASSUME NEW e \in S, NEW d \in Task, Live(d), d \notin S
      PROVE  Under(e, d) <=> Under(q, d)
  <2>1. e \in Task /\ e # 0 /\ e <= task_id_ctr /\ d <= task_id_ctr /\ d # e
        /\ parent_taskId[e] = q
    BY <1>1, <1>3, <1>4
  <2>2. QED
    BY <2>1, ThroughParent
<1>5. ASSUME NEW e \in Task, Live(e), Under(e, q), e # q PROVE e \in S
  <2>1. e <= task_id_ctr /\ q <= task_id_ctr
    BY <1>1, <1>3, <1>5
  <2>2. ancClock[e][q] # 0
    BY <1>5, <2>1, UnderIsAncestor
  <2>3. PICK x \in child_list[q] : x = e \/ ancClock[e][x] # 0
    BY <1>5, <2>2 DEF ForkInv, Ancestry
  <2>4. x \in S /\ x \in Task /\ child_list[x] = {}
    BY <1>1
  <2>5. ancClock[e][x] = 0
    BY <1>5, <2>4 DEF ForkInv, Ancestry
  <2>6. QED
    BY <2>3, <2>4, <2>5
<1>6. \A e \in S : Under(e, q)
  BY <1>1, <1>4, UnderItself
<1>7. Under(q, q)
  BY UnderItself
<1>8. QED
  BY <1>2, <1>4, <1>5, <1>6, <1>7

LEMMA ReturnKnows ==
  ASSUME TasksTypeOK, TreeInv, ForkInv, NEW q \in Task, NEW S \in SUBSET Task,
         ReturnStep(q, S), NEW u \in Task, NEW n \in Nat, Begun(u, n)
  PROVE  /\ Begun(u, n)'
         /\ \A d \in Task : d # q => (Knows(d, <<u, n>>)' <=> Knows(d, <<u, n>>))
         /\ Knows(q, <<u, n>>)' <=>
              Knows(q, <<u, n>>) \/ \E e \in S : Knows(e, <<u, n>>)
<1>1. /\ seg'[q] = seg[q] + 1 /\ \A t \in Task : t # q => seg'[t] = seg[t]
      /\ \A t \in Task : t # q => before'[t] = before[t]
      /\ \A x : x \in before'[q] <=>
           \/ x \in before[q] \/ x = <<q, seg[q]>>
           \/ \E e \in S : x \in before[e] \/ x = <<e, seg[e]>>
  BY ReturnValues
<1>2. seg[q] \in Nat /\ seg[u] \in Nat /\ 0 < n /\ n <= seg[u] /\ u <= task_id_ctr
      /\ task_id_ctr' = task_id_ctr
  BY DEF TasksTypeOK, Begun, ReturnStep
<1>3. Begun(u, n)'
  <2>1. n <= seg'[u]
    BY <1>1, <1>2
  <2>2. QED
    BY <1>2, <2>1 DEF Begun
<1>4. <<u, n>> \in before[u] \/ n = seg[u]
  <2>1. n < seg[u] \/ n = seg[u]
    BY <1>2
  <2>2. QED
    BY <1>2, <2>1 DEF ForkInv, Pasts
<1>5. \A t : <<u, n>> = <<t, seg[t]>> <=> u = t /\ n = seg[t]
  OBVIOUS
<1>6. \A e \in S : <<u, n>> \in before[e] \/ <<u, n>> = <<e, seg[e]>>
                     <=> Knows(e, <<u, n>>)
  BY <1>4, <1>5 DEF Knows
<1>7. <<u, n>> \in before[q] \/ <<u, n>> = <<q, seg[q]>> <=> Knows(q, <<u, n>>)
  BY <1>4, <1>5 DEF Knows
<1>8. u = q => (Knows(q, <<u, n>>)' /\ Knows(q, <<u, n>>))
  BY DEF Knows
<1>9. u # q => (Knows(q, <<u, n>>)' <=> <<u, n>> \in before'[q])
  BY DEF Knows
<1>10. Knows(q, <<u, n>>)' <=> Knows(q, <<u, n>>) \/ \E e \in S : Knows(e, <<u, n>>)
  BY <1>1, <1>6, <1>7, <1>8, <1>9
<1>11. \A d \in Task : d # q => (Knows(d, <<u, n>>)' <=> Knows(d, <<u, n>>))
  BY <1>1 DEF Knows
<1>12. QED
  BY <1>3, <1>10, <1>11

(***************************************************************************)
(* A task dominates a segment when a live task under it knows of it.  A    *)
(* set of segments covers one when whoever knows, or dominates, all of the *)
(* set knows, or dominates, that one too.                                  *)
(***************************************************************************)
Dominates(d, p) == \E e \in Task : Live(e) /\ Under(e, d) /\ Knows(e, p)

Covered(X, p) ==
  \A d \in Task : Live(d) =>
    /\ (\A x \in X : Knows(d, x)) => Knows(d, p)
    /\ (\A x \in X : Dominates(d, x)) => Dominates(d, p)

(***************************************************************************)
(* What is known of a segment stays under every task that its own task is  *)
(* under, and is dominated there; under any other task it is known to all  *)
(* or to none.                                                             *)
(***************************************************************************)
Inside(p, c) == Dominates(c, p) /\ \A d \in Task : Live(d) /\ Knows(d, p) => Under(d, c)
Uniform(p, c) ==
  \A e, f \in Task : Live(e) /\ Live(f) /\ Under(e, c) /\ Under(f, c) /\ Knows(e, p)
                       => Knows(f, p)

Local(p) ==
  \A c \in Task : Live(c) => IF Under(p[1], c) THEN Inside(p, c) ELSE Uniform(p, c)

Segment(p) == p \in Task \X Nat /\ Begun(p[1], p[2])

LEMMA ForkDominates ==
  ASSUME TasksTypeOK, TreeInv, ForkInv, TasksTypeOK', TreeInv',
         NEW s \in Task, NEW c \in Task, NEW next, ForkStep(s, c, next),
         NEW p, Segment(p)
  PROVE  /\ Segment(p)'
         /\ \A d \in Task : Live(d) => (Knows(d, p)' <=> Knows(d, p))
         /\ Knows(c, p)' <=> Knows(s, p)
         /\ \A d \in Task : Live(d) => (Dominates(d, p)' <=> Dominates(d, p))
         /\ Dominates(c, p)' <=> Knows(s, p)
<1>1. PICK u \in Task, n \in Nat : p = <<u, n>> /\ Begun(u, n)
  BY DEF Segment
<1>2. /\ Begun(u, n)'
      /\ \A d \in Task : d <= task_id_ctr => (Knows(d, p)' <=> Knows(d, p))
      /\ Knows(c, p)' <=> Knows(s, p)
  BY <1>1, ForkKnows
<1>3. Segment(p)'
  BY <1>1, <1>2 DEF Segment
<1>4. /\ \A t \in Task : Live(t)' <=> Live(t) \/ t = c
      /\ \A t \in Task : Live(t) => t <= task_id_ctr
      /\ Live(s)
  BY ForkFacts DEF Live
<1>5. \A d \in Task : Live(d) => (Knows(d, p)' <=> Knows(d, p))
  BY <1>2, <1>4
<1>6. /\ \A e, d \in Task : Live(e) /\ Live(d) => (Under(e, d)' <=> Under(e, d))
      /\ \A d \in Task : Live(d) => (Under(c, d)' <=> Under(s, d))
      /\ \A e \in Task : Live(e) => ~ Under(e, c)'
      /\ Under(c, c)'
  BY <1>4, ForkTree
<1>7. ASSUME NEW d \in Task, Live(d) PROVE Dominates(d, p)' <=> Dominates(d, p)
  <2>1. ASSUME Dominates(d, p)' PROVE Dominates(d, p)
    <3>1. PICK e \in Task : Live(e)' /\ Under(e, d)' /\ Knows(e, p)'
      BY <2>1 DEF Dominates
    <3>2. CASE e = c
      BY <1>2, <1>4, <1>6, <1>7, <3>1, <3>2 DEF Dominates
    <3>3. CASE e # c
      BY <1>4, <1>5, <1>6, <1>7, <3>1, <3>3 DEF Dominates
    <3>4. QED
      BY <3>2, <3>3
  <2>2. ASSUME Dominates(d, p) PROVE Dominates(d, p)'
    BY <1>4, <1>5, <1>6, <1>7, <2>2 DEF Dominates
  <2>3. QED
    BY <2>1, <2>2
<1>8. Dominates(c, p)' <=> Knows(s, p)
  <2>1. Dominates(c, p)' => Knows(c, p)'
    BY <1>4, <1>6 DEF Dominates
  <2>2. Knows(c, p)' => Dominates(c, p)'
    BY <1>4, <1>6 DEF Dominates
  <2>3. QED
    BY <1>2, <2>1, <2>2
<1>9. QED
  BY <1>2, <1>3, <1>5, <1>7, <1>8

LEMMA ForkCovers ==
  ASSUME TasksTypeOK, TreeInv, ForkInv, TasksTypeOK', TreeInv',
         NEW s \in Task, NEW c \in Task, NEW next, ForkStep(s, c, next),
         NEW X, \A x \in X : Segment(x), NEW p, Segment(p), Covered(X, p)
  PROVE  Covered(X, p)'
<1>1. (\A t \in Task : Live(t)' <=> Live(t) \/ t = c) /\ Live(s)
  BY ForkFacts
<1>2. ASSUME NEW d \in Task, Live(d)
      PROVE  /\ (\A x \in X : Knows(d, x)') => Knows(d, p)'
             /\ (\A x \in X : Dominates(d, x)') => Dominates(d, p)'
  <2>1. \A x \in X : /\ Knows(d, x)' <=> Knows(d, x)
                     /\ Dominates(d, x)' <=> Dominates(d, x)
    BY <1>2, ForkDominates
  <2>2. /\ Knows(d, p)' <=> Knows(d, p)
        /\ Dominates(d, p)' <=> Dominates(d, p)
    BY <1>2, ForkDominates
  <2>3. QED
    BY <1>2, <2>1, <2>2 DEF Covered
<1>3. /\ (\A x \in X : Knows(c, x)') => Knows(c, p)'
      /\ (\A x \in X : Dominates(c, x)') => Dominates(c, p)'
  <2>1. \A x \in X : /\ Knows(c, x)' <=> Knows(s, x)
                     /\ Dominates(c, x)' <=> Knows(s, x)
    BY ForkDominates
  <2>2. /\ Knows(c, p)' <=> Knows(s, p)
        /\ Dominates(c, p)' <=> Knows(s, p)
    BY ForkDominates
  <2>3. (\A x \in X : Knows(s, x)) => Knows(s, p)
    BY <1>1 DEF Covered
  <2>4. QED
    BY <2>1, <2>2, <2>3
<1>4. QED
  BY <1>1, <1>2, <1>3 DEF Covered

LEMMA ForkLocal ==
  ASSUME TasksTypeOK, TreeInv, ForkInv, TasksTypeOK', TreeInv',
         NEW s \in Task, NEW c \in Task, NEW next, ForkStep(s, c, next),
         NEW p, Segment(p), Local(p)
  PROVE  Local(p)'
<1>1. /\ \A t \in Task : Live(t)' <=> Live(t) \/ t = c
      /\ \A t \in Task : Live(t) => t <= task_id_ctr
      /\ Live(s)
  BY ForkFacts DEF Live
<1>2. /\ \A d \in Task : Live(d) => (Knows(d, p)' <=> Knows(d, p))
      /\ Knows(c, p)' <=> Knows(s, p)
      /\ \A d \in Task : Live(d) => (Dominates(d, p)' <=> Dominates(d, p))
  BY ForkDominates
<1>3. p[1] \in Task /\ p[1] <= task_id_ctr
  BY DEF Segment, Begun
<1>4. /\ \A e, d \in Task : e <= task_id_ctr /\ Live(d) => (Under(e, d)' <=> Under(e, d))
      /\ \A d \in Task : Live(d) => (Under(c, d)' <=> Under(s, d))
      /\ \A e \in Task : e <= task_id_ctr => ~ Under(e, c)'
      /\ Under(c, c)'
  BY <1>1, ForkTree
<1>5. ~ Under(p[1], c)'
  BY <1>3, <1>4
<1>6. Uniform(p, c)'
  <2>1. \A e \in Task : Live(e)' /\ Under(e, c)' => e = c
    BY <1>1, <1>4
  <2>2. QED
    BY <2>1 DEF Uniform
<1>7. ASSUME NEW d \in Task, Live(d), Under(p[1], d) PROVE Inside(p, d)'
  <2>1. Dominates(d, p) /\ \A e \in Task : Live(e) /\ Knows(e, p) => Under(e, d)
    BY <1>7 DEF Local, Inside
  <2>2. Dominates(d, p)'
    BY <1>2, <1>7, <2>1
  <2>3. ASSUME NEW e \in Task, Live(e)', Knows(e, p)' PROVE Under(e, d)'
    <3>1. CASE e = c
      BY <1>1, <1>2, <1>4, <1>7, <2>1, <2>3, <3>1
    <3>2. CASE e # c
      BY <1>1, <1>2, <1>4, <1>7, <2>1, <2>3, <3>2
    <3>3. QED
      BY <3>1, <3>2
  <2>4. QED
    BY <2>2, <2>3 DEF Inside
<1>8. ASSUME NEW d \in Task, Live(d), ~ Under(p[1], d) PROVE Uniform(p, d)'
  <2>1. \A e, f \in Task : Live(e) /\ Live(f) /\ Under(e, d) /\ Under(f, d) /\ Knows(e, p)
                             => Knows(f, p)
    BY <1>8 DEF Local, Uniform
  <2>2. \A e \in Task : Live(e)' /\ Under(e, d)' =>
          \E g \in Task : Live(g) /\ Under(g, d) /\ (Knows(e, p)' <=> Knows(g, p))
    <3>1. ASSUME NEW e \in Task, Live(e)', Under(e, d)'
          PROVE  \E g \in Task : Live(g) /\ Under(g, d) /\ (Knows(e, p)' <=> Knows(g, p))
      <4>1. CASE e = c
        BY <1>1, <1>2, <1>4, <1>8, <3>1, <4>1
      <4>2. CASE e # c
        BY <1>1, <1>2, <1>4, <1>8, <3>1, <4>2
      <4>3. QED
        BY <4>1, <4>2
    <3>2. QED
      BY <3>1
  <2>3. QED
    BY <2>1, <2>2 DEF Uniform
<1>9. ASSUME NEW d \in Task, Live(d)'
      PROVE  IF Under(p[1], d)' THEN Inside(p, d)' ELSE Uniform(p, d)'
  <2>1. CASE d = c
    BY <1>5, <1>6, <2>1
  <2>2. CASE d # c
    BY <1>1, <1>3, <1>4, <1>7, <1>8, <1>9, <2>2
  <2>3. QED
    BY <2>1, <2>2
<1>10. QED
  BY <1>9 DEF Local

LEMMA ReturnDominates ==
  ASSUME TasksTypeOK, TreeInv, ForkInv, NEW q \in Task, NEW S \in SUBSET Task,
         ReturnStep(q, S), \A t \in Task : Live(t)' <=> Live(t) /\ t \notin S,
         NEW p, Segment(p)
  PROVE  /\ Segment(p)'
         /\ Knows(q, p)' <=> Dominates(q, p)
         /\ \A d \in Task : d # q => (Knows(d, p)' <=> Knows(d, p))
         /\ \A d \in Task : Live(d) /\ d \notin S =>
              (Dominates(d, p)' <=> Dominates(d, p))
<1>1. PICK u \in Task, n \in Nat : p = <<u, n>> /\ Begun(u, n)
  BY DEF Segment
<1>2. /\ Begun(u, n)'
      /\ \A d \in Task : d # q => (Knows(d, p)' <=> Knows(d, p))
      /\ Knows(q, p)' <=> Knows(q, p) \/ \E e \in S : Knows(e, p)
  BY <1>1, ReturnKnows
<1>3. Segment(p)'
  BY <1>1, <1>2 DEF Segment
<1>4. /\ Live(q) /\ q \notin S
      /\ \A e \in S : e \in Task /\ Live(e)
  BY DEF ReturnStep
<1>5. /\ \A e, d \in Task : Under(e, d)' <=> Under(e, d)
      /\ \A e \in Task : Live(e) => (Under(e, q) <=> e = q \/ e \in S)
      /\ \A e \in S, d \in Task : Live(d) /\ d \notin S => (Under(e, d) <=> Under(q, d))
  BY ReturnTree
<1>6. Knows(q, p)' <=> Dominates(q, p)
  BY <1>2, <1>4, <1>5 DEF Dominates
<1>7. ASSUME NEW d \in Task, Live(d), d \notin S
      PROVE  Dominates(d, p)' <=> Dominates(d, p)
  <2>1. ASSUME Dominates(d, p)' PROVE Dominates(d, p)
    <3>1. PICK e \in Task : Live(e)' /\ Under(e, d)' /\ Knows(e, p)'
      BY <2>1 DEF Dominates
    <3>2. CASE e # q
      BY <1>2, <1>5, <3>1, <3>2 DEF Dominates
    <3>3. CASE e = q
      <4>1. PICK f \in Task : Live(f) /\ (f = q \/ f \in S) /\ Knows(f, p)
        BY <1>2, <1>4, <3>1, <3>3
      <4>2. Under(f, d)
        BY <1>5, <1>7, <3>1, <3>3, <4>1
      <4>3. QED
        BY <4>1, <4>2 DEF Dominates
    <3>4. QED
      BY <3>2, <3>3
  <2>2. ASSUME Dominates(d, p) PROVE Dominates(d, p)'
    <3>1. PICK e \in Task : Live(e) /\ Under(e, d) /\ Knows(e, p)
      BY <2>2 DEF Dominates
    <3>2. CASE e # q /\ e \notin S
      BY <1>2, <1>5, <3>1, <3>2 DEF Dominates
    <3>3. CASE e = q \/ e \in S
      <4>1. Under(q, d) /\ Knows(q, p)'
        BY <1>2, <1>5, <1>7, <3>1, <3>3
      <4>2. QED
        BY <1>4, <1>5, <4>1 DEF Dominates
    <3>4. QED
      BY <3>2, <3>3
  <2>3. QED
    BY <2>1, <2>2
<1>8. QED
  BY <1>2, <1>3, <1>6, <1>7

LEMMA ReturnCovers ==
  ASSUME TasksTypeOK, TreeInv, ForkInv, NEW q \in Task, NEW S \in SUBSET Task,
         ReturnStep(q, S), \A t \in Task : Live(t)' <=> Live(t) /\ t \notin S,
         NEW X, \A x \in X : Segment(x), NEW p, Segment(p), Covered(X, p)
  PROVE  Covered(X, p)'
<1>1. ASSUME NEW d \in Task, Live(d)'
      PROVE  /\ (\A x \in X : Knows(d, x)') => Knows(d, p)'
             /\ (\A x \in X : Dominates(d, x)') => Dominates(d, p)'
  <2>1. \A x \in X : /\ Knows(q, x)' <=> Dominates(q, x)
                     /\ d # q => (Knows(d, x)' <=> Knows(d, x))
                     /\ Dominates(d, x)' <=> Dominates(d, x)
    BY <1>1, ReturnDominates
  <2>2. /\ Knows(q, p)' <=> Dominates(q, p)
        /\ d # q => (Knows(d, p)' <=> Knows(d, p))
        /\ Dominates(d, p)' <=> Dominates(d, p)
    BY <1>1, ReturnDominates
  <2>3. /\ (\A x \in X : Knows(d, x)) => Knows(d, p)
        /\ (\A x \in X : Dominates(d, x)) => Dominates(d, p)
    BY <1>1 DEF Covered
  <2>4. CASE d = q
    BY <2>1, <2>2, <2>3, <2>4
  <2>5. CASE d # q
    BY <2>1, <2>2, <2>3, <2>5
  <2>6. QED
    BY <2>4, <2>5
<1>2. QED
  BY <1>1 DEF Covered

LEMMA ReturnLocal ==
  ASSUME TasksTypeOK, TreeInv, ForkInv, NEW q \in Task, NEW S \in SUBSET Task,
         ReturnStep(q, S), \A t \in Task : Live(t)' <=> Live(t) /\ t \notin S,
         NEW p, Segment(p), Local(p)
  PROVE  Local(p)'
<1>1. /\ Knows(q, p)' <=> Dominates(q, p)
      /\ \A d \in Task : d # q => (Knows(d, p)' <=> Knows(d, p))
      /\ \A d \in Task : Live(d) /\ d \notin S =>
           (Dominates(d, p)' <=> Dominates(d, p))
  BY ReturnDominates
<1>2. /\ \A e, d \in Task : Under(e, d)' <=> Under(e, d)
      /\ \A e \in Task : Live(e) => (Under(e, q) <=> e = q \/ e \in S)
      /\ \A e \in S, d \in Task : Live(d) /\ d \notin S => (Under(e, d) <=> Under(q, d))
  BY ReturnTree
<1>3. Live(q) /\ q \notin S /\ p[1] \in Task /\ \A e \in S : Live(e) /\ e \in Task
  BY DEF Segment, ReturnStep
<1>4. ASSUME NEW c \in Task, Live(c), c \notin S, Under(p[1], c) PROVE Inside(p, c)'
  <2>1. Dominates(c, p) /\ \A d \in Task : Live(d) /\ Knows(d, p) => Under(d, c)
    BY <1>4 DEF Local, Inside
  <2>2. ASSUME NEW d \in Task, Live(d)', Knows(d, p)' PROVE Under(d, c)'
    <3>1. CASE d # q
      BY <1>1, <1>2, <2>1, <2>2, <3>1
    <3>2. CASE d = q
      <4>1. PICK e \in Task : Live(e) /\ (e = q \/ e \in S) /\ Knows(e, p)
        BY <1>1, <1>2, <2>2, <3>2 DEF Dominates
      <4>2. Under(e, c)
        BY <2>1, <4>1
      <4>3. QED
        BY <1>2, <1>4, <3>2, <4>1, <4>2
    <3>3. QED
      BY <3>1, <3>2
  <2>3. QED
    BY <1>1, <1>4, <2>1, <2>2 DEF Inside
<1>5. ASSUME NEW c \in Task, Live(c), c \notin S, ~ Under(p[1], c) PROVE Uniform(p, c)'
  <2>1. \A e, f \in Task : Live(e) /\ Live(f) /\ Under(e, c) /\ Under(f, c) /\ Knows(e, p)
                             => Knows(f, p)
    BY <1>5 DEF Local, Uniform
  <2>2. Under(q, c) => (Knows(q, p)' <=> Knows(q, p))
    <3>1. Under(q, c) => \A e \in Task : Live(e) /\ Under(e, q) => Under(e, c)
      BY UnderItself, <1>5
    <3>2. Under(q, q)
      BY UnderItself
    <3>3. Under(q, c) => (Dominates(q, p) <=> Knows(q, p))
      BY <1>3, <2>1, <3>1, <3>2 DEF Dominates
    <3>4. QED
      BY <1>1, <3>3
  <2>3. \A e \in Task : Under(e, c)' => (Knows(e, p)' <=> Knows(e, p))
    BY <1>1, <1>2, <2>2
  <2>4. \A e \in Task : Live(e)' => Live(e)
    OBVIOUS
  <2>5. QED
    BY <1>2, <2>1, <2>3, <2>4 DEF Uniform
<1>6. QED
  BY <1>2, <1>3, <1>4, <1>5 DEF Local

LEMMA QuietKeeps ==
  ASSUME TasksTypeOK, TreeInv, ForkInv, QuietStep
  PROVE  /\ \A d, u \in Task : Under(d, u)' <=> Under(d, u)
         /\ \A d, p : Knows(d, p)' <=> Knows(d, p)
         /\ \A d \in Task : \A p : Dominates(d, p)' <=> Dominates(d, p)
         /\ \A X, p : Covered(X, p) => Covered(X, p)'
         /\ \A p : p[1] \in Task /\ Local(p) => Local(p)'
         /\ \A p : Segment(p) => Segment(p)'
<1>1. \A d, u \in Task : Under(d, u)' <=> Under(d, u)
  BY DEF QuietStep, taskVars, Under, depth
<1>2. \A d, p : Knows(d, p)' <=> Knows(d, p)
  BY DEF QuietStep, orderVars, Knows
<1>3. \A d \in Task : Live(d)' <=> Live(d)
  BY QuietKeepsInv
<1>4. \A d \in Task : \A p : Dominates(d, p)' <=> Dominates(d, p)
  BY <1>1, <1>2, <1>3 DEF Dominates
<1>5. \A X, p : Covered(X, p) => Covered(X, p)'
  BY <1>2, <1>3, <1>4 DEF Covered
<1>6. \A p : p[1] \in Task /\ Local(p) => Local(p)'
  <2>1. ASSUME NEW p, p[1] \in Task, Local(p), NEW c \in Task, Live(c)'
        PROVE  IF Under(p[1], c)' THEN Inside(p, c)' ELSE Uniform(p, c)'
    BY <1>1, <1>2, <1>3, <1>4, <2>1 DEF Local, Inside, Uniform
  <2>2. QED
    BY <2>1 DEF Local
<1>7. \A p : Segment(p) => Segment(p)'
  BY DEF QuietStep, orderVars, taskVars, Segment, Begun
<1>8. QED
  BY <1>1, <1>2, <1>4, <1>5, <1>6, <1>7

(* A step of the tasks keeps what covers what, and where a segment is      *)
(* known.                                                                  *)
LEMMA StepKeepsCovers ==
  ASSUME TasksTypeOK, TreeInv, ForkInv, TasksTypeOK', TreeInv',
         ForkJoinStep \/ QuietStep
  PROVE  /\ \A p : Segment(p) => Segment(p)'
         /\ \A p : Segment(p) /\ Local(p) => Local(p)'
         /\ \A X, p : (\A x \in X : Segment(x)) /\ Segment(p) /\ Covered(X, p)
                        => Covered(X, p)'
<1> DEFINE Kept == /\ \A p : Segment(p) => Segment(p)'
                   /\ \A p : Segment(p) /\ Local(p) => Local(p)'
                   /\ \A X, p : (\A x \in X : Segment(x)) /\ Segment(p) /\ Covered(X, p)
                                  => Covered(X, p)'
<1>1. ASSUME NEW s \in Task, NEW c \in Task, NEW next, ForkStep(s, c, next)
      PROVE  Kept
  BY <1>1, ForkDominates, ForkCovers, ForkLocal
<1>2. ASSUME NEW q \in Task, NEW S \in SUBSET Task, ReturnStep(q, S),
             \A t \in Task : Live(t)' <=> Live(t) /\ t \notin S
      PROVE  Kept
  BY <1>2, ReturnDominates, ReturnCovers, ReturnLocal
<1>3. child_list \in [Task -> SUBSET Task] /\ 0 \in Task
  BY TaskFacts DEF TasksTypeOK
<1>4. ASSUME NEW t \in Task, JoinStep(t, child_list[t]) PROVE Kept
  <2>1. ReturnStep(t, child_list[t])
    BY <1>4 DEF JoinStep
  <2>2. \A u \in Task : Live(u)' <=> Live(u) /\ u \notin child_list[t]
    BY <1>3, <1>4, JoinKeepsInv
  <2>3. QED
    BY <1>2, <1>3, <2>1, <2>2
<1>5. ASSUME DeadStep(child_list[0]) PROVE Kept
  <2>1. ReturnStep(0, child_list[0]) /\ Live(0) /\ 0 \notin child_list[0]
    BY <1>5 DEF DeadStep, ReturnStep
  <2>2. \A u \in Task : Live(u) => u = 0 \/ u \in child_list[0]
    BY <1>5 DEF DeadStep
  <2>3. \A u \in Task : Live(u)' <=> u = 0
    BY <1>3, <1>5, DeadKeepsInv
  <2>4. \A u \in Task : Live(u)' <=> Live(u) /\ u \notin child_list[0]
    BY <2>1, <2>2, <2>3
  <2>5. QED
    BY <1>2, <1>3, <2>1, <2>4
<1>6. ASSUME QuietStep PROVE Kept
  BY <1>6, QuietKeeps DEF Segment
<1>7. QED
  BY <1>1, <1>4, <1>5, <1>6, FourSteps

-----------------------------------------------------------------------------
(***************************************************************************)
(* The replacement rule.  The paths of t, a and b agree up to level i, and *)
(* the rule asks whether t leaves the others there.                        *)
(***************************************************************************)
PathsInUse ==
  \A t \in Task, i \in Nat : t <= task_id_ctr /\ 0 < i /\ i <= depth(t) => m_vc[t][i] # 0

LEMMA PathAtIs ==
  ASSUME NEW t \in Task, NEW i \in Nat
  PROVE  PathAt(t, i) = IF i < depth(t) THEN m_vc[t][i + 1] ELSE 0
BY DEF PathAt

LEMMA LeastIsMin ==
  ASSUME NEW S \in SUBSET Nat, S # {}
  PROVE  Min(S) \in S /\ \A y \in S : Min(S) <= y
<1>1. \E x \in S : \A y \in S : x <= y
  BY LeastExists
<1>2. QED
  BY <1>1 DEF Min

LEMMA PathsSplit ==
  ASSUME TasksTypeOK, NEW t \in Task, NEW a \in Task, NEW b \in Task
  PROVE  \E i \in Nat :
           /\ i <= depth(t) /\ i <= depth(a) /\ i <= depth(b)
           /\ \A j \in Nat : j < i => m_vc[a][j + 1] = m_vc[t][j + 1]
                                      /\ m_vc[b][j + 1] = m_vc[t][j + 1]
           /\ \/ i = depth(t) \/ i = depth(a) \/ i = depth(b)
              \/ PathAt(a, i) # PathAt(b, i) \/ PathAt(a, i) # PathAt(t, i)
           /\ LeavesHigher(t, a, b) <=>
                \/ i = depth(t)
                \/ PathAt(t, i) # PathAt(a, i) /\ PathAt(t, i) # PathAt(b, i)
<1> DEFINE min == Min({depth(t), depth(a), depth(b)})
           agree(i) == PathAt(a, i) = PathAt(b, i) /\ PathAt(a, i) = PathAt(t, i)
           first(k) == (k = min \/ ~ agree(k)) /\ \A j \in 0 .. k - 1 : agree(j)
           i == CHOOSE k \in 0 .. min : first(k)
<1>1. depth(t) \in Nat /\ depth(a) \in Nat /\ depth(b) \in Nat
  BY DepthNat
<1>2. min \in {depth(t), depth(a), depth(b)}
      /\ min <= depth(t) /\ min <= depth(a) /\ min <= depth(b)
  <2>1. /\ {depth(t), depth(a), depth(b)} \in SUBSET Nat
        /\ {depth(t), depth(a), depth(b)} # {}
    BY <1>1
  <2>2. /\ min \in {depth(t), depth(a), depth(b)}
        /\ \A y \in {depth(t), depth(a), depth(b)} : min <= y
    BY <2>1, LeastIsMin
  <2>3. QED
    BY <2>2
<1>3. min \in Nat
  BY <1>1, <1>2
<1> HIDE DEF min, agree
<1>4. \E k \in 0 .. min : first(k)
  <2> DEFINE K == {k \in Nat : k <= min /\ (k = min \/ ~ agree(k))}
  <2>1. min \in K
    BY <1>3
  <2>2. PICK k \in K : \A y \in K : k <= y
    BY <2>1, LeastExists, Zenon
  <2>3. k \in 0 .. min /\ (k = min \/ ~ agree(k))
    BY <1>3, <2>2
  <2>4. ASSUME NEW j \in 0 .. k - 1 PROVE agree(j)
    <3>1. j \in Nat /\ j < k /\ j <= min
      BY <1>3, <2>3, <2>4
    <3>2. QED
      BY <2>2, <3>1
  <2>5. QED
    BY <2>3, <2>4
<1>5. i \in 0 .. min /\ first(i)
  <2> HIDE DEF first
  <2>1. QED
    BY <1>4
<1>6. LeavesHigher(t, a, b) <=>
        \/ i = depth(t)
        \/ PathAt(t, i) # PathAt(a, i) /\ PathAt(t, i) # PathAt(b, i)
  BY DEF LeavesHigher, min, agree
<1> HIDE DEF i
<1>7. i \in Nat /\ i <= depth(t) /\ i <= depth(a) /\ i <= depth(b)
  BY <1>1, <1>2, <1>3, <1>5
<1>8. ASSUME NEW j \in Nat, j < i
      PROVE  m_vc[a][j + 1] = m_vc[t][j + 1] /\ m_vc[b][j + 1] = m_vc[t][j + 1]
  <2>1. j \in 0 .. i - 1
    BY <1>7, <1>8
  <2>2. PathAt(a, j) = PathAt(b, j) /\ PathAt(a, j) = PathAt(t, j)
    BY <1>5, <2>1 DEF agree
  <2>3. j < depth(t) /\ j < depth(a) /\ j < depth(b)
    BY <1>1, <1>7, <1>8
  <2>4. QED
    BY <2>2, <2>3, PathAtIs
<1>9. \/ i = depth(t) \/ i = depth(a) \/ i = depth(b)
      \/ PathAt(a, i) # PathAt(b, i) \/ PathAt(a, i) # PathAt(t, i)
  BY <1>2, <1>5 DEF agree
<1>10. QED
  BY <1>6, <1>7, <1>8, <1>9

(* Where t leaves higher, whatever is above t and above b is above a.      *)
LEMMA HigherSplit ==
  ASSUME TasksTypeOK, NEW t \in Task, NEW a \in Task, NEW b \in Task,
         LeavesHigher(t, a, b), NEW d \in Task, Under(t, d)
  PROVE  Under(a, d) \/ ~ Under(b, d)
<1>1. PICK i \in Nat :
        /\ i <= depth(t) /\ i <= depth(a) /\ i <= depth(b)
        /\ \A j \in Nat : j < i => m_vc[a][j + 1] = m_vc[t][j + 1]
        /\ \/ i = depth(t)
           \/ PathAt(t, i) # PathAt(a, i) /\ PathAt(t, i) # PathAt(b, i)
  BY PathsSplit
<1>2. depth(t) \in Nat /\ depth(a) \in Nat /\ depth(b) \in Nat /\ depth(d) \in Nat
      /\ depth(d) <= depth(t)
  BY DepthNat DEF Under
<1>3. CASE depth(d) <= i
  <2>1. ASSUME NEW k \in Nat, 0 < k, k <= depth(d) PROVE m_vc[a][k] = m_vc[d][k]
    <3>1. k - 1 \in Nat /\ k - 1 < i /\ (k - 1) + 1 = k
      BY <1>2, <1>3, <2>1
    <3>2. m_vc[a][k] = m_vc[t][k]
      BY <1>1, <3>1
    <3>3. QED
      BY <2>1, <3>2 DEF Under
  <2>2. depth(d) <= depth(a)
    BY <1>1, <1>2, <1>3
  <2>3. QED
    BY <2>1, <2>2 DEF Under
<1>4. CASE i < depth(d)
  <2>1. i < depth(t) /\ i + 1 \in Nat /\ 0 < i + 1 /\ i + 1 <= depth(d)
    BY <1>1, <1>2, <1>4
  <2>2. PathAt(t, i) # PathAt(b, i) /\ PathAt(t, i) = m_vc[t][i + 1]
    BY <1>1, <1>2, <2>1, PathAtIs
  <2>3. m_vc[t][i + 1] = m_vc[d][i + 1]
    BY <2>1 DEF Under
  <2>4. ASSUME Under(b, d) PROVE FALSE
    <3>1. m_vc[b][i + 1] = m_vc[d][i + 1] /\ depth(d) <= depth(b)
      BY <2>1, <2>4 DEF Under
    <3>2. i < depth(b)
      BY <1>2, <1>4, <3>1
    <3>3. QED
      BY <2>2, <2>3, <3>1, <3>2, PathAtIs
  <2>5. QED
    BY <2>4
<1>5. QED
  BY <1>1, <1>2, <1>3, <1>4

(* Otherwise t goes on together with one of the two and leaves the other.  *)
LEMMA LowerSplit ==
  ASSUME TasksTypeOK, TreeInv, ForkInv, PathsInUse,
         NEW t \in Task, NEW a \in Task, NEW b \in Task, Live(t),
         ~ LeavesHigher(t, a, b)
  PROVE  \E c \in Task : /\ Live(c) /\ Under(t, c)
                         /\ \/ Under(a, c) /\ ~ Under(b, c)
                            \/ Under(b, c) /\ ~ Under(a, c)
<1>1. PICK i \in Nat :
        /\ i <= depth(t) /\ i <= depth(a) /\ i <= depth(b)
        /\ \A j \in Nat : j < i => m_vc[a][j + 1] = m_vc[t][j + 1]
                                   /\ m_vc[b][j + 1] = m_vc[t][j + 1]
        /\ \/ i = depth(t) \/ i = depth(a) \/ i = depth(b)
           \/ PathAt(a, i) # PathAt(b, i) \/ PathAt(a, i) # PathAt(t, i)
        /\ i # depth(t)
        /\ PathAt(t, i) = PathAt(a, i) \/ PathAt(t, i) = PathAt(b, i)
  BY PathsSplit
<1>2. depth(t) \in Nat /\ depth(a) \in Nat /\ depth(b) \in Nat /\ t <= task_id_ctr
  BY DepthNat DEF Live
<1>3. i < depth(t) /\ i + 1 \in Nat /\ 0 < i + 1 /\ i + 1 <= depth(t)
  BY <1>1, <1>2
<1>4. PICK c \in Task : Live(c) /\ depth(c) = i + 1 /\ Under(t, c)
  BY <1>2, <1>3, AboveAt
<1>5. PathAt(t, i) = m_vc[t][i + 1] /\ m_vc[t][i + 1] # 0 /\ m_vc[c][i + 1] = m_vc[t][i + 1]
  <2>1. PathAt(t, i) = m_vc[t][i + 1]
    BY <1>3, PathAtIs
  <2>2. m_vc[t][i + 1] # 0
    BY <1>2, <1>3 DEF PathsInUse
  <2>3. m_vc[t][i + 1] = m_vc[c][i + 1]
    BY <1>3, <1>4 DEF Under
  <2>4. QED
    BY <2>1, <2>2, <2>3
<1>6. ASSUME NEW x \in Task, PathAt(t, i) = PathAt(x, i),
             \A j \in Nat : j < i => m_vc[x][j + 1] = m_vc[t][j + 1]
      PROVE  Under(x, c) /\ i # depth(x)
  <2>1. depth(x) \in Nat
    BY DepthNat
  <2>2. i < depth(x) /\ m_vc[x][i + 1] = m_vc[t][i + 1]
    BY <1>5, <1>6, PathAtIs
  <2>3. ASSUME NEW k \in Nat, 0 < k, k <= i + 1 PROVE m_vc[x][k] = m_vc[c][k]
    <3>1. m_vc[t][k] = m_vc[c][k]
      BY <1>4, <2>3 DEF Under
    <3>2. CASE k = i + 1
      BY <2>2, <3>1, <3>2
    <3>3. CASE k # i + 1
      <4>1. k - 1 \in Nat /\ k - 1 < i /\ (k - 1) + 1 = k
        BY <2>3, <3>3
      <4>2. m_vc[x][k] = m_vc[t][k]
        BY <1>6, <4>1
      <4>3. QED
        BY <3>1, <4>2
    <3>4. QED
      BY <3>2, <3>3
  <2>4. i + 1 <= depth(x)
    BY <2>1, <2>2
  <2>5. QED
    BY <1>4, <2>2, <2>3, <2>4, <2>1 DEF Under
<1>7. ASSUME NEW x \in Task, i = depth(x) \/ PathAt(x, i) # PathAt(t, i), i <= depth(x)
      PROVE  ~ Under(x, c)
  <2>1. SUFFICES ASSUME Under(x, c) PROVE FALSE
    OBVIOUS
  <2>2. depth(x) \in Nat /\ i + 1 <= depth(x) /\ m_vc[x][i + 1] = m_vc[c][i + 1]
    BY <1>3, <1>4, <2>1, DepthNat DEF Under
  <2>3. i < depth(x) /\ i # depth(x)
    BY <2>2
  <2>4. PathAt(x, i) = m_vc[x][i + 1]
    BY <2>3, PathAtIs
  <2>5. QED
    BY <1>5, <1>7, <2>2, <2>3, <2>4
<1>8. CASE PathAt(t, i) = PathAt(a, i)
  <2>1. Under(a, c) /\ i # depth(a)
    BY <1>1, <1>6, <1>8
  <2>2. i = depth(b) \/ PathAt(b, i) # PathAt(t, i)
    BY <1>1, <1>8, <2>1
  <2>3. QED
    BY <1>1, <1>4, <1>7, <2>1, <2>2
<1>9. CASE PathAt(t, i) = PathAt(b, i)
  <2>1. Under(b, c) /\ i # depth(b)
    BY <1>1, <1>6, <1>9
  <2>2. i = depth(a) \/ PathAt(a, i) # PathAt(t, i)
    BY <1>1, <1>9, <2>1
  <2>3. QED
    BY <1>1, <1>4, <1>7, <2>1, <2>2
<1>10. QED
  BY <1>1, <1>8, <1>9

(***************************************************************************)
(* What a recorded access covers.  The present segment of t is known to    *)
(* t alone, and so is any earlier one at the same clock.                   *)
(***************************************************************************)
Own(t, p) == Knows(t, p) /\ \A d \in Task : Live(d) /\ Knows(d, p) => d = t

LEMMA PresentIsOwn ==
  ASSUME TasksTypeOK, TreeInv, ForkInv, NEW t \in Task, status[t] = "running"
  PROVE  /\ Live(t) /\ Segment(<<t, seg[t]>>)
         /\ Own(t, <<t, seg[t]>>) /\ Local(<<t, seg[t]>>)
<1>1. Live(t) /\ t <= task_id_ctr /\ seg[t] \in Nat
  BY ActiveIsLive DEF Live, TasksTypeOK
<1>2. Segment(<<t, seg[t]>>)
  <2>1. 0 < seg[t] /\ seg[t] <= seg[t]
    BY <1>1 DEF ForkInv, Pasts
  <2>2. QED
    BY <1>1, <2>1 DEF Segment, Begun
<1>3. Own(t, <<t, seg[t]>>)
  <2>1. \A d \in Task : <<t, seg[t]>> \notin before[d]
    BY <1>1 DEF ForkInv, Pasts
  <2>2. QED
    BY <2>1 DEF Own, Knows
<1>4. Local(<<t, seg[t]>>)
  <2> DEFINE p == <<t, seg[t]>>
  <2>1. p[1] = t /\ Own(t, p)
    BY <1>3
  <2> HIDE DEF p
  <2>2. ASSUME NEW c \in Task, Live(c)
        PROVE  IF Under(t, c) THEN Inside(p, c) ELSE Uniform(p, c)
    BY <1>1, <2>1 DEF Own, Inside, Uniform, Dominates
  <2>3. Local(p)
    BY <2>1, <2>2 DEF Local
  <2>4. QED
    BY <2>3 DEF p
<1>5. QED
  BY <1>1, <1>2, <1>3, <1>4

LEMMA EpochIsOwn ==
  ASSUME TasksTypeOK, TreeInv, ForkInv, NEW u \in Task, Live(u), NEW n \in Nat,
         Good(u, n, clock[u])
  PROVE  Own(u, <<u, n>>)
<1>1. joinset[u] = 0 /\ clock[u] \in Nat /\ 0 < clock[u]
  BY DEF Live, TasksTypeOK, Good
<1>2. ~ check_dead(u, clock[u])
  BY NotDeadNow
<1>3. ASSUME NEW d \in Task, Live(d), d # u PROVE <<u, n>> \notin before[d]
  <2>1. Judged(d, u, n, clock[u])
    BY <1>3 DEF Good
  <2>2. find_root[u] = u
    BY <1>1, RootOf
  <2>3. ancClock[d][u] \in Nat /\ (ancClock[d][u] # 0 => ancClock[d][u] < clock[u])
    BY DEF TasksTypeOK, TreeInv, RecordedClocksArePast
  <2>4. ~ Verdict(d, u, clock[u], ancClock, find_root)
    BY <1>1, <1>3, <2>2, <2>3 DEF Verdict
  <2>5. ~ OrderedBefore(d, u, clock[u])
    BY <1>1, <1>3, <2>4, VerdictIs
  <2>6. QED
    BY <1>2, <2>1, <2>5 DEF Judged
<1>4. QED
  BY <1>3 DEF Own, Knows

LEMMA DeadIsKnown ==
  ASSUME NEW u \in Task, NEW n \in Nat, NEW k \in Nat, Good(u, n, k), check_dead(u, k),
         NEW d \in Task, Live(d)
  PROVE  Knows(d, <<u, n>>)
<1>1. CASE d = u
  BY <1>1 DEF Knows
<1>2. CASE d # u
  BY <1>2 DEF Good, Judged, Knows
<1>3. QED
  BY <1>1, <1>2

(* What everyone knows is covered by anything.                             *)
LEMMA KnownIsCovered ==
  ASSUME TasksTypeOK, NEW X, NEW p, \A d \in Task : Live(d) => Knows(d, p)
  PROVE  Covered(X, p)
BY UnderItself DEF Covered, Dominates

LEMMA CoveredByMember ==
  ASSUME NEW X, NEW p \in X PROVE Covered(X, p)
BY DEF Covered

(* An own segment covers what its task has done.                           *)
LEMMA OwnCovers ==
  ASSUME NEW t \in Task, Live(t), NEW p, NEW X, NEW x \in X, Own(t, x), Knows(t, p)
  PROVE  Covered(X, p)
<1>1. ASSUME NEW d \in Task, Live(d), Knows(d, x) PROVE Knows(d, p)
  BY <1>1 DEF Own
<1>2. ASSUME NEW d \in Task, Live(d), Dominates(d, x) PROVE Dominates(d, p)
  BY <1>2 DEF Own, Dominates
<1>3. QED
  BY <1>1, <1>2 DEF Covered

(* A segment that t knows may make way for an own segment of t.            *)
LEMMA CoverReplaced ==
  ASSUME NEW t \in Task, Live(t), NEW p, Own(t, p), NEW X, NEW Y, NEW q,
         \A x \in X : Knows(t, x), Covered(X \cup Y, q)
  PROVE  Covered({p} \cup Y, q)
<1>1. ASSUME NEW d \in Task, Live(d), \A x \in {p} \cup Y : Knows(d, x) PROVE Knows(d, q)
  <2>1. d = t
    BY <1>1 DEF Own
  <2>2. \A x \in X \cup Y : Knows(d, x)
    BY <1>1, <2>1
  <2>3. QED
    BY <1>1, <2>2 DEF Covered
<1>2. ASSUME NEW d \in Task, Live(d), \A x \in {p} \cup Y : Dominates(d, x)
      PROVE  Dominates(d, q)
  <2>1. Under(t, d)
    BY <1>2 DEF Own, Dominates
  <2>2. \A x \in X : Dominates(d, x)
    BY <2>1 DEF Dominates
  <2>3. QED
    BY <1>2, <2>2 DEF Covered
<1>3. QED
  BY <1>1, <1>2 DEF Covered

(* So may one where t leaves higher than the two leave each other.         *)
LEMMA CoverHigher ==
  ASSUME TasksTypeOK, NEW t \in Task, Live(t), NEW p, Own(t, p),
         NEW x, NEW y, Segment(x), Segment(y), Local(x), Local(y),
         ~ Knows(t, y), LeavesHigher(t, x[1], y[1]),
         NEW q, Covered({x} \cup {y}, q)
  PROVE  Covered({p} \cup {y}, q)
<1>1. x[1] \in Task /\ y[1] \in Task
  BY DEF Segment
<1>2. ASSUME NEW d \in Task, Live(d), Knows(d, p), Knows(d, y) PROVE FALSE
  BY <1>2 DEF Own
<1>3. ASSUME NEW d \in Task, Live(d), Dominates(d, p), Dominates(d, y)
      PROVE  Dominates(d, q)
  <2>1. Under(t, d)
    BY <1>3 DEF Own, Dominates
  <2>2. Under(y[1], d)
    <3>1. ASSUME ~ Under(y[1], d) PROVE FALSE
      <4>1. Uniform(y, d)
        BY <1>3, <3>1 DEF Local
      <4>2. QED
        BY <1>3, <2>1, <4>1 DEF Uniform, Dominates
    <3>2. QED
      BY <3>1
  <2>3. Under(x[1], d)
    BY <1>1, <2>1, <2>2, HigherSplit
  <2>4. Dominates(d, x)
    BY <1>3, <2>3 DEF Local, Inside
  <2>5. QED
    BY <1>3, <2>4 DEF Covered
<1>4. QED
  BY <1>2, <1>3 DEF Covered

(* And otherwise the two already cover what t does.                        *)
LEMMA CoverKept ==
  ASSUME TasksTypeOK, TreeInv, ForkInv, PathsInUse,
         NEW t \in Task, Live(t), NEW p, Own(t, p),
         NEW x, NEW y, Segment(x), Segment(y), Local(x), Local(y),
         ~ Knows(t, x), ~ Knows(t, y), ~ LeavesHigher(t, x[1], y[1])
  PROVE  Covered({x} \cup {y}, p)
<1>1. PICK c \in Task : /\ Live(c) /\ Under(t, c)
                        /\ \/ Under(x[1], c) /\ ~ Under(y[1], c)
                           \/ Under(y[1], c) /\ ~ Under(x[1], c)
  BY LowerSplit DEF Segment
<1>2. PICK z, w : /\ (z = x /\ w = y) \/ (z = y /\ w = x)
                  /\ Under(z[1], c) /\ ~ Under(w[1], c)
  BY <1>1
<1>3. Inside(z, c) /\ Uniform(w, c) /\ ~ Knows(t, w)
  BY <1>1, <1>2 DEF Local
<1>4. ASSUME NEW d \in Task, Live(d), Knows(d, z), Knows(d, w) PROVE FALSE
  BY <1>1, <1>3, <1>4 DEF Inside, Uniform
<1>5. ASSUME NEW d \in Task, Live(d), Dominates(d, z), Dominates(d, w)
      PROVE  Dominates(d, p)
  <2>1. PICK e \in Task : Live(e) /\ Under(e, d) /\ Knows(e, z)
    BY <1>5 DEF Dominates
  <2>2. PICK f \in Task : Live(f) /\ Under(f, d) /\ Knows(f, w)
    BY <1>5 DEF Dominates
  <2>3. Under(e, c)
    BY <1>3, <2>1 DEF Inside
  <2>4. depth(d) \in Nat /\ depth(c) \in Nat
    BY DepthNat
  <2>5. CASE depth(d) <= depth(c)
    <3>1. Under(c, d)
      BY <2>1, <2>3, <2>5, UnderBoth
    <3>2. Under(t, d)
      BY <1>1, <3>1, UnderItself
    <3>3. QED
      BY <3>2 DEF Own, Dominates
  <2>6. CASE depth(c) <= depth(d)
    <3>1. Under(d, c)
      BY <2>1, <2>3, <2>6, UnderBoth
    <3>2. Under(f, c)
      BY <2>2, <3>1, UnderItself
    <3>3. QED
      BY <1>1, <1>3, <2>2, <3>2 DEF Uniform
  <2>7. QED
    BY <2>4, <2>5, <2>6
<1>6. QED
  BY <1>2, <1>4, <1>5 DEF Covered

-----------------------------------------------------------------------------
(***************************************************************************)
(* Two reads and two writes are enough.  The segments the slots stand for  *)
(* cover every access of their kind that was made, and a task whose        *)
(* present slot is in the word knows of every conflicting access.          *)
(***************************************************************************)
PointOf(a) == <<a.task, a.seg>>

Points ==
  \A a \in history : /\ a.kind \in AccessType
                     /\ Segment(PointOf(a)) /\ Local(PointOf(a))

Stands(x, k, X) ==
  IF x.clk = 0 THEN X = {}
  ELSE \E a \in history : /\ a.task = x.tid /\ a.kind = k
                           /\ Good(x.tid, a.seg, x.clk) /\ X = {PointOf(a)}

Covers(x, y, k) ==
  \E X, Y : /\ Stands(x, k, X) /\ Stands(y, k, Y)
            /\ \A a \in history : a.kind = k => Covered(X \cup Y, PointOf(a))

Fulfilled(x, k) ==
  \A u \in Task : Live(u) /\ x = CurSlot(u) =>
    \A a \in history : WRITE \in {k, a.kind} => Knows(u, PointOf(a))

Complete(e) ==
  /\ Covers(e.rd[1], e.rd[2], READ) /\ Covers(e.wr[1], e.wr[2], WRITE)
  /\ Fulfilled(e.rd[1], READ) /\ Fulfilled(e.rd[2], READ)
  /\ Fulfilled(e.wr[1], WRITE) /\ Fulfilled(e.wr[2], WRITE)

CoverageInv ==
  /\ PathsInUse /\ Points
  /\ ~ is_racy => \A e \in LockState : e = v[0] => Complete(e)

LEMMA CoverageInit == Init => CoverageInv
<1> SUFFICES ASSUME Init PROVE CoverageInv
  OBVIOUS
<1>1. PathsInUse
  <2>1. \A t \in Task : depth(t) = 0
    BY DEF Init, TasksInit, depth
  <2>2. \A i \in Nat : ~ (0 < i /\ i <= 0)
    OBVIOUS
  <2>3. QED
    BY <2>1, <2>2 DEF PathsInUse
<1>2. history = {} /\ v[0] = NoAccess
  BY DEF Init, TasksInit, HBInit, ShadowInit, Entry, NUM_FIXED_VAR_ENTRIES
<1>3. \A e : e = NoAccess => /\ e.rd[1] = Empty /\ e.rd[2] = Empty
                             /\ e.wr[1] = Empty /\ e.wr[2] = Empty
  BY DEF NoAccess
<1>4. \A k : Stands(Empty, k, {})
  BY DEF Stands, Empty
<1>5. \A k : Covers(Empty, Empty, k) /\ Fulfilled(Empty, k)
  BY <1>2, <1>4 DEF Covers, Fulfilled
<1>6. QED
  BY <1>1, <1>2, <1>3, <1>5 DEF CoverageInv, Points, Complete

LEMMA StandsFor ==
  ASSUME Points, NEW x \in Slot, NEW k, NEW X, Stands(x, k, X)
  PROVE  /\ \A p \in X : Segment(p) /\ Local(p)
         /\ X # {} => x.clk # 0
         /\ x.clk # 0 => \E n \in Nat : X = {<<x.tid, n>>} /\ Good(x.tid, n, x.clk)
<1>1. CASE x.clk = 0
  BY <1>1 DEF Stands
<1>2. CASE x.clk # 0
  <2>1. PICK a \in history : /\ a.task = x.tid /\ a.kind = k
                             /\ Good(x.tid, a.seg, x.clk) /\ X = {PointOf(a)}
    BY <1>2 DEF Stands
  <2>2. Segment(PointOf(a)) /\ Local(PointOf(a))
    BY DEF Points
  <2>3. a.seg \in Nat /\ PointOf(a) = <<x.tid, a.seg>>
    BY <2>1, <2>2 DEF Segment, PointOf
  <2>4. QED
    BY <1>2, <2>1, <2>2, <2>3
<1>3. QED
  BY <1>1, <1>2

LEMMA StandsGrows ==
  ASSUME Points, NEW x \in Slot, NEW k, NEW X, Stands(x, k, X), history \subseteq history',
         \A u \in Task, n, j \in Nat : Good(u, n, j) => Good(u, n, j)'
  PROVE  Stands(x, k, X)'
<1>1. CASE x.clk = 0
  BY <1>1 DEF Stands
<1>2. CASE x.clk # 0
  <2>1. PICK a \in history : /\ a.task = x.tid /\ a.kind = k
                             /\ Good(x.tid, a.seg, x.clk) /\ X = {PointOf(a)}
    BY <1>2 DEF Stands
  <2>2. a.seg \in Nat /\ x.tid \in Task /\ x.clk \in Nat
    BY <2>1 DEF Points, Segment, PointOf, Slot
  <2>3. \A n \in Nat : n = a.seg => Good(x.tid, n, x.clk)'
    BY <2>1, <2>2
  <2>4. a \in history' /\ Good(x.tid, a.seg, x.clk)'
    BY <2>1, <2>2, <2>3
  <2>5. QED
    BY <1>2, <2>1, <2>4 DEF Stands, PointOf
<1>3. QED
  BY <1>1, <1>2

(* A live task whose clock a slot has was live when it took that clock.    *)
LEMMA EpochLater ==
  ASSUME TasksTypeOK, TreeInv, ForkInv, ForkJoinStep \/ QuietStep,
         NEW u \in Task, NEW n \in Nat, NEW k \in Nat, Good(u, n, k),
         Live(u)', k = clock'[u]
  PROVE  Live(u) /\ clock[u] = k /\ \A p : Knows(u, p) => Knows(u, p)'
<1>1. u <= task_id_ctr /\ k <= clock[u] /\ clock[u] \in Nat
  BY DEF Good, TasksTypeOK
<1>2. ASSUME before[u] \subseteq before'[u] PROVE \A p : Knows(u, p) => Knows(u, p)'
  BY <1>2 DEF Knows
<1>3. ASSUME NEW s \in Task, NEW c \in Task, NEW next, ForkStep(s, c, next)
      PROVE  Live(u) /\ clock[u] = k /\ before[u] \subseteq before'[u]
  <2>1. /\ c = task_id_ctr + 1 /\ task_id_ctr \in Nat /\ u \in Nat
        /\ \A t \in Task : Live(t)' <=> Live(t) \/ t = c
    BY <1>3, ForkFacts, TaskFacts
  <2>2. u # c /\ Live(u)
    BY <1>1, <2>1
  <2>3. /\ clock'[s] = clock[s] + 1
        /\ \A t \in Task : t # s /\ t # c => clock'[t] = clock[t] /\ before'[t] = before[t]
        /\ before[s] \subseteq before'[s]
    BY <1>3, ForkValues
  <2>4. u # s
    BY <1>1, <2>3
  <2>5. QED
    BY <2>2, <2>3, <2>4
<1>4. ASSUME NEW q \in Task, NEW S \in SUBSET Task, ReturnStep(q, S)
      PROVE  before[u] \subseteq before'[u]
  BY <1>4, ReturnValues
<1>5. child_list \in [Task -> SUBSET Task] /\ 0 \in Task
  BY TaskFacts DEF TasksTypeOK
<1>6. ASSUME NEW t \in Task, JoinStep(t, child_list[t])
      PROVE  Live(u) /\ clock[u] = k /\ before[u] \subseteq before'[u]
  <2>1. ReturnStep(t, child_list[t]) /\ clock' = clock
    BY <1>6 DEF JoinStep
  <2>2. Live(u)
    BY <1>5, <1>6, JoinKeepsInv
  <2>3. QED
    BY <1>4, <1>5, <2>1, <2>2
<1>7. ASSUME DeadStep(child_list[0])
      PROVE  Live(u) /\ clock[u] = k /\ before[u] \subseteq before'[u]
  <2>1. u = 0
    BY <1>5, <1>7, DeadKeepsInv
  <2>2. clock'[0] = clock[0] + 1
    BY <1>5, <1>7 DEF DeadStep, TasksTypeOK
  <2>3. QED
    BY <1>1, <2>1, <2>2
<1>8. ASSUME QuietStep PROVE Live(u) /\ clock[u] = k /\ before[u] \subseteq before'[u]
  BY <1>8, QuietKeepsInv DEF QuietStep, taskVars, orderVars
<1>9. QED
  BY <1>2, <1>3, <1>6, <1>7, <1>8, FourSteps

LEMMA PathsStay ==
  ASSUME TasksTypeOK, TreeInv, ForkInv, ForkJoinStep \/ QuietStep, PathsInUse
  PROVE  PathsInUse'
<1>1. ASSUME NEW s \in Task, NEW c \in Task, NEW next, ForkStep(s, c, next)
      PROVE  PathsInUse'
  <2>1. /\ c = task_id_ctr + 1 /\ task_id_ctr' = c /\ task_id_ctr \in Nat
        /\ s <= task_id_ctr /\ \A t \in Task : t \in Nat
    BY <1>1, ForkFacts, TaskFacts
  <2>2. /\ m_vc'[c] = Append(m_vc[s], clock[s] + 1)
        /\ \A t \in Task : t # c => m_vc'[t] = m_vc[t]
        /\ depth(c)' = depth(s) + 1 /\ \A t \in Task : t # c => depth(t)' = depth(t)
    BY <1>1, ForkValues
  <2>3. m_vc[s] \in Seq(Nat) /\ clock[s] \in Nat
    BY DEF TasksTypeOK
  <2>4. clock[s] + 1 \in Nat /\ clock[s] + 1 # 0
    BY <2>3
  <2>5. /\ depth(s) \in Nat /\ m_vc'[c][depth(s) + 1] = clock[s] + 1
        /\ \A i \in 1 .. depth(s) : m_vc'[c][i] = m_vc[s][i]
    BY <2>2, <2>3, <2>4, AppendFacts DEF depth
  <2>6. ASSUME NEW t \in Task, NEW i \in Nat, t <= task_id_ctr', 0 < i, i <= depth(t)'
        PROVE  m_vc'[t][i] # 0
    <3>1. CASE t # c
      <4>1. t <= task_id_ctr
        BY <2>1, <2>6, <3>1
      <4>2. QED
        BY <2>2, <2>6, <3>1, <4>1 DEF PathsInUse
    <3>2. CASE t = c
      <4>1. i = depth(s) + 1 \/ i \in 1 .. depth(s)
        BY <2>2, <2>5, <2>6, <3>2
      <4>2. CASE i = depth(s) + 1
        BY <2>4, <2>5, <3>2, <4>2
      <4>3. CASE i \in 1 .. depth(s)
        <5>1. m_vc[s][i] # 0
          BY <2>1, <2>5, <2>6, <4>3 DEF PathsInUse
        <5>2. QED
          BY <2>5, <3>2, <4>3, <5>1
      <4>4. QED
        BY <4>1, <4>2, <4>3
    <3>3. QED
      BY <3>1, <3>2
  <2>7. QED
    BY <2>6 DEF PathsInUse
<1>2. ASSUME m_vc' = m_vc, task_id_ctr' = task_id_ctr PROVE PathsInUse'
  BY <1>2 DEF PathsInUse, depth
<1>3. ASSUME NEW t \in Task, JoinStep(t, child_list[t]) PROVE PathsInUse'
  BY <1>2, <1>3 DEF JoinStep, ReturnStep
<1>4. ASSUME DeadStep(child_list[0]) PROVE PathsInUse'
  BY <1>2, <1>4 DEF DeadStep, ReturnStep
<1>5. ASSUME QuietStep PROVE PathsInUse'
  BY <1>2, <1>5 DEF QuietStep, taskVars
<1>6. QED
  BY <1>1, <1>3, <1>4, <1>5, FourSteps

(* A step of the tasks keeps it.                                           *)
LEMMA CoverageTaskStep ==
  ASSUME TasksTypeOK, TreeInv, ForkInv, TasksTypeOK', TreeInv',
         ShadowTypeOK, CoverageInv, ForkJoinStep \/ QuietStep,
         UNCHANGED shadowVars, history' = history
  PROVE  CoverageInv'
<1>1. v' = v /\ is_racy' = is_racy /\ PathsInUse /\ Points
  BY DEF shadowVars, CoverageInv
<1>2. /\ ForkInv'
      /\ \A u \in Task, n, k \in Nat : Good(u, n, k) => Good(u, n, k)'
  BY GoodStep
<1>3. /\ \A p : Segment(p) => Segment(p)'
      /\ \A p : Segment(p) /\ Local(p) => Local(p)'
      /\ \A X, p : (\A x \in X : Segment(x)) /\ Segment(p) /\ Covered(X, p)
                     => Covered(X, p)'
  BY StepKeepsCovers
<1>4. PathsInUse'
  BY <1>1, PathsStay
<1>5. Points'
  BY <1>1, <1>3 DEF Points, PointOf
<1>6. ASSUME NEW x \in Slot, NEW y \in Slot, NEW k, Covers(x, y, k)
      PROVE  Covers(x, y, k)'
  <2>1. PICK X, Y : /\ Stands(x, k, X) /\ Stands(y, k, Y)
                    /\ \A a \in history : a.kind = k => Covered(X \cup Y, PointOf(a))
    BY <1>6 DEF Covers
  <2>2. Stands(x, k, X)' /\ Stands(y, k, Y)'
    BY <1>1, <1>2, <2>1, StandsGrows
  <2>3. \A p \in X \cup Y : Segment(p)
    BY <1>1, <2>1, StandsFor
  <2>4. \A a \in history : Segment(PointOf(a))
    BY <1>1 DEF Points
  <2>5. \A a \in history : a.kind = k => Covered(X \cup Y, PointOf(a))'
    BY <1>3, <2>1, <2>3, <2>4 DEF PointOf
  <2>6. QED
    BY <2>2, <2>5 DEF Covers
<1>7. ASSUME NEW x \in Slot, NEW k, NEW X, Stands(x, k, X), Fulfilled(x, k)
      PROVE  Fulfilled(x, k)'
  <2>1. ASSUME NEW u \in Task, Live(u)', x = CurSlot(u)',
               NEW a \in history, WRITE \in {k, a.kind}
        PROVE  Knows(u, PointOf(a))'
    <3>1. x.tid = u /\ x.clk = clock'[u] /\ x.clk \in Nat
      BY <2>1 DEF CurSlot, Slot
    <3>2. x.clk # 0
      <4>1. clock'[u] > 0
        BY <1>2, <2>1 DEF ForkInv, Clocks, Live
      <4>2. QED
        BY <3>1, <4>1
    <3>3. PICK n \in Nat : Good(u, n, x.clk)
      BY <1>1, <1>7, <3>1, <3>2, StandsFor
    <3>4. Live(u) /\ clock[u] = x.clk /\ \A p : Knows(u, p) => Knows(u, p)'
      BY <2>1, <3>1, <3>3, EpochLater
    <3>5. x = CurSlot(u)
      BY <3>1, <3>4 DEF CurSlot, Slot
    <3>6. QED
      BY <1>7, <2>1, <3>4, <3>5 DEF Fulfilled, PointOf
  <2>2. QED
    BY <2>1 DEF Fulfilled
<1>8. ASSUME ~ is_racy, NEW e \in LockState, e = v[0] PROVE Complete(e)'
  <2>1. Complete(e)
    BY <1>8 DEF CoverageInv
  <2>2. e.rd[1] \in Slot /\ e.rd[2] \in Slot /\ e.wr[1] \in Slot /\ e.wr[2] \in Slot
    BY DEF LockState
  <2>3. Covers(e.rd[1], e.rd[2], READ)' /\ Covers(e.wr[1], e.wr[2], WRITE)'
    BY <1>6, <2>1, <2>2 DEF Complete
  <2>4. /\ \E X, Y : Stands(e.rd[1], READ, X) /\ Stands(e.rd[2], READ, Y)
        /\ \E X, Y : Stands(e.wr[1], WRITE, X) /\ Stands(e.wr[2], WRITE, Y)
    BY <2>1 DEF Complete, Covers
  <2>5. /\ Fulfilled(e.rd[1], READ)' /\ Fulfilled(e.rd[2], READ)'
        /\ Fulfilled(e.wr[1], WRITE)' /\ Fulfilled(e.wr[2], WRITE)'
    BY <1>7, <2>1, <2>2, <2>4 DEF Complete
  <2>6. QED
    BY <2>3, <2>5 DEF Complete
<1>9. QED
  BY <1>1, <1>4, <1>5, <1>8 DEF CoverageInv

(***************************************************************************)
(* An access by t.  t knows of every conflicting access when the word has  *)
(* one of its own at its present clock, and when nothing races.            *)
(***************************************************************************)
KnowsConflicts(t, kind) ==
  \A a \in history : WRITE \in {kind, a.kind} => Knows(t, PointOf(a))

LEMMA CoveredKnown ==
  ASSUME Points, NEW t \in Task, Live(t), NEW x \in Slot, NEW y \in Slot, NEW k,
         Covers(x, y, k), HappensBeforeSlot(t, x), HappensBeforeSlot(t, y),
         Fresh(x), Fresh(y), NEW a \in history, a.kind = k
  PROVE  Knows(t, PointOf(a))
<1>1. PICK X, Y : Stands(x, k, X) /\ Stands(y, k, Y) /\ Covered(X \cup Y, PointOf(a))
  BY DEF Covers
<1>2. ASSUME NEW z \in Slot, NEW Z, Stands(z, k, Z), HappensBeforeSlot(t, z), Fresh(z)
      PROVE  \A p \in Z : Knows(t, p)
  <2>1. CASE z.clk = 0
    BY <1>2, <2>1 DEF Stands
  <2>2. CASE z.clk # 0
    <3>1. PICK n \in Nat : Z = {<<z.tid, n>>} /\ Good(z.tid, n, z.clk)
      BY <1>2, <2>2, StandsFor
    <3>2. Knows(t, <<z.tid, n>>)
      BY <1>2, <2>2, <3>1, SlotVerdict DEF Fresh
    <3>3. QED
      BY <3>1, <3>2
  <2>3. QED
    BY <2>1, <2>2
<1>3. \A p \in X \cup Y : Knows(t, p)
  BY <1>1, <1>2
<1>4. QED
  BY <1>1, <1>3 DEF Covered

LEMMA DeadWordKnown ==
  ASSUME Points, NEW x \in Slot, NEW y \in Slot, NEW k, Covers(x, y, k),
         check_dead(x.tid, x.clk), check_dead(y.tid, y.clk),
         NEW a \in history, a.kind = k, NEW d \in Task, Live(d)
  PROVE  Knows(d, PointOf(a))
<1>1. PICK X, Y : Stands(x, k, X) /\ Stands(y, k, Y) /\ Covered(X \cup Y, PointOf(a))
  BY DEF Covers
<1>2. ASSUME NEW z \in Slot, NEW Z, Stands(z, k, Z), check_dead(z.tid, z.clk)
      PROVE  \A p \in Z : Knows(d, p)
  <2>1. CASE z.clk = 0
    BY <1>2, <2>1 DEF Stands
  <2>2. CASE z.clk # 0
    <3>1. PICK n \in Nat : Z = {<<z.tid, n>>} /\ Good(z.tid, n, z.clk)
      BY <1>2, <2>2, StandsFor
    <3>2. z.tid \in Task /\ z.clk \in Nat
      BY DEF Slot
    <3>3. QED
      BY <1>2, <3>1, <3>2, DeadIsKnown
  <2>3. QED
    BY <2>1, <2>2
<1>3. \A p \in X \cup Y : Knows(d, p)
  BY <1>1, <1>2
<1>4. QED
  BY <1>1, <1>3 DEF Covered

(* A word that already has the access tells t of what conflicts with it.   *)
LEMMA OwnSlotTells ==
  ASSUME TasksTypeOK, TreeInv, ForkInv, Points, NEW t \in Task, Live(t),
         NEW kind \in AccessType, KnowsConflicts(t, kind),
         NEW u \in Task, Live(u), NEW x \in Slot, NEW k, NEW X, Stands(x, k, X),
         x = CurSlot(u), WRITE \in {k, kind}
  PROVE  u = t
<1>1. x.tid = u /\ x.clk = clock[u] /\ x.clk # 0
  BY NotDeadNow DEF CurSlot
<1>2. PICK a \in history : a.task = u /\ a.kind = k /\ Good(u, a.seg, clock[u])
  BY <1>1 DEF Stands
<1>3. a.seg \in Nat
  BY DEF Points, Segment, PointOf
<1>4. Knows(t, <<u, a.seg>>)
  BY <1>2 DEF KnowsConflicts, PointOf
<1>5. Own(u, <<u, a.seg>>)
  BY <1>2, <1>3, EpochIsOwn
<1>6. QED
  BY <1>4, <1>5 DEF Own

(***************************************************************************)
(* The step itself, slot by slot.  b is the access that is made.           *)
(***************************************************************************)
Makes(t, kind, b) ==
  /\ b.task = t /\ b.kind = kind /\ b.seg = seg[t]
  /\ history' = history \cup {b}

LEMMA AccessMakes ==
  ASSUME NEW t \in Task, NEW kind \in AccessType, Access(t, kind)
  PROVE  Makes(t, kind, AccessOf(t, kind, held[t]))
BY DEF Access, HBAccess, Makes, AccessOf

LEMMA CoversNext ==
  ASSUME TasksTypeOK, TreeInv, ForkInv, QuietStep, Points,
         NEW t \in Task, NEW kind, NEW b, Makes(t, kind, b),
         NEW x, NEW y, NEW k, NEW X, NEW Y, Stands(x, k, X)', Stands(y, k, Y)',
         \A a \in history : a.kind = k => Covered(X \cup Y, PointOf(a)),
         kind = k => Covered(X \cup Y, <<t, seg[t]>>)
  PROVE  Covers(x, y, k)'
<1>1. \A p : Covered(X \cup Y, p) => Covered(X \cup Y, p)'
  BY QuietKeeps
<1>2. \A a \in history' : a.kind = k => Covered(X \cup Y, PointOf(a))'
  <2>1. PointOf(b) = <<t, seg[t]>>
    BY DEF Makes, PointOf
  <2>2. ASSUME NEW a \in history', a.kind = k PROVE Covered(X \cup Y, PointOf(a))
    BY <2>1, <2>2 DEF Makes
  <2>3. \A a : \A p : p = PointOf(a) => (Covered(X \cup Y, p)' => Covered(X \cup Y, PointOf(a))')
    BY DEF PointOf
  <2>4. QED
    BY <1>1, <2>2, <2>3
<1>3. QED
  BY <1>2 DEF Covers

LEMMA FulfilledNext ==
  ASSUME TasksTypeOK, TreeInv, ForkInv, QuietStep, Points, NEW t \in Task, Live(t),
         NEW kind \in AccessType, NEW b, Makes(t, kind, b), KnowsConflicts(t, kind),
         NEW x \in Slot, NEW k,
         \/ x = Empty
         \/ x = CurSlot(t) /\ k = kind
         \/ Fulfilled(x, k) /\ \E X : Stands(x, k, X)
  PROVE  Fulfilled(x, k)'
<1>1. /\ \A d \in Task : Live(d)' <=> Live(d)
      /\ \A d, p : Knows(d, p)' <=> Knows(d, p)
      /\ clock' = clock
  BY QuietKeeps, QuietKeepsInv DEF QuietStep, taskVars
<1>2. ASSUME NEW u \in Task, Live(u), x = CurSlot(u), NEW a \in history',
             WRITE \in {k, a.kind}
      PROVE  Knows(u, PointOf(a))
  <2>1. x # Empty
    BY <1>2, NotDeadNow DEF Empty, CurSlot
  <2>2. CASE x = CurSlot(t) /\ k = kind
    <3>1. u = t
      BY <1>2, <2>2 DEF CurSlot
    <3>2. QED
      BY <1>2, <2>2, <3>1 DEF KnowsConflicts, Makes, PointOf, Knows
  <2>3. CASE Fulfilled(x, k) /\ \E X : Stands(x, k, X)
    <3>1. CASE a \in history
      BY <1>2, <2>3, <3>1 DEF Fulfilled
    <3>2. CASE a = b
      <4>1. WRITE \in {k, kind}
        BY <1>2, <3>2 DEF Makes
      <4>2. u = t
        BY <1>2, <2>3, <4>1, OwnSlotTells
      <4>3. QED
        BY <3>2, <4>2 DEF Makes, PointOf, Knows
    <3>3. QED
      BY <3>1, <3>2 DEF Makes
  <2>4. QED
    BY <2>1, <2>2, <2>3
<1>3. \A u \in Task : CurSlot(u)' = CurSlot(u)
  BY <1>1 DEF CurSlot
<1>4. QED
  BY <1>1, <1>2, <1>3 DEF Fulfilled, PointOf

(* The pair of the kind, after UpdateSlots.                                *)
LEMMA UpdateCovers ==
  ASSUME TasksTypeOK, TreeInv, ForkInv, TasksTypeOK', TreeInv', PathsInUse, Points, QuietStep,
         NEW t \in Task, status[t] = "running", NEW kind, NEW b, Makes(t, kind, b),
         NEW x \in Slot, NEW y \in Slot, Covers(x, y, kind), Fresh(x), Fresh(y),
         \A z \in Slot : \A q : z = CurSlot(t) /\ q = <<t, seg[t]>> =>
                                Stands(z, kind, {q})'
  PROVE  \A z, w \in Slot : <<z, w>> = UpdateSlots(t, <<x, y>>) => Covers(z, w, kind)'
<1>0. PICK p : p = <<t, seg[t]>>
  OBVIOUS
<1>1. Live(t) /\ Own(t, p) /\ Segment(p)
  BY <1>0, PresentIsOwn
<1>2. PICK X, Y : /\ Stands(x, kind, X) /\ Stands(y, kind, Y)
                  /\ \A a \in history : a.kind = kind => Covered(X \cup Y, PointOf(a))
  BY DEF Covers
<1>3. Stands(x, kind, X)' /\ Stands(y, kind, Y)'
  BY <1>2, GoodStep, StandsGrows DEF Makes
<1>4. ASSUME NEW s \in Slot, NEW Z, Stands(s, kind, Z), Fresh(s)
      PROVE  IF HappensBeforeSlot(t, s) THEN \A q \in Z : Knows(t, q)
             ELSE \E q : /\ Z = {q} /\ q[1] = s.tid /\ ~ Knows(t, q)
                         /\ Segment(q) /\ Local(q)
  <2>1. CASE s.clk = 0
    BY <1>4, <2>1 DEF Stands, HappensBeforeSlot
  <2>2. CASE s.clk # 0
    <3>1. PICK n \in Nat : Z = {<<s.tid, n>>} /\ Good(s.tid, n, s.clk)
      BY <1>4, <2>2, StandsFor
    <3>2. HappensBeforeSlot(t, s) <=> Knows(t, <<s.tid, n>>)
      BY <1>1, <1>4, <2>2, <3>1, SlotVerdict DEF Fresh
    <3>3. Segment(<<s.tid, n>>) /\ Local(<<s.tid, n>>)
      BY <1>4, <3>1, StandsFor
    <3>4. QED
      BY <3>1, <3>2, <3>3
  <2>3. QED
    BY <2>1, <2>2
<1>5. ASSUME NEW z \in Slot, NEW w \in Slot, z = CurSlot(t), w = y,
             \/ HappensBeforeSlot(t, x)
             \/ /\ ~ HappensBeforeSlot(t, x) /\ ~ HappensBeforeSlot(t, y)
                /\ LeavesHigher(t, x.tid, y.tid)
      PROVE  Covers(z, w, kind)'
  <2>1. Stands(z, kind, {p})' /\ Stands(w, kind, Y)'
    BY <1>0, <1>3, <1>5
  <2>2. Covered({p} \cup Y, p)
    BY CoveredByMember
  <2>3. ASSUME NEW q, Covered(X \cup Y, q) PROVE Covered({p} \cup Y, q)
    <3>1. CASE HappensBeforeSlot(t, x)
      <4>1. \A r \in X : Knows(t, r)
        BY <1>2, <1>4, <3>1
      <4>2. QED
        BY <1>1, <2>3, <4>1, CoverReplaced
    <3>2. CASE /\ ~ HappensBeforeSlot(t, x) /\ ~ HappensBeforeSlot(t, y)
               /\ LeavesHigher(t, x.tid, y.tid)
      <4>1. PICK q1 : /\ X = {q1} /\ q1[1] = x.tid
                      /\ Segment(q1) /\ Local(q1)
        BY <1>2, <1>4, <3>2
      <4>2. PICK q2 : /\ Y = {q2} /\ q2[1] = y.tid /\ ~ Knows(t, q2)
                      /\ Segment(q2) /\ Local(q2)
        BY <1>2, <1>4, <3>2
      <4>3. LeavesHigher(t, q1[1], q2[1])
        BY <3>2, <4>1, <4>2
      <4>4. QED
        BY <1>1, <2>3, <4>1, <4>2, <4>3, CoverHigher
    <3>3. QED
      BY <1>5, <3>1, <3>2
  <2>4. \A a \in history : a.kind = kind => Covered({p} \cup Y, PointOf(a))
    BY <1>2, <2>3
  <2>5. Covered({p} \cup Y, <<t, seg[t]>>)
    BY <1>0, <2>2
  <2>6. QED
    BY <2>1, <2>4, <2>5, CoversNext
<1>6. ASSUME NEW z \in Slot, NEW w \in Slot, z = x, w = CurSlot(t), HappensBeforeSlot(t, y)
      PROVE  Covers(z, w, kind)'
  <2>1. Stands(z, kind, X)' /\ Stands(w, kind, {p})'
    BY <1>0, <1>3, <1>6
  <2>2. \A r \in Y : Knows(t, r)
    BY <1>2, <1>4, <1>6
  <2>3. ASSUME NEW q, Covered(X \cup Y, q) PROVE Covered(X \cup {p}, q)
    <3>1. Y \cup X = X \cup Y /\ {p} \cup X = X \cup {p}
      OBVIOUS
    <3>2. QED
      BY <1>1, <2>2, <2>3, <3>1, CoverReplaced
  <2>4. \A a \in history : a.kind = kind => Covered(X \cup {p}, PointOf(a))
    BY <1>2, <2>3
  <2>5. Covered(X \cup {p}, <<t, seg[t]>>)
    BY <1>0, CoveredByMember
  <2>6. QED
    BY <2>1, <2>4, <2>5, CoversNext
<1>7. ASSUME NEW z \in Slot, NEW w \in Slot, z = x, w = y,
             ~ HappensBeforeSlot(t, x), ~ HappensBeforeSlot(t, y),
             ~ LeavesHigher(t, x.tid, y.tid)
      PROVE  Covers(z, w, kind)'
  <2>1. PICK q1 : /\ X = {q1} /\ q1[1] = x.tid /\ ~ Knows(t, q1)
                  /\ Segment(q1) /\ Local(q1)
    BY <1>2, <1>4, <1>7
  <2>2. PICK q2 : /\ Y = {q2} /\ q2[1] = y.tid /\ ~ Knows(t, q2)
                  /\ Segment(q2) /\ Local(q2)
    BY <1>2, <1>4, <1>7
  <2>3. ~ LeavesHigher(t, q1[1], q2[1])
    BY <1>7, <2>1, <2>2
  <2>4. Covered({q1} \cup {q2}, p)
    BY <1>1, <2>1, <2>2, <2>3, CoverKept
  <2>5. Covered(X \cup Y, <<t, seg[t]>>)
    BY <1>0, <2>1, <2>2, <2>4
  <2>6. QED
    BY <1>2, <1>3, <1>7, <2>5, CoversNext
<1>8. \A z, w : <<z, w>> = UpdateSlots(t, <<x, y>>) =>
        \/ /\ z = CurSlot(t) /\ w = y
           /\ \/ HappensBeforeSlot(t, x)
              \/ /\ ~ HappensBeforeSlot(t, x) /\ ~ HappensBeforeSlot(t, y)
                 /\ LeavesHigher(t, x.tid, y.tid)
        \/ z = x /\ w = CurSlot(t) /\ HappensBeforeSlot(t, y)
        \/ /\ z = x /\ w = y
           /\ ~ HappensBeforeSlot(t, x) /\ ~ HappensBeforeSlot(t, y)
           /\ ~ LeavesHigher(t, x.tid, y.tid)
  BY DEF UpdateSlots
<1>9. QED
  BY <1>5, <1>6, <1>7, <1>8

(* A pair that is left as it is.                                           *)
LEMMA SameCovers ==
  ASSUME TasksTypeOK, TreeInv, ForkInv, TasksTypeOK', TreeInv', Points, QuietStep,
         NEW t \in Task, status[t] = "running", NEW kind, NEW b, Makes(t, kind, b),
         NEW x \in Slot, NEW y \in Slot, NEW k, Covers(x, y, k),
         kind = k => x = CurSlot(t) \/ y = CurSlot(t)
  PROVE  Covers(x, y, k)'
<1>1. PICK X, Y : /\ Stands(x, k, X) /\ Stands(y, k, Y)
                  /\ \A a \in history : a.kind = k => Covered(X \cup Y, PointOf(a))
  BY DEF Covers
<1>2. Stands(x, k, X)' /\ Stands(y, k, Y)'
  BY <1>1, GoodStep, StandsGrows DEF Makes
<1>3. ASSUME NEW z \in Slot, NEW Z, Stands(z, k, Z), z = CurSlot(t), Z \subseteq X \cup Y
      PROVE  Covered(X \cup Y, <<t, seg[t]>>)
  <2>1. Live(t) /\ Own(t, <<t, seg[t]>>)
    BY PresentIsOwn
  <2>2. z.tid = t /\ z.clk = clock[t] /\ z.clk # 0
    BY <1>3, <2>1, NotDeadNow DEF CurSlot
  <2>3. PICK n \in Nat : Z = {<<t, n>>} /\ Good(t, n, clock[t])
    BY <1>3, <2>2, StandsFor
  <2>4. Own(t, <<t, n>>) /\ <<t, n>> \in X \cup Y
    BY <1>3, <2>1, <2>3, EpochIsOwn
  <2>5. Knows(t, <<t, seg[t]>>)
    BY DEF Knows
  <2>6. QED
    BY <2>1, <2>4, <2>5, OwnCovers
<1>4. kind = k => Covered(X \cup Y, <<t, seg[t]>>)
  BY <1>1, <1>3
<1>5. QED
  BY <1>1, <1>2, <1>4, CoversNext

LEMMA PointsNext ==
  ASSUME TasksTypeOK, TreeInv, ForkInv, Points, QuietStep,
         NEW t \in Task, status[t] = "running", NEW kind \in AccessType,
         NEW b, Makes(t, kind, b)
  PROVE  Points'
<1>1. /\ \A p : p[1] \in Task /\ Local(p) => Local(p)'
      /\ \A p : Segment(p) => Segment(p)'
  BY QuietKeeps
<1>2. \A p : Segment(p) => p[1] \in Task
  BY DEF Segment
<1>3. Segment(<<t, seg[t]>>) /\ Local(<<t, seg[t]>>)
  BY PresentIsOwn
<1>4. \A a \in history' : /\ a.kind \in AccessType
                          /\ Segment(PointOf(a)) /\ Local(PointOf(a))
  BY <1>3 DEF Points, Makes, PointOf
<1>5. ASSUME NEW a \in history' PROVE Segment(PointOf(a))' /\ Local(PointOf(a))'
  <2>1. PICK p : p = PointOf(a)
    OBVIOUS
  <2>2. Segment(p)' /\ Local(p)'
    BY <1>1, <1>2, <1>4, <2>1
  <2>3. QED
    BY <2>1, <2>2 DEF PointOf
<1>6. QED
  BY <1>4, <1>5 DEF Points

LEMMA StandsNow ==
  ASSUME TasksTypeOK, TreeInv, ForkInv, TasksTypeOK', TreeInv', QuietStep,
         NEW t \in Task, status[t] = "running", NEW kind, NEW b, Makes(t, kind, b)
  PROVE  \A z \in Slot : \A q : z = CurSlot(t) /\ q = <<t, seg[t]>> => Stands(z, kind, {q})'
<1>1. Live(t) /\ Good(t, seg[t], clock[t]) /\ seg[t] \in Nat /\ clock[t] \in Nat
      /\ clock[t] # 0
  BY PresentIsOwn, GoodNow, NotDeadNow DEF TasksTypeOK
<1>2. \A u \in Task, n, k \in Nat : Good(u, n, k) => Good(u, n, k)'
  BY GoodStep
<1>3. ASSUME NEW z \in Slot, NEW q, z = CurSlot(t), q = <<t, seg[t]>>
      PROVE  Stands(z, kind, {q})'
  <2>1. z.tid = t /\ z.clk = clock[t] /\ b.seg = seg[t] /\ b.task = t /\ b.kind = kind
        /\ b \in history'
    BY <1>3 DEF CurSlot, Makes
  <2>2. \A n, k \in Nat : n = b.seg /\ k = z.clk => Good(t, n, k)'
    <3>1. \A n, k \in Nat : n = b.seg /\ k = z.clk => Good(t, n, k)
      BY <1>1, <2>1
    <3>2. QED
      BY <1>2, <3>1
  <2>3. Good(z.tid, b.seg, z.clk)'
    BY <1>1, <2>1, <2>2
  <2>4. {q} = {PointOf(b)}
    BY <1>3, <2>1 DEF PointOf
  <2>5. z.clk # 0
    BY <1>1, <2>1
  <2>6. QED
    BY <2>1, <2>3, <2>4, <2>5 DEF Stands, PointOf
<1>4. QED
  BY <1>3

(* t knows what conflicts unless the access is reported.                   *)
LEMMA ConflictsKnown ==
  ASSUME TasksTypeOK, TreeInv, ForkInv, ShadowTypeOK, WordInv, CoverageInv, ~ is_racy,
         NEW t \in Task, status[t] = "running", NEW kind \in AccessType,
         \/ RecordsFirst(t, kind)
         \/ ~ EntryDead(v[0]) /\ (SeenBefore(t, kind) \/ Records(t, kind))
  PROVE  KnowsConflicts(t, kind)
<1>1. /\ v[0] \in LockState
      /\ v[0].rd[1] \in Slot /\ v[0].rd[2] \in Slot
      /\ v[0].wr[1] \in Slot /\ v[0].wr[2] \in Slot
  BY SlotTypesIn
<1>2. Live(t) /\ Points /\ Complete(v[0])
  BY <1>1, PresentIsOwn DEF CoverageInv
<1>3. \A a \in history : a.kind = READ \/ a.kind = WRITE
  BY <1>2 DEF Points, AccessType
<1>4. CASE RecordsFirst(t, kind)
  <2>1. EntryDead(v[0])
    BY <1>4 DEF RecordsFirst
  <2>2. \A a \in history : Knows(t, PointOf(a))
    BY <1>1, <1>2, <1>3, <2>1, DeadWordKnown DEF EntryDead, Complete
  <2>3. QED
    BY <2>2 DEF KnowsConflicts
<1>5. CASE SeenBefore(t, kind)
  <2>1. PICK j \in 1 .. 2 : SlotsOf(v[0], kind)[j] = CurSlot(t)
    BY <1>5 DEF SeenBefore, SameEpoch
  <2>2. j = 1 \/ j = 2
    OBVIOUS
  <2>3. Fulfilled(CurSlot(t), kind)
    BY <1>2, <2>1, <2>2 DEF SlotsOf, AccessType, Complete
  <2>4. QED
    BY <1>2, <2>3 DEF Fulfilled, KnowsConflicts
<1>6. CASE ~ EntryDead(v[0]) /\ Records(t, kind)
  <2>1. /\ Fresh(v[0].rd[1]) /\ Fresh(v[0].rd[2])
        /\ Fresh(v[0].wr[1]) /\ Fresh(v[0].wr[2])
    BY <1>1, <1>6 DEF WordInv, EntryFresh
  <2>2. RacingSlots(t, v[0], kind) = {}
    BY <1>6 DEF Records
  <2>3. /\ HappensBeforeSlot(t, v[0].wr[1]) /\ HappensBeforeSlot(t, v[0].wr[2])
        /\ kind = WRITE => /\ HappensBeforeSlot(t, v[0].rd[1])
                           /\ HappensBeforeSlot(t, v[0].rd[2])
    BY <1>1, <2>2, RacingIs
  <2>4. ASSUME NEW a \in history, WRITE \in {kind, a.kind} PROVE Knows(t, PointOf(a))
    <3>1. CASE a.kind = WRITE
      BY <1>1, <1>2, <2>1, <2>3, <3>1, CoveredKnown DEF Complete
    <3>2. CASE a.kind = READ /\ kind = WRITE
      BY <1>1, <1>2, <2>1, <2>3, <3>2, CoveredKnown DEF Complete
    <3>3. QED
      BY <1>3, <2>4, <3>1, <3>2
  <2>5. QED
    BY <2>4 DEF KnowsConflicts
<1>7. QED
  BY <1>4, <1>5, <1>6

LEMMA FirstComplete ==
  ASSUME TasksTypeOK, TreeInv, ForkInv, TasksTypeOK', TreeInv', QuietStep,
         ShadowTypeOK, CoverageInv, ~ is_racy,
         NEW t \in Task, status[t] = "running", NEW kind \in AccessType,
         NEW b, Makes(t, kind, b), KnowsConflicts(t, kind), RecordsFirst(t, kind),
         NEW e \in LockState, e = v'[0]
  PROVE  Complete(e)'
<1>1. /\ v[0] \in LockState
      /\ v[0].rd[1] \in Slot /\ v[0].rd[2] \in Slot
      /\ v[0].wr[1] \in Slot /\ v[0].wr[2] \in Slot
      /\ e.rd[1] \in Slot /\ e.rd[2] \in Slot /\ e.wr[1] \in Slot /\ e.wr[2] \in Slot
  BY SlotTypesIn DEF LockState
<1>2. Live(t) /\ Points /\ Complete(v[0])
  BY <1>1, PresentIsOwn DEF CoverageInv
<1>3. EntryDead(v[0])
  BY DEF RecordsFirst
<1>4. \A a \in history : a.kind = READ \/ a.kind = WRITE
  BY <1>2 DEF Points, AccessType
<1>5. \A a \in history, d \in Task : Live(d) => Knows(d, PointOf(a))
  BY <1>1, <1>2, <1>3, <1>4, DeadWordKnown DEF EntryDead, Complete
<1>6. \A a \in history : \A X : Covered(X, PointOf(a))
  BY <1>5, KnownIsCovered
<1>7. PICK p : p = <<t, seg[t]>>
  OBVIOUS
<1>8. \A z \in Slot : z = CurSlot(t) => Stands(z, kind, {p})'
  BY <1>7, StandsNow
<1>9. \A z : z = Empty => \A k : Stands(z, k, {})'
  BY DEF Stands, Empty
<1>10. ASSUME NEW x \in Slot, NEW y \in Slot, x = CurSlot(t), y = Empty
       PROVE  Covers(x, y, kind)' /\ Fulfilled(x, kind)' /\ Fulfilled(y, kind)'
  <2>1. Stands(x, kind, {p})' /\ Stands(y, kind, {})'
    BY <1>8, <1>9, <1>10
  <2>2. Covered({p} \cup {}, <<t, seg[t]>>)
    BY <1>7, CoveredByMember
  <2>3. Covers(x, y, kind)'
    BY <1>2, <1>6, <2>1, <2>2, CoversNext
  <2>4. QED
    BY <1>2, <1>10, <2>3, FulfilledNext
<1>11. ASSUME NEW x \in Slot, NEW y \in Slot, x = Empty, y = Empty, NEW k, k # kind
       PROVE  Covers(x, y, k)' /\ Fulfilled(x, k)' /\ Fulfilled(y, k)'
  <2>1. Stands(x, k, {})' /\ Stands(y, k, {})'
    BY <1>9, <1>11
  <2>2. \A a \in history : a.kind = k => Covered({} \cup {}, PointOf(a))
    BY <1>6
  <2>3. kind = k => Covered({} \cup {}, <<t, seg[t]>>)
    BY <1>11
  <2>4. Covers(x, y, k)'
    BY <1>2, <2>1, <2>2, <2>3, CoversNext
  <2>5. QED
    BY <1>2, <1>11, <2>4, FulfilledNext
<1>12. CASE kind = READ
  <2>1. e.rd[1] = CurSlot(t) /\ e.rd[2] = Empty /\ e.wr[1] = Empty /\ e.wr[2] = Empty
    BY <1>12 DEF RecordsFirst
  <2>2. WRITE # kind
    BY <1>12 DEF READ, WRITE
  <2>3. QED
    BY <1>1, <1>10, <1>11, <1>12, <2>1, <2>2 DEF Complete
<1>13. CASE kind = WRITE
  <2>1. READ # kind
    BY <1>13 DEF READ, WRITE
  <2>2. e.wr[1] = CurSlot(t) /\ e.wr[2] = Empty /\ e.rd[1] = Empty /\ e.rd[2] = Empty
    BY <1>13, <2>1 DEF RecordsFirst
  <2>3. QED
    BY <1>1, <1>10, <1>11, <1>13, <2>1, <2>2 DEF Complete
<1>14. QED
  BY <1>12, <1>13 DEF AccessType

LEMMA LaterComplete ==
  ASSUME TasksTypeOK, TreeInv, ForkInv, TasksTypeOK', TreeInv', QuietStep,
         ShadowTypeOK, WordInv, CoverageInv, ~ is_racy,
         NEW t \in Task, status[t] = "running", NEW kind \in AccessType,
         NEW b, Makes(t, kind, b), KnowsConflicts(t, kind),
         ~ EntryDead(v[0]), SeenBefore(t, kind) \/ Records(t, kind),
         NEW e \in LockState, e = v'[0]
  PROVE  Complete(e)'
<1>1. /\ v[0] \in LockState
      /\ v[0].rd[1] \in Slot /\ v[0].rd[2] \in Slot
      /\ v[0].wr[1] \in Slot /\ v[0].wr[2] \in Slot
      /\ e.rd[1] \in Slot /\ e.rd[2] \in Slot /\ e.wr[1] \in Slot /\ e.wr[2] \in Slot
  BY SlotTypesIn DEF LockState
<1>2. PICK r1 \in Slot, r2 \in Slot, w1 \in Slot, w2 \in Slot :
        v[0].rd = <<r1, r2>> /\ v[0].wr = <<w1, w2>>
  BY <1>1 DEF LockState
<1>3. /\ Live(t) /\ Points /\ PathsInUse
      /\ Covers(r1, r2, READ) /\ Covers(w1, w2, WRITE)
      /\ Fulfilled(r1, READ) /\ Fulfilled(r2, READ)
      /\ Fulfilled(w1, WRITE) /\ Fulfilled(w2, WRITE)
      /\ Fresh(r1) /\ Fresh(r2) /\ Fresh(w1) /\ Fresh(w2)
  <2>1. Complete(v[0]) /\ EntryFresh(v[0]) /\ Points /\ PathsInUse
    BY <1>1 DEF CoverageInv, WordInv
  <2>2. v[0].rd[1] = r1 /\ v[0].rd[2] = r2 /\ v[0].wr[1] = w1 /\ v[0].wr[2] = w2
    BY <1>2
  <2>3. /\ Covers(r1, r2, READ) /\ Covers(w1, w2, WRITE)
        /\ Fulfilled(r1, READ) /\ Fulfilled(r2, READ)
        /\ Fulfilled(w1, WRITE) /\ Fulfilled(w2, WRITE)
    BY <2>1, <2>2 DEF Complete
  <2>4. Fresh(r1) /\ Fresh(r2) /\ Fresh(w1) /\ Fresh(w2)
    BY <2>1, <2>2 DEF EntryFresh
  <2>5. Live(t)
    BY PresentIsOwn
  <2>6. QED
    BY <2>1, <2>3, <2>4, <2>5
<1>4. \A z \in Slot : \A q : z = CurSlot(t) /\ q = <<t, seg[t]>> => Stands(z, kind, {q})'
  BY StandsNow
<1>5. /\ \E X : Stands(r1, READ, X)
      /\ \E X : Stands(r2, READ, X)
      /\ \E X : Stands(w1, WRITE, X)
      /\ \E X : Stands(w2, WRITE, X)
  BY <1>3 DEF Covers
<1>6. /\ Fulfilled(r1, READ)' /\ Fulfilled(r2, READ)'
      /\ Fulfilled(w1, WRITE)' /\ Fulfilled(w2, WRITE)'
  <2>1. \A x \in Slot : \A k : Fulfilled(x, k) /\ (\E X : Stands(x, k, X)) => Fulfilled(x, k)'
    BY <1>3, FulfilledNext
  <2>2. QED
    BY <1>3, <1>5, <2>1
<1>7. \A x \in Slot : x = CurSlot(t) => Fulfilled(x, kind)'
  BY <1>3, FulfilledNext
<1>8. kind = READ \/ kind = WRITE
  BY DEF AccessType
<1>9. READ # WRITE
  BY DEF READ, WRITE
<1>10. ASSUME Covers(e.rd[1], e.rd[2], READ)', Covers(e.wr[1], e.wr[2], WRITE)',
              /\ Fulfilled(e.rd[1], READ)' /\ Fulfilled(e.rd[2], READ)'
              /\ Fulfilled(e.wr[1], WRITE)' /\ Fulfilled(e.wr[2], WRITE)'
       PROVE  Complete(e)'
  BY <1>10 DEF Complete
<1>11. CASE SeenBefore(t, kind)
  <2>1. e.rd[1] = r1 /\ e.rd[2] = r2 /\ e.wr[1] = w1 /\ e.wr[2] = w2
    BY <1>2, <1>11 DEF SeenBefore, shadowVars
  <2>2. PICK j \in 1 .. 2 : SlotsOf(v[0], kind)[j] = CurSlot(t)
    BY <1>11 DEF SeenBefore, SameEpoch
  <2>3. j = 1 \/ j = 2
    OBVIOUS
  <2>4. /\ kind = READ => r1 = CurSlot(t) \/ r2 = CurSlot(t)
        /\ kind = WRITE => w1 = CurSlot(t) \/ w2 = CurSlot(t)
    BY <1>2, <1>9, <2>2, <2>3 DEF SlotsOf
  <2>5. Covers(r1, r2, READ)' /\ Covers(w1, w2, WRITE)'
    BY <1>3, <2>4, SameCovers
  <2>6. QED
    BY <1>6, <1>10, <2>1, <2>5
<1>12. CASE Records(t, kind) /\ kind = READ
  <2>1. <<e.rd[1], e.rd[2]>> = UpdateSlots(t, <<r1, r2>>) /\ e.wr[1] = w1 /\ e.wr[2] = w2
    <3>1. e.rd = UpdateSlots(t, <<r1, r2>>) /\ e.wr = <<w1, w2>>
      BY <1>2, <1>12 DEF Records
    <3>2. e.rd = <<e.rd[1], e.rd[2]>>
      BY DEF LockState
    <3>3. QED
      BY <3>1, <3>2
  <2>2. Covers(e.rd[1], e.rd[2], READ)'
    BY <1>1, <1>3, <1>4, <1>12, <2>1, UpdateCovers
  <2>3. Covers(w1, w2, WRITE)'
    BY <1>3, <1>9, <1>12, SameCovers
  <2>4. /\ e.rd[1] = CurSlot(t) \/ e.rd[1] = r1
        /\ e.rd[2] = CurSlot(t) \/ e.rd[2] = r2
    BY <2>1, UpdateSlotsIs
  <2>5. Fulfilled(e.rd[1], READ)' /\ Fulfilled(e.rd[2], READ)'
    BY <1>1, <1>6, <1>7, <1>12, <2>4
  <2>6. QED
    BY <1>6, <1>10, <2>1, <2>2, <2>3, <2>5
<1>13. CASE Records(t, kind) /\ kind = WRITE
  <2>1. <<e.wr[1], e.wr[2]>> = UpdateSlots(t, <<w1, w2>>) /\ e.rd[1] = r1 /\ e.rd[2] = r2
    <3>1. e.wr = UpdateSlots(t, <<w1, w2>>) /\ e.rd = <<r1, r2>>
      BY <1>2, <1>9, <1>13 DEF Records
    <3>2. e.wr = <<e.wr[1], e.wr[2]>>
      BY DEF LockState
    <3>3. QED
      BY <3>1, <3>2
  <2>2. Covers(e.wr[1], e.wr[2], WRITE)'
    BY <1>1, <1>3, <1>4, <1>13, <2>1, UpdateCovers
  <2>3. Covers(r1, r2, READ)'
    BY <1>3, <1>9, <1>13, SameCovers
  <2>4. /\ e.wr[1] = CurSlot(t) \/ e.wr[1] = w1
        /\ e.wr[2] = CurSlot(t) \/ e.wr[2] = w2
    BY <2>1, UpdateSlotsIs
  <2>5. Fulfilled(e.wr[1], WRITE)' /\ Fulfilled(e.wr[2], WRITE)'
    BY <1>1, <1>6, <1>7, <1>13, <2>4
  <2>6. QED
    BY <1>6, <1>10, <2>1, <2>2, <2>3, <2>5
<1>14. QED
  BY <1>8, <1>11, <1>12, <1>13

LEMMA CoverageAccess ==
  ASSUME StrictForkJoin, TasksTypeOK, TreeInv, ForkInv, TasksTypeOK', TreeInv',
         ShadowTypeOK, ShadowTypeOK', WordInv, CoverageInv,
         NEW t \in Task, NEW kind \in AccessType, Access(t, kind)
  PROVE  /\ CoverageInv' /\ (is_racy => is_racy')
         /\ ~ is_racy' => RacesWith(t, kind, held[t]) = {}
<1>1. RecordMem(t, kind) /\ cursize = 0 /\ status[t] = "running"
  BY DEF Access, WordInv, Running
<1>2. QuietStep
  BY StillIsQuiet DEF Access, HBAccess
<1>3. PICK b : Makes(t, kind, b)
  BY AccessMakes
<1>4. PathsInUse' /\ Points'
  BY <1>1, <1>2, <1>3, PathsStay, PointsNext DEF CoverageInv
<1>5. \/ is_racy /\ UNCHANGED shadowVars
      \/ ~ is_racy /\ RecordsFirst(t, kind)
      \/ /\ ~ is_racy /\ ~ EntryDead(v[0])
         /\ SeenBefore(t, kind) \/ Reports(t, kind) \/ Records(t, kind)
  BY <1>1, OneEntry
<1>6. CASE is_racy'
  BY <1>4, <1>6 DEF CoverageInv
<1>7. CASE ~ is_racy'
  <2>1. /\ ~ is_racy
        /\ \/ RecordsFirst(t, kind)
           \/ ~ EntryDead(v[0]) /\ (SeenBefore(t, kind) \/ Records(t, kind))
    BY <1>5, <1>7 DEF Reports, shadowVars
  <2>2. KnowsConflicts(t, kind)
    BY <1>1, <2>1, ConflictsKnown
  <2>3. \A e \in LockState : e = v'[0] => Complete(e)'
    BY <1>1, <1>2, <1>3, <2>1, <2>2, FirstComplete, LaterComplete
  <2>4. RacesWith(t, kind, held[t]) = {}
    BY <2>2 DEF RacesWith, Concurrent, KnowsConflicts, Knows, PointOf
  <2>5. QED
    BY <1>4, <2>1, <2>3, <2>4 DEF CoverageInv
<1>8. QED
  BY <1>6, <1>7

LEMMA CoverageStep ==
  ASSUME StrictForkJoin, DetectorInv, CoverageInv, NoMissedRace, [Next]_vars
  PROVE  CoverageInv' /\ NoMissedRace'
<1>1. DetectorInv'
  BY DetectorStep
<1>2. /\ TasksTypeOK /\ TreeInv /\ ForkInv /\ ShadowTypeOK /\ WordInv
      /\ TasksTypeOK' /\ TreeInv' /\ ShadowTypeOK'
  BY <1>1 DEF DetectorInv, TasksInv
<1>3. ForkJoinStep \/ QuietStep
  BY <1>2, NextIsForkJoin
<1>4. CASE UNCHANGED shadowVars /\ history' = history /\ raced' = raced
  <2>1. CoverageInv'
    BY <1>2, <1>3, <1>4, CoverageTaskStep
  <2>2. QED
    BY <1>4, <2>1 DEF NoMissedRace, shadowVars
<1>5. ASSUME NEW t \in Task, NEW kind \in AccessType, Access(t, kind)
      PROVE  CoverageInv' /\ NoMissedRace'
  <2>1. /\ CoverageInv' /\ (is_racy => is_racy')
        /\ ~ is_racy' => RacesWith(t, kind, held[t]) = {}
    BY <1>2, <1>5, CoverageAccess
  <2>2. raced' = (raced \/ RacesWith(t, kind, held[t]) # {})
    BY <1>5 DEF Access, HBAccess
  <2>3. QED
    BY <2>1, <2>2 DEF NoMissedRace
<1>6. QED
  BY <1>4, <1>5, NoAccessMade DEF Next, Terminated, vars, allTaskVars, hbVars

(***************************************************************************)
(* No missed race, for any number of tasks and accesses: two reads and two *)
(* writes cover all that was forgotten, because the replacement rule keeps *)
(* the accesses whose common ancestor is the highest.                      *)
(***************************************************************************)
THEOREM NoMissedRaces ==
  ASSUME StrictForkJoin
  PROVE  Spec => []NoMissedRace
<1>1. Init => DetectorInv /\ CoverageInv /\ NoMissedRace
  BY DetectorInit, CoverageInit DEF Init, TasksInit, HBInit, NoMissedRace
<1>2. DetectorInv /\ CoverageInv /\ NoMissedRace /\ [Next]_vars
        => DetectorInv' /\ CoverageInv' /\ NoMissedRace'
  BY DetectorStep, CoverageStep
<1>3. QED
  BY <1>1, <1>2, PTL DEF Spec

-----------------------------------------------------------------------------
(***************************************************************************)
(* Step by step FastRacer is the oracle: a spawn is its Fork, a return     *)
(* from a wait its Join, an access its Access, and the rest changes        *)
(* nothing that the oracle sees.                                           *)
(***************************************************************************)
OracleInv ==
  DetectorInv /\ CoverageInv /\ NoFalseReport /\ NoMissedRace /\ raced \in BOOLEAN

LEMMA OracleStep ==
  ASSUME StrictForkJoin, OracleInv, [Next]_vars
  PROVE  OracleInv' /\ is_racy' = raced' /\ is_racy = raced
<1>1. /\ DetectorInv /\ CoverageInv /\ NoFalseReport /\ NoMissedRace
      /\ DetectorInv' /\ CoverageInv' /\ NoFalseReport' /\ NoMissedRace'
  BY DetectorStep, CoverageStep DEF OracleInv, NoFalseReport
<1>2. is_racy \in BOOLEAN /\ is_racy' \in BOOLEAN /\ raced \in BOOLEAN
  BY <1>1 DEF OracleInv, DetectorInv, ShadowTypeOK
<1>3. raced' \in BOOLEAN
  <2>1. \/ raced' = raced
        \/ \E t \in Task, kind \in AccessType :
             raced' = (raced \/ RacesWith(t, kind, held[t]) # {})
    BY NoAccessMade DEF Next, Terminated, vars, allTaskVars, hbVars, Access, HBAccess
  <2>2. QED
    BY <1>2, <2>1
<1>4. (is_racy <=> raced) /\ (is_racy' <=> raced')
  BY <1>1 DEF NoFalseReport, NoMissedRace
<1>5. QED
  BY <1>1, <1>2, <1>3, <1>4 DEF OracleInv

LEMMA SpawnIsFork ==
  ASSUME TasksTypeOK, TreeInv, ForkInv, NEW s \in Task, NEW c \in Task, NEW next,
         ForkStep(s, c, next), UNCHANGED <<history, is_racy>>
  PROVE  Oracle!Next
<1>1. seg[s] > 0 /\ ~ (seg[c] > 0)
  <2>1. s <= task_id_ctr /\ c > task_id_ctr
    BY ForkFacts
  <2>2. QED
    BY <2>1 DEF ForkInv, Pasts
<1>2. HBFork(s, c)
  BY DEF ForkStep, CaptureSpawn
<1>3. Oracle!Fork(s, c)
  BY <1>1, <1>2 DEF Oracle!Fork, Oracle!Started, Oracle!HBFork, HBFork,
                    Oracle!PastOf, PastOf
<1>4. QED
  BY <1>3 DEF Oracle!Next, Oracle!Task, Task

LEMMA ReturnIsJoin ==
  ASSUME TasksTypeOK, TreeInv, ForkInv, NEW t \in Task, NEW S \in SUBSET Task,
         ReturnStep(t, S), UNCHANGED <<history, is_racy>>
  PROVE  Oracle!Next
<1>1. /\ \A u \in Task : u <= task_id_ctr => seg[u] > 0
      /\ seg[t] \in Nat
  BY DEF ForkInv, Pasts, TasksTypeOK
<1>2. seg[t] > 0 /\ \A c \in S : seg[c] > 0
  BY <1>1 DEF ReturnStep, Live
<1>3. HBJoin(t, S)
  BY DEF ReturnStep
<1>4. seg'[t] # seg[t]
  <2>1. seg'[t] = seg[t] + 1
    BY <1>3 DEF HBJoin, TasksTypeOK
  <2>2. QED
    BY <1>1, <2>1
<1>5. Oracle!HBJoin(t, S)
  BY <1>3 DEF Oracle!HBJoin, HBJoin, Oracle!PastOf, PastOf
<1>6. S \in SUBSET {u \in Oracle!Task : Oracle!Started(u)}
  BY <1>2 DEF Oracle!Started, Oracle!Task, Task
<1>7. Oracle!Join(t)
  BY <1>2, <1>4, <1>5, <1>6 DEF Oracle!Join, Oracle!Started
<1>8. QED
  BY <1>7 DEF Oracle!Next, Oracle!Task, Task

LEMMA AccessIsAccess ==
  ASSUME TasksTypeOK, ForkInv, NEW t \in Task, NEW kind \in AccessType,
         Access(t, kind), t <= task_id_ctr, is_racy = raced, is_racy' = raced'
  PROVE  Oracle!Next
<1>1. seg[t] > 0
  BY DEF ForkInv, Pasts
<1>2. HBAccess(t, kind, held[t]) /\ held[t] \in SUBSET Locks
  BY DEF Access, TasksTypeOK
<1>3. Oracle!RacesWith(t, kind, held[t]) = RacesWith(t, kind, held[t])
  BY DEF Oracle!RacesWith, RacesWith, Oracle!Concurrent, Concurrent,
         Oracle!WRITE, WRITE
<1>4. Oracle!HBAccess(t, kind, held[t])
  BY <1>2, <1>3 DEF Oracle!HBAccess, HBAccess, Oracle!AccessOf, AccessOf,
                    Oracle!orderVars, orderVars
<1>5. Oracle!Access(t, kind, held[t])
  BY <1>1, <1>4 DEF Oracle!Access, Oracle!Started
<1>6. QED
  BY <1>2, <1>5 DEF Oracle!Next, Oracle!Task, Task, Oracle!AccessType, AccessType,
                    Oracle!READ, READ, Oracle!WRITE, WRITE

LEMMA OracleNext ==
  ASSUME StrictForkJoin, OracleInv, [Next]_vars
  PROVE  [Oracle!Next]_(Oracle!hbVars)
<1>1. is_racy' = raced' /\ is_racy = raced
  BY OracleStep
<1>2. TasksTypeOK /\ TreeInv /\ ForkInv
  BY DEF OracleInv, DetectorInv, TasksInv
<1>3. ForkJoinStep \/ QuietStep
  BY <1>2, NextIsForkJoin
<1>4. CASE UNCHANGED shadowVars /\ history' = history /\ raced' = raced
  <2>1. UNCHANGED <<history, is_racy>>
    BY <1>4 DEF shadowVars
  <2>2. CASE QuietStep
    BY <2>1, <2>2 DEF QuietStep, orderVars, Oracle!hbVars, Oracle!orderVars
  <2>3. CASE \E s, c \in Task : \E next : ForkStep(s, c, next)
    BY <1>2, <2>1, <2>3, SpawnIsFork
  <2>4. CASE \E t \in Task : JoinStep(t, child_list[t])
    <3>1. PICK t \in Task : JoinStep(t, child_list[t])
      BY <2>4
    <3>2. child_list[t] \in SUBSET Task
      BY <1>2 DEF TasksTypeOK
    <3>3. QED
      BY <1>2, <2>1, <3>1, <3>2, ReturnIsJoin DEF JoinStep
  <2>5. CASE DeadStep(child_list[0])
    <3>1. 0 \in Task /\ child_list[0] \in SUBSET Task
      BY <1>2, TaskFacts DEF TasksTypeOK
    <3>2. QED
      BY <1>2, <2>1, <2>5, <3>1, ReturnIsJoin DEF DeadStep
  <2>6. QED
    BY <1>2, <1>3, <2>2, <2>3, <2>4, <2>5, FourSteps
<1>5. ASSUME NEW t \in Task, NEW kind \in AccessType, Access(t, kind)
      PROVE  [Oracle!Next]_(Oracle!hbVars)
  <2>1. t <= task_id_ctr
    BY <1>2, <1>5, ActiveIsLive DEF Access, Running, Live
  <2>2. QED
    BY <1>1, <1>2, <1>5, <2>1, AccessIsAccess
<1>6. QED
  BY <1>4, <1>5, NoAccessMade DEF Next, Terminated, vars, allTaskVars, hbVars

(***************************************************************************)
(* For strict fork-join programs without locks, of any number of tasks and *)
(* accesses, FastRacer implements the oracle: it reports at the access     *)
(* that completes the first race, and only then.                           *)
(***************************************************************************)
THEOREM FastRacerIsTheOracle ==
  ASSUME StrictForkJoin
  PROVE  Spec => ImplementsOracle
<1>1. Init => OracleInv /\ Oracle!Init
  BY DetectorInit, CoverageInit
     DEF Init, TasksInit, HBInit, ShadowInit, OracleInv, NoFalseReport, NoMissedRace,
         Oracle!Init, Oracle!HBInit, Oracle!Task, Task
<1>2. OracleInv /\ [Next]_vars => OracleInv' /\ [Oracle!Next]_(Oracle!hbVars)
  BY OracleStep, OracleNext
<1>3. QED
  BY <1>1, <1>2, PTL DEF Spec, ImplementsOracle, Oracle!Spec

-----------------------------------------------------------------------------
(***************************************************************************)
(* Reports of programs with locks, nested roots and children left behind.  *)
(* Only one direction of the ordering test survives there: what happened   *)
(* before is taken to be ordered, so what is reported was concurrent.      *)
(*                                                                         *)
(* The joined tasks no longer have finished and the tree of live tasks is  *)
(* gone; what remains is that the recorded clocks lead up the ancestors,   *)
(* and that find_root leads from a task to one of its ancestors.           *)
(***************************************************************************)
AtOrAbove(a, t) == a = t \/ ancClock[t][a] # 0

Lineage ==
  /\ \A t \in Task : t <= task_id_ctr => clock[t] > 0
  /\ \A t, u \in Task : ancClock[t][u] # 0 =>
       /\ t # 0 /\ t <= task_id_ctr /\ u <= task_id_ctr
       /\ u < t /\ depth(u) < depth(t)
  /\ \A t, u, w \in Task : ancClock[t][u] # 0 /\ ancClock[u][w] # 0 =>
       ancClock[t][w] = ancClock[u][w]

Awaited(t) == tbb_children[t] \cup tbb_roots[t]

(* A task that is awaited is on the child list of its parent, unless a     *)
(* wait that was not for it has joined it already.                         *)
Bookings ==
  /\ \A c \in Task : joinset[c] # 0 =>
       /\ c # 0 /\ c <= task_id_ctr
       /\ parent_taskId[c] # 0 /\ joinset[c] = parent_taskId[c] + 1
  /\ \A p, c \in Task : c \in child_list[p] =>
       c # 0 /\ c <= task_id_ctr /\ parent_taskId[c] = p /\ joinset[c] = 0
  /\ \A t, c \in Task : c \in Awaited(t) =>
       /\ c # 0 /\ c <= task_id_ctr /\ parent_taskId[c] = t
       /\ c \in child_list[t] \/ joinset[c] # 0
  /\ \A t \in Task : status[t] \in {"unborn", "ready"} =>
       Awaited(t) = {} /\ child_list[t] = {}
  /\ tbb_children[0] = {} /\ status[0] # "waiting"

RootsAbove == \A u \in Task : find_root[u] \in Task /\ AtOrAbove(find_root[u], u)

(* Nobody but a task itself knows its present segment while it goes on.    *)
Unseen ==
  \A t, u \in Task, n \in Nat : <<u, n>> \in before[t] =>
    u <= task_id_ctr /\ n <= seg[u] /\ (n = seg[u] => status[u] = "finished")

KinInv == Lineage /\ Inherited /\ Bookings /\ RootsAbove /\ Unseen

LEMMA FindRootStays ==
  ASSUME joinset' = joinset PROVE find_root' = find_root
<1>1. find_root = RootMap(joinset) /\ find_root' = RootMap(joinset')
  BY DEF find_root, RootMap
<1>2. QED
  BY <1>1

LEMMA KinInit == TasksInit => KinInv
<1> SUFFICES ASSUME TasksInit PROVE KinInv
  OBVIOUS
<1>1. /\ task_id_ctr = 0
      /\ \A t \in Task : /\ joinset[t] = 0 /\ child_list[t] = {}
                         /\ tbb_children[t] = {} /\ tbb_roots[t] = {}
                         /\ before[t] = {}
      /\ \A t, u \in Task : ancClock[t][u] = 0
      /\ clock[0] = 1 /\ status[0] = "running"
      /\ \A t \in Task : t <= 0 => t = 0
  BY TaskFacts DEF TasksInit, HBInit
<1>2. Lineage /\ Inherited
  BY <1>1 DEF Lineage, Inherited
<1>3. Bookings
  <2>1. \A t \in Task : Awaited(t) = {}
    BY <1>1 DEF Awaited
  <2>2. tbb_children[0] = {} /\ status[0] # "waiting"
    BY <1>1, TaskFacts
  <2>3. QED
    BY <1>1, <2>1, <2>2 DEF Bookings
<1>4. RootsAbove
  <2>1. TasksTypeOK /\ TreeInv
    BY TasksInitType, TreeInit
  <2>2. \A u \in Task : find_root[u] = u
    BY <1>1, <2>1, FindRootFacts DEF TreeInv
  <2>3. QED
    BY <2>2 DEF RootsAbove, AtOrAbove
<1>5. Unseen
  BY <1>1 DEF Unseen
<1>6. QED
  BY <1>2, <1>3, <1>4, <1>5 DEF KinInv

(***************************************************************************)
(* The ordering test in terms of what t has recorded of its ancestors.     *)
(***************************************************************************)
LEMMA OrderedIsVerdict ==
  ASSUME TasksTypeOK, Lineage, RootsAbove,
         NEW t \in Task, NEW u \in Task, t # u, NEW k \in Nat, k # 0
  PROVE  OrderedBefore(t, u, k) <=> Verdict(t, u, k, ancClock, find_root)
<1>1. find_root[u] \in Task
  BY DEF RootsAbove
<1>2. \A w \in Task : parent_clock(t, w) = ancClock[t][w]
  <2>1. \A x \in Task : depth(x) \in Nat
    BY DepthNat
  <2>2. \A w \in Task : ancClock[t][w] # 0 => depth(w) < depth(t)
    BY DEF Lineage
  <2>3. QED
    BY <2>1, <2>2 DEF parent_clock
<1>3. QED
  BY <1>1, <1>2 DEF OrderedBefore, Verdict

LEMMA OrderedIsVerdictNext ==
  ASSUME TasksTypeOK', Lineage', RootsAbove',
         NEW t \in Task, NEW u \in Task, t # u, NEW k \in Nat, k # 0
  PROVE  OrderedBefore(t, u, k)' <=> Verdict(t, u, k, ancClock', find_root')
<1>1. find_root'[u] \in Task
  BY DEF RootsAbove
<1>2. \A w \in Task : parent_clock(t, w)' = ancClock'[t][w]
  <2>1. \A x \in Task : depth(x)' \in Nat
    BY LenProperties DEF depth, TasksTypeOK
  <2>2. \A w \in Task : ancClock'[t][w] # 0 => depth(w)' < depth(t)'
    BY DEF Lineage
  <2>3. QED
    BY <2>1, <2>2 DEF parent_clock
<1>3. parent_clock(t, u)' = ancClock'[t][u]
      /\ parent_clock(t, find_root[u])' = ancClock'[t][find_root'[u]]
  <2>1. parent_clock(t, find_root[u])'
          = IF Len(m_vc'[find_root'[u]]) >= depth(t)' THEN 0 ELSE ancClock'[t][find_root'[u]]
    BY DEF parent_clock, depth
  <2>2. \A w \in Task : (IF Len(m_vc'[w]) >= depth(t)' THEN 0 ELSE ancClock'[t][w])
          = ancClock'[t][w]
    BY <1>2 DEF parent_clock, depth
  <2>3. QED
    BY <1>1, <1>2, <2>1, <2>2
<1>4. QED
  BY <1>3 DEF OrderedBefore, Verdict

(***************************************************************************)
(* The steps of such a program: a spawn that books the child under the     *)
(* caller, a wait of a task, a wait of main, and the rest.                 *)
(***************************************************************************)
BranchStep(s, c, next) ==
  /\ Running(s)
  /\ NewTaskId(c)
  /\ CaptureSpawn(s, s, c)
  /\ status' = [status EXCEPT ![c] = "ready", ![s] = next]
  /\ \/ /\ s # 0 /\ next \in {"running", "waiting"}
        /\ tbb_children' = [tbb_children EXCEPT ![s] = @ \cup {c}]
        /\ tbb_roots' = tbb_roots
     \/ /\ next = "rootwait"
        /\ tbb_roots' = [tbb_roots EXCEPT ![s] = {c}]
        /\ tbb_children' = tbb_children

MeetStep(t, S) ==
  /\ S \subseteq Awaited(t) /\ \A c \in S : status[c] = "finished"
  /\ status[t] \in {"waiting", "rootwait"}
  /\ status' = [status EXCEPT ![t] = "running"]
  /\ HBJoin(t, S)
  /\ \A w \in Task : /\ tbb_children'[w] \subseteq tbb_children[w]
                     /\ tbb_roots'[w] \subseteq tbb_roots[w]
  /\ UNCHANGED <<m_vc, ancClock, parent_taskId, task_id_ctr>>

CollectStep(t, S) ==
  /\ MeetStep(t, S)
  /\ t # 0
  /\ \A c \in Task : joinset'[c] = IF c \in LeftBehind(t) THEN parent_taskId[c] + 1
                                   ELSE joinset[c]
  /\ \A c \in Task : child_list'[c] = IF c \in LeftBehind(t) \cup {t} THEN {}
                                      ELSE child_list[c]
  /\ UNCHANGED <<clock, deadVars>>

PhaseStep(S) ==
  /\ MeetStep(0, S)
  /\ tbb_roots'[0] = {}
  /\ joinset' = joinset
  /\ \/ /\ S = {}
        /\ UNCHANGED <<clock, child_list, deadVars>>
     \/ /\ child_list' = [child_list EXCEPT ![0] = {}]
        /\ clock' = [clock EXCEPT ![0] = @ + 1]
        /\ num_dead_tasks' = task_id_ctr
        /\ dead_clock_value' = clock[0]

RestStep ==
  /\ UNCHANGED <<taskVars, deadVars, orderVars, tbb_children, tbb_roots>>
  /\ \A t \in Task : status[t] = "finished" => status'[t] = "finished"
  /\ \A t \in Task : status'[t] \in {"unborn", "ready"} => status'[t] = status[t]
  /\ status'[0] # "waiting"

LEMMA NothingLeftBehind ==
  ASSUME NEW t \in Task, child_list[t] = {}
  PROVE  LeftBehind(t) = {}
<1>1. {} \in SUBSET Task /\ Adopts({}, t)
  BY DEF Adopts
<1>2. QED
  BY <1>1 DEF LeftBehind

LEMMA WaitReturnMeets ==
  ASSUME TasksTypeOK, TreeInv, KinInv, NEW t \in Task,
         WaitForAllReturn(t) \/ RootWaitReturn(t)
  PROVE  \E S \in SUBSET Task : CollectStep(t, S) \/ (t = 0 /\ PhaseStep(S))
<1>0. /\ tbb_children \in [Task -> SUBSET Task] /\ tbb_roots \in [Task -> SUBSET Task]
      /\ child_list \in [Task -> SUBSET Task]
  BY DEF TasksTypeOK
<1>1. ASSUME NEW state \in {"waiting", "rootwait"}, NEW awaited \in [Task -> SUBSET Task],
             awaited[t] \subseteq Awaited(t), WaitReturn(t, state, awaited),
             \A w \in Task : /\ tbb_children'[w] \subseteq tbb_children[w]
                             /\ tbb_roots'[w] \subseteq tbb_roots[w]
      PROVE  MeetStep(t, awaited[t]) /\ (t # 0 => CollectStep(t, awaited[t]))
  <2>1. MeetStep(t, awaited[t])
    BY <1>1 DEF WaitReturn, MeetStep
  <2>2. ASSUME t # 0 PROVE CollectStep(t, awaited[t])
    <3>1. CASE child_list[t] = {} /\ UNCHANGED <<clock, child_list, joinset, deadVars>>
      <4>1. LeftBehind(t) = {}
        BY <3>1, NothingLeftBehind
      <4>2. QED
        BY <2>1, <2>2, <3>1, <4>1 DEF CollectStep
    <3>2. CASE JoinChildren(t)
      BY <2>1, <2>2, <3>2 DEF CollectStep, JoinChildren
    <3>3. QED
      BY <1>1, <2>2, <3>1, <3>2 DEF WaitReturn, Capturewait_for_all
  <2>3. QED
    BY <2>1, <2>2
<1>2. CASE WaitForAllReturn(t)
  <2>1. t # 0
    BY <1>2 DEF WaitForAllReturn, WaitReturn, KinInv, Bookings
  <2>2. \A w \in Task : /\ tbb_children'[w] \subseteq tbb_children[w]
                        /\ tbb_roots'[w] \subseteq tbb_roots[w]
    BY <1>0, <1>2 DEF WaitForAllReturn
  <2>3. CollectStep(t, tbb_children[t])
    BY <1>0, <1>1, <1>2, <2>1, <2>2 DEF WaitForAllReturn, Awaited
  <2>4. QED
    BY <1>0, <2>3
<1>3. CASE RootWaitReturn(t)
  <2>1. \A w \in Task : /\ tbb_children'[w] \subseteq tbb_children[w]
                        /\ tbb_roots'[w] \subseteq tbb_roots[w]
    BY <1>0, <1>3 DEF RootWaitReturn
  <2>2. MeetStep(t, tbb_roots[t]) /\ (t # 0 => CollectStep(t, tbb_roots[t]))
    BY <1>0, <1>1, <1>3, <2>1 DEF RootWaitReturn, Awaited
  <2>3. ASSUME t = 0 PROVE PhaseStep(tbb_roots[0])
    <3>1. tbb_roots'[0] = {}
      BY <1>0, <1>3, <2>3 DEF RootWaitReturn
    <3>2. CASE child_list[0] = {} /\ UNCHANGED <<clock, child_list, joinset, deadVars>>
      <4>1. ASSUME NEW c \in tbb_roots[0] PROVE FALSE
        <5>1. c \in Task /\ c \in Awaited(0)
          BY <1>0, <2>3 DEF Awaited
        <5>2. parent_taskId[c] = 0 /\ joinset[c] # 0
          BY <2>3, <3>2, <5>1 DEF KinInv, Bookings
        <5>3. QED
          BY <5>1, <5>2 DEF KinInv, Bookings
      <4>2. QED
        BY <2>2, <2>3, <3>1, <3>2, <4>1 DEF PhaseStep
    <3>3. CASE DeclareDead
      BY <2>2, <2>3, <3>1, <3>3 DEF PhaseStep, DeclareDead
    <3>4. QED
      BY <1>3, <2>3, <3>2, <3>3 DEF RootWaitReturn, WaitReturn, Capturewait_for_all
  <2>4. QED
    BY <1>0, <2>2, <2>3
<1>4. QED
  BY <1>2, <1>3

LEMMA MoveRests ==
  ASSUME TasksTypeOK, KinInv, NEW t \in Task, NEW next,
         status[t] = "ready" \/ status[t] = "running",
         status' = [status EXCEPT ![t] = next],
         next \in {"running", "waiting", "finished"}, next = "waiting" => t # 0,
         UNCHANGED <<taskVars, deadVars, orderVars, tbb_children, tbb_roots>>
  PROVE  RestStep
<1>1. /\ status'[t] = next /\ \A u \in Task : u # t => status'[u] = status[u]
      /\ 0 \in Task
  BY TaskFacts DEF TasksTypeOK
<1>2. status[0] # "waiting"
  BY DEF KinInv, Bookings
<1>3. QED
  BY <1>1, <1>2 DEF RestStep

LEMMA StillRests ==
  ASSUME KinInv, UNCHANGED <<tbbVars, taskVars, deadVars, orderVars>>
  PROVE  RestStep
<1>1. UNCHANGED <<status, tbb_children, tbb_roots>>
  BY DEF tbbVars
<1>2. QED
  BY <1>1 DEF KinInv, Bookings, RestStep

(* No spawn of a sibling: the segment of the booked parent would go on.    *)
LEMMA NoSiblings ==
  ASSUME TasksTypeOK, TreeInv, SpawnsOwn, NEW s \in Task, NEW c \in Task,
         SpawnSibling(s, c)
  PROVE  FALSE
BY SiblingSegment DEF SpawnsOwn

LEMMA FourKinds ==
  ASSUME TasksTypeOK, TreeInv, KinInv, SpawnsOwn, TaskStep
  PROVE  \/ \E s, c \in Task : \E next : BranchStep(s, c, next)
         \/ \E t \in Task : \E S \in SUBSET Task : CollectStep(t, S)
         \/ \E S \in SUBSET Task : PhaseStep(S)
         \/ RestStep
<1>1. ASSUME NEW s \in Task, NEW c \in Task,
             \/ Spawn(s, c) \/ SpawnAndWaitForAll(s, c)
             \/ SpawnSibling(s, c) \/ SpawnRootAndWait(s, c)
      PROVE  \E next : BranchStep(s, c, next)
  <2>1. CASE Spawn(s, c)
    BY <2>1 DEF Spawn, SpawnThen, BranchStep
  <2>2. CASE SpawnAndWaitForAll(s, c)
    BY <2>2 DEF SpawnAndWaitForAll, SpawnThen, BranchStep
  <2>3. CASE SpawnRootAndWait(s, c)
    BY <2>3 DEF SpawnRootAndWait, BranchStep
  <2>4. QED
    BY <1>1, <2>1, <2>2, <2>3, NoSiblings
<1>2. ASSUME NEW t \in Task, ExecBegin(t) PROVE RestStep
  <2>1. child_list[t] = {}
    BY <1>2 DEF ExecBegin, KinInv, Bookings
  <2>2. child_list' = child_list
    BY <1>2, <2>1 DEF ExecBegin, TasksTypeOK
  <2>3. UNCHANGED <<taskVars, deadVars, orderVars, tbb_children, tbb_roots>>
    BY <1>2, <2>2 DEF ExecBegin, taskVars, hbVars
  <2>4. QED
    BY <1>2, <2>3, MoveRests DEF ExecBegin
<1>3. ASSUME NEW t \in Task, ExecEnd(t) PROVE RestStep
  <2>1. /\ status[t] = "running"
        /\ status' = [status EXCEPT ![t] = "finished"]
        /\ UNCHANGED <<taskVars, deadVars, orderVars, tbb_children, tbb_roots>>
    BY <1>3 DEF ExecEnd, Running, hbVars
  <2>2. QED
    BY <2>1, MoveRests
<1>4. ASSUME NEW t \in Task, WaitForAll(t) PROVE RestStep
  <2>1. t # 0
    BY <1>4 DEF WaitForAll, KinInv, Bookings
  <2>2. /\ status[t] = "running"
        /\ status' = [status EXCEPT ![t] = "waiting"]
        /\ UNCHANGED <<taskVars, deadVars, orderVars, tbb_children, tbb_roots>>
    BY <1>4 DEF WaitForAll, Running, hbVars
  <2>3. QED
    BY <2>1, <2>2, MoveRests
<1>5. ASSUME MainReturns PROVE RestStep
  <2>1. /\ status[0] = "running" /\ 0 \in Task
        /\ status' = [status EXCEPT ![0] = "finished"]
        /\ UNCHANGED <<taskVars, deadVars, orderVars, tbb_children, tbb_roots>>
    BY <1>5, TaskFacts DEF MainReturns, Running, hbVars
  <2>2. QED
    BY <2>1, MoveRests
<1>6. ASSUME NEW t \in Task, NEW l \in Locks, LockAcquire(t, l) \/ LockRelease(t, l)
      PROVE  RestStep
  BY <1>6, StillRests DEF LockAcquire, LockRelease, hbVars
<1>7. ASSUME NEW t \in Task, WaitForAllReturn(t) \/ RootWaitReturn(t)
      PROVE  \/ \E S \in SUBSET Task : CollectStep(t, S)
             \/ \E S \in SUBSET Task : PhaseStep(S)
  BY <1>7, WaitReturnMeets
<1>8. CASE \E s, c \in Task : \/ Spawn(s, c) \/ SpawnAndWaitForAll(s, c)
                              \/ SpawnSibling(s, c) \/ SpawnRootAndWait(s, c)
  BY <1>1, <1>8
<1>9. CASE \E t \in Task : WaitForAllReturn(t) \/ RootWaitReturn(t)
  BY <1>7, <1>9
<1>10. CASE \/ MainReturns
            \/ \E t \in Task : ExecBegin(t) \/ ExecEnd(t) \/ WaitForAll(t)
            \/ \E t \in Task, l \in Locks : LockAcquire(t, l) \/ LockRelease(t, l)
  BY <1>2, <1>3, <1>4, <1>5, <1>6, <1>10
<1>11. QED
  BY <1>8, <1>9, <1>10 DEF TaskStep

LEMMA BranchFacts ==
  ASSUME TasksTypeOK, TreeInv, KinInv, NEW s \in Task, NEW c \in Task, NEW next,
         BranchStep(s, c, next)
  PROVE  /\ s \in Nat /\ c \in Nat /\ task_id_ctr \in Nat
         /\ c = task_id_ctr + 1 /\ task_id_ctr' = c
         /\ s <= task_id_ctr /\ s # c /\ c # 0 /\ ~ (c <= task_id_ctr)
         /\ joinset' = joinset /\ find_root' = find_root
         /\ UNCHANGED <<deadVars, history>>
         /\ \A t \in Task : t <= task_id_ctr' <=> t <= task_id_ctr \/ t = c
         /\ \A u \in Task : ancClock[c][u] = 0 /\ ancClock[u][c] = 0
         /\ joinset[c] = 0 /\ find_root[c] = c
<1>1. /\ s \in Nat /\ c \in Nat /\ task_id_ctr \in Nat
      /\ c = task_id_ctr + 1 /\ task_id_ctr' = c
      /\ \A t \in Task : t \in Nat
  BY TaskFacts DEF BranchStep, NewTaskId, TasksTypeOK
<1>2. s <= task_id_ctr
  BY ActiveIsInUse DEF BranchStep, Running
<1>3. s # c /\ c # 0 /\ ~ (c <= task_id_ctr)
  BY <1>1, <1>2
<1>4. joinset' = joinset /\ UNCHANGED <<deadVars, history>>
  BY DEF BranchStep, CaptureSpawn
<1>5. find_root' = find_root
  BY <1>4, FindRootStays
<1>6. \A t \in Task : t <= task_id_ctr' <=> t <= task_id_ctr \/ t = c
  BY <1>1
<1>7. \A u \in Task : ancClock[c][u] = 0 /\ ancClock[u][c] = 0
  BY <1>3 DEF KinInv, Lineage
<1>8. joinset[c] = 0
  BY <1>3 DEF KinInv, Bookings
<1>9. find_root[c] = c
  BY <1>8, FindRootFacts DEF TreeInv
<1>10. QED
  BY <1>1, <1>2, <1>3, <1>4, <1>5, <1>6, <1>7, <1>8, <1>9

LEMMA BranchValues ==
  ASSUME TasksTypeOK, TreeInv, KinInv, NEW s \in Task, NEW c \in Task, NEW next,
         BranchStep(s, c, next)
  PROVE  /\ status'[s] = next /\ status'[c] = "ready"
         /\ \A t \in Task : t # s /\ t # c => status'[t] = status[t]
         /\ seg'[s] = seg[s] + 1 /\ seg'[c] = 1
         /\ \A t \in Task : t # s /\ t # c => seg'[t] = seg[t]
         /\ before'[s] = before[s] \cup {<<s, seg[s]>>}
         /\ before'[c] = before[s] \cup {<<s, seg[s]>>}
         /\ \A t \in Task : t # s /\ t # c => before'[t] = before[t]
         /\ clock'[s] = clock[s] + 1 /\ clock'[c] = 1
         /\ \A t \in Task : t # s /\ t # c => clock'[t] = clock[t]
         /\ ancClock'[c][s] = clock[s]
         /\ \A u \in Task : u # s => ancClock'[c][u] = ancClock[s][u]
         /\ \A t \in Task : t # c => ancClock'[t] = ancClock[t]
         /\ m_vc'[c] = Append(m_vc[s], clock[s] + 1)
         /\ \A t \in Task : t # c => m_vc'[t] = m_vc[t]
         /\ depth(c)' = depth(s) + 1 /\ \A t \in Task : t # c => depth(t)' = depth(t)
         /\ parent_taskId'[c] = s
         /\ \A t \in Task : t # c => parent_taskId'[t] = parent_taskId[t]
         /\ child_list'[s] = child_list[s] \cup {c}
         /\ \A t \in Task : t # s => child_list'[t] = child_list[t]
<1>1. s # c /\ CaptureSpawn(s, s, c)
      /\ status' = [status EXCEPT ![c] = "ready", ![s] = next]
  BY BranchFacts DEF BranchStep
<1>2. QED
  BY <1>1, CaptureValues

LEMMA BranchKeepsLineage ==
  ASSUME TasksTypeOK, TreeInv, KinInv, NEW s \in Task, NEW c \in Task, NEW next,
         BranchStep(s, c, next)
  PROVE  Lineage' /\ Inherited'
<1>1. /\ s \in Nat /\ c \in Nat /\ task_id_ctr \in Nat
      /\ c = task_id_ctr + 1 /\ task_id_ctr' = c
      /\ s <= task_id_ctr /\ s # c /\ c # 0 /\ ~ (c <= task_id_ctr)
      /\ \A t \in Task : t <= task_id_ctr' <=> t <= task_id_ctr \/ t = c
      /\ \A u \in Task : ancClock[c][u] = 0 /\ ancClock[u][c] = 0
  BY BranchFacts
<1>2. /\ clock'[s] = clock[s] + 1 /\ clock'[c] = 1
      /\ \A t \in Task : t # s /\ t # c => clock'[t] = clock[t]
      /\ ancClock'[c][s] = clock[s]
      /\ \A u \in Task : u # s => ancClock'[c][u] = ancClock[s][u]
      /\ \A t \in Task : t # c => ancClock'[t] = ancClock[t]
      /\ depth(c)' = depth(s) + 1 /\ \A t \in Task : t # c => depth(t)' = depth(t)
      /\ parent_taskId'[c] = s
      /\ \A t \in Task : t # c => parent_taskId'[t] = parent_taskId[t]
  BY BranchValues
<1>3. /\ \A t \in Task : t \in Nat /\ depth(t) \in Nat /\ clock[t] \in Nat
      /\ \A t \in Task : t <= task_id_ctr => clock[t] > 0
      /\ \A t, u \in Task : ancClock[t][u] # 0 =>
           /\ t # 0 /\ t <= task_id_ctr /\ u <= task_id_ctr
           /\ u < t /\ depth(u) < depth(t)
      /\ \A t, u, w \in Task : ancClock[t][u] # 0 /\ ancClock[u][w] # 0 =>
           ancClock[t][w] = ancClock[u][w]
  BY TaskFacts, DepthNat DEF KinInv, Lineage, TasksTypeOK
<1>4. \A t \in Task : t <= task_id_ctr' => clock'[t] > 0
  BY <1>1, <1>2, <1>3
<1>5. ASSUME NEW t \in Task, NEW u \in Task, ancClock'[t][u] # 0
      PROVE  /\ t # 0 /\ t <= task_id_ctr' /\ u <= task_id_ctr'
             /\ u < t /\ depth(u)' < depth(t)' /\ u # c
  <2>1. CASE t # c
    <3>1. ancClock[t][u] # 0 /\ u # c
      BY <1>1, <1>2, <1>5, <2>1
    <3>2. depth(u)' = depth(u) /\ depth(t)' = depth(t)
      BY <1>2, <2>1, <3>1
    <3>3. QED
      BY <1>1, <1>3, <3>1, <3>2
  <2>2. CASE t = c /\ u = s
    BY <1>1, <1>2, <1>3, <2>2
  <2>3. CASE t = c /\ u # s
    <3>1. ancClock[s][u] # 0
      BY <1>2, <1>5, <2>3
    <3>2. u # c /\ u < s /\ depth(u) < depth(s) /\ u <= task_id_ctr
      BY <1>1, <1>3, <3>1
    <3>3. depth(u)' = depth(u) /\ depth(t)' = depth(s) + 1
      BY <1>2, <2>3, <3>2
    <3>4. QED
      BY <1>1, <1>3, <2>3, <3>2, <3>3
  <2>4. QED
    BY <2>1, <2>2, <2>3
<1>6. ASSUME NEW t \in Task, NEW u \in Task, NEW w \in Task,
             ancClock'[t][u] # 0, ancClock'[u][w] # 0
      PROVE  ancClock'[t][w] = ancClock'[u][w]
  <2>1. u # c /\ ancClock'[u][w] = ancClock[u][w] /\ w < u
    BY <1>2, <1>5, <1>6
  <2>2. CASE t # c
    BY <1>2, <1>3, <1>6, <2>1, <2>2
  <2>3. CASE t = c /\ u = s
    <3>1. w # s
      BY <1>3, <2>1, <2>3
    <3>2. QED
      BY <1>2, <2>1, <2>3, <3>1
  <2>4. CASE t = c /\ u # s
    <3>1. ancClock[s][u] # 0
      BY <1>2, <1>6, <2>4
    <3>2. u < s /\ ancClock[s][w] = ancClock[u][w]
      BY <1>3, <1>6, <2>1, <3>1
    <3>3. w # s
      BY <1>1, <1>3, <2>1, <3>2
    <3>4. QED
      BY <1>2, <2>1, <2>4, <3>2, <3>3
  <2>5. QED
    BY <2>2, <2>3, <2>4
<1>7. Inherited'
  <2>1. ASSUME NEW x \in Task, x # 0, x <= task_id_ctr'
        PROVE  /\ ancClock'[x][parent_taskId'[x]] # 0
               /\ \A u \in Task : u # parent_taskId'[x] =>
                    ancClock'[x][u] = ancClock'[parent_taskId'[x]][u]
    <3>1. CASE x = c
      BY <1>1, <1>2, <1>3, <3>1
    <3>2. CASE x # c
      <4>1. x <= task_id_ctr /\ parent_taskId[x] \in Task
        BY <1>1, <2>1, <3>2 DEF TasksTypeOK
      <4>2. /\ ancClock[x][parent_taskId[x]] # 0
            /\ \A u \in Task : u # parent_taskId[x] =>
                 ancClock[x][u] = ancClock[parent_taskId[x]][u]
        BY <2>1, <4>1 DEF KinInv, Inherited
      <4>3. parent_taskId[x] # c
        BY <1>1, <4>2
      <4>4. QED
        BY <1>2, <3>2, <4>1, <4>2, <4>3
    <3>3. QED
      BY <3>1, <3>2
  <2>2. QED
    BY <2>1 DEF Inherited
<1>8. Lineage'
  BY <1>4, <1>5, <1>6 DEF Lineage
<1>9. QED
  BY <1>7, <1>8

LEMMA BranchKeepsBookings ==
  ASSUME TasksTypeOK, TreeInv, KinInv, NEW s \in Task, NEW c \in Task, NEW next,
         BranchStep(s, c, next)
  PROVE  Bookings' /\ RootsAbove' /\ Unseen'
<1>1. /\ s \in Nat /\ c \in Nat /\ task_id_ctr \in Nat
      /\ c = task_id_ctr + 1 /\ task_id_ctr' = c
      /\ s <= task_id_ctr /\ s # c /\ c # 0 /\ ~ (c <= task_id_ctr)
      /\ joinset' = joinset /\ find_root' = find_root
      /\ \A t \in Task : t <= task_id_ctr' <=> t <= task_id_ctr \/ t = c
      /\ joinset[c] = 0 /\ find_root[c] = c
  BY BranchFacts
<1>2. /\ status'[s] = next /\ status'[c] = "ready"
      /\ \A t \in Task : t # s /\ t # c => status'[t] = status[t]
      /\ seg'[s] = seg[s] + 1 /\ seg'[c] = 1
      /\ \A t \in Task : t # s /\ t # c => seg'[t] = seg[t]
      /\ before'[s] = before[s] \cup {<<s, seg[s]>>}
      /\ before'[c] = before[s] \cup {<<s, seg[s]>>}
      /\ \A t \in Task : t # s /\ t # c => before'[t] = before[t]
      /\ \A t \in Task : t # c => ancClock'[t] = ancClock[t]
      /\ parent_taskId'[c] = s
      /\ \A t \in Task : t # c => parent_taskId'[t] = parent_taskId[t]
      /\ child_list'[s] = child_list[s] \cup {c}
      /\ \A t \in Task : t # s => child_list'[t] = child_list[t]
  BY BranchValues
<1>3. status[s] = "running" /\ status[c] = "unborn"
  BY <1>1 DEF BranchStep, Running, TreeInv, Unused
<1>4. /\ \A t \in Task : t # s => Awaited(t)' = Awaited(t)
      /\ Awaited(s)' \subseteq Awaited(s) \cup {c}
  <2>1. tbb_children \in [Task -> SUBSET Task] /\ tbb_roots \in [Task -> SUBSET Task]
    BY DEF TasksTypeOK
  <2>2. \A t \in Task : t # s =>
          tbb_children'[t] = tbb_children[t] /\ tbb_roots'[t] = tbb_roots[t]
    BY <2>1 DEF BranchStep
  <2>3. /\ tbb_children'[s] \subseteq tbb_children[s] \cup {c}
        /\ tbb_roots'[s] \subseteq tbb_roots[s] \cup {c}
    BY <2>1 DEF BranchStep
  <2>4. QED
    BY <2>2, <2>3 DEF Awaited
<1>5. /\ \A x \in Task : joinset'[x] # 0 =>
           /\ x # 0 /\ x <= task_id_ctr'
           /\ parent_taskId'[x] # 0 /\ joinset'[x] = parent_taskId'[x] + 1
  <2>1. \A x \in Task : joinset[x] # 0 =>
           /\ x # 0 /\ x <= task_id_ctr
           /\ parent_taskId[x] # 0 /\ joinset[x] = parent_taskId[x] + 1
    BY DEF KinInv, Bookings
  <2>2. QED
    BY <1>1, <1>2, <2>1
<1>6. ASSUME NEW p \in Task, NEW x \in Task, x \in child_list'[p]
      PROVE  x # 0 /\ x <= task_id_ctr' /\ parent_taskId'[x] = p /\ joinset'[x] = 0
  <2>1. CASE x \in child_list[p]
    <3>1. x # 0 /\ x <= task_id_ctr /\ parent_taskId[x] = p /\ joinset[x] = 0
      BY <2>1 DEF KinInv, Bookings
    <3>2. x # c
      BY <1>1, <3>1
    <3>3. QED
      BY <1>1, <1>2, <3>1, <3>2
  <2>2. CASE x \notin child_list[p]
    <3>1. p = s /\ x = c
      BY <1>2, <1>6, <2>2
    <3>2. QED
      BY <1>1, <1>2, <3>1
  <2>3. QED
    BY <2>1, <2>2
<1>7. ASSUME NEW t \in Task, NEW x \in Task, x \in Awaited(t)'
      PROVE  /\ x # 0 /\ x <= task_id_ctr' /\ parent_taskId'[x] = t
             /\ x \in child_list'[t] \/ joinset'[x] # 0
  <2>1. CASE x \in Awaited(t)
    <3>1. /\ x # 0 /\ x <= task_id_ctr /\ parent_taskId[x] = t
          /\ x \in child_list[t] \/ joinset[x] # 0
      BY <2>1 DEF KinInv, Bookings
    <3>2. x # c
      BY <1>1, <3>1
    <3>3. child_list[t] \subseteq child_list'[t]
      BY <1>2
    <3>4. QED
      BY <1>1, <1>2, <3>1, <3>2, <3>3
  <2>2. CASE x \notin Awaited(t)
    <3>1. t = s /\ x = c
      BY <1>4, <1>7, <2>2
    <3>2. QED
      BY <1>1, <1>2, <3>1
  <2>3. QED
    BY <2>1, <2>2
<1>8. ASSUME NEW t \in Task, status'[t] \in {"unborn", "ready"}
      PROVE  Awaited(t)' = {} /\ child_list'[t] = {}
  <2>1. t # s
    BY <1>2, <1>8 DEF BranchStep
  <2>2. status[t] \in {"unborn", "ready"}
    BY <1>2, <1>3, <1>8, <2>1
  <2>3. QED
    BY <1>2, <1>4, <2>1, <2>2 DEF KinInv, Bookings
<1>9. tbb_children'[0] = {} /\ status'[0] # "waiting"
  <2>1. tbb_children[0] = {} /\ status[0] # "waiting" /\ 0 \in Task
    BY TaskFacts DEF KinInv, Bookings
  <2>2. tbb_children'[0] = {}
    BY <1>1, <2>1 DEF BranchStep, TasksTypeOK
  <2>3. s = 0 => next = "rootwait"
    BY DEF BranchStep
  <2>4. QED
    BY <1>1, <1>2, <2>1, <2>2, <2>3
<1>10. Bookings'
  BY <1>5, <1>6, <1>7, <1>8, <1>9 DEF Bookings
<1>11. RootsAbove'
  <2>1. ASSUME NEW u \in Task
        PROVE  find_root'[u] \in Task /\ AtOrAbove(find_root[u], u)'
    <3>1. find_root[u] \in Task /\ (find_root[u] = u \/ ancClock[u][find_root[u]] # 0)
      BY DEF KinInv, RootsAbove, AtOrAbove
    <3>2. u # c => find_root'[u] = u \/ ancClock'[u][find_root'[u]] # 0
      BY <1>1, <1>2, <3>1
    <3>3. find_root'[u] = u \/ ancClock'[u][find_root'[u]] # 0
      BY <1>1, <3>2
    <3>4. QED
      BY <1>1, <3>1, <3>3 DEF AtOrAbove
  <2>2. QED
    BY <2>1 DEF RootsAbove
<1>12. Unseen'
  <2>1. ASSUME NEW t \in Task, NEW u \in Task, NEW n \in Nat, <<u, n>> \in before'[t]
        PROVE  /\ u <= task_id_ctr' /\ n <= seg'[u]
               /\ n = seg'[u] => status'[u] = "finished"
    <3>1. \/ <<u, n>> \in before[t] \/ <<u, n>> \in before[s]
          \/ u = s /\ n = seg[s]
      BY <1>2, <2>1
    <3>2. seg[u] \in Nat /\ seg[s] \in Nat
      BY DEF TasksTypeOK
    <3>3. CASE u = s /\ n = seg[s]
      BY <1>1, <1>2, <3>2, <3>3
    <3>4. CASE <<u, n>> \in before[t] \/ <<u, n>> \in before[s]
      <4>1. u <= task_id_ctr /\ n <= seg[u] /\ (n = seg[u] => status[u] = "finished")
        BY <3>4 DEF KinInv, Unseen
      <4>2. u # c
        BY <1>1, <4>1
      <4>3. CASE u = s
        BY <1>1, <1>2, <3>2, <4>1, <4>3
      <4>4. CASE u # s
        BY <1>1, <1>2, <4>1, <4>2, <4>4
      <4>5. QED
        BY <4>3, <4>4
    <3>5. QED
      BY <3>1, <3>3, <3>4
  <2>2. QED
    BY <2>1 DEF Unseen
<1>13. QED
  BY <1>10, <1>11, <1>12

(***************************************************************************)
(* What a wait joins hangs below the waiting task: every member is still   *)
(* unjoined, and so is the way from it up to the waiting task.             *)
(***************************************************************************)
LEMMA RootAfterCollect ==
  ASSUME NEW j, LinksDown(j), NEW k, LinksDown(k), NEW q \in [Task -> Task],
         NEW p \in Task, NEW S \in SUBSET Task, RootMap(j)[p] \notin S,
         \A c \in S : j[c] = 0 /\ q[c] \in S \cup {p} /\ q[c] < c,
         \A c \in Task : k[c] = IF c \in S THEN q[c] + 1 ELSE j[c], p \notin S
  PROVE  \A u \in Task : RootMap(k)[u] = IF RootMap(j)[u] \in S THEN RootMap(j)[p]
                                         ELSE RootMap(j)[u]
<1> DEFINE R == RootMap(j)
           Q == RootMap(k)
           OK(u) == Q[u] = IF R[u] \in S THEN R[p] ELSE R[u]
           Bad == {u \in Task : ~ OK(u)}
<1>1. SUFFICES ASSUME Bad # {} PROVE FALSE
  OBVIOUS
<1>2. Bad \in SUBSET Nat
  BY TaskFacts
<1>3. PICK u \in Bad : \A w \in Bad : u <= w
  BY <1>1, <1>2, LeastExists
<1>4. u \in Task /\ u \in Nat /\ ~ OK(u)
  BY <1>2
<1>5. \A w \in Task : /\ R[w] = IF j[w] = 0 THEN w ELSE R[j[w] - 1]
                      /\ Q[w] = IF k[w] = 0 THEN w ELSE Q[k[w] - 1]
  BY RootMapFacts
<1>6. R[p] \notin S
  OBVIOUS
<1>7. ASSUME NEW w \in Task, w < u PROVE OK(w)
  <2>1. w \in Nat /\ ~ (u <= w)
    BY <1>4, <1>7, TaskFacts
  <2>2. QED
    BY <1>3, <2>1
<1> HIDE DEF R, Q
<1>8. CASE u \in S
  <2>1. PICK w \in Task : w = q[u]
    OBVIOUS
  <2>2. w < u /\ w \in Nat /\ w \in S \cup {p} /\ k[u] = w + 1 /\ R[u] = u
    BY <1>5, <1>8, <2>1, TaskFacts
  <2>3. Q[u] = Q[w]
    <3>1. k[u] # 0 /\ k[u] - 1 = w
      BY <2>2
    <3>2. QED
      BY <1>4, <1>5, <3>1
  <2>4. Q[w] = IF R[w] \in S THEN R[p] ELSE R[w]
    BY <1>7, <2>2
  <2>5. w \in S => R[w] = w
    BY <1>5
  <2>6. Q[w] = R[p]
    BY <1>6, <2>2, <2>4, <2>5
  <2>7. QED
    BY <1>4, <1>8, <2>2, <2>3, <2>6
<1>9. CASE u \notin S /\ j[u] = 0
  BY <1>4, <1>5, <1>9
<1>10. CASE u \notin S /\ j[u] # 0
  <2> DEFINE w == j[u] - 1
  <2>1. j[u] \in Nat /\ j[u] <= MaxTasks /\ w < u /\ w \in Nat
    BY <1>4, <1>10, MaxTasksAssumption DEF LinksDown
  <2>2. w \in Task
    <3>1. u < MaxTasks /\ MaxTasks \in Nat
      BY <1>4, TaskFacts, MaxTasksAssumption
    <3>2. w < MaxTasks
      BY <1>4, <2>1, <3>1
    <3> HIDE DEF w
    <3>3. QED
      BY <2>1, <3>1, <3>2 DEF Task
  <2>3. OK(w)
    BY <1>7, <2>1, <2>2
  <2>4. R[u] = R[w] /\ Q[u] = Q[w]
    BY <1>4, <1>5, <1>10
  <2>5. QED
    BY <1>4, <2>3, <2>4
<1>11. QED
  BY <1>8, <1>9, <1>10

LEMMA LeftBehindFacts ==
  ASSUME TasksTypeOK, TreeInv, KinInv, NEW t \in Task
  PROVE  /\ LeftBehind(t) \in SUBSET Task
         /\ child_list[t] \subseteq LeftBehind(t)
         /\ \A c \in LeftBehind(t) :
              /\ c # 0 /\ c <= task_id_ctr /\ joinset[c] = 0 /\ ancClock[c][t] # 0
              /\ child_list[c] \subseteq LeftBehind(t)
              /\ parent_taskId[c] \in LeftBehind(t) \cup {t}
<1> DEFINE L == LeftBehind(t)
<1>1. /\ child_list \in [Task -> SUBSET Task] /\ parent_taskId \in [Task -> Task]
      /\ \A p, c \in Task : c \in child_list[p] =>
           c # 0 /\ c <= task_id_ctr /\ parent_taskId[c] = p /\ joinset[c] = 0
  BY DEF KinInv, Bookings, TasksTypeOK
<1>2. L \in SUBSET Task /\ \A S \in SUBSET Task : Adopts(S, t) => L \subseteq S
  BY DEF LeftBehind
<1>3. Adopts(L, t)
  BY <1>1 DEF LeftBehind, Adopts
<1> HIDE DEF L
<1>4. child_list[t] \subseteq L /\ \A c \in L : child_list[c] \subseteq L
  BY <1>3 DEF Adopts
<1>5. \A c \in Task : c # 0 /\ c <= task_id_ctr => ancClock[c][parent_taskId[c]] # 0
  BY DEF KinInv, Inherited
<1>6. \A x, u, w \in Task : ancClock[x][u] # 0 /\ ancClock[u][w] # 0 =>
        ancClock[x][w] = ancClock[u][w]
  BY DEF KinInv, Lineage
<1>7. L \subseteq {c \in Task : c # 0 /\ c <= task_id_ctr /\ joinset[c] = 0 /\ ancClock[c][t] # 0}
  <2> DEFINE S == {c \in Task : c # 0 /\ c <= task_id_ctr /\ joinset[c] = 0 /\ ancClock[c][t] # 0}
  <2>1. child_list[t] \subseteq S
    BY <1>1, <1>5
  <2>2. ASSUME NEW c \in S, NEW x \in child_list[c] PROVE x \in S
    <3>1. x \in Task /\ x # 0 /\ x <= task_id_ctr /\ parent_taskId[x] = c /\ joinset[x] = 0
      BY <1>1
    <3>2. ancClock[x][c] # 0 /\ ancClock[c][t] # 0
      BY <1>5, <3>1
    <3>3. ancClock[x][t] # 0
      BY <1>6, <3>1, <3>2
    <3>4. QED
      BY <3>1, <3>3
  <2>3. Adopts(S, t)
    BY <2>1, <2>2 DEF Adopts
  <2>4. QED
    BY <1>2, <2>3
<1>8. L \subseteq {c \in L : parent_taskId[c] \in L \cup {t}}
  <2> DEFINE S == {c \in L : parent_taskId[c] \in L \cup {t}}
  <2>1. child_list[t] \subseteq S
    BY <1>1, <1>2, <1>4
  <2>2. \A c \in S : child_list[c] \subseteq S
    BY <1>1, <1>2, <1>4
  <2>3. Adopts(S, t) /\ S \in SUBSET Task
    BY <1>2, <2>1, <2>2 DEF Adopts
  <2>4. QED
    BY <1>2, <2>3
<1>9. QED
  BY <1>2, <1>4, <1>7, <1>8 DEF L

LEMMA CollectFacts ==
  ASSUME TasksTypeOK, TreeInv, TasksTypeOK', TreeInv', KinInv, NEW t \in Task,
         NEW S \in SUBSET Task, CollectStep(t, S)
  PROVE  /\ t \notin LeftBehind(t)
         /\ find_root[t] \notin LeftBehind(t)
         /\ \A u \in Task : find_root'[u] = IF find_root[u] \in LeftBehind(t)
                                            THEN find_root[t] ELSE find_root[u]
<1> DEFINE L == LeftBehind(t)
<1>1. /\ L \in SUBSET Task
      /\ \A c \in L : /\ c # 0 /\ c <= task_id_ctr
                      /\ joinset[c] = 0 /\ ancClock[c][t] # 0
                      /\ parent_taskId[c] \in L \cup {t}
  BY LeftBehindFacts
<1>2. /\ LinksDown(joinset) /\ find_root = RootMap(joinset)
      /\ LinksDown(joinset') /\ find_root' = RootMap(joinset')
  BY FindRootFacts, FindRootFactsNext DEF TreeInv
<1>3. /\ \A x, u \in Task : ancClock[x][u] # 0 => u < x
      /\ \A x \in Task : x \in Nat
      /\ find_root[t] \in Task /\ (find_root[t] = t \/ ancClock[t][find_root[t]] # 0)
  BY TaskFacts DEF KinInv, Lineage, RootsAbove, AtOrAbove
<1>4. t \notin L
  BY <1>1, <1>3
<1>5. find_root[t] \notin L
  <2>1. ASSUME find_root[t] \in L PROVE FALSE
    <3>1. t < find_root[t]
      BY <1>1, <1>3, <2>1
    <3>2. find_root[t] # t /\ find_root[t] < t
      BY <1>1, <1>3, <2>1, <3>1
    <3>3. QED
      BY <1>3, <3>1, <3>2
  <2>2. QED
    BY <2>1
<1>6. \A c \in L : parent_taskId[c] < c
  <2>1. \A c \in L : c \in Born
    <3>1. task_id_ctr \in Nat /\ \A c \in Task : c \in Nat
      BY TaskFacts DEF TasksTypeOK
    <3>2. QED
      BY <1>1, <3>1 DEF Born
  <2>2. QED
    BY <2>1 DEF TreeInv, Genealogy
<1>7. \A c \in Task : joinset'[c] = IF c \in L THEN parent_taskId[c] + 1 ELSE joinset[c]
  BY DEF CollectStep
<1>8. parent_taskId \in [Task -> Task]
  BY DEF TasksTypeOK
<1>9. RootMap(joinset)[t] \notin L
  BY <1>2, <1>5
<1>10. \A c \in L : joinset[c] = 0 /\ parent_taskId[c] \in L \cup {t} /\ parent_taskId[c] < c
  BY <1>1, <1>6
<1> HIDE DEF L
<1>11. \A u \in Task : RootMap(joinset')[u] = IF RootMap(joinset)[u] \in L
                                              THEN RootMap(joinset)[t]
                                              ELSE RootMap(joinset)[u]
  BY <1>1, <1>2, <1>4, <1>7, <1>8, <1>9, <1>10, RootAfterCollect
<1>12. QED
  BY <1>2, <1>4, <1>5, <1>11 DEF L

LEMMA MeetValues ==
  ASSUME TasksTypeOK, NEW t \in Task, NEW S \in SUBSET Task, MeetStep(t, S)
  PROVE  /\ seg'[t] = seg[t] + 1 /\ \A u \in Task : u # t => seg'[u] = seg[u]
         /\ \A u \in Task : u # t => before'[u] = before[u]
         /\ \A x : x \in before'[t] <=>
              \/ x \in before[t] \/ x = <<t, seg[t]>>
              \/ \E c \in S : x \in before[c] \/ x = <<c, seg[c]>>
         /\ status'[t] = "running" /\ \A u \in Task : u # t => status'[u] = status[u]
<1>1. seg \in [Task -> Nat] /\ before \in [Task -> SUBSET (Task \X Nat)]
      /\ status \in [Task -> Status]
  BY DEF TasksTypeOK
<1>2. /\ seg' = [seg EXCEPT ![t] = @ + 1]
      /\ before' = [before EXCEPT ![t] = PastOf(t) \cup UNION {PastOf(c) : c \in S}]
      /\ status' = [status EXCEPT ![t] = "running"]
  BY DEF MeetStep, HBJoin
<1>3. \A x : x \in before'[t] <=> x \in PastOf(t) \/ \E c \in S : x \in PastOf(c)
  BY <1>1, <1>2
<1>4. \A x, u : x \in PastOf(u) <=> x \in before[u] \/ x = <<u, seg[u]>>
  BY DEF PastOf
<1>5. \A x : x \in before'[t] <=>
              \/ x \in before[t] \/ x = <<t, seg[t]>>
              \/ \E c \in S : x \in before[c] \/ x = <<c, seg[c]>>
  BY <1>3, <1>4
<1>6. QED
  BY <1>1, <1>2, <1>5

LEMMA MeetKeepsUnseen ==
  ASSUME TasksTypeOK, TreeInv, KinInv, NEW t \in Task, NEW S \in SUBSET Task,
         MeetStep(t, S)
  PROVE  Unseen'
<1>1. /\ seg'[t] = seg[t] + 1 /\ \A u \in Task : u # t => seg'[u] = seg[u]
      /\ \A u \in Task : u # t => before'[u] = before[u]
      /\ \A x : x \in before'[t] <=>
           \/ x \in before[t] \/ x = <<t, seg[t]>>
           \/ \E c \in S : x \in before[c] \/ x = <<c, seg[c]>>
      /\ status'[t] = "running" /\ \A u \in Task : u # t => status'[u] = status[u]
  BY MeetValues
<1>2. /\ t <= task_id_ctr /\ task_id_ctr' = task_id_ctr
      /\ status[t] \in {"waiting", "rootwait"}
      /\ \A c \in S : /\ status[c] = "finished" /\ c \in Awaited(t)
                      /\ c # t /\ c <= task_id_ctr
  BY ActiveIsInUse DEF MeetStep, KinInv, Bookings
<1>3. ASSUME NEW w \in Task, NEW u \in Task, NEW n \in Nat, <<u, n>> \in before'[w]
      PROVE  /\ u <= task_id_ctr' /\ n <= seg'[u]
             /\ n = seg'[u] => status'[u] = "finished"
  <2>1. \/ \E x \in Task : <<u, n>> \in before[x]
        \/ u = t /\ n = seg[t]
        \/ u \in S /\ n = seg[u]
    BY <1>1, <1>3
  <2>2. seg[u] \in Nat /\ seg[t] \in Nat
    BY DEF TasksTypeOK
  <2>3. CASE u = t /\ n = seg[t]
    BY <1>1, <1>2, <2>2, <2>3
  <2>4. CASE u \in S /\ n = seg[u]
    BY <1>1, <1>2, <2>2, <2>4
  <2>5. CASE \E x \in Task : <<u, n>> \in before[x]
    <3>1. u <= task_id_ctr /\ n <= seg[u] /\ (n = seg[u] => status[u] = "finished")
      BY <2>5 DEF KinInv, Unseen
    <3>2. CASE u = t
      BY <1>1, <1>2, <2>2, <3>1, <3>2
    <3>3. CASE u # t
      BY <1>1, <1>2, <3>1, <3>3
    <3>4. QED
      BY <3>2, <3>3
  <2>6. QED
    BY <2>1, <2>3, <2>4, <2>5
<1>4. QED
  BY <1>3 DEF Unseen

LEMMA CollectKeepsKin ==
  ASSUME TasksTypeOK, TreeInv, TasksTypeOK', TreeInv', KinInv, NEW t \in Task,
         NEW S \in SUBSET Task, CollectStep(t, S)
  PROVE  KinInv'
<1> DEFINE L == LeftBehind(t)
<1>1. MeetStep(t, S) /\ t # 0 /\ UNCHANGED <<clock, m_vc, ancClock, parent_taskId, task_id_ctr>>
  BY DEF CollectStep, MeetStep
<1>2. /\ L \in SUBSET Task
      /\ child_list[t] \subseteq L
      /\ \A c \in L :
           /\ c # 0 /\ c <= task_id_ctr /\ joinset[c] = 0 /\ ancClock[c][t] # 0
           /\ child_list[c] \subseteq L
           /\ parent_taskId[c] \in L \cup {t}
  BY LeftBehindFacts
<1>3. /\ \A c \in Task : joinset'[c] = IF c \in L THEN parent_taskId[c] + 1 ELSE joinset[c]
      /\ \A c \in Task : child_list'[c] = IF c \in L \cup {t} THEN {} ELSE child_list[c]
      /\ \A w \in Task : /\ tbb_children'[w] \subseteq tbb_children[w]
                         /\ tbb_roots'[w] \subseteq tbb_roots[w]
  BY DEF CollectStep, MeetStep
<1>4. \A u \in Task : find_root'[u] = IF find_root[u] \in L THEN find_root[t] ELSE find_root[u]
  BY CollectFacts
<1>5. status'[t] = "running" /\ \A u \in Task : u # t => status'[u] = status[u]
  BY <1>1, MeetValues
<1> HIDE DEF L
<1>6. Lineage' /\ Inherited'
  BY <1>1 DEF KinInv, Lineage, Inherited, depth
<1>7. \A w \in Task : Awaited(w)' \subseteq Awaited(w)
  BY <1>3 DEF Awaited
<1>8. ASSUME NEW c \in Task, joinset'[c] # 0
      PROVE  /\ c # 0 /\ c <= task_id_ctr'
             /\ parent_taskId'[c] # 0 /\ joinset'[c] = parent_taskId'[c] + 1
  <2>1. CASE c \in L
    <3>1. joinset'[c] = parent_taskId[c] + 1 /\ parent_taskId[c] # 0
      BY <1>1, <1>2, <1>3, <2>1
    <3>2. QED
      BY <1>1, <1>2, <2>1, <3>1
  <2>2. CASE c \notin L
    BY <1>1, <1>3, <1>8, <2>2 DEF KinInv, Bookings
  <2>3. QED
    BY <2>1, <2>2
<1>9. ASSUME NEW p \in Task, NEW c \in Task, c \in child_list'[p]
      PROVE  c # 0 /\ c <= task_id_ctr' /\ parent_taskId'[c] = p /\ joinset'[c] = 0
  <2>1. p \notin L /\ p # t /\ c \in child_list[p]
    BY <1>3, <1>9
  <2>2. c # 0 /\ c <= task_id_ctr /\ parent_taskId[c] = p /\ joinset[c] = 0
    BY <2>1 DEF KinInv, Bookings
  <2>3. c \notin L
    BY <1>2, <2>1, <2>2
  <2>4. QED
    BY <1>1, <1>3, <2>2, <2>3
<1>10. ASSUME NEW w \in Task, NEW c \in Task, c \in Awaited(w)'
       PROVE  /\ c # 0 /\ c <= task_id_ctr' /\ parent_taskId'[c] = w
              /\ c \in child_list'[w] \/ joinset'[c] # 0
  <2>1. /\ c # 0 /\ c <= task_id_ctr /\ parent_taskId[c] = w
        /\ c \in child_list[w] \/ joinset[c] # 0
    BY <1>7, <1>10 DEF KinInv, Bookings
  <2>2. parent_taskId[c] \in Nat
    BY TaskFacts DEF TasksTypeOK
  <2>3. c \in L => joinset'[c] # 0
    BY <1>3, <2>2
  <2>4. c \notin L => joinset'[c] = joinset[c]
    BY <1>3
  <2>5. c \in child_list[w] => c \in L \/ c \in child_list'[w]
    BY <1>2, <1>3
  <2>6. QED
    BY <1>1, <2>1, <2>3, <2>4, <2>5
<1>11. ASSUME NEW w \in Task, status'[w] \in {"unborn", "ready"}
       PROVE  Awaited(w)' = {} /\ child_list'[w] = {}
  <2>1. status[w] \in {"unborn", "ready"}
    BY <1>5, <1>11
  <2>2. Awaited(w) = {} /\ child_list[w] = {}
    BY <2>1 DEF KinInv, Bookings
  <2>3. QED
    BY <1>3, <1>7, <2>2
<1>12. tbb_children'[0] = {} /\ status'[0] # "waiting"
  <2>1. tbb_children[0] = {} /\ status[0] # "waiting" /\ 0 \in Task
    BY TaskFacts DEF KinInv, Bookings
  <2>2. QED
    BY <1>1, <1>3, <1>5, <2>1
<1>13. Bookings'
  BY <1>8, <1>9, <1>10, <1>11, <1>12 DEF Bookings
<1>14. RootsAbove'
  <2>1. ASSUME NEW u \in Task
        PROVE  find_root'[u] \in Task /\ AtOrAbove(find_root'[u], u)
    <3>1. /\ find_root[u] \in Task /\ find_root[t] \in Task
          /\ find_root[u] = u \/ ancClock[u][find_root[u]] # 0
          /\ find_root[t] = t \/ ancClock[t][find_root[t]] # 0
      BY DEF KinInv, RootsAbove, AtOrAbove
    <3>2. CASE find_root[u] \notin L
      BY <1>4, <3>1, <3>2 DEF AtOrAbove
    <3>3. CASE find_root[u] \in L
      <4>1. ancClock[find_root[u]][t] # 0
        BY <1>2, <3>3
      <4>2. \A x, y, w \in Task : ancClock[x][y] # 0 /\ ancClock[y][w] # 0 =>
              ancClock[x][w] = ancClock[y][w]
        BY DEF KinInv, Lineage
      <4>3. ancClock[u][t] # 0
        BY <3>1, <4>1, <4>2
      <4>4. ancClock[u][find_root[t]] # 0
        BY <3>1, <4>2, <4>3
      <4>5. QED
        BY <1>4, <3>1, <3>3, <4>4 DEF AtOrAbove
    <3>4. QED
      BY <3>2, <3>3
  <2>2. QED
    BY <1>1, <2>1 DEF RootsAbove, AtOrAbove
<1>15. Unseen'
  BY <1>1, MeetKeepsUnseen
<1>16. QED
  BY <1>6, <1>13, <1>14, <1>15 DEF KinInv

LEMMA PhaseKeepsKin ==
  ASSUME TasksTypeOK, TreeInv, TasksTypeOK', KinInv, NEW S \in SUBSET Task,
         PhaseStep(S)
  PROVE  KinInv'
<1>1. /\ MeetStep(0, S) /\ 0 \in Task /\ joinset' = joinset
      /\ UNCHANGED <<m_vc, ancClock, parent_taskId, task_id_ctr>>
      /\ tbb_roots'[0] = {}
  BY TaskFacts DEF PhaseStep, MeetStep
<1>2. /\ \A w \in Task : w # 0 => child_list'[w] = child_list[w]
      /\ \A w \in Task : child_list'[w] \subseteq child_list[w]
      /\ \A w \in Task : clock'[w] >= clock[w]
  <2>1. child_list \in [Task -> SUBSET Task] /\ clock \in [Task -> Nat]
    BY DEF TasksTypeOK
  <2>2. QED
    BY <1>1, <2>1 DEF PhaseStep
<1>3. status'[0] = "running" /\ \A u \in Task : u # 0 => status'[u] = status[u]
  BY <1>1, MeetValues
<1>4. \A w \in Task : /\ tbb_children'[w] \subseteq tbb_children[w]
                      /\ tbb_roots'[w] \subseteq tbb_roots[w]
                      /\ Awaited(w)' \subseteq Awaited(w)
  BY DEF PhaseStep, MeetStep, Awaited
<1>5. Lineage' /\ Inherited'
  <2>1. \A w \in Task : clock[w] \in Nat /\ clock'[w] >= clock[w]
    BY <1>2 DEF TasksTypeOK
  <2>2. \A w \in Task : w <= task_id_ctr => clock'[w] > 0
    <3>1. \A w \in Task : w <= task_id_ctr => clock[w] > 0
      BY DEF KinInv, Lineage
    <3>2. \A w \in Task : clock'[w] \in Nat
      BY DEF TasksTypeOK
    <3>3. QED
      BY <2>1, <3>1, <3>2
  <2>3. QED
    BY <1>1, <2>2 DEF KinInv, Lineage, Inherited, depth
<1>6. tbb_children'[0] = {} /\ Awaited(0)' = {}
  <2>1. tbb_children[0] = {}
    BY DEF KinInv, Bookings
  <2>2. tbb_children'[0] = {}
    BY <1>1, <1>4, <2>1
  <2>3. QED
    BY <1>1, <2>2 DEF Awaited
<1>7. Bookings'
  <2>1. /\ \A c \in Task : joinset'[c] # 0 =>
             /\ c # 0 /\ c <= task_id_ctr'
             /\ parent_taskId'[c] # 0 /\ joinset'[c] = parent_taskId'[c] + 1
        /\ \A p, c \in Task : c \in child_list'[p] =>
             c # 0 /\ c <= task_id_ctr' /\ parent_taskId'[c] = p /\ joinset'[c] = 0
    BY <1>1, <1>2 DEF KinInv, Bookings
  <2>2. ASSUME NEW w \in Task, NEW c \in Task, c \in Awaited(w)'
        PROVE  /\ c # 0 /\ c <= task_id_ctr' /\ parent_taskId'[c] = w
               /\ c \in child_list'[w] \/ joinset'[c] # 0
    <3>1. w # 0 /\ c \in Awaited(w)
      BY <1>4, <1>6, <2>2
    <3>2. QED
      BY <1>1, <1>2, <3>1 DEF KinInv, Bookings
  <2>3. ASSUME NEW w \in Task, status'[w] \in {"unborn", "ready"}
        PROVE  Awaited(w)' = {} /\ child_list'[w] = {}
    <3>1. w # 0 /\ status[w] \in {"unborn", "ready"}
      BY <1>3, <2>3
    <3>2. Awaited(w) = {} /\ child_list[w] = {}
      BY <3>1 DEF KinInv, Bookings
    <3>3. QED
      BY <1>2, <1>4, <3>2
  <2>4. QED
    BY <1>3, <1>6, <2>1, <2>2, <2>3 DEF Bookings
<1>8. RootsAbove'
  <2>1. find_root' = find_root
    BY <1>1, FindRootStays
  <2>2. QED
    BY <1>1, <2>1 DEF KinInv, RootsAbove, AtOrAbove
<1>9. Unseen'
  BY <1>1, MeetKeepsUnseen
<1>10. QED
  BY <1>5, <1>7, <1>8, <1>9 DEF KinInv

LEMMA RestKeepsKin ==
  ASSUME KinInv, RestStep
  PROVE  KinInv'
<1>1. /\ UNCHANGED <<m_vc, ancClock, clock, parent_taskId, child_list, joinset,
                     task_id_ctr, seg, before, tbb_children, tbb_roots>>
      /\ \A t \in Task : status[t] = "finished" => status'[t] = "finished"
      /\ \A t \in Task : status'[t] \in {"unborn", "ready"} => status'[t] = status[t]
      /\ status'[0] # "waiting"
  BY DEF RestStep, taskVars, orderVars
<1>2. Lineage' /\ Inherited'
  BY <1>1 DEF KinInv, Lineage, Inherited, depth
<1>3. Bookings'
  BY <1>1 DEF KinInv, Bookings, Awaited
<1>4. RootsAbove'
  <2>1. find_root' = find_root
    BY <1>1, FindRootStays
  <2>2. QED
    BY <1>1, <2>1 DEF KinInv, RootsAbove, AtOrAbove
<1>5. Unseen'
  BY <1>1 DEF KinInv, Unseen
<1>6. QED
  BY <1>2, <1>3, <1>4, <1>5 DEF KinInv

(***************************************************************************)
(* Segment n of u, recorded at the clock k, is heeded: whoever knows it    *)
(* takes it to be ordered, and main does not know it.  Only a return of    *)
(* main may break this, and then everything recorded is declared dead.     *)
(***************************************************************************)
Heeded(u, n, k) ==
  \A t \in Task : t # u /\ <<u, n>> \in before[t] => t # 0 /\ OrderedBefore(t, u, k)

LEMMA BranchHeeds ==
  ASSUME TasksTypeOK, TreeInv, TasksTypeOK', KinInv, KinInv',
         NEW s \in Task, NEW c \in Task, NEW next, BranchStep(s, c, next),
         NEW u \in Task, u <= task_id_ctr, NEW n \in Nat,
         NEW k \in Nat, k # 0, k <= clock[u], Heeded(u, n, k)
  PROVE  Heeded(u, n, k)'
<1>1. /\ s <= task_id_ctr /\ s # c /\ c # 0 /\ ~ (c <= task_id_ctr)
      /\ find_root' = find_root /\ find_root[c] = c
      /\ \A w \in Task : ancClock[c][w] = 0 /\ ancClock[w][c] = 0
  BY BranchFacts
<1>2. /\ before'[s] = before[s] \cup {<<s, seg[s]>>}
      /\ before'[c] = before[s] \cup {<<s, seg[s]>>}
      /\ \A t \in Task : t # s /\ t # c => before'[t] = before[t]
      /\ ancClock'[c][s] = clock[s]
      /\ \A w \in Task : w # s => ancClock'[c][w] = ancClock[s][w]
      /\ \A t \in Task : t # c => ancClock'[t] = ancClock[t]
  BY BranchValues
<1>3. u # c /\ clock[s] # 0 /\ find_root[u] \in Task
  BY <1>1 DEF KinInv, Lineage, RootsAbove
<1>4. \A t \in Task : t # u => (OrderedBefore(t, u, k) <=> Verdict(t, u, k, ancClock, find_root))
  BY OrderedIsVerdict DEF KinInv
<1>5. \A t \in Task : t # u => (OrderedBefore(t, u, k)' <=> Verdict(t, u, k, ancClock', find_root'))
  BY OrderedIsVerdictNext DEF KinInv
<1>6. ASSUME NEW t \in Task, t # u, <<u, n>> \in before'[t]
      PROVE  t # 0 /\ OrderedBefore(t, u, k)'
  <2>1. CASE t # c
    <3>1. <<u, n>> \in before[t]
      BY <1>2, <1>6, <2>1
    <3>2. t # 0 /\ Verdict(t, u, k, ancClock, find_root)
      BY <1>4, <1>6, <3>1 DEF Heeded
    <3>3. Verdict(t, u, k, ancClock', find_root')
      BY <1>1, <1>2, <2>1, <3>2 DEF Verdict
    <3>4. QED
      BY <1>5, <1>6, <3>2, <3>3
  <2>2. CASE t = c /\ u = s
    <3>1. ancClock'[c][u] = clock[u] /\ ancClock'[c][u] # 0
      BY <1>2, <1>3, <2>2
    <3>2. Verdict(c, u, k, ancClock', find_root')
      BY <3>1 DEF Verdict
    <3>3. QED
      BY <1>1, <1>5, <1>6, <2>2, <3>2
  <2>3. CASE t = c /\ u # s
    <3>1. <<u, n>> \in before[s]
      BY <1>2, <1>6, <2>3
    <3>2. Verdict(s, u, k, ancClock, find_root)
      BY <1>4, <2>3, <3>1 DEF Heeded
    <3>3. ancClock'[c][u] = ancClock[s][u]
      BY <1>2, <2>3
    <3>4. CASE ancClock[s][u] # 0
      <4>1. Verdict(c, u, k, ancClock', find_root')
        BY <3>2, <3>3, <3>4 DEF Verdict
      <4>2. QED
        BY <1>1, <1>5, <1>6, <2>3, <4>1
    <3>5. CASE ancClock[s][u] = 0
      <4>1. find_root[u] = s \/ ancClock[s][find_root[u]] # 0
        BY <3>2, <3>5 DEF Verdict
      <4>2. ancClock'[c][find_root[u]] # 0
        BY <1>2, <1>3, <4>1
      <4>3. Verdict(c, u, k, ancClock', find_root')
        BY <1>1, <3>3, <3>5, <4>2 DEF Verdict
      <4>4. QED
        BY <1>1, <1>5, <1>6, <2>3, <4>3
    <3>6. QED
      BY <3>4, <3>5
  <2>4. QED
    BY <2>1, <2>2, <2>3
<1>7. QED
  BY <1>6 DEF Heeded

(* A join moves find_root up the ancestors only, so a verdict that was     *)
(* positive stays positive.                                                *)
LEMMA CollectKeepsVerdict ==
  ASSUME TasksTypeOK, TreeInv, TasksTypeOK', TreeInv', KinInv, NEW t \in Task,
         NEW S \in SUBSET Task, CollectStep(t, S),
         NEW w \in Task, NEW u \in Task, NEW k \in Nat,
         Verdict(w, u, k, ancClock, find_root)
  PROVE  Verdict(w, u, k, ancClock', find_root')
<1>1. /\ \A c \in LeftBehind(t) : c \in Task /\ ancClock[c][t] # 0
      /\ \A x \in Task : find_root'[x] = IF find_root[x] \in LeftBehind(t)
                                         THEN find_root[t] ELSE find_root[x]
      /\ ancClock' = ancClock
  BY LeftBehindFacts, CollectFacts DEF CollectStep, MeetStep
<1>2. /\ find_root[u] \in Task /\ find_root[t] \in Task
      /\ find_root[t] = t \/ ancClock[t][find_root[t]] # 0
      /\ \A x, y, z \in Task : ancClock[x][y] # 0 /\ ancClock[y][z] # 0 =>
           ancClock[x][z] = ancClock[y][z]
  BY DEF KinInv, RootsAbove, AtOrAbove, Lineage
<1>3. CASE find_root[u] \notin LeftBehind(t)
  BY <1>1, <1>3 DEF Verdict
<1>4. CASE find_root[u] \in LeftBehind(t)
  <2>1. ancClock[find_root[u]][find_root[t]] # 0
    BY <1>1, <1>2, <1>4
  <2>2. ASSUME find_root[u] = w \/ ancClock[w][find_root[u]] # 0
        PROVE  ancClock[w][find_root[t]] # 0
    BY <1>2, <2>1, <2>2
  <2>3. QED
    BY <1>1, <1>4, <2>2 DEF Verdict
<1>5. QED
  BY <1>3, <1>4

LEMMA CollectHeeds ==
  ASSUME TasksTypeOK, TreeInv, TasksTypeOK', TreeInv', KinInv, KinInv',
         NEW t \in Task, NEW S \in SUBSET Task, CollectStep(t, S),
         NEW u \in Task, u <= task_id_ctr, NEW n \in Nat,
         NEW k \in Nat, k # 0, k <= clock[u], Heeded(u, n, k)
  PROVE  Heeded(u, n, k)'
<1> DEFINE L == LeftBehind(t)
<1>1. /\ t # 0 /\ S \subseteq Awaited(t) /\ MeetStep(t, S) /\ ancClock' = ancClock
  BY DEF CollectStep, MeetStep
<1>2. /\ \A w \in Task : w # t => before'[w] = before[w]
      /\ \A x : x \in before'[t] <=>
           \/ x \in before[t] \/ x = <<t, seg[t]>>
           \/ \E c \in S : x \in before[c] \/ x = <<c, seg[c]>>
  BY <1>1, MeetValues
<1>3. \A w \in Task : w # u => (OrderedBefore(w, u, k) <=> Verdict(w, u, k, ancClock, find_root))
  BY OrderedIsVerdict DEF KinInv
<1>4. \A w \in Task : w # u => (OrderedBefore(w, u, k)' <=> Verdict(w, u, k, ancClock', find_root'))
  BY OrderedIsVerdictNext DEF KinInv
<1>5. \A w \in Task : Verdict(w, u, k, ancClock, find_root) => Verdict(w, u, k, ancClock', find_root')
  BY CollectKeepsVerdict
<1>6. /\ \A x \in Task : find_root'[x] = IF find_root[x] \in L THEN find_root[t] ELSE find_root[x]
      /\ find_root[t] \notin L /\ t \notin L /\ child_list[t] \subseteq L
      /\ \A c \in Task : joinset'[c] = IF c \in L THEN parent_taskId[c] + 1 ELSE joinset[c]
  BY CollectFacts, LeftBehindFacts DEF CollectStep
<1>7. /\ \A x, w \in Task : ancClock[x][w] # 0 => w < x
      /\ find_root[t] \in Task /\ (find_root[t] = t \/ ancClock[t][find_root[t]] # 0)
      /\ \A x \in Task : x \in Nat
      /\ find_root'[u] \in Task
  BY TaskFacts DEF KinInv, Lineage, RootsAbove, AtOrAbove
<1>8. \A c \in Task : find_root[c] = IF joinset[c] = 0 THEN c ELSE find_root[joinset[c] - 1]
  BY FindRootFacts DEF TreeInv
<1> HIDE DEF L
<1>9. ASSUME NEW c \in S
      PROVE  /\ c \in Task /\ c # 0 /\ c # t /\ ancClock[c][t] # 0
             /\ \A w \in Task : w # t => ancClock[c][w] = ancClock[t][w]
             /\ find_root'[c] = find_root[t]
             /\ find_root'[u] # c
  <2>1. /\ c \in Task /\ c # 0 /\ c <= task_id_ctr /\ parent_taskId[c] = t
        /\ c \in child_list[t] \/ joinset[c] # 0
    BY <1>1 DEF KinInv, Bookings
  <2>2. ancClock[c][t] # 0 /\ \A w \in Task : w # t => ancClock[c][w] = ancClock[t][w]
    BY <2>1 DEF KinInv, Inherited
  <2>3. c # t
    BY <1>7, <2>1, <2>2
  <2>4. CASE c \in child_list[t]
    <3>1. joinset[c] = 0 /\ c \in L
      BY <1>6, <2>1, <2>4 DEF KinInv, Bookings
    <3>2. find_root[c] = c
      BY <1>8, <2>1, <3>1
    <3>3. find_root'[c] = find_root[t]
      BY <1>6, <2>1, <3>1, <3>2
    <3>4. find_root'[u] # c
      BY <1>6, <3>1
    <3>5. QED
      BY <2>1, <2>2, <2>3, <3>3, <3>4
  <2>5. CASE joinset[c] # 0
    <3>1. joinset[c] = t + 1
      BY <2>1, <2>5 DEF KinInv, Bookings
    <3>2. find_root[c] = find_root[t]
      <4>1. joinset[c] - 1 = t
        BY <1>7, <3>1
      <4>2. QED
        BY <1>8, <2>1, <2>5, <4>1
    <3>3. find_root'[c] = find_root[t]
      BY <1>6, <2>1, <3>2
    <3>4. find_root[u] # c
      <4>1. joinset[find_root[u]] = 0
        <5>1. \A x \in Task : joinset[x] # 0 /\ x > MaxTasks => joinset[x] - 1 > MaxTasks
          BY TaskFacts, MaxTasksAssumption
        <5>2. LinksDown(joinset) /\ find_root = RootMap(joinset) /\ MaxTasks \in Nat
          BY FindRootFacts, MaxTasksAssumption DEF TreeInv
        <5>3. QED
          BY <5>1, <5>2, RootFacts
      <4>2. QED
        BY <2>5, <4>1
    <3>5. find_root[t] # c
      <4>1. find_root[t] <= t /\ t < c
        BY <1>7, <2>1, <2>2
      <4>2. QED
        BY <1>7, <2>1, <4>1
    <3>6. QED
      BY <1>6, <2>1, <2>2, <2>3, <3>3, <3>4, <3>5
  <2>6. QED
    BY <2>1, <2>4, <2>5
<1>10. ASSUME NEW w \in Task, w # u, <<u, n>> \in before'[w]
       PROVE  w # 0 /\ OrderedBefore(w, u, k)'
  <2>1. CASE <<u, n>> \in before[w]
    <3>1. w # 0 /\ OrderedBefore(w, u, k)
      BY <1>10, <2>1 DEF Heeded
    <3>2. QED
      BY <1>3, <1>4, <1>5, <1>10, <3>1
  <2>2. CASE <<u, n>> \notin before[w]
    <3>1. w = t /\ u # t
      BY <1>2, <1>10, <2>2
    <3>2. PICK c \in S : <<u, n>> \in before[c] \/ <<u, n>> = <<c, seg[c]>>
      BY <1>2, <1>10, <2>2, <3>1
    <3>3. /\ c \in Task /\ c # 0 /\ c # t /\ ancClock[c][t] # 0
          /\ \A x \in Task : x # t => ancClock[c][x] = ancClock[t][x]
          /\ find_root'[c] = find_root[t]
          /\ find_root'[u] # c
      BY <1>9
    <3>4. Verdict(t, u, k, ancClock', find_root')
      <4>1. CASE u = c
        <5>1. ancClock[t][u] = 0
          BY <1>7, <3>3, <4>1
        <5>2. QED
          BY <1>1, <1>7, <3>3, <4>1, <5>1 DEF Verdict
      <4>2. CASE u # c
        <5>1. <<u, n>> \in before[c]
          BY <3>2, <4>2
        <5>2. Verdict(c, u, k, ancClock', find_root')
          BY <1>3, <1>5, <3>3, <4>2, <5>1 DEF Heeded
        <5>3. ancClock[c][u] = ancClock[t][u]
          BY <3>1, <3>3
        <5>4. ancClock[c][find_root'[u]] # 0 =>
                find_root'[u] = t \/ ancClock[t][find_root'[u]] # 0
          BY <1>7, <3>3
        <5>5. QED
          BY <1>1, <3>3, <5>2, <5>3, <5>4 DEF Verdict
      <4>3. QED
        BY <4>1, <4>2
    <3>5. QED
      BY <1>1, <1>4, <1>10, <3>1, <3>4
  <2>3. QED
    BY <2>1, <2>2
<1>11. QED
  BY <1>10 DEF Heeded

LEMMA OrderStays ==
  ASSUME UNCHANGED <<m_vc, ancClock, joinset>>, NEW t \in Task, NEW u \in Task, t # u,
         NEW k
  PROVE  OrderedBefore(t, u, k)' <=> OrderedBefore(t, u, k)
<1>1. find_root' = find_root
  BY FindRootStays
<1>2. \A w : parent_clock(t, w)' = parent_clock(t, w)
  BY DEF parent_clock, depth
<1>3. parent_clock(t, u)' = parent_clock(t, u)
      /\ parent_clock(t, find_root[u])' = parent_clock(t, find_root[u])
  BY <1>1 DEF parent_clock, depth
<1>4. QED
  BY <1>1, <1>3 DEF OrderedBefore

LEMMA StillHeeds ==
  ASSUME UNCHANGED <<m_vc, ancClock, joinset>>,
         NEW u \in Task, NEW n \in Nat, NEW k \in Nat,
         \A t \in Task : t # u /\ <<u, n>> \in before'[t] => <<u, n>> \in before[t],
         clock'[u] = clock[u], Heeded(u, n, k)
  PROVE  Heeded(u, n, k)'
<1>1. \A t \in Task : t # u => (OrderedBefore(t, u, k)' <=> OrderedBefore(t, u, k))
  BY OrderStays
<1>2. QED
  BY <1>1 DEF Heeded

-----------------------------------------------------------------------------
(***************************************************************************)
(* The shadow word.  Either everything recorded is dead, so that the next  *)
(* access starts anew, or every slot in use stands for an access that is   *)
(* heeded.                                                                 *)
(***************************************************************************)
HeededSlot(x, kind, H) ==
  /\ x.clk = 0 => x.tid = 0
  /\ x.clk # 0 => \E a \in H : /\ a.task = x.tid /\ a.kind = kind
                               /\ Heeded(a.task, a.seg, x.clk)
HeededPair(pair, kind, H) ==
  HeededSlot(pair[1], kind, H) /\ HeededSlot(pair[2], kind, H)
HeededEntry(e, H) == HeededPair(e.rd, READ, H) /\ HeededPair(e.wr, WRITE, H)

WordHeeded == \A i \in Entry : HeededEntry(v[i], history)
WordDead == \A i \in Entry : \A x \in Slots(v[i]) : check_dead(x.tid, x.clk)

Tidy ==
  \A i \in Entry : /\ i > cursize => v[i] = NoAccess
                   /\ \A x \in Slots(v[i]) : x.clk = 0 => x.tid = 0

MainIdle ==
  \A a \in history : a.task \in Task /\ a.task # 0 /\ a.task <= task_id_ctr /\ a.seg \in Nat

HeedInv == MainIdle /\ Tidy /\ (WordDead \/ WordHeeded)

LEMMA HeedInit == Init => HeedInv
<1> SUFFICES ASSUME Init PROVE HeedInv
  OBVIOUS
<1>1. history = {} /\ \A i \in Entry : v[i] = NoAccess
  BY DEF Init, ShadowInit, TasksInit, HBInit
<1>2. HeededEntry(NoAccess, {})
  BY DEF HeededEntry, HeededPair, HeededSlot, NoAccess, Empty
<1>3. \A x \in Slots(NoAccess) : x.clk = 0 => x.tid = 0
  BY DEF Slots, NoAccess, Empty
<1>4. QED
  BY <1>1, <1>2, <1>3 DEF HeedInv, MainIdle, Tidy, WordHeeded

(* What a task step leaves of the word.                                    *)
LEMMA WordStays ==
  ASSUME TasksTypeOK, ShadowTypeOK, SlotsAreAccesses, HeedInv,
         UNCHANGED shadowVars, history' = history, task_id_ctr <= task_id_ctr',
         task_id_ctr' \in Nat,
         \/ /\ UNCHANGED deadVars
            /\ \A u \in Task, n, k \in Nat :
                 u # 0 /\ u <= task_id_ctr /\ k # 0 /\ k <= clock[u] /\ Heeded(u, n, k)
                   => Heeded(u, n, k)'
         \/ num_dead_tasks' = task_id_ctr /\ dead_clock_value' = clock[0]
  PROVE  HeedInv'
<1>1. v' = v /\ cursize' = cursize
  BY DEF shadowVars
<1>2. MainIdle'
  <2>1. task_id_ctr \in Nat /\ \A u \in Task : u \in Nat
    BY TaskFacts DEF TasksTypeOK
  <2>2. \A u \in Task : u <= task_id_ctr => u <= task_id_ctr'
    BY <2>1
  <2>3. QED
    BY <2>2 DEF HeedInv, MainIdle
<1>3. Tidy'
  BY <1>1 DEF HeedInv, Tidy
<1>4. \A i \in Entry : /\ v[i].rd[1] \in Slot /\ v[i].rd[2] \in Slot
                       /\ v[i].wr[1] \in Slot /\ v[i].wr[2] \in Slot
  BY DEF ShadowTypeOK, LockState
<1>5. CASE num_dead_tasks' = task_id_ctr /\ dead_clock_value' = clock[0]
  <2>1. ASSUME NEW i \in Entry, NEW x \in Slots(v[i]) PROVE check_dead(x.tid, x.clk)'
    <3>1. /\ x.tid \in Task /\ x.clk \in Nat
          /\ x.clk = 0 => x.tid = 0
          /\ x.clk # 0 => \E kind : Made(x.tid, kind, history)
      BY <1>4 DEF HeedInv, Tidy, Slots, Slot, SlotsAreAccesses, GoodEntry, GoodPair, GoodSlot
    <3>2. CASE x.clk = 0
      BY <1>5, <3>1, <3>2, TaskFacts DEF check_dead, TasksTypeOK
    <3>3. CASE x.clk # 0
      <4>1. x.tid # 0 /\ x.tid <= task_id_ctr /\ x.tid \in Nat
        BY <3>1, <3>3, TaskFacts DEF HeedInv, MainIdle, Made
      <4>2. QED
        BY <1>5, <4>1 DEF check_dead
    <3>4. QED
      BY <3>2, <3>3
  <2>2. WordDead'
    BY <1>1, <2>1 DEF WordDead
  <2>3. QED
    BY <1>2, <1>3, <2>2 DEF HeedInv
<1>6. CASE /\ UNCHANGED deadVars
           /\ \A u \in Task, n, k \in Nat :
                u # 0 /\ u <= task_id_ctr /\ k # 0 /\ k <= clock[u] /\ Heeded(u, n, k)
                  => Heeded(u, n, k)'
  <2>1. CASE WordDead
    <3>1. WordDead'
      BY <1>1, <1>6, <2>1 DEF WordDead, check_dead, deadVars
    <3>2. QED
      BY <1>2, <1>3, <3>1 DEF HeedInv
  <2>2. CASE WordHeeded
    <3>1. ASSUME NEW x \in Slot, NEW kind, HeededSlot(x, kind, history),
                 GoodSlot(x, kind, history, clock)
          PROVE  HeededSlot(x, kind, history)'
      <4>1. CASE x.clk = 0
        BY <3>1, <4>1 DEF HeededSlot
      <4>2. CASE x.clk # 0
        <5>1. PICK a \in history : /\ a.task = x.tid /\ a.kind = kind
                                   /\ Heeded(a.task, a.seg, x.clk)
          BY <3>1, <4>2 DEF HeededSlot
        <5>2. /\ a.task \in Task /\ a.task # 0 /\ a.task <= task_id_ctr /\ a.seg \in Nat
              /\ x.clk \in Nat /\ x.clk <= clock[a.task]
          BY <3>1, <4>2, <5>1 DEF HeedInv, MainIdle, Slot, GoodSlot
        <5>3. Heeded(a.task, a.seg, x.clk)'
          BY <1>6, <4>2, <5>1, <5>2
        <5>4. QED
          BY <4>2, <5>1, <5>3 DEF HeededSlot
      <4>3. QED
        BY <4>1, <4>2
    <3>2. ASSUME NEW i \in Entry PROVE HeededEntry(v[i], history)'
      <4>1. HeededEntry(v[i], history) /\ GoodEntry(v[i], history, clock)
        BY <2>2 DEF WordHeeded, SlotsAreAccesses
      <4>2. QED
        BY <1>1, <1>4, <3>1, <4>1
           DEF HeededEntry, HeededPair, GoodEntry, GoodPair
    <3>3. WordHeeded'
      BY <1>1, <3>2 DEF WordHeeded
    <3>4. QED
      BY <1>2, <1>3, <3>3 DEF HeedInv
  <2>3. QED
    BY <2>1, <2>2 DEF HeedInv
<1>7. QED
  BY <1>5, <1>6

LEMMA TasksHeed ==
  ASSUME TasksTypeOK, TreeInv, TasksTypeOK', TreeInv', KinInv,
         ShadowTypeOK, SlotsAreAccesses, HeedInv,
         SpawnsOwn, TaskStep, UNCHANGED shadowVars
  PROVE  KinInv' /\ HeedInv'
<1>1. history' = history /\ task_id_ctr' \in Nat /\ task_id_ctr \in Nat
  BY NoAccessMade, TaskFacts DEF TasksTypeOK
<1>2. ASSUME NEW s \in Task, NEW c \in Task, NEW next, BranchStep(s, c, next)
      PROVE  KinInv' /\ HeedInv'
  <2>1. KinInv'
    BY <1>2, BranchKeepsLineage, BranchKeepsBookings DEF KinInv
  <2>2. UNCHANGED deadVars /\ task_id_ctr <= task_id_ctr'
    BY <1>1, <1>2, BranchFacts
  <2>3. \A u \in Task, n, k \in Nat :
          u # 0 /\ u <= task_id_ctr /\ k # 0 /\ k <= clock[u] /\ Heeded(u, n, k)
            => Heeded(u, n, k)'
    BY <1>2, <2>1, BranchHeeds
  <2>4. QED
    BY <1>1, <2>1, <2>2, <2>3, WordStays
<1>3. ASSUME NEW t \in Task, NEW S \in SUBSET Task, CollectStep(t, S)
      PROVE  KinInv' /\ HeedInv'
  <2>1. KinInv'
    BY <1>3, CollectKeepsKin
  <2>2. UNCHANGED deadVars /\ task_id_ctr <= task_id_ctr'
    BY <1>1, <1>3 DEF CollectStep, MeetStep
  <2>3. \A u \in Task, n, k \in Nat :
          u # 0 /\ u <= task_id_ctr /\ k # 0 /\ k <= clock[u] /\ Heeded(u, n, k)
            => Heeded(u, n, k)'
    BY <1>3, <2>1, CollectHeeds
  <2>4. QED
    BY <1>1, <2>1, <2>2, <2>3, WordStays
<1>4. ASSUME NEW S \in SUBSET Task, PhaseStep(S)
      PROVE  KinInv' /\ HeedInv'
  <2>1. KinInv'
    BY <1>4, PhaseKeepsKin
  <2>2. task_id_ctr <= task_id_ctr' /\ MeetStep(0, S) /\ 0 \in Task
    BY <1>1, <1>4, TaskFacts DEF PhaseStep, MeetStep
  <2>3. CASE S = {} /\ UNCHANGED <<clock, child_list, deadVars>>
    <3>1. \A t, u \in Task, n \in Nat :
            u # 0 /\ <<u, n>> \in before'[t] => <<u, n>> \in before[t]
      BY <2>2, <2>3, MeetValues
    <3>2. UNCHANGED <<m_vc, ancClock, joinset>> /\ clock' = clock
      BY <1>4, <2>3 DEF PhaseStep, MeetStep
    <3>3. \A u \in Task, n, k \in Nat :
            u # 0 /\ u <= task_id_ctr /\ k # 0 /\ k <= clock[u] /\ Heeded(u, n, k)
              => Heeded(u, n, k)'
      BY <3>1, <3>2, StillHeeds
    <3>4. QED
      BY <1>1, <2>1, <2>2, <2>3, <3>3, WordStays
  <2>4. CASE num_dead_tasks' = task_id_ctr /\ dead_clock_value' = clock[0]
    BY <1>1, <2>1, <2>2, <2>4, WordStays
  <2>5. QED
    BY <1>4, <2>3, <2>4 DEF PhaseStep
<1>5. ASSUME RestStep PROVE KinInv' /\ HeedInv'
  <2>1. KinInv'
    BY <1>5, RestKeepsKin
  <2>2. UNCHANGED <<m_vc, ancClock, joinset, before, clock, task_id_ctr, deadVars>>
    BY <1>5 DEF RestStep, taskVars, orderVars
  <2>3. \A u \in Task, n, k \in Nat :
          u # 0 /\ u <= task_id_ctr /\ k # 0 /\ k <= clock[u] /\ Heeded(u, n, k)
            => Heeded(u, n, k)'
    BY <2>2, StillHeeds
  <2>4. QED
    BY <1>1, <2>1, <2>2, <2>3, WordStays
<1>6. QED
  BY <1>2, <1>3, <1>4, <1>5, FourKinds

(***************************************************************************)
(* What an access does to a word whose slots are all heeded.               *)
(***************************************************************************)
LEMMA CurHeeded ==
  ASSUME TasksTypeOK, TreeInv, KinInv, NEW t \in Task, NEW kind, Running(t),
         NEW H, AccessOf(t, kind, held[t]) \in H
  PROVE  HeededSlot(CurSlot(t), kind, H)
<1>1. t <= task_id_ctr
  BY ActiveIsInUse DEF Running
<1>2. clock[t] # 0 /\ seg[t] \in Nat /\ status[t] # "finished"
  BY <1>1 DEF KinInv, Lineage, TasksTypeOK, Running
<1>3. \A d \in Task : <<t, seg[t]>> \notin before[d]
  BY <1>2 DEF KinInv, Unseen
<1>4. Heeded(t, seg[t], clock[t])
  BY <1>3 DEF Heeded
<1>5. /\ AccessOf(t, kind, held[t]).task = t
      /\ AccessOf(t, kind, held[t]).seg = seg[t]
      /\ AccessOf(t, kind, held[t]).kind = kind
      /\ CurSlot(t).tid = t /\ CurSlot(t).clk = clock[t]
  BY DEF AccessOf, CurSlot
<1>6. QED
  BY <1>2, <1>4, <1>5 DEF HeededSlot

LEMMA HeededGrows ==
  ASSUME NEW H, NEW K, H \subseteq K, NEW e, HeededEntry(e, H)
  PROVE  HeededEntry(e, K)
BY DEF HeededEntry, HeededPair, HeededSlot

LEMMA HeededRecord ==
  ASSUME NEW H, NEW kind \in AccessType, NEW e \in LockState, HeededEntry(e, H),
         NEW pair \in Slot \X Slot, HeededPair(pair, kind, H)
  PROVE  HeededEntry(WithSlots(e, kind, pair), H)
<1>1. CASE kind = READ
  <2>1. WithSlots(e, kind, pair).rd = pair /\ WithSlots(e, kind, pair).wr = e.wr
    BY <1>1 DEF WithSlots, LockState
  <2>2. QED
    BY <1>1, <2>1 DEF HeededEntry
<1>2. CASE kind = WRITE
  <2>1. WithSlots(e, kind, pair).wr = pair /\ WithSlots(e, kind, pair).rd = e.rd
    BY <1>2 DEF WithSlots, LockState, READ, WRITE
  <2>2. QED
    BY <1>2, <2>1 DEF HeededEntry
<1>3. QED
  BY <1>1, <1>2 DEF AccessType

LEMMA RecordHeeds ==
  ASSUME TasksTypeOK, ShadowTypeOK, Tidy, cursize < NUM_FIXED_VAR_ENTRIES,
         NEW t \in Task, NEW kind \in AccessType, RecordMem(t, kind),
         ~ FirstAccess => WordHeeded,
         NEW H, history \subseteq H, HeededSlot(CurSlot(t), kind, H)
  PROVE  \/ v' = v /\ cursize' = cursize
         \/ /\ \A i \in Entry : HeededEntry(v'[i], H)
            /\ \A i \in Entry : i > cursize' => v'[i] = NoAccess
<1>1. /\ CurSlot(t) \in Slot /\ Empty \in Slot /\ lockset[t] \in SUBSET Locks
      /\ NoAccess \in LockState /\ v \in [Entry -> LockState]
      /\ cursize \in Entry /\ cursize \in Nat /\ 0 \in Entry
  BY SlotTypes, NoAccessType, EntriesInRange DEF ShadowTypeOK
<1>2. HeededPair(<<CurSlot(t), Empty>>, kind, H)
  BY DEF HeededPair, HeededSlot, Empty
<1>3. <<CurSlot(t), Empty>> \in Slot \X Slot
  BY <1>1
<1>4. \A L \in SUBSET Locks :
        LET e == [NoAccess EXCEPT !.lockset = L]
        IN  e \in LockState /\ HeededEntry(e, H)
  BY <1>1 DEF NoAccess, LockState, HeededEntry, HeededPair, HeededSlot, Empty
<1>5. HeededEntry(NoAccess, H)
  BY DEF NoAccess, HeededEntry, HeededPair, HeededSlot, Empty
<1>6. ~ FirstAccess => \A i \in Entry : HeededEntry(v[i], H)
  BY HeededGrows DEF WordHeeded
<1>7. \A i \in Entry : i > cursize => v[i] = NoAccess
  BY DEF Tidy
<1>8. \A i \in Entry : i \in Nat
  BY DEF Entry, NUM_FIXED_VAR_ENTRIES
<1>9. CASE UNCHANGED shadowVars
  BY <1>9 DEF shadowVars
<1>10. CASE RecordFirst(t, kind)
  <2> DEFINE e == WithSlots(NoAccess, kind, <<CurSlot(t), Empty>>)
  <2>1. e \in LockState /\ HeededEntry(e, H)
    BY <1>1, <1>2, <1>3, <1>5, WithSlotsType, HeededRecord
  <2>2. HeededEntry([e EXCEPT !.lockset = lockset[t]], H)
    BY <2>1 DEF HeededEntry, LockState
  <2>3. HeededEntry(v'[0], H) /\ cursize' = 0
    BY <1>1, <1>10, <2>1, <2>2 DEF RecordFirst
  <2>4. \A i \in Entry : i # 0 => v'[i] = IF i <= cursize THEN NoAccess ELSE v[i]
    BY <1>10 DEF RecordFirst
  <2>5. \A i \in Entry : i # 0 => v'[i] = NoAccess
    BY <1>1, <1>7, <1>8, <2>4
  <2>6. \A i \in Entry : i > cursize' => i # 0
    BY <1>8, <2>3
  <2>7. QED
    BY <1>5, <2>3, <2>5, <2>6
<1>11. ASSUME NEW i \in Entry, i <= cursize, RecordInEntry(t, i, kind), ~ FirstAccess
       PROVE  /\ \A k \in Entry : HeededEntry(v'[k], H)
              /\ \A k \in Entry : k > cursize' => v'[k] = NoAccess
  <2> DEFINE pair == SlotsOf(v[i], kind)
  <2>1. v[i] \in LockState /\ pair \in Slot \X Slot /\ HeededPair(pair, kind, H)
    BY <1>1, <1>6, <1>11 DEF LockState, SlotsOf, HeededEntry, AccessType
  <2>2. /\ UpdateSlots(t, pair) \in Slot \X Slot
        /\ HeededPair(UpdateSlots(t, pair), kind, H)
    <3>1. HeededPair(UpdateSlots(t, pair), kind, H)
      BY <2>1 DEF UpdateSlots, HeededPair
    <3>2. QED
      BY <2>1, <3>1, UpdateSlotsType
  <2>3. HeededEntry(WithSlots(v[i], kind, UpdateSlots(t, pair)), H)
    BY <1>6, <1>11, <2>1, <2>2, HeededRecord
  <2>4. cursize' = cursize /\ \A k \in Entry : k > cursize => k # i
    BY <1>1, <1>8, <1>11 DEF RecordInEntry
  <2>5. v' = [v EXCEPT ![i] = WithSlots(v[i], kind, UpdateSlots(t, pair))]
    BY <1>1, <1>11 DEF RecordInEntry
  <2>6. QED
    BY <1>1, <1>6, <1>7, <1>11, <2>3, <2>4, <2>5
<1>12. ASSUME RecordNewEntry(t, kind), ~ FirstAccess
       PROVE  /\ \A k \in Entry : HeededEntry(v'[k], H)
              /\ \A k \in Entry : k > cursize' => v'[k] = NoAccess
  <2> DEFINE e == [NoAccess EXCEPT !.lockset = lockset[t]]
             new == WithSlots(e, kind, <<CurSlot(t), Empty>>)
  <2>1. e \in LockState /\ HeededEntry(e, H)
    BY <1>1, <1>4
  <2>2. HeededEntry(new, H)
    BY <1>2, <1>3, <2>1, HeededRecord
  <2>3. v' = [v EXCEPT ![cursize] = new] /\ cursize' = cursize + 1
    BY <1>12 DEF RecordNewEntry
  <2> HIDE DEF new
  <2>4. \A k \in Entry : k > cursize' => k > cursize /\ k # cursize
    BY <1>1, <1>8, <2>3
  <2>5. QED
    BY <1>1, <1>6, <1>7, <1>12, <2>2, <2>3, <2>4
<1>13. ASSUME NEW i, StopAt(t, i, kind) PROVE v' = v /\ cursize' = cursize
  BY <1>13 DEF StopAt, shadowVars
<1>14. Matching(t) # {} => Max(Matching(t)) \in Entry /\ Max(Matching(t)) <= cursize
  <2>1. Matching(t) \in SUBSET (0 .. 2)
    BY <1>1 DEF Matching, Entry, NUM_FIXED_VAR_ENTRIES
  <2>2. \A i \in Matching(t) : i <= cursize
    BY <1>1 DEF Matching
  <2>3. QED
    BY <2>1, <2>2, MaxMember, EntriesInRange
<1>15. QED
  BY <1>9, <1>10, <1>11, <1>12, <1>13, <1>14 DEF RecordMem

(* A slot an access is checked against stands for a conflicting access.    *)
LEMMA ConflictingHeeded ==
  ASSUME NEW H, NEW kind \in AccessType, NEW e \in LockState,
         HeededEntry(e, H), NEW j \in DOMAIN ConflictingSlots(e, kind)
  PROVE  LET x == ConflictingSlots(e, kind)[j] IN HeededSlot(x, x.kind, H)
<1> DEFINE tag(x, k) == [tid |-> x.tid, clk |-> x.clk, kind |-> k]
           good(x) == HeededSlot(x, x.kind, H)
<1>1. \A x, k : HeededSlot(x, k, H) => good(tag(x, k))
  BY DEF HeededSlot
<1>2. /\ good(tag(e.wr[1], WRITE)) /\ good(tag(e.wr[2], WRITE))
      /\ good(tag(e.rd[1], READ)) /\ good(tag(e.rd[2], READ))
  BY <1>1 DEF HeededEntry, HeededPair
<1>3. /\ kind = READ =>
           ConflictingSlots(e, kind) = <<tag(e.wr[1], WRITE), tag(e.wr[2], WRITE)>>
      /\ kind # READ =>
           ConflictingSlots(e, kind) =
             <<tag(e.wr[1], WRITE), tag(e.wr[2], WRITE),
               tag(e.rd[1], READ), tag(e.rd[2], READ)>>
  BY ConcatPairs DEF ConflictingSlots
<1> HIDE DEF tag
<1>4. CASE kind = READ
  <2>1. \/ ConflictingSlots(e, kind)[j] = tag(e.wr[1], WRITE)
        \/ ConflictingSlots(e, kind)[j] = tag(e.wr[2], WRITE)
    BY <1>3, <1>4
  <2>2. QED
    BY <1>2, <2>1
<1>5. CASE kind # READ
  <2>1. \/ ConflictingSlots(e, kind)[j] = tag(e.wr[1], WRITE)
        \/ ConflictingSlots(e, kind)[j] = tag(e.wr[2], WRITE)
        \/ ConflictingSlots(e, kind)[j] = tag(e.rd[1], READ)
        \/ ConflictingSlots(e, kind)[j] = tag(e.rd[2], READ)
    BY <1>3, <1>5
  <2>2. QED
    BY <1>2, <2>1
<1>6. QED
  BY <1>4, <1>5

LEMMA DeadStartsAnew ==
  ASSUME ShadowTypeOK, cursize < NUM_FIXED_VAR_ENTRIES, WordDead
  PROVE  FirstAccess
<1>1. 0 .. cursize \subseteq Entry
  BY DEF ShadowTypeOK, Entry, NUM_FIXED_VAR_ENTRIES
<1>2. QED
  BY <1>1 DEF WordDead, FirstAccess

(* The race that is reported was one: the slot is not ordered, so whoever  *)
(* it stands for is not known.                                             *)
LEMMA ReportHeeded ==
  ASSUME TasksTypeOK, ShadowTypeOK, cursize < NUM_FIXED_VAR_ENTRIES,
         NEW t \in Task, NEW kind \in AccessType, RecordMem(t, kind),
         ~ FirstAccess => WordHeeded,
         all_violations' # all_violations, all_violations'[1] # all_violations'[3]
  PROVE  LET w == all_violations'
         IN  \E a \in history : /\ a.task = w[1] /\ a.kind = w[2]
                                /\ Concurrent(w[3], a)
<1> DEFINE i == Min(ScanStops(t, kind))
<1>1. /\ ~ FirstAccess /\ ScanStops(t, kind) # {} /\ StopAt(t, i, kind)
  BY DEF RecordMem, shadowVars, RecordFirst, RecordInEntry, RecordNewEntry
<1>2. i \in Entry /\ Stops(t, i, kind)
  <2>1. ScanStops(t, kind) \in SUBSET (0 .. 4)
    BY DEF ScanStops, ShadowTypeOK, NUM_FIXED_VAR_ENTRIES
  <2>2. i \in ScanStops(t, kind)
    BY <1>1, <2>1, MinMember
  <2>3. QED
    BY <1>1, <2>2, EntriesInRange DEF ScanStops
<1> HIDE DEF i
<1>3. v[i] \in LockState /\ HeededEntry(v[i], history)
  BY <1>1, <1>2 DEF ShadowTypeOK, WordHeeded
<1>4. ~ SameEpoch(t, v[i], kind)
  BY <1>1 DEF StopAt, shadowVars
<1> DEFINE j == Min(RacingSlots(t, v[i], kind))
           x == ConflictingSlots(v[i], kind)[j]
<1>5. j \in DOMAIN ConflictingSlots(v[i], kind) /\ ~ HappensBeforeSlot(t, x)
  <2>1. RacingSlots(t, v[i], kind) # {}
    BY <1>2, <1>4 DEF Stops
  <2>2. \A k \in DOMAIN ConflictingSlots(v[i], kind) : k \in 1 .. 4
    BY <1>3, ConflictingType
  <2>3. RacingSlots(t, v[i], kind) \in SUBSET (0 .. 4)
    BY <2>2 DEF RacingSlots
  <2>4. j \in RacingSlots(t, v[i], kind)
    BY <2>1, <2>3, MinMember
  <2>5. QED
    BY <2>4 DEF RacingSlots
<1>6. HeededSlot(x, x.kind, history)
  BY <1>3, <1>5, ConflictingHeeded
<1>7. all_violations' = <<x.tid, x.kind, t, kind>>
  BY <1>1, <1>4 DEF StopAt
<1> HIDE DEF x, j
<1>8. x.clk # 0 /\ ~ OrderedBefore(t, x.tid, x.clk)
  BY <1>5 DEF HappensBeforeSlot
<1>9. PICK a \in history : /\ a.task = x.tid /\ a.kind = x.kind
                           /\ Heeded(a.task, a.seg, x.clk)
  BY <1>6, <1>8 DEF HeededSlot
<1>10. x.tid # t
  BY <1>7
<1>11. <<a.task, a.seg>> \notin before[t]
  BY <1>8, <1>9, <1>10 DEF Heeded
<1>12. Concurrent(t, a)
  BY <1>9, <1>10, <1>11 DEF Concurrent
<1>13. QED
  BY <1>7, <1>9, <1>12

LEMMA AccessHeeds ==
  ASSUME TasksTypeOK, TreeInv, KinInv, ShadowTypeOK, ShadowTypeOK', HeedInv,
         NEW t \in Task, NEW kind \in AccessType, Access(t, kind), t # 0
  PROVE  KinInv' /\ HeedInv'
<1>1. /\ UNCHANGED <<tbbVars, taskVars, lockVars, deadVars, orderVars>>
      /\ history' = history \cup {AccessOf(t, kind, held[t])}
      /\ Running(t) /\ RecordMem(t, kind) /\ cursize < NUM_FIXED_VAR_ENTRIES
  BY DEF Access, HBAccess
<1>2. KinInv'
  BY <1>1, StillRests, RestKeepsKin
<1>3. UNCHANGED <<m_vc, ancClock, joinset, before, clock, task_id_ctr>> /\ UNCHANGED deadVars
  BY <1>1 DEF taskVars, orderVars
<1>4. t <= task_id_ctr /\ seg[t] \in Nat
  BY <1>1, ActiveIsInUse DEF Running, TasksTypeOK
<1>5. MainIdle'
  <2>1. /\ AccessOf(t, kind, held[t]).task = t
        /\ AccessOf(t, kind, held[t]).seg = seg[t]
    BY DEF AccessOf
  <2>2. QED
    BY <1>1, <1>3, <1>4, <2>1 DEF HeedInv, MainIdle
<1>6. ~ FirstAccess => WordHeeded
  BY <1>1, DeadStartsAnew DEF HeedInv
<1>7. HeededSlot(CurSlot(t), kind, history')
  BY <1>1, CurHeeded
<1>8. history \subseteq history'
  BY <1>1
<1>9. \/ v' = v /\ cursize' = cursize
      \/ /\ \A i \in Entry : HeededEntry(v'[i], history')
         /\ \A i \in Entry : i > cursize' => v'[i] = NoAccess
  BY <1>1, <1>6, <1>7, <1>8, RecordHeeds DEF HeedInv
<1>10. ASSUME NEW i \in Entry, HeededEntry(v'[i], history')
       PROVE  /\ HeededEntry(v[i], history)'
              /\ \A x \in Slots(v'[i]) : x.clk = 0 => x.tid = 0
  <2>1. /\ v'[i].rd[1] \in Slot /\ v'[i].rd[2] \in Slot
        /\ v'[i].wr[1] \in Slot /\ v'[i].wr[2] \in Slot
    BY DEF ShadowTypeOK, LockState
  <2>2. ASSUME NEW x \in Slot, NEW k, HeededSlot(x, k, history')
        PROVE  HeededSlot(x, k, history)'
    <3>1. CASE x.clk = 0
      BY <2>2, <3>1 DEF HeededSlot
    <3>2. CASE x.clk # 0
      <4>1. PICK a \in history' : /\ a.task = x.tid /\ a.kind = k
                                  /\ Heeded(a.task, a.seg, x.clk)
        BY <2>2, <3>2 DEF HeededSlot
      <4>2. x.tid \in Task /\ x.clk \in Nat /\ a.seg \in Nat
        BY <1>5, <4>1 DEF Slot, MainIdle
      <4>3. Heeded(a.task, a.seg, x.clk)'
        BY <1>3, <4>1, <4>2, StillHeeds
      <4>4. QED
        BY <3>2, <4>1, <4>3 DEF HeededSlot
    <3>3. QED
      BY <3>1, <3>2
  <2>3. HeededEntry(v[i], history)'
    BY <1>10, <2>1, <2>2 DEF HeededEntry, HeededPair
  <2>4. \A x \in Slots(v'[i]) : x.clk = 0 => x.tid = 0
    BY <1>10 DEF HeededEntry, HeededPair, HeededSlot, Slots
  <2>5. QED
    BY <2>3, <2>4
<1>11. CASE /\ \A i \in Entry : HeededEntry(v'[i], history')
            /\ \A i \in Entry : i > cursize' => v'[i] = NoAccess
  <2>1. WordHeeded'
    BY <1>10, <1>11 DEF WordHeeded
  <2>2. Tidy'
    BY <1>10, <1>11 DEF Tidy, Slots
  <2>3. QED
    BY <1>2, <1>5, <2>1, <2>2 DEF HeedInv
<1>12. CASE v' = v /\ cursize' = cursize
  <2>1. Tidy'
    BY <1>12 DEF HeedInv, Tidy, Slots
  <2>2. CASE WordDead
    <3>1. WordDead'
      BY <1>3, <1>12, <2>2 DEF WordDead, check_dead, deadVars, Slots
    <3>2. QED
      BY <1>2, <1>5, <2>1, <3>1 DEF HeedInv
  <2>3. CASE WordHeeded
    <3>1. \A i \in Entry : HeededEntry(v'[i], history')
      BY <1>8, <1>12, <2>3, HeededGrows DEF WordHeeded
    <3>2. WordHeeded'
      BY <1>10, <3>1 DEF WordHeeded
    <3>3. QED
      BY <1>2, <1>5, <2>1, <3>2 DEF HeedInv
  <2>4. QED
    BY <2>2, <2>3 DEF HeedInv
<1>13. QED
  BY <1>9, <1>11, <1>12

-----------------------------------------------------------------------------
(***************************************************************************)
(* The invariant of the programs with reports, and what it says of a step  *)
(* that reports.                                                           *)
(***************************************************************************)
ReportInv ==
  /\ TasksInv /\ ShadowTypeOK /\ SlotsAreAccesses /\ ReportNamesAccesses
  /\ program = "reports" => KinInv /\ HeedInv

LEMMA ReportInit == MCInit => ReportInv
<1> SUFFICES ASSUME MCInit PROVE ReportInv
  OBVIOUS
<1>1. Init
  BY DEF MCInit
<1>2. TasksInv /\ ShadowTypeOK /\ SlotsAreAccesses /\ ReportNamesAccesses
  BY <1>1, TasksInitType, TreeInit, ShadowInitType, GoodInit DEF Init, TasksInv
<1>3. KinInv /\ HeedInv
  BY <1>1, KinInit, HeedInit DEF Init
<1>4. QED
  BY <1>2, <1>3 DEF ReportInv

LEMMA ReportStep ==
  ASSUME ReportInv, [MCNext]_mcVars
  PROVE  /\ ReportInv'
         /\ program = "reports" /\ all_violations' # all_violations =>
              LET w == all_violations'
              IN  \E a \in history : /\ a.task = w[1] /\ a.kind = w[2]
                                     /\ Concurrent(w[3], a)
                                     /\ WRITE \in {w[2], w[4]}
<1>1. [Next]_vars /\ program' = program
  BY DEF MCNext, mcVars
<1>2. /\ TasksInv /\ ShadowTypeOK /\ SlotsAreAccesses /\ ReportNamesAccesses
      /\ TasksInv' /\ ShadowTypeOK' /\ SlotsAreAccesses' /\ ReportNamesAccesses'
  BY <1>1, GenuineStep DEF ReportInv
<1>3. TasksTypeOK /\ TreeInv /\ TasksTypeOK' /\ TreeInv'
  BY <1>2 DEF TasksInv
<1>4. CASE program # "reports"
  BY <1>1, <1>2, <1>4 DEF ReportInv
<1>5. CASE program = "reports" /\ UNCHANGED vars
  <2>1. UNCHANGED <<tbbVars, taskVars, deadVars, orderVars>> /\ UNCHANGED shadowVars
        /\ history' = history
    BY <1>5 DEF vars, allTaskVars, hbVars, shadowVars
  <2>2. KinInv'
    BY <1>5, <2>1, StillRests, RestKeepsKin DEF ReportInv
  <2>3. HeedInv'
    <3>1. /\ UNCHANGED <<m_vc, ancClock, joinset, before, clock, task_id_ctr>>
          /\ UNCHANGED deadVars
      BY <2>1 DEF taskVars, orderVars
    <3>2. \A u \in Task, n, k \in Nat : Heeded(u, n, k) => Heeded(u, n, k)'
      BY <3>1, StillHeeds
    <3>3. task_id_ctr' \in Nat /\ task_id_ctr <= task_id_ctr'
      <4>1. task_id_ctr \in Nat /\ task_id_ctr' = task_id_ctr
        BY <1>3, <3>1, TaskFacts DEF TasksTypeOK
      <4>2. QED
        BY <4>1
    <3>4. QED
      BY <1>2, <1>3, <1>5, <2>1, <3>1, <3>2, <3>3, WordStays DEF ReportInv
  <2>4. QED
    BY <1>1, <1>2, <1>5, <2>1, <2>2, <2>3 DEF ReportInv, shadowVars
<1>6. CASE program = "reports" /\ MCNext
  <2>1. /\ SpawnsOwn /\ MainIsIdle /\ Next /\ KinInv /\ HeedInv
    BY <1>6 DEF MCNext, Allowed, ReportInv
  <2>2. ASSUME TaskStep, UNCHANGED shadowVars
        PROVE  KinInv' /\ HeedInv' /\ all_violations' = all_violations
    BY <1>2, <1>3, <2>1, <2>2, TasksHeed DEF shadowVars
  <2>3. ASSUME NEW t \in Task, NEW kind \in AccessType, Access(t, kind)
        PROVE  /\ KinInv' /\ HeedInv'
               /\ all_violations' # all_violations =>
                    LET w == all_violations'
                    IN  \E a \in history : /\ a.task = w[1] /\ a.kind = w[2]
                                           /\ Concurrent(w[3], a)
                                           /\ WRITE \in {w[2], w[4]}
    <3>1. AccessOf(t, kind, held[t]) \in history' /\ RecordMem(t, kind)
          /\ cursize < NUM_FIXED_VAR_ENTRIES
      BY <2>3 DEF Access, HBAccess
    <3>2. t # 0
      BY <2>1, <3>1 DEF MainIsIdle, AccessOf
    <3>3. KinInv' /\ HeedInv'
      BY <1>2, <1>3, <2>1, <2>3, <3>2, AccessHeeds
    <3>4. ASSUME all_violations' # all_violations
          PROVE  LET w == all_violations'
                 IN  \E a \in history : /\ a.task = w[1] /\ a.kind = w[2]
                                        /\ Concurrent(w[3], a)
                                        /\ WRITE \in {w[2], w[4]}
      <4>1. all_violations' # <<>>
        BY <3>1, <3>4 DEF RecordMem, StopAt, shadowVars, RecordFirst, RecordInEntry,
           RecordNewEntry
      <4>2. all_violations'[1] # all_violations'[3]
            /\ WRITE \in {all_violations'[2], all_violations'[4]}
        BY <1>2, <4>1 DEF ReportNamesAccesses
      <4>3. ~ FirstAccess => WordHeeded
        BY <1>2, <2>1, <3>1, DeadStartsAnew DEF HeedInv
      <4>4. QED
        BY <1>2, <1>3, <3>1, <3>4, <4>2, <4>3, ReportHeeded
    <3>5. QED
      BY <3>3, <3>4
  <2>4. CASE UNCHANGED vars
    BY <1>5, <1>6, <2>4
  <2>5. QED
    BY <1>1, <1>2, <1>6, <2>1, <2>2, <2>3, <2>4 DEF Next, Terminated, ReportInv
<1>7. QED
  BY <1>1, <1>4, <1>5, <1>6 DEF mcVars

(***************************************************************************)
(* Whatever the locks, and although tasks wait for roots and leave         *)
(* children behind, FastRacer reports only accesses that were concurrent   *)
(* and conflicting: RecordMem finds no slot racing whose access happened   *)
(* before the present one.                                                 *)
(***************************************************************************)
THEOREM ReportsAreConcurrent == MCSpec => ReportIsConcurrent
<1> DEFINE Genuine == program = "reports" /\ all_violations' # all_violations =>
                        LET w == all_violations'
                        IN  \E a \in history : /\ a.task = w[1] /\ a.kind = w[2]
                                               /\ Concurrent(w[3], a)
                                               /\ WRITE \in {w[2], w[4]}
<1>1. MCInit => ReportInv
  BY ReportInit
<1>2. ReportInv /\ [MCNext]_mcVars => ReportInv' /\ Genuine
  BY ReportStep
<1>3. QED
  BY <1>1, <1>2, PTL DEF MCSpec, ReportIsConcurrent

-----------------------------------------------------------------------------
(***************************************************************************)
(* Verdicts change only by a step of the task that asks, in fork-join      *)
(* programs and where siblings of a root are spawned.  A join moves the    *)
(* find_root of finished tasks to the task that waited for them, and no    *)
(* task that goes on is below either of the two.                           *)
(***************************************************************************)
Active(t) == status[t] \notin {"unborn", "finished"}

MainOnTop ==
  /\ \A u \in Task : ancClock[0][u] = 0
  /\ status[0] # "ready" /\ \A t \in Task : status[t] = "rootwait" => t = 0
  /\ \A t \in Task : status[t] # "unborn" => clock[t] # 0

ChildLists ==
  /\ \A t \in Task : joinset[t] # 0 => status[t] = "finished"
  /\ \A p, c \in Task : p # 0 /\ c \in tbb_children[p] =>
       c # 0 /\ status[c] # "unborn" /\ joinset[c] = 0 /\ parent_taskId[c] = p
  /\ \A p \in Task : p # 0 => child_list[p] = tbb_children[p]
  /\ \A p \in Task : p # 0 /\ status[p] \in {"unborn", "ready", "finished"}
                       => tbb_children[p] = {}

(* Above a task that goes on are tasks that go on, and each has a child,   *)
(* on the way down, that it will have to wait for.                         *)
Awaiting ==
  \A t, w \in Task : t # 0 /\ w # 0 /\ Active(t) /\ ancClock[t][w] # 0 =>
    /\ Active(w)
    /\ \E d \in tbb_children[w] : d = t \/ ancClock[t][d] # 0

StableInv == MainOnTop /\ ChildLists /\ Awaiting

(***************************************************************************)
(* The steps of these programs: a spawn, a wait of a task, a wait of main, *)
(* and the rest.                                                           *)
(***************************************************************************)
BookStep(s, p, c) ==
  /\ Running(s) /\ NewTaskId(c) /\ CaptureSpawn(s, p, c)
  /\ p = s \/ (p = 0 /\ status[0] = "rootwait")
  /\ status'[c] = "ready" /\ status'[s] \in {"running", "waiting", "rootwait"}
  /\ status'[s] = "rootwait" => s = 0
  /\ \A t \in Task : t # s /\ t # c => status'[t] = status[t]
  /\ \A t \in Task : t # 0 =>
       tbb_children'[t] = IF t = p THEN tbb_children[t] \cup {c} ELSE tbb_children[t]

GatherStep(w) ==
  /\ w # 0 /\ status[w] = "waiting" /\ status'[w] = "running"
  /\ \A t \in Task : t # w => status'[t] = status[t]
  /\ \A c \in tbb_children[w] : status[c] = "finished"
  /\ \A c \in Task : joinset'[c] = IF c \in tbb_children[w] THEN w + 1 ELSE joinset[c]
  /\ \A c \in Task : child_list'[c] = IF c = w THEN {} ELSE child_list[c]
  /\ \A c \in Task : tbb_children'[c] = IF c = w THEN {} ELSE tbb_children[c]
  /\ seg'[w] = seg[w] + 1
  /\ UNCHANGED <<m_vc, ancClock, clock, parent_taskId, task_id_ctr>>

MainStep ==
  /\ status[0] \in {"waiting", "rootwait"} /\ status'[0] = "running"
  /\ \A t \in Task : t # 0 => /\ status'[t] = status[t] /\ clock'[t] = clock[t]
                              /\ child_list'[t] = child_list[t]
                              /\ tbb_children'[t] = tbb_children[t]
  /\ clock'[0] \in {clock[0], clock[0] + 1}
  /\ seg'[0] = seg[0] + 1
  /\ UNCHANGED <<m_vc, ancClock, joinset, parent_taskId, task_id_ctr>>

Goes(a, b) ==
  \/ b = a
  \/ a \in {"ready", "running"} /\ b \in {"running", "waiting"}
  \/ a = "running" /\ b = "finished"

CalmStep ==
  /\ UNCHANGED <<m_vc, ancClock, clock, joinset, parent_taskId, child_list,
                 tbb_children, task_id_ctr>>
  /\ \A t \in Task : /\ Goes(status[t], status'[t])
                     /\ t # 0 /\ status'[t] = "finished" => tbb_children[t] = {}

(* Which programs take only such steps.                                    *)
Calm == RootsByMain /\ WaitsForChildren /\ SpawnsUnderRootWait

LEMMA BookValues ==
  ASSUME TasksTypeOK, NEW s \in Task, NEW p \in Task, NEW c \in Task, p # c, s # c,
         CaptureSpawn(s, p, c)
  PROVE  /\ clock'[p] = clock[p] + 1 /\ clock'[c] = 1
         /\ \A t \in Task : t # p /\ t # c => clock'[t] = clock[t]
         /\ ancClock'[c][p] = clock[p]
         /\ \A u \in Task : u # p => ancClock'[c][u] = ancClock[p][u]
         /\ \A t \in Task : t # c => ancClock'[t] = ancClock[t]
         /\ \A t \in Task : t # c => m_vc'[t] = m_vc[t]
         /\ parent_taskId'[c] = p
         /\ \A t \in Task : t # c => parent_taskId'[t] = parent_taskId[t]
         /\ child_list'[p] = child_list[p] \cup {c}
         /\ \A t \in Task : t # p => child_list'[t] = child_list[t]
         /\ seg'[s] = seg[s] + 1 /\ \A t \in Task : t # s /\ t # c => seg'[t] = seg[t]
         /\ joinset' = joinset
<1>1. /\ clock \in [Task -> Nat] /\ child_list \in [Task -> SUBSET Task]
      /\ ancClock \in [Task -> [Task -> Nat]] /\ parent_taskId \in [Task -> Task]
      /\ seg \in [Task -> Nat] /\ m_vc \in [Task -> Seq(Nat)]
  BY DEF TasksTypeOK
<1>2. /\ m_vc' = [m_vc EXCEPT ![c] = Append(m_vc[p], clock[p] + 1)]
      /\ ancClock' = [ancClock EXCEPT ![c] = [ancClock[p] EXCEPT ![p] = clock[p]]]
      /\ clock' = [clock EXCEPT ![p] = @ + 1, ![c] = 1]
      /\ child_list' = [child_list EXCEPT ![p] = @ \cup {c}]
      /\ parent_taskId' = [parent_taskId EXCEPT ![c] = p]
      /\ seg' = [seg EXCEPT ![s] = @ + 1, ![c] = 1]
      /\ joinset' = joinset
  BY DEF CaptureSpawn, HBFork
<1>3. ancClock'[c] = [ancClock[p] EXCEPT ![p] = clock[p]] /\ ancClock[p] \in [Task -> Nat]
  BY <1>1, <1>2
<1>4. ancClock'[c][p] = clock[p] /\ \A u \in Task : u # p => ancClock'[c][u] = ancClock[p][u]
  BY <1>3
<1>5. QED
  BY <1>1, <1>2, <1>4

LEMMA BookFacts ==
  ASSUME TasksTypeOK, TreeInv, StableInv,
         NEW s \in Task, NEW p \in Task, NEW c \in Task, BookStep(s, p, c)
  PROVE  /\ c # 0 /\ s # c /\ p # c /\ status[c] = "unborn" /\ clock[c] = 0
         /\ clock[p] # 0 /\ 0 \in Task
         /\ \A t \in Task : Active(t) => ancClock[t][c] = 0
<1>1. /\ c # 0 /\ status[c] = "unborn" /\ clock[c] = 0 /\ 0 \in Task
  <2>1. c = task_id_ctr + 1 /\ c \in Nat /\ task_id_ctr \in Nat
    BY TaskFacts DEF BookStep, NewTaskId, TasksTypeOK
  <2>2. c > task_id_ctr /\ c # 0
    BY <2>1
  <2>3. QED
    BY <2>2, TaskFacts DEF TreeInv, Unused
<1>2. s # c /\ p # c
  BY <1>1 DEF BookStep, Running
<1>3. clock[p] # 0
  BY <1>1 DEF BookStep, Running, StableInv, MainOnTop
<1>4. \A t \in Task : Active(t) => ancClock[t][c] = 0
  BY <1>1 DEF StableInv, MainOnTop, Awaiting, Active
<1>5. QED
  BY <1>1, <1>2, <1>3, <1>4

LEMMA BookStable ==
  ASSUME TasksTypeOK, TreeInv, StableInv,
         NEW s \in Task, NEW p \in Task, NEW c \in Task, BookStep(s, p, c)
  PROVE  StableInv'
<1>1. /\ c # 0 /\ s # c /\ p # c /\ status[c] = "unborn" /\ clock[c] = 0
      /\ clock[p] # 0 /\ 0 \in Task
      /\ \A t \in Task : Active(t) => ancClock[t][c] = 0
  BY BookFacts
<1>2. /\ clock'[p] = clock[p] + 1 /\ clock'[c] = 1
      /\ \A t \in Task : t # p /\ t # c => clock'[t] = clock[t]
      /\ ancClock'[c][p] = clock[p]
      /\ \A u \in Task : u # p => ancClock'[c][u] = ancClock[p][u]
      /\ \A t \in Task : t # c => ancClock'[t] = ancClock[t]
      /\ \A t \in Task : t # c => m_vc'[t] = m_vc[t]
      /\ parent_taskId'[c] = p
      /\ \A t \in Task : t # c => parent_taskId'[t] = parent_taskId[t]
      /\ child_list'[p] = child_list[p] \cup {c}
      /\ \A t \in Task : t # p => child_list'[t] = child_list[t]
      /\ seg'[s] = seg[s] + 1 /\ \A t \in Task : t # s /\ t # c => seg'[t] = seg[t]
      /\ joinset' = joinset
  BY <1>1, BookValues DEF BookStep
<1>3. /\ status[s] = "running" /\ (p = s \/ (p = 0 /\ status[0] = "rootwait"))
      /\ status'[c] = "ready" /\ status'[s] \in {"running", "waiting", "rootwait"}
      /\ status'[s] = "rootwait" => s = 0
      /\ \A t \in Task : t # s /\ t # c => status'[t] = status[t]
      /\ \A t \in Task : t # 0 =>
           tbb_children'[t] = IF t = p THEN tbb_children[t] \cup {c} ELSE tbb_children[t]
  BY DEF BookStep, Running
<1>4. clock \in [Task -> Nat] /\ \A t \in Task : clock[t] \in Nat
  BY DEF TasksTypeOK
<1>5. status[s] = "running"
  BY DEF BookStep, Running
<1>6. MainOnTop'
  <2>1. clock'[p] # 0 /\ clock'[c] # 0
    BY <1>2, <1>4
  <2>2. \A t \in Task : status'[t] # "unborn" => clock'[t] # 0
    BY <1>2, <1>3, <1>5, <2>1 DEF StableInv, MainOnTop
  <2>3. QED
    BY <1>1, <1>2, <1>3, <2>2 DEF StableInv, MainOnTop
<1>7. ChildLists'
  <2>1. \A t \in Task : joinset'[t] # 0 => status'[t] = "finished"
    BY <1>1, <1>2, <1>3, <1>5 DEF StableInv, ChildLists
  <2>2. joinset'[c] = 0
    BY <1>1, <1>2 DEF StableInv, ChildLists
  <2>3. \A q, d \in Task : q # 0 /\ d \in tbb_children'[q] =>
          d # 0 /\ status'[d] # "unborn" /\ joinset'[d] = 0 /\ parent_taskId'[d] = q
    <3> SUFFICES ASSUME NEW q \in Task, NEW d \in Task, q # 0, d \in tbb_children'[q]
                 PROVE  /\ d # 0 /\ status'[d] # "unborn"
                        /\ joinset'[d] = 0 /\ parent_taskId'[d] = q
      OBVIOUS
    <3>1. CASE d \in tbb_children[q]
      <4>1. /\ d # 0 /\ status[d] # "unborn" /\ joinset[d] = 0 /\ parent_taskId[d] = q
        BY <3>1 DEF StableInv, ChildLists
      <4>2. QED
        BY <1>1, <1>2, <1>3, <4>1
    <3>2. CASE d = c /\ q = p
      BY <1>1, <1>2, <1>3, <2>2, <3>2
    <3>3. QED
      BY <1>3, <3>1, <3>2
  <2>4. \A q \in Task : q # 0 => child_list'[q] = tbb_children'[q]
    <3>1. \A q \in Task : q # 0 => child_list[q] = tbb_children[q]
      BY DEF StableInv, ChildLists
    <3>2. p # 0 => child_list'[p] = tbb_children'[p]
      BY <1>2, <1>3, <3>1
    <3>3. \A q \in Task : q # 0 /\ q # p => child_list'[q] = tbb_children'[q]
      BY <1>2, <1>3, <3>1
    <3>4. QED
      BY <3>2, <3>3
  <2>5. tbb_children'[c] = {}
    BY <1>1, <1>3 DEF StableInv, ChildLists
  <2>6. \A q \in Task : q # 0 /\ status'[q] \in {"unborn", "ready", "finished"}
                          => tbb_children'[q] = {}
    <3> SUFFICES ASSUME NEW q \in Task, q # 0, q # c,
                        status'[q] \in {"unborn", "ready", "finished"}
                 PROVE  tbb_children'[q] = {}
      BY <2>5
    <3>1. q # s /\ q # p /\ status'[q] = status[q]
      BY <1>1, <1>3
    <3>2. QED
      BY <1>3, <3>1 DEF StableInv, ChildLists
  <2>7. QED
    BY <2>1, <2>3, <2>4, <2>6 DEF ChildLists
<1>8. Awaiting'
  <2> SUFFICES ASSUME NEW t \in Task, NEW w \in Task, t # 0, w # 0, Active(t)',
                      ancClock'[t][w] # 0
               PROVE  /\ Active(w)'
                      /\ \E d \in tbb_children'[w] : d = t \/ ancClock'[t][d] # 0
    BY DEF Awaiting
  <2>1. \A u \in Task : Active(u) => Active(u)'
    BY <1>1, <1>3 DEF Active
  <2>2. tbb_children[w] \subseteq tbb_children'[w] /\ tbb_children[w] \subseteq Task
    BY <1>3 DEF TasksTypeOK
  <2>3. CASE t # c
    <3>1. Active(t)
      BY <1>3, <1>5, <2>3 DEF Active
    <3>2. Active(w) /\ \E d \in tbb_children[w] : d = t \/ ancClock[t][d] # 0
      BY <1>2, <2>3, <3>1 DEF StableInv, Awaiting
    <3>3. QED
      BY <1>2, <2>1, <2>2, <2>3, <3>2
  <2>4. CASE t = c /\ w = p
    <3>1. p = s /\ Active(s)
      BY <1>3, <1>5, <2>4 DEF Active
    <3>2. c \in tbb_children'[p]
      BY <1>3, <2>4
    <3>3. QED
      BY <2>1, <2>4, <3>1, <3>2
  <2>5. CASE t = c /\ w # p
    <3>1. ancClock[p][w] # 0
      BY <1>2, <2>5
    <3>2. p # 0 /\ Active(p)
      BY <1>3, <1>5, <3>1 DEF StableInv, MainOnTop, Active
    <3>3. Active(w) /\ \E d \in tbb_children[w] : d = p \/ ancClock[p][d] # 0
      BY <3>1, <3>2 DEF StableInv, Awaiting
    <3>4. PICK d \in tbb_children[w] : d = p \/ ancClock[p][d] # 0
      BY <3>3
    <3>5. d \in Task /\ ancClock'[c][d] # 0
      BY <1>1, <1>2, <2>2, <3>4
    <3>6. QED
      BY <2>1, <2>2, <2>5, <3>3, <3>4, <3>5
  <2>6. QED
    BY <2>3, <2>4, <2>5
<1>9. QED
  BY <1>6, <1>7, <1>8 DEF StableInv

LEMMA GatherStable ==
  ASSUME TasksTypeOK, StableInv, NEW w \in Task, GatherStep(w)
  PROVE  StableInv'
<1>1. /\ w # 0 /\ status[w] = "waiting" /\ status'[w] = "running"
      /\ \A t \in Task : t # w => status'[t] = status[t]
      /\ \A c \in tbb_children[w] : status[c] = "finished"
      /\ \A c \in Task : joinset'[c] = IF c \in tbb_children[w] THEN w + 1 ELSE joinset[c]
      /\ \A c \in Task : child_list'[c] = IF c = w THEN {} ELSE child_list[c]
      /\ \A c \in Task : tbb_children'[c] = IF c = w THEN {} ELSE tbb_children[c]
      /\ ancClock' = ancClock /\ clock' = clock /\ parent_taskId' = parent_taskId
  BY DEF GatherStep
<1>2. MainOnTop'
  <2>1. status'[0] = status[0]
    BY <1>1, TaskFacts
  <2>2. QED
    BY <1>1, <2>1 DEF StableInv, MainOnTop
<1>3. ChildLists'
  <2>1. \A t \in Task : joinset'[t] # 0 => status'[t] = "finished"
    BY <1>1 DEF StableInv, ChildLists
  <2>2. \A p, c \in Task : p # 0 /\ c \in tbb_children'[p] =>
          c # 0 /\ status'[c] # "unborn" /\ joinset'[c] = 0 /\ parent_taskId'[c] = p
    <3> SUFFICES ASSUME NEW p \in Task, NEW c \in Task, p # 0, c \in tbb_children'[p]
                 PROVE  /\ c # 0 /\ status'[c] # "unborn"
                        /\ joinset'[c] = 0 /\ parent_taskId'[c] = p
      OBVIOUS
    <3>1. p # w /\ c \in tbb_children[p]
      BY <1>1
    <3>2. c # 0 /\ status[c] # "unborn" /\ joinset[c] = 0 /\ parent_taskId[c] = p
      BY <3>1 DEF StableInv, ChildLists
    <3>3. c \notin tbb_children[w]
      BY <1>1, <3>1, <3>2 DEF StableInv, ChildLists
    <3>4. QED
      BY <1>1, <3>2, <3>3
  <2>3. QED
    BY <1>1, <2>1, <2>2 DEF StableInv, ChildLists
<1>4. Awaiting'
  <2> SUFFICES ASSUME NEW t \in Task, NEW u \in Task, t # 0, u # 0, Active(t)',
                      ancClock'[t][u] # 0
               PROVE  /\ Active(u)'
                      /\ \E d \in tbb_children'[u] : d = t \/ ancClock'[t][d] # 0
    BY DEF Awaiting
  <2>1. \A x \in Task : Active(x)' <=> Active(x)
    BY <1>1 DEF Active
  <2>2. Active(u) /\ \E d \in tbb_children[u] : d = t \/ ancClock[t][d] # 0
    BY <1>1, <2>1 DEF StableInv, Awaiting
  <2>3. u # w
    <3> SUFFICES ASSUME u = w PROVE FALSE
      OBVIOUS
    <3>1. PICK d \in tbb_children[w] : d = t \/ ancClock[t][d] # 0
      BY <2>2
    <3>2. d \in Task /\ d # 0 /\ status[d] = "finished"
      <4>1. d \in Task
        BY DEF TasksTypeOK
      <4>2. QED
        BY <1>1, <4>1 DEF StableInv, ChildLists
    <3>3. ~ Active(d)
      BY <3>2 DEF Active
    <3>4. QED
      BY <2>1, <3>1, <3>2, <3>3 DEF StableInv, Awaiting
  <2>4. QED
    BY <1>1, <2>1, <2>2, <2>3
<1>5. QED
  BY <1>2, <1>3, <1>4 DEF StableInv

LEMMA MainStable ==
  ASSUME TasksTypeOK, StableInv, MainStep
  PROVE  StableInv'
<1>1. /\ status[0] \in {"waiting", "rootwait"} /\ status'[0] = "running" /\ 0 \in Task
      /\ \A t \in Task : t # 0 => /\ status'[t] = status[t] /\ clock'[t] = clock[t]
                                  /\ child_list'[t] = child_list[t]
                                  /\ tbb_children'[t] = tbb_children[t]
      /\ clock'[0] \in {clock[0], clock[0] + 1} /\ clock[0] \in Nat
      /\ joinset' = joinset /\ parent_taskId' = parent_taskId /\ ancClock' = ancClock
  BY TaskFacts DEF MainStep, TasksTypeOK
<1>2. \A t \in Task : Active(t)' <=> Active(t)
  BY <1>1 DEF Active
<1>3. clock[0] # 0
  BY <1>1 DEF StableInv, MainOnTop
<1>4. clock'[0] # 0
  BY <1>1, <1>3
<1>5. \A t \in Task : status'[t] = "finished" <=> status[t] = "finished"
  BY <1>1
<1>6. MainOnTop'
  BY <1>1, <1>4 DEF StableInv, MainOnTop
<1>7. ChildLists'
  BY <1>1, <1>5 DEF StableInv, ChildLists
<1>8. Awaiting'
  BY <1>1, <1>2 DEF StableInv, Awaiting
<1>9. QED
  BY <1>6, <1>7, <1>8 DEF StableInv

LEMMA CalmStable ==
  ASSUME StableInv, CalmStep
  PROVE  StableInv'
<1>1. /\ ancClock' = ancClock /\ clock' = clock /\ joinset' = joinset
      /\ parent_taskId' = parent_taskId /\ child_list' = child_list
      /\ tbb_children' = tbb_children
      /\ \A t \in Task : /\ Goes(status[t], status'[t])
                         /\ t # 0 /\ status'[t] = "finished" => tbb_children[t] = {}
  BY DEF CalmStep
<1>2. \A t \in Task : /\ status[t] = "finished" => status'[t] = "finished"
                      /\ status'[t] \in {"unborn", "ready", "rootwait"} => status'[t] = status[t]
                      /\ status[t] # "unborn" => status'[t] # "unborn"
                      /\ status[t] = "unborn" => status'[t] = "unborn"
  BY <1>1 DEF Goes
<1>3. MainOnTop'
  BY <1>1, <1>2, TaskFacts DEF StableInv, MainOnTop
<1>4. ChildLists'
  BY <1>1, <1>2 DEF StableInv, ChildLists
<1>5. Awaiting'
  <2> SUFFICES ASSUME NEW t \in Task, NEW w \in Task, t # 0, w # 0, Active(t)',
                      ancClock[t][w] # 0
               PROVE  /\ Active(w)'
                      /\ \E d \in tbb_children[w] : d = t \/ ancClock[t][d] # 0
    BY <1>1 DEF Awaiting
  <2>1. Active(t)
    BY <1>2 DEF Active
  <2>2. Active(w) /\ \E d \in tbb_children[w] : d = t \/ ancClock[t][d] # 0
    BY <2>1 DEF StableInv, Awaiting
  <2>3. Active(w)'
    BY <1>1, <1>2, <2>2 DEF Active
  <2>4. QED
    BY <2>2, <2>3
<1>6. QED
  BY <1>3, <1>4, <1>5 DEF StableInv

LEMMA CollectsItsList ==
  ASSUME TasksTypeOK, ChildLists, NEW w \in Task, w # 0,
         \A c \in tbb_children[w] : status[c] = "finished"
  PROVE  LeftBehind(w) = child_list[w]
<1>1. child_list[w] \in SUBSET Task /\ child_list[w] = tbb_children[w]
  BY DEF TasksTypeOK, ChildLists
<1>2. \A c \in child_list[w] : child_list[c] = {}
  BY <1>1 DEF ChildLists
<1>3. Adopts(child_list[w], w)
  BY <1>2 DEF Adopts
<1>4. QED
  BY <1>1, <1>3 DEF LeftBehind, Adopts

LEMMA ReturnGathers ==
  ASSUME TasksTypeOK, StableInv, NEW w \in Task, WaitForAllReturn(w), w # 0
  PROVE  GatherStep(w)
<1>1. /\ status[w] = "waiting" /\ status' = [status EXCEPT ![w] = "running"]
      /\ \A c \in tbb_children[w] : status[c] = "finished"
      /\ Capturewait_for_all(w)
      /\ seg' = [seg EXCEPT ![w] = @ + 1]
      /\ tbb_children' = [tbb_children EXCEPT ![w] = {}]
      /\ UNCHANGED <<m_vc, ancClock, parent_taskId, task_id_ctr>>
  BY DEF WaitForAllReturn, WaitReturn, HBJoin
<1>2. /\ status \in [Task -> Status] /\ seg \in [Task -> Nat]
      /\ tbb_children \in [Task -> SUBSET Task] /\ child_list \in [Task -> SUBSET Task]
      /\ joinset \in [Task -> 0 .. MaxTasks]
  BY DEF TasksTypeOK
<1>3. child_list[w] = tbb_children[w] /\ LeftBehind(w) = tbb_children[w]
  BY <1>1, CollectsItsList DEF StableInv, ChildLists
<1>4. \A c \in tbb_children[w] : parent_taskId[c] = w /\ c # w /\ child_list[c] = {}
  BY <1>1, <1>2 DEF StableInv, ChildLists
<1>5. /\ clock' = clock
      /\ \A c \in Task : joinset'[c] = IF c \in tbb_children[w] THEN w + 1 ELSE joinset[c]
      /\ \A c \in Task : child_list'[c] = IF c = w THEN {} ELSE child_list[c]
  <2>1. CASE child_list[w] = {} /\ UNCHANGED <<clock, child_list, joinset, deadVars>>
    BY <1>3, <2>1
  <2>2. CASE JoinChildren(w)
    <3>1. /\ joinset' = [c \in Task |-> IF c \in tbb_children[w] THEN parent_taskId[c] + 1
                                        ELSE joinset[c]]
          /\ child_list' = [c \in Task |-> IF c \in tbb_children[w] \cup {w} THEN {}
                                           ELSE child_list[c]]
          /\ clock' = clock
      BY <1>3, <2>2 DEF JoinChildren
    <3>2. QED
      BY <1>4, <3>1
  <2>3. QED
    BY <1>1, <2>1, <2>2 DEF Capturewait_for_all
<1>6. QED
  BY <1>1, <1>2, <1>5 DEF GatherStep

LEMMA ReturnOfMain ==
  ASSUME TasksTypeOK, WaitForAllReturn(0) \/ RootWaitReturn(0)
  PROVE  MainStep
<1>1. /\ status[0] \in {"waiting", "rootwait"}
      /\ status' = [status EXCEPT ![0] = "running"]
      /\ Capturewait_for_all(0)
      /\ seg' = [seg EXCEPT ![0] = @ + 1]
      /\ \/ tbb_children' = [tbb_children EXCEPT ![0] = {}]
         \/ tbb_children' = tbb_children
      /\ UNCHANGED <<m_vc, ancClock, parent_taskId, task_id_ctr>>
  BY DEF WaitForAllReturn, RootWaitReturn, WaitReturn, HBJoin
<1>2. /\ status \in [Task -> Status] /\ seg \in [Task -> Nat] /\ clock \in [Task -> Nat]
      /\ tbb_children \in [Task -> SUBSET Task] /\ child_list \in [Task -> SUBSET Task]
      /\ 0 \in Task
  BY TaskFacts DEF TasksTypeOK
<1>3. /\ joinset' = joinset
      /\ \/ clock' = clock /\ child_list' = child_list
         \/ /\ clock' = [clock EXCEPT ![0] = @ + 1]
            /\ child_list' = [child_list EXCEPT ![0] = {}]
  BY <1>1 DEF Capturewait_for_all, DeclareDead
<1>4. QED
  BY <1>1, <1>2, <1>3 DEF MainStep

LEMMA ActionsBook ==
  ASSUME TasksTypeOK, TreeInv, StableInv, Calm, NEW s \in Task, NEW c \in Task,
         \/ Spawn(s, c) \/ SpawnAndWaitForAll(s, c)
         \/ SpawnSibling(s, c) \/ SpawnRootAndWait(s, c)
  PROVE  \E p \in Task : BookStep(s, p, c)
<1>1. /\ status \in [Task -> Status] /\ 0 \in Task
      /\ tbb_children \in [Task -> SUBSET Task]
      /\ tbb_roots \in [Task -> SUBSET Task]
  BY TaskFacts DEF TasksTypeOK
<1>2. ASSUME NewTaskId(c), Running(s) PROVE c # s
  <2>1. c = task_id_ctr + 1 /\ c \in Nat /\ task_id_ctr \in Nat
    BY <1>2, TaskFacts DEF NewTaskId, TasksTypeOK
  <2>2. status[c] = "unborn"
    BY <2>1 DEF TreeInv, Unused
  <2>3. QED
    BY <1>2, <2>2 DEF Running
<1>3. CASE Spawn(s, c) \/ SpawnAndWaitForAll(s, c)
  <2>1. PICK next \in {"running", "waiting"} :
          /\ Running(s) /\ s # 0 /\ NewTaskId(c) /\ CaptureSpawn(s, s, c)
          /\ status' = [status EXCEPT ![c] = "ready", ![s] = next]
          /\ tbb_children' = [tbb_children EXCEPT ![s] = @ \cup {c}]
    BY <1>3 DEF Spawn, SpawnAndWaitForAll, SpawnThen
  <2>2. /\ status'[c] = "ready" /\ status'[s] = next
        /\ \A t \in Task : t # s /\ t # c => status'[t] = status[t]
        /\ \A t \in Task : tbb_children'[t] = IF t = s THEN tbb_children[t] \cup {c}
                                             ELSE tbb_children[t]
    BY <1>1, <1>2, <2>1
  <2>3. BookStep(s, s, c)
    BY <2>1, <2>2 DEF BookStep
  <2>4. QED
    BY <2>3
<1>4. CASE SpawnRootAndWait(s, c)
  <2>1. s = 0
    BY <1>1, <1>4 DEF SpawnRootAndWait, Calm, RootsByMain
  <2>2. /\ Running(s) /\ NewTaskId(c) /\ CaptureSpawn(s, s, c)
        /\ status' = [status EXCEPT ![c] = "ready", ![s] = "rootwait"]
        /\ tbb_children' = tbb_children
    BY <1>4 DEF SpawnRootAndWait
  <2>3. /\ status'[c] = "ready" /\ status'[s] = "rootwait"
        /\ \A t \in Task : t # s /\ t # c => status'[t] = status[t]
    BY <1>1, <1>2, <2>2
  <2>4. BookStep(s, s, c)
    BY <2>1, <2>2, <2>3 DEF BookStep
  <2>5. QED
    BY <2>4
<1>5. CASE SpawnSibling(s, c)
  <2> DEFINE p == parent_taskId[s]
  <2>1. p = 0 /\ status[0] = "rootwait"
    <3>1. status[p] = "rootwait" /\ p \in Task
      BY <1>5, SiblingSegment DEF Calm, SpawnsUnderRootWait, TasksTypeOK
    <3>2. QED
      BY <3>1 DEF StableInv, MainOnTop
  <2>2. /\ Running(s) /\ NewTaskId(c) /\ CaptureSpawn(s, 0, c)
        /\ status' = [status EXCEPT ![c] = "ready"]
        /\ tbb_children' = [tbb_children EXCEPT ![0] = IF s \in @ THEN @ \cup {c} ELSE @]
    BY <1>5, <2>1 DEF SpawnSibling
  <2>3. BookStep(s, 0, c)
    BY <1>1, <1>2, <2>1, <2>2 DEF BookStep, Running
  <2>4. QED
    BY <1>1, <2>3
<1>6. QED
  BY <1>3, <1>4, <1>5

LEMMA CalmKinds ==
  ASSUME TasksTypeOK, TreeInv, StableInv, Calm, Next
  PROVE  \/ \E s, p, c \in Task : BookStep(s, p, c)
         \/ \E w \in Task : GatherStep(w)
         \/ MainStep
         \/ CalmStep
<1>1. /\ status \in [Task -> Status] /\ 0 \in Task
      /\ \A t : Goes(status[t], status[t])
      /\ \A t \in Task : status[t] = "finished" /\ t # 0 => tbb_children[t] = {}
  BY TaskFacts DEF TasksTypeOK, Goes, StableInv, ChildLists
<1>2. ASSUME UNCHANGED <<status, m_vc, ancClock, clock, joinset, parent_taskId,
                         child_list, tbb_children, task_id_ctr>>
      PROVE  CalmStep
  BY <1>1, <1>2 DEF CalmStep
<1>3. ASSUME NEW t \in Task, NEW next, status' = [status EXCEPT ![t] = next],
             UNCHANGED <<m_vc, ancClock, clock, joinset, parent_taskId,
                         child_list, tbb_children, task_id_ctr>>,
             Goes(status[t], next), t # 0 /\ next = "finished" => tbb_children[t] = {}
      PROVE  CalmStep
  <2>1. status'[t] = next /\ \A u \in Task : u # t => status'[u] = status[u]
    BY <1>1, <1>3
  <2>2. QED
    BY <1>1, <1>3, <2>1 DEF CalmStep
<1>4. ASSUME NEW t \in Task, ExecBegin(t) PROVE CalmStep
  <2>1. /\ status[t] = "ready" /\ status' = [status EXCEPT ![t] = "running"]
        /\ child_list' = [child_list EXCEPT ![t] = {}]
        /\ UNCHANGED <<m_vc, ancClock, clock, joinset, parent_taskId, tbb_children,
                       task_id_ctr>>
    BY <1>4 DEF ExecBegin
  <2>2. child_list[t] = {} /\ child_list \in [Task -> SUBSET Task]
    BY <2>1 DEF StableInv, MainOnTop, ChildLists, TasksTypeOK
  <2>3. child_list' = child_list
    BY <2>1, <2>2
  <2>4. QED
    BY <1>3, <2>1, <2>3 DEF Goes
<1>5. ASSUME NEW t \in Task, ExecEnd(t) PROVE CalmStep
  <2>1. /\ status[t] = "running" /\ status' = [status EXCEPT ![t] = "finished"] /\ t # 0
        /\ UNCHANGED taskVars /\ UNCHANGED tbb_children
    BY <1>5 DEF ExecEnd, Running
  <2>2. tbb_children[t] = {}
    BY <1>1, <2>1 DEF Calm, WaitsForChildren
  <2>3. QED
    BY <1>3, <2>1, <2>2 DEF taskVars, Goes
<1>6. ASSUME NEW t \in Task, WaitForAll(t) PROVE CalmStep
  <2>1. /\ status[t] = "running" /\ status' = [status EXCEPT ![t] = "waiting"]
        /\ UNCHANGED taskVars /\ UNCHANGED tbb_children
    BY <1>6 DEF WaitForAll, Running
  <2>2. QED
    BY <1>3, <2>1 DEF taskVars, Goes
<1>7. ASSUME MainReturns PROVE CalmStep
  <2>1. /\ status[0] = "running" /\ status' = [status EXCEPT ![0] = "finished"]
        /\ UNCHANGED taskVars /\ UNCHANGED tbb_children
    BY <1>7 DEF MainReturns, Running
  <2>2. QED
    BY <1>1, <1>3, <2>1 DEF taskVars, Goes
<1>8. ASSUME NEW t \in Task, NEW l \in Locks, LockAcquire(t, l) \/ LockRelease(t, l)
      PROVE  CalmStep
  BY <1>2, <1>8 DEF LockAcquire, LockRelease, tbbVars, taskVars
<1>9. ASSUME NEW t \in Task, NEW kind \in AccessType, Access(t, kind) PROVE CalmStep
  BY <1>2, <1>9 DEF Access, tbbVars, taskVars
<1>10. ASSUME UNCHANGED vars PROVE CalmStep
  BY <1>2, <1>10 DEF vars, allTaskVars, tbbVars, taskVars
<1>11. ASSUME NEW t \in Task, WaitForAllReturn(t) PROVE GatherStep(t) \/ MainStep
  BY <1>11, ReturnGathers, ReturnOfMain
<1>12. ASSUME NEW t \in Task, RootWaitReturn(t) PROVE MainStep
  <2>1. t = 0
    BY <1>12 DEF RootWaitReturn, WaitReturn, StableInv, MainOnTop
  <2>2. QED
    BY <1>12, <2>1, ReturnOfMain
<1>13. CASE TaskStep
  <2>1. CASE \E s, c \in Task : \/ Spawn(s, c) \/ SpawnAndWaitForAll(s, c)
                                \/ SpawnSibling(s, c) \/ SpawnRootAndWait(s, c)
    BY <2>1, ActionsBook
  <2>2. CASE \E t \in Task : WaitForAllReturn(t) \/ RootWaitReturn(t)
    BY <1>11, <1>12, <2>2
  <2>3. CASE \/ MainReturns
             \/ \E t \in Task : ExecBegin(t) \/ ExecEnd(t) \/ WaitForAll(t)
             \/ \E t \in Task, l \in Locks : LockAcquire(t, l) \/ LockRelease(t, l)
    BY <1>4, <1>5, <1>6, <1>7, <1>8, <2>3
  <2>4. QED
    BY <1>13, <2>1, <2>2, <2>3 DEF TaskStep
<1>14. QED
  BY <1>9, <1>10, <1>13 DEF Next, Terminated

(***************************************************************************)
(* A verdict of t on u stays if t knows what it knew, and if find_root of  *)
(* u stays or moves from a task t is not below to another.                 *)
(***************************************************************************)
Outside(t, r) == r # t /\ ancClock[t][r] = 0

LEMMA VerdictStays ==
  ASSUME NEW t \in Task, NEW u \in Task, NEW k,
         find_root[u] \in Task, find_root'[u] \in Task,
         ancClock'[t] = ancClock[t], clock'[t] = clock[t], m_vc'[t] = m_vc[t],
         \A x \in Task : m_vc'[x] = m_vc[x] \/ ancClock[t][x] = 0,
         \/ find_root'[u] = find_root[u]
         \/ Outside(t, find_root[u]) /\ Outside(t, find_root'[u])
  PROVE  OrderedBefore(t, u, k)' <=> OrderedBefore(t, u, k)
<1> DEFINE was(x) == IF Len(m_vc[x]) >= Len(m_vc[t]) THEN 0 ELSE ancClock[t][x]
           is(x) == IF Len(m_vc'[x]) >= Len(m_vc'[t]) THEN 0 ELSE ancClock'[t][x]
           told(f, r) == \/ u = t /\ k <= clock[t]
                         \/ u # t /\ f # 0 /\ k <= f
                         \/ u # t /\ f = 0 /\ (r \/ k = 0)
<1>1. \A x \in Task : is(x) = was(x)
  <2> SUFFICES ASSUME NEW x \in Task PROVE is(x) = was(x)
    OBVIOUS
  <2>1. CASE m_vc'[x] = m_vc[x]
    BY <2>1
  <2>2. CASE ancClock[t][x] = 0
    BY <2>2
  <2>3. QED
    BY <2>1, <2>2
<1>2. OrderedBefore(t, u, k) <=> told(was(u), find_root[u] = t \/ was(find_root[u]) # 0)
  BY DEF OrderedBefore, parent_clock, depth
<1>3. OrderedBefore(t, u, k)' <=> told(is(u), find_root'[u] = t \/ is(find_root'[u]) # 0)
  BY DEF OrderedBefore, parent_clock, depth
<1>4. \A x \in Task : Outside(t, x) => x # t /\ was(x) = 0
  BY DEF Outside
<1> HIDE DEF was, is
<1>5. is(u) = was(u) /\ is(find_root'[u]) = was(find_root'[u])
  BY <1>1
<1>6. (find_root'[u] = t \/ was(find_root'[u]) # 0) <=> (find_root[u] = t \/ was(find_root[u]) # 0)
  BY <1>4
<1>7. QED
  BY <1>2, <1>3, <1>5, <1>6

LEMMA FindRootIsTask ==
  ASSUME TasksTypeOK, TreeInv
  PROVE  \A u \in Task : find_root[u] \in Task
<1>1. \A x \in Task : joinset[x] # 0 /\ x > MaxTasks => joinset[x] - 1 > MaxTasks
  BY TaskFacts, MaxTasksAssumption
<1>2. LinksDown(joinset) /\ find_root = RootMap(joinset) /\ MaxTasks \in Nat
  BY FindRootFacts, MaxTasksAssumption DEF TreeInv
<1>3. QED
  BY <1>1, <1>2, RootFacts

LEMMA GatherRoots ==
  ASSUME TasksTypeOK, TreeInv, TasksTypeOK', TreeInv', StableInv, NEW w \in Task,
         GatherStep(w)
  PROVE  \A u \in Task :
           find_root'[u] = IF find_root[u] \in tbb_children[w] THEN w ELSE find_root[u]
<1>1. /\ w # 0 /\ status[w] = "waiting"
      /\ \A c \in tbb_children[w] : status[c] = "finished"
      /\ \A c \in Task : joinset'[c] = IF c \in tbb_children[w] THEN w + 1 ELSE joinset[c]
      /\ tbb_children[w] \in SUBSET Task
  BY DEF GatherStep, TasksTypeOK
<1>2. /\ w \notin tbb_children[w] /\ joinset[w] = 0
      /\ \A c \in tbb_children[w] : joinset[c] = 0 /\ parent_taskId[c] = w /\ c # 0
  BY <1>1 DEF StableInv, ChildLists
<1>3. /\ LinksDown(joinset) /\ find_root = RootMap(joinset) /\ find_root[w] = w
      /\ LinksDown(joinset') /\ find_root' = RootMap(joinset')
  BY <1>2, FindRootFacts, FindRootFactsNext DEF TreeInv
<1>4. \A c \in tbb_children[w] : w < c
  <2> SUFFICES ASSUME NEW c \in tbb_children[w] PROVE w < c
    OBVIOUS
  <2>1. c \in Task /\ c # 0 /\ status[c] # "unborn" /\ parent_taskId[c] = w
    BY <1>1, <1>2
  <2>2. c <= task_id_ctr /\ c \in Nat
    BY <2>1, ActiveIsInUse, TaskFacts
  <2>3. c \in Born
    BY <2>1, <2>2, TaskFacts DEF Born, TasksTypeOK
  <2>4. QED
    BY <2>1, <2>3 DEF TreeInv, Genealogy
<1>5. \A c \in Task :
        joinset'[c] = IF c \in tbb_children[w] THEN parent_taskId[c] + 1 ELSE joinset[c]
  BY <1>1, <1>2
<1>6. parent_taskId \in [Task -> Task]
  BY DEF TasksTypeOK
<1>7. \A u \in Task :
        RootMap(joinset')[u] = IF RootMap(joinset)[u] \in tbb_children[w]
                               THEN RootMap(joinset)[w] ELSE RootMap(joinset)[u]
  <2>1. RootMap(joinset)[w] \notin tbb_children[w]
    BY <1>2, <1>3
  <2>2. \A c \in tbb_children[w] : /\ joinset[c] = 0
                                   /\ parent_taskId[c] \in tbb_children[w] \cup {w}
                                   /\ parent_taskId[c] < c
    BY <1>2, <1>4
  <2>3. QED
    BY <1>1, <1>2, <1>3, <1>5, <1>6, <2>1, <2>2, RootAfterCollect
<1>8. QED
  BY <1>3, <1>7

LEMMA NobodyBelow ==
  ASSUME TasksTypeOK, StableInv, NEW w \in Task, GatherStep(w),
         NEW t \in Task, Running(t), t # w
  PROVE  Outside(t, w) /\ \A r \in tbb_children[w] : Outside(t, r)
<1>1. /\ w # 0 /\ \A c \in tbb_children[w] : status[c] = "finished" /\ c # 0 /\ c \in Task
      /\ Active(t)
  BY DEF GatherStep, StableInv, ChildLists, TasksTypeOK, Running, Active
<1>2. \A r \in tbb_children[w] : ~ Active(r)
  BY <1>1 DEF Active
<1>3. \A u \in Task : ancClock[0][u] = 0
  BY DEF StableInv, MainOnTop
<1>4. \A r \in tbb_children[w] : Outside(t, r)
  BY <1>1, <1>2, <1>3 DEF StableInv, Awaiting, Outside
<1>5. ancClock[t][w] = 0
  <2> SUFFICES ASSUME ancClock[t][w] # 0 PROVE FALSE
    OBVIOUS
  <2>1. t # 0
    BY <1>3
  <2>2. \E d \in tbb_children[w] : d = t \/ ancClock[t][d] # 0
    BY <1>1, <2>1 DEF StableInv, Awaiting
  <2>3. QED
    BY <1>4, <2>2 DEF Outside
<1>6. QED
  BY <1>4, <1>5 DEF Outside

SameJudgement ==
  \A t, u \in Task :
    Running(t) /\ Running(t)' /\ seg'[t] = seg[t]
      => \A c \in 1 .. clock[u] : OrderedBefore(t, u, c)' <=> OrderedBefore(t, u, c)

LEMMA CalmJudgement ==
  ASSUME TasksTypeOK, TreeInv, TasksTypeOK', TreeInv', StableInv, Calm, Next
  PROVE  SameJudgement /\ StableInv'
<1>1. /\ \A u \in Task : find_root[u] \in Task
      /\ \A u \in Task : find_root'[u] \in Task
  <2>1. \A u \in Task : find_root[u] \in Task
    BY FindRootIsTask
  <2>2. \A x \in Task : joinset'[x] # 0 /\ x > MaxTasks => joinset'[x] - 1 > MaxTasks
    BY TaskFacts, MaxTasksAssumption
  <2>3. LinksDown(joinset') /\ find_root' = RootMap(joinset') /\ MaxTasks \in Nat
    BY FindRootFactsNext, MaxTasksAssumption DEF TreeInv
  <2>4. QED
    BY <2>1, <2>2, <2>3, RootFacts
<1>2. \A t \in Task : clock[t] \in Nat /\ seg[t] \in Nat
  BY DEF TasksTypeOK
<1>3. ASSUME NEW s \in Task, NEW p \in Task, NEW c \in Task, BookStep(s, p, c)
      PROVE  SameJudgement /\ StableInv'
  <2>1. /\ c # 0 /\ s # c /\ p # c /\ status[c] = "unborn" /\ clock[c] = 0
        /\ clock[p] # 0 /\ 0 \in Task
        /\ \A t \in Task : Active(t) => ancClock[t][c] = 0
    BY <1>3, BookFacts
  <2>2. /\ \A t \in Task : t # p /\ t # c => clock'[t] = clock[t]
        /\ \A t \in Task : t # c => ancClock'[t] = ancClock[t]
        /\ \A t \in Task : t # c => m_vc'[t] = m_vc[t]
        /\ seg'[s] = seg[s] + 1 /\ joinset' = joinset
    BY <1>3, <2>1, BookValues DEF BookStep
  <2>3. find_root' = find_root
    BY <2>2, FindRootStays
  <2>4. ASSUME NEW t \in Task, NEW u \in Task, Running(t), seg'[t] = seg[t], NEW k
        PROVE  OrderedBefore(t, u, k)' <=> OrderedBefore(t, u, k)
    <3>1. t # s /\ t # c /\ Active(t)
      BY <1>2, <2>1, <2>2, <2>4 DEF Running, Active
    <3>2. t # p
      BY <1>3, <2>4, <3>1 DEF BookStep, Running
    <3>3. /\ clock'[t] = clock[t] /\ ancClock'[t] = ancClock[t] /\ m_vc'[t] = m_vc[t]
          /\ \A x \in Task : m_vc'[x] = m_vc[x] \/ ancClock[t][x] = 0
      BY <2>1, <2>2, <3>1, <3>2
    <3>4. QED
      BY <1>1, <2>3, <3>3, VerdictStays
  <2>5. QED
    BY <1>3, <2>4, BookStable DEF SameJudgement
<1>4. ASSUME NEW w \in Task, GatherStep(w) PROVE SameJudgement /\ StableInv'
  <2>1. /\ seg'[w] = seg[w] + 1 /\ m_vc' = m_vc /\ ancClock' = ancClock /\ clock' = clock
    BY <1>4 DEF GatherStep
  <2>2. ASSUME NEW t \in Task, NEW u \in Task, Running(t), seg'[t] = seg[t], NEW k
        PROVE  OrderedBefore(t, u, k)' <=> OrderedBefore(t, u, k)
    <3>1. t # w
      BY <1>2, <2>1, <2>2
    <3>2. Outside(t, w) /\ \A r \in tbb_children[w] : Outside(t, r)
      BY <1>4, <2>2, <3>1, NobodyBelow
    <3>3. find_root'[u] = IF find_root[u] \in tbb_children[w] THEN w ELSE find_root[u]
      BY <1>4, GatherRoots
    <3>4. \/ find_root'[u] = find_root[u]
          \/ Outside(t, find_root[u]) /\ Outside(t, find_root'[u])
      BY <3>2, <3>3
    <3>5. QED
      BY <1>1, <2>1, <3>4, VerdictStays
  <2>3. QED
    BY <1>4, <2>2, GatherStable DEF SameJudgement
<1>5. CASE MainStep
  <2>1. /\ seg'[0] = seg[0] + 1 /\ m_vc' = m_vc /\ ancClock' = ancClock
        /\ joinset' = joinset
        /\ \A t \in Task : t # 0 => clock'[t] = clock[t]
    BY <1>5 DEF MainStep
  <2>2. find_root' = find_root
    BY <2>1, FindRootStays
  <2>3. ASSUME NEW t \in Task, NEW u \in Task, seg'[t] = seg[t], NEW k
        PROVE  OrderedBefore(t, u, k)' <=> OrderedBefore(t, u, k)
    <3>1. t # 0
      BY <1>2, <2>1, <2>3
    <3>2. QED
      BY <1>1, <2>1, <2>2, <3>1, VerdictStays
  <2>4. QED
    BY <1>5, <2>3, MainStable DEF SameJudgement
<1>6. CASE CalmStep
  <2>1. m_vc' = m_vc /\ ancClock' = ancClock /\ joinset' = joinset /\ clock' = clock
    BY <1>6 DEF CalmStep
  <2>2. find_root' = find_root
    BY <2>1, FindRootStays
  <2>3. ASSUME NEW t \in Task, NEW u \in Task, NEW k
        PROVE  OrderedBefore(t, u, k)' <=> OrderedBefore(t, u, k)
    BY <1>1, <2>1, <2>2, VerdictStays
  <2>4. QED
    BY <1>6, <2>3, CalmStable DEF SameJudgement
<1>7. QED
  BY <1>3, <1>4, <1>5, <1>6, CalmKinds

LEMMA StableInit == Init => StableInv
<1> SUFFICES ASSUME Init PROVE StableInv
  OBVIOUS
<1>1. /\ \A t \in Task : /\ tbb_children[t] = {} /\ child_list[t] = {}
                         /\ joinset[t] = 0
                         /\ status[t] = IF t = 0 THEN "running" ELSE "unborn"
      /\ \A t, u \in Task : ancClock[t][u] = 0
      /\ clock[0] = 1 /\ status[0] = "running" /\ 0 \in Task
  BY TaskFacts DEF Init, TasksInit
<1>2. MainOnTop
  BY <1>1 DEF MainOnTop
<1>3. ChildLists
  BY <1>1 DEF ChildLists
<1>4. Awaiting
  BY <1>1 DEF Awaiting
<1>5. QED
  BY <1>2, <1>3, <1>4 DEF StableInv

CalmProgram == program \in {"fork_join", "siblings"}

LEMMA StableStep ==
  ASSUME TasksInv, CalmProgram => StableInv, [MCNext]_mcVars
  PROVE  /\ TasksInv' /\ (CalmProgram => StableInv)'
         /\ \A t, u \in Task :
              /\ program \in {"fork_join", "siblings"}
              /\ Running(t) /\ Running(t)'
              /\ seg'[t] = seg[t]
              => \A c \in 1 .. clock[u] :
                   OrderedBefore(t, u, c)' <=> OrderedBefore(t, u, c)
<1>1. [Next]_vars /\ program' = program
  BY DEF MCNext, mcVars
<1>2. TasksInv'
  BY <1>1, TasksInvStep
<1>3. CASE ~ CalmProgram
  BY <1>1, <1>2, <1>3 DEF CalmProgram
<1>4. CASE CalmProgram /\ [MCNext]_mcVars
  <2>1. TasksTypeOK /\ TreeInv /\ TasksTypeOK' /\ TreeInv' /\ StableInv
    BY <1>2, <1>4 DEF TasksInv
  <2>2. SameJudgement /\ StableInv'
    <3>1. CASE MCNext
      <4>1. Next /\ Calm
        BY <1>4, <3>1 DEF MCNext, Allowed, CalmProgram, Calm, SpawnsOwn,
           SpawnsUnderRootWait
      <4>2. QED
        BY <2>1, <4>1, CalmJudgement
    <3>2. CASE UNCHANGED mcVars
      <4>1. /\ UNCHANGED vars
            /\ m_vc' = m_vc /\ ancClock' = ancClock /\ joinset' = joinset /\ clock' = clock
        BY <3>2 DEF mcVars, vars, allTaskVars, taskVars
      <4>2. CalmStep
        <5>1. \A t \in Task : t # 0 /\ status[t] = "finished" => tbb_children[t] = {}
          BY <2>1 DEF StableInv, ChildLists
        <5>2. UNCHANGED <<status, m_vc, ancClock, clock, joinset, parent_taskId,
                          child_list, tbb_children, task_id_ctr>>
          BY <4>1 DEF vars, allTaskVars, tbbVars, taskVars
        <5>3. QED
          BY <5>1, <5>2 DEF CalmStep, Goes
      <4>3. StableInv'
        BY <2>1, <4>2, CalmStable
      <4>4. find_root' = find_root /\ \A u \in Task : find_root[u] \in Task
        BY <2>1, <4>1, FindRootStays, FindRootIsTask
      <4>5. ASSUME NEW t \in Task, NEW u \in Task, NEW k
            PROVE  OrderedBefore(t, u, k)' <=> OrderedBefore(t, u, k)
        BY <4>1, <4>4, VerdictStays
      <4>6. QED
        BY <4>3, <4>5 DEF SameJudgement
    <3>3. QED
      BY <3>1, <3>2
  <2>3. QED
    BY <1>1, <1>2, <2>2 DEF SameJudgement
<1>5. QED
  BY <1>3, <1>4

(***************************************************************************)
(* The verdict of a running task on any clock of another task changes only *)
(* by a step of its own, so the several questions that RecordMem asks      *)
(* under the lock of the address get answers that belong together.         *)
(***************************************************************************)
THEOREM VerdictsStay == MCSpec => VerdictsAreStable
<1> DEFINE Inv == TasksInv /\ (CalmProgram => StableInv)
           Same == \A t, u \in Task :
                     /\ program \in {"fork_join", "siblings"}
                     /\ Running(t) /\ Running(t)'
                     /\ seg'[t] = seg[t]
                     => \A c \in 1 .. clock[u] :
                          OrderedBefore(t, u, c)' <=> OrderedBefore(t, u, c)
<1>1. MCInit => Inv
  BY StableInit, TasksInitType, TreeInit DEF MCInit, Init, TasksInv
<1>2. Inv /\ [MCNext]_mcVars => Inv' /\ Same
  BY StableStep
<1>3. QED
  BY <1>1, <1>2, PTL DEF MCSpec, VerdictsAreStable
=============================================================================
