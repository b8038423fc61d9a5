-------------------------- MODULE FastTrack_proofs --------------------------
(***************************************************************************)
(* Proofs about FastTrack, for any number of tasks and locks.              *)
(***************************************************************************)
EXTENDS FastTrack, FiniteSetTheorems, WellFoundedInduction, TLAPS

LEMMA TaskFacts == 0 \in Task /\ \A t \in Task : t \in Nat /\ t < MaxTasks
BY MaxTasksAssumption DEF Task

-----------------------------------------------------------------------------
(***************************************************************************)
(* A finite set of naturals has a greatest element: a smallest set without *)
(* one would have an element to remove.                                    *)
(***************************************************************************)
LEMMA LeastExists ==
  ASSUME NEW S \in SUBSET Nat, S # {}
  PROVE  \E x \in S : \A y \in S : x =< y
<1>1. PICK x \in S : \A y \in S : <<y, x>> \notin OpToRel(<, Nat)
  BY NatLessThanWellFounded, WFMin, Zenon
<1>2. \A y \in S : ~ (y < x)
  BY <1>1 DEF OpToRel
<1>3. QED
  BY <1>2

HasGreatest(S) == \E x \in S : \A y \in S : x >= y

LEMMA GreatestExists ==
  ASSUME NEW S \in SUBSET Nat, S # {}, IsFiniteSet(S)
  PROVE  HasGreatest(S)
<1> DEFINE Bad == {T \in SUBSET Nat : T # {} /\ IsFiniteSet(T) /\ ~ HasGreatest(T)}
           Sizes == {n \in Nat : \E T \in Bad : Cardinality(T) = n}
<1>1. SUFFICES ASSUME ~ HasGreatest(S) PROVE FALSE
  OBVIOUS
<1>2. S \in Bad /\ Cardinality(S) \in Nat
  BY <1>1, FS_CardinalityType
<1>3. Sizes \in SUBSET Nat /\ Sizes # {}
  BY <1>2
<1>4. PICK n \in Sizes : \A m \in Sizes : n =< m
  <2> HIDE DEF Sizes
  <2>1. QED
    BY <1>3, LeastExists
<1>5. PICK T \in Bad : Cardinality(T) = n
  BY <1>4
<1>6. PICK x \in T : TRUE
  BY <1>5
<1>7. IsFiniteSet(T \ {x}) /\ Cardinality(T \ {x}) = n - 1
  BY <1>5, <1>6, FS_RemoveElement
<1>8. T \ {x} \notin Bad
  <2>1. SUFFICES ASSUME T \ {x} \in Bad PROVE FALSE
    OBVIOUS
  <2>2. n - 1 \in Sizes
    BY <2>1, <1>7, FS_CardinalityType
  <2>3. QED
    BY <2>2, <1>4
<1>9. CASE T = {x}
  BY <1>5, <1>9 DEF HasGreatest
<1>10. CASE T # {x}
  <2>1. HasGreatest(T \ {x})
    BY <1>5, <1>6, <1>7, <1>8, <1>10
  <2>2. PICK y \in T \ {x} : \A z \in T \ {x} : y >= z
    BY <2>1 DEF HasGreatest
  <2>3. x \in Nat /\ y \in Nat
    BY <1>5, <1>6, <2>2
  <2>4. HasGreatest(T)
    <3>1. CASE x >= y
      <4>1. \A z \in T : z \in Nat /\ x >= z
        BY <1>5, <2>2, <2>3, <3>1
      <4>2. QED
        BY <4>1, <1>6 DEF HasGreatest
    <3>2. CASE ~ x >= y
      <4>1. \A z \in T : y >= z
        BY <1>5, <2>2, <2>3, <3>2
      <4>2. QED
        BY <4>1, <2>2 DEF HasGreatest
    <3>3. QED
      BY <3>1, <3>2
  <2>5. QED
    BY <2>4, <1>5
<1>11. QED
  BY <1>9, <1>10

LEMMA MaxFacts ==
  ASSUME NEW S \in SUBSET Nat, S # {}, IsFiniteSet(S)
  PROVE  Max(S) \in S /\ \A y \in S : Max(S) >= y
BY GreatestExists DEF HasGreatest, Max

LEMMA MaxOfPair ==
  ASSUME NEW a \in Nat, NEW b \in Nat
  PROVE  Max({a, b}) = IF a >= b THEN a ELSE b
<1>1. IsFiniteSet({} \cup {a})
  BY FS_EmptySet, FS_AddElement
<1>2. IsFiniteSet(({} \cup {a}) \cup {b})
  BY <1>1, FS_AddElement
<1>3. ({} \cup {a}) \cup {b} = {a, b}
  OBVIOUS
<1>4. Max({a, b}) \in {a, b} /\ \A y \in {a, b} : Max({a, b}) >= y
  BY <1>2, <1>3, MaxFacts
<1>5. QED
  BY <1>4

(***************************************************************************)
(* The joined clock of t: in every entry the greatest of those of t and of *)
(* the children left behind.                                               *)
(***************************************************************************)
LEMMA JoinedClockFacts ==
  ASSUME vc \in [Task -> [Task -> Nat]], NEW t \in Task, NEW u \in Task
  PROVE  /\ JoinedClock(t)[u] \in Nat
         /\ \A x \in {t} \cup LeftBehind(t) : vc[x][u] =< JoinedClock(t)[u]
         /\ \E x \in {t} \cup LeftBehind(t) : vc[x][u] = JoinedClock(t)[u]
<1> DEFINE X == {t} \cup LeftBehind(t)
           V == {vc[x][u] : x \in X}
           f == [x \in X |-> vc[x][u]]
<1>1. X \subseteq Task
  BY DEF LeftBehind
<1>2. IsFiniteSet(Task)
  BY MaxTasksAssumption, FS_Interval DEF Task
<1>3. IsFiniteSet(X)
  BY <1>1, <1>2, FS_Subset
<1>4. f \in Surjection(X, V)
  BY DEF Surjection
<1>5. IsFiniteSet(V)
  BY <1>3, <1>4, FS_Surjection DEF ExistsSurjection
<1>6. V \in SUBSET Nat /\ V # {}
  BY <1>1
<1>7. Max(V) \in V /\ \A y \in V : Max(V) >= y
  BY <1>5, <1>6, MaxFacts
<1>8. JoinedClock(t)[u] = Max(V)
  BY DEF JoinedClock
<1>9. QED
  BY <1>1, <1>6, <1>7, <1>8

-----------------------------------------------------------------------------
(***************************************************************************)
(* Types of the program's variables, event by event.                       *)
(***************************************************************************)
LEMMA PastOfType ==
  ASSUME ProgramTypeOK, NEW t \in Task
  PROVE  PastOf(t) \in SUBSET (Task \X Nat)
<1>1. before[t] \in SUBSET (Task \X Nat) /\ seg[t] \in Nat
  BY DEF ProgramTypeOK
<1>2. <<t, seg[t]>> \in Task \X Nat
  BY <1>1
<1>3. QED
  BY <1>1, <1>2 DEF PastOf

LEMMA HBForkType ==
  ASSUME ProgramTypeOK, NEW s \in Task, NEW c \in Task, HBFork(s, c)
  PROVE  /\ seg' \in [Task -> Nat]
         /\ before' \in [Task -> SUBSET (Task \X Nat)]
<1>1. seg \in [Task -> Nat] /\ before \in [Task -> SUBSET (Task \X Nat)]
  BY DEF ProgramTypeOK
<1>2. PastOf(s) \in SUBSET (Task \X Nat)
  BY PastOfType
<1>3. QED
  BY <1>1, <1>2 DEF HBFork

LEMMA HBJoinType ==
  ASSUME ProgramTypeOK, NEW p \in Task, NEW S \in SUBSET Task, HBJoin(p, S)
  PROVE  /\ seg' \in [Task -> Nat]
         /\ before' \in [Task -> SUBSET (Task \X Nat)]
<1>1. seg \in [Task -> Nat] /\ before \in [Task -> SUBSET (Task \X Nat)]
  BY DEF ProgramTypeOK
<1>2. \A c \in Task : PastOf(c) \in SUBSET (Task \X Nat)
  BY PastOfType
<1>3. PastOf(p) \cup UNION {PastOf(c) : c \in S} \in SUBSET (Task \X Nat)
  BY <1>2
<1>4. QED
  BY <1>1, <1>3 DEF HBJoin

LEMMA CreateType ==
  ASSUME ProgramTypeOK, NEW s \in Task, NEW p \in Task, NEW c \in Task,
         NEW next \in Status, Create(s, p, c, next),
         tbb_children' \in [Task -> SUBSET Task],
         tbb_roots' \in [Task -> SUBSET Task],
         strict' \in BOOLEAN
  PROVE  ProgramTypeOK'
<1>1. seg' \in [Task -> Nat] /\ before' \in [Task -> SUBSET (Task \X Nat)]
  BY HBForkType DEF Create
<1>2. status' \in [Task -> Status]
  BY DEF Create, ProgramTypeOK, Status
<1>3. parent' \in [Task -> Task] /\ spawned' \in Task
  BY DEF Create, ProgramTypeOK
<1>4. held' \in [Task -> SUBSET Locks] /\ lockPast' \in [Locks -> SUBSET (Task \X Nat)]
  BY DEF Create, ProgramTypeOK, lockStateVars
<1>5. QED
  BY <1>1, <1>2, <1>3, <1>4 DEF ProgramTypeOK

LEMMA SpawnChildType ==
  ASSUME ProgramTypeOK, NEW s \in Task, NEW c \in Task,
         NEW next \in Status, SpawnChild(s, c, next)
  PROVE  ProgramTypeOK'
<1>1. /\ tbb_children' \in [Task -> SUBSET Task]
      /\ tbb_roots' \in [Task -> SUBSET Task]
      /\ strict' \in BOOLEAN
  BY DEF SpawnChild, ProgramTypeOK
<1>2. QED
  BY <1>1, CreateType DEF SpawnChild

LEMMA SpawnSiblingType ==
  ASSUME ProgramTypeOK, NEW s \in Task, NEW c \in Task, SpawnSibling(s, c)
  PROVE  ProgramTypeOK'
<1>1. /\ tbb_children' \in [Task -> SUBSET Task]
      /\ tbb_roots' \in [Task -> SUBSET Task]
      /\ strict' \in BOOLEAN /\ parent[s] \in Task
  BY DEF SpawnSibling, ProgramTypeOK
<1>2. QED
  BY <1>1, CreateType DEF SpawnSibling, Status

LEMMA SpawnRootType ==
  ASSUME ProgramTypeOK, NEW s \in Task, NEW c \in Task, SpawnRootAndWait(s, c)
  PROVE  ProgramTypeOK'
<1>1. /\ tbb_children' \in [Task -> SUBSET Task]
      /\ tbb_roots' \in [Task -> SUBSET Task]
      /\ strict' \in BOOLEAN
  BY DEF SpawnRootAndWait, ProgramTypeOK
<1>2. QED
  BY <1>1, CreateType DEF SpawnRootAndWait, Status

LEMMA MoveType ==
  ASSUME ProgramTypeOK, NEW t \in Task, NEW from, NEW to \in Status, Move(t, from, to)
  PROVE  ProgramTypeOK'
BY DEF Move, ProgramTypeOK, lockStateVars, hbVars, orderVars

LEMMA WaitReturnType ==
  ASSUME ProgramTypeOK, NEW t \in Task,
         WaitForAllReturn(t) \/ RootWaitReturn(t)
  PROVE  ProgramTypeOK'
<1>1. PICK S \in SUBSET Task : HBJoin(t, S)
  BY DEF WaitForAllReturn, RootWaitReturn, WaitReturn, ProgramTypeOK
<1>2. seg' \in [Task -> Nat] /\ before' \in [Task -> SUBSET (Task \X Nat)]
  BY <1>1, HBJoinType
<1>3. status' \in [Task -> Status]
  BY DEF WaitForAllReturn, RootWaitReturn, WaitReturn, ProgramTypeOK, Status
<1>4. tbb_children' \in [Task -> SUBSET Task] /\ tbb_roots' \in [Task -> SUBSET Task]
  BY DEF WaitForAllReturn, RootWaitReturn, ProgramTypeOK
<1>5. UNCHANGED <<parent, spawned, strict, lockStateVars>>
  BY DEF WaitForAllReturn, RootWaitReturn, WaitReturn
<1>6. QED
  BY <1>2, <1>3, <1>4, <1>5 DEF ProgramTypeOK, lockStateVars

LEMMA LockType ==
  ASSUME ProgramTypeOK, NEW t \in Task, NEW l \in Locks,
         Acquire(t, l) \/ Release(t, l)
  PROVE  ProgramTypeOK'
<1>1. CASE Acquire(t, l)
  <2>1. before' \in [Task -> SUBSET (Task \X Nat)]
    BY <1>1 DEF Acquire, ProgramTypeOK
  <2>2. held' \in [Task -> SUBSET Locks]
    BY <1>1 DEF Acquire, ProgramTypeOK
  <2>3. QED
    BY <1>1, <2>1, <2>2 DEF Acquire, ProgramTypeOK, taskStateVars
<1>2. CASE Release(t, l)
  <2>1. held' \in [Task -> SUBSET Locks]
    BY <1>2 DEF Release, ProgramTypeOK
  <2>2. /\ lockPast' \in [Locks -> SUBSET (Task \X Nat)]
        /\ seg' \in [Task -> Nat]
        /\ before' \in [Task -> SUBSET (Task \X Nat)]
    <3>1. CASE LockOrder
      BY <1>2, <3>1, PastOfType, HBJoinType DEF Release, ProgramTypeOK
    <3>2. CASE ~ LockOrder
      BY <1>2, <3>2 DEF Release, ProgramTypeOK, orderVars
    <3>3. QED
      BY <3>1, <3>2
  <2>3. QED
    BY <1>2, <2>1, <2>2 DEF Release, ProgramTypeOK, taskStateVars
<1>3. QED
  BY <1>1, <1>2

-----------------------------------------------------------------------------
(***************************************************************************)
(* Types of the detector's variables, hook by hook.                        *)
(***************************************************************************)
ClockTypeOK ==
  /\ vc \in [Task -> [Task -> Nat]]
  /\ m_child \in [Task -> SUBSET Task]
  /\ lvc \in [Locks -> [Task -> Nat]]

ShadowTypeOK ==
  /\ word \in VarState
  /\ detected \in BOOLEAN

LEMMA TwoClocksType ==
  ASSUME NEW f \in [Task -> [Task -> Nat]], NEW p \in Task, NEW c \in Task,
         NEW a \in [Task -> Nat]
  PROVE  [f EXCEPT ![c] = a, ![p][p] = @ + 1] \in [Task -> [Task -> Nat]]
OBVIOUS

LEMMA BookSpawnType ==
  ASSUME ClockTypeOK, NEW p \in Task, NEW c \in Task, BookSpawn(p, c)
  PROVE  ClockTypeOK'
<1>1. [vc[p] EXCEPT ![c] = @ + 1] \in [Task -> Nat]
  BY DEF ClockTypeOK
<1>2. vc \in [Task -> [Task -> Nat]]
  BY DEF ClockTypeOK
<1>3. [vc EXCEPT ![c] = [vc[p] EXCEPT ![c] = @ + 1], ![p][p] = @ + 1]
        \in [Task -> [Task -> Nat]]
  BY <1>1, <1>2, TwoClocksType, Zenon
<1>4. QED
  BY <1>3 DEF ClockTypeOK, BookSpawn

LEMMA WaitHookType ==
  ASSUME ClockTypeOK, NEW t \in Task, Capturewait_for_all(t)
  PROVE  ClockTypeOK'
<1>1. \A x \in Task : JoinedClock(x) \in [Task -> Nat]
  <2>1. TAKE x \in Task
  <2>2. \A u \in Task : JoinedClock(x)[u] \in Nat
    BY JoinedClockFacts DEF ClockTypeOK
  <2>3. JoinedClock(x) = [u \in Task |-> JoinedClock(x)[u]]
    BY DEF JoinedClock
  <2>4. QED
    BY <2>2, <2>3
<1>2. vc' \in [Task -> [Task -> Nat]]
  BY <1>1 DEF ClockTypeOK, Capturewait_for_all
<1>3. QED
  BY <1>2 DEF ClockTypeOK, Capturewait_for_all

LEMMA AcquireHookType ==
  ASSUME ClockTypeOK, NEW t \in Task, NEW l \in Locks, CaptureLockAcquire(t, l)
  PROVE  ClockTypeOK'
<1>1. \A u \in Task : Max({vc[t][u], lvc[l][u]}) \in Nat
  <2>1. TAKE u \in Task
  <2>2. vc[t][u] \in Nat /\ lvc[l][u] \in Nat
    BY DEF ClockTypeOK
  <2>3. QED
    BY <2>2, MaxOfPair
<1>2. [u \in Task |-> Max({vc[t][u], lvc[l][u]})] \in [Task -> Nat]
  BY <1>1
<1>3. QED
  BY <1>2 DEF ClockTypeOK, CaptureLockAcquire

LEMMA ReleaseHookType ==
  ASSUME ClockTypeOK, NEW t \in Task, NEW l \in Locks, CaptureLockRelease(t, l)
  PROVE  ClockTypeOK'
BY DEF ClockTypeOK, CaptureLockRelease

LEMMA RecordMemType ==
  ASSUME ClockTypeOK, ShadowTypeOK, NEW t \in Task, NEW kind \in AccessType,
         RecordMem(t, kind)
  PROVE  ClockTypeOK' /\ ShadowTypeOK'
<1>1. Clock(t) \in Nat
  BY DEF Clock, ClockTypeOK
<1>2. ClockTypeOK'
  BY <1>1 DEF RecordMem, ClockTypeOK
<1>3. t \in Recorded /\ PointerTask \in Recorded /\ PointerClock \in Nat
  BY PointerAssumption DEF Recorded
<1>4. /\ Epoch(t) \in [tid : Task, clk : Nat]
      /\ Epoch(t) \in [tid : Recorded, clk : Nat]
      /\ Pointer \in [tid : Recorded, clk : Nat]
      /\ NoEpoch \in [tid : Recorded, clk : Nat]
      /\ NoReads \in [Recorded -> Nat]
  BY <1>1, <1>3, TaskFacts DEF Epoch, Pointer, NoEpoch, NoReads, Recorded
<1>5. ReadWord(t) \in VarState
  <2>1. [NoReads EXCEPT ![word.rd.tid] = word.rd.clk, ![t] = Clock(t)] \in [Recorded -> Nat]
    BY <1>1, <1>3, <1>4 DEF ShadowTypeOK, VarState
  <2>2. CASE word.is_vector
    BY <1>1, <1>3, <2>2 DEF ReadWord, ShadowTypeOK, VarState
  <2>3. CASE ~ word.is_vector
    BY <1>4, <2>1, <2>3 DEF ReadWord, ShadowTypeOK, VarState
  <2>4. QED
    BY <2>2, <2>3
<1>6. WrittenWord(t) \in VarState
  BY <1>4 DEF WrittenWord, ShadowTypeOK, VarState
<1>7. [word EXCEPT !.racy = TRUE] \in VarState
  BY DEF ShadowTypeOK, VarState
<1>8. word' \in VarState
  BY <1>5, <1>6, <1>7 DEF RecordMem, ShadowTypeOK
<1>9. Reports(t, kind) \in BOOLEAN
  BY DEF Reports
<1>10. detected' \in BOOLEAN
  BY <1>9 DEF RecordMem, ShadowTypeOK
<1>11. QED
  BY <1>2, <1>8, <1>10 DEF ShadowTypeOK

LEMMA NoteType ==
  ASSUME stamps \subseteq Task \X Nat \X Nat, ProgramTypeOK', ClockTypeOK', Note
  PROVE  stamps' \subseteq Task \X Nat \X Nat
<1>1. \A t \in Task : seg'[t] \in Nat /\ vc'[t][t] \in Nat
  BY DEF ProgramTypeOK, ClockTypeOK
<1>2. QED
  BY <1>1 DEF Note

LEMMA TouchType ==
  ASSUME ProgramTypeOK, NEW t \in Task, NEW kind \in AccessType, Touch(t, kind)
  PROVE  ProgramTypeOK'
BY DEF Touch, HBAccess, ProgramTypeOK, taskStateVars, lockStateVars, orderVars

LEMMA TaskStepType ==
  ASSUME ProgramTypeOK, ClockTypeOK, ShadowTypeOK, TaskStep
  PROVE  ProgramTypeOK' /\ ClockTypeOK' /\ ShadowTypeOK'
<1>1. ASSUME NEW s \in Task, NEW c \in Task,
             Spawn(s, c) \/ SpawnAndWaitForAll(s, c), BookSpawn(s, c)
      PROVE  ProgramTypeOK' /\ ClockTypeOK' /\ ShadowTypeOK'
  <2>1. ProgramTypeOK'
    BY <1>1, SpawnChildType DEF Spawn, SpawnAndWaitForAll, Status
  <2>2. ClockTypeOK'
    BY <1>1, BookSpawnType
  <2>3. ShadowTypeOK'
    BY <1>1 DEF BookSpawn, shadowVars, ShadowTypeOK
  <2>4. QED
    BY <2>1, <2>2, <2>3
<1>2. ASSUME NEW s \in Task, NEW c \in Task, SpawnRootAndWait(s, c), BookSpawn(s, c)
      PROVE  ProgramTypeOK' /\ ClockTypeOK' /\ ShadowTypeOK'
  <2>1. ProgramTypeOK' /\ ClockTypeOK'
    BY <1>2, SpawnRootType, BookSpawnType
  <2>2. ShadowTypeOK'
    BY <1>2 DEF BookSpawn, shadowVars, ShadowTypeOK
  <2>3. QED
    BY <2>1, <2>2
<1>3. ASSUME NEW s \in Task, NEW c \in Task, SpawnSibling(s, c), BookSpawn(parent[s], c)
      PROVE  ProgramTypeOK' /\ ClockTypeOK' /\ ShadowTypeOK'
  <2>1. parent[s] \in Task
    BY DEF ProgramTypeOK
  <2>2. ProgramTypeOK' /\ ClockTypeOK'
    BY <1>3, <2>1, SpawnSiblingType, BookSpawnType
  <2>3. ShadowTypeOK'
    BY <1>3 DEF BookSpawn, shadowVars, ShadowTypeOK
  <2>4. QED
    BY <2>2, <2>3
<1>4. ASSUME NEW t \in Task, WaitForAllReturn(t) \/ RootWaitReturn(t),
             Capturewait_for_all(t)
      PROVE  ProgramTypeOK' /\ ClockTypeOK' /\ ShadowTypeOK'
  <2>1. ProgramTypeOK' /\ ClockTypeOK'
    BY <1>4, WaitReturnType, WaitHookType
  <2>2. ShadowTypeOK'
    BY <1>4 DEF Capturewait_for_all, shadowVars, ShadowTypeOK
  <2>3. QED
    BY <2>1, <2>2
<1>5. ASSUME NEW t \in Task,
             ExecBegin(t) \/ ExecEnd(t) \/ WaitForAll(t) \/ MainReturns, NoHook
      PROVE  ProgramTypeOK' /\ ClockTypeOK' /\ ShadowTypeOK'
  <2>1. ProgramTypeOK'
    BY <1>5, MoveType, TaskFacts DEF ExecBegin, ExecEnd, WaitForAll, MainReturns, Status
  <2>2. ClockTypeOK' /\ ShadowTypeOK'
    BY <1>5 DEF NoHook, clockVars, shadowVars, ClockTypeOK, ShadowTypeOK
  <2>3. QED
    BY <2>1, <2>2
<1>6. ASSUME NEW t \in Task, NEW l \in Locks,
             \/ Acquire(t, l) /\ CaptureLockAcquire(t, l)
             \/ Release(t, l) /\ CaptureLockRelease(t, l)
      PROVE  ProgramTypeOK' /\ ClockTypeOK' /\ ShadowTypeOK'
  <2>1. ProgramTypeOK' /\ ClockTypeOK'
    BY <1>6, LockType, AcquireHookType, ReleaseHookType
  <2>2. ShadowTypeOK'
    BY <1>6 DEF CaptureLockAcquire, CaptureLockRelease, shadowVars, ShadowTypeOK
  <2>3. QED
    BY <2>1, <2>2
<1>7. ASSUME NEW t \in Task, NEW kind \in AccessType, Access(t, kind)
      PROVE  ProgramTypeOK' /\ ClockTypeOK' /\ ShadowTypeOK'
  BY <1>7, TouchType, RecordMemType DEF Access
<1>8. QED
  BY <1>1, <1>2, <1>3, <1>4, <1>5, <1>6, <1>7, TaskFacts DEF TaskStep

LEMMA TypeParts ==
  TypeOK <=> /\ ProgramTypeOK /\ ClockTypeOK /\ ShadowTypeOK
             /\ stamps \subseteq Task \X Nat \X Nat
BY DEF TypeOK, ClockTypeOK, ShadowTypeOK

LEMMA InitType == Init => TypeOK
<1>1. SUFFICES ASSUME Init PROVE TypeOK
  OBVIOUS
<1>2. ProgramTypeOK
  BY <1>1, TaskFacts DEF Init, ProgramInit, HBInit, ProgramTypeOK, Status
<1>3. ClockTypeOK
  BY <1>1 DEF Init, ClockTypeOK
<1>4. ShadowTypeOK
  BY <1>1, TaskFacts DEF Init, ShadowTypeOK, VarState, NoEpoch, NoReads, Recorded
<1>5. QED
  BY <1>1, <1>2, <1>3, <1>4 DEF TypeOK, ClockTypeOK, ShadowTypeOK, Init

LEMMA NextType == TypeOK /\ [Next]_vars => TypeOK'
<1>1. SUFFICES ASSUME TypeOK, [Next]_vars PROVE TypeOK'
  OBVIOUS
<1>2. ProgramTypeOK /\ ClockTypeOK /\ ShadowTypeOK /\ stamps \subseteq Task \X Nat \X Nat
  BY <1>1, TypeParts
<1>3. CASE TaskStep /\ Note
  <2>1. ProgramTypeOK' /\ ClockTypeOK' /\ ShadowTypeOK'
    BY <1>2, <1>3, TaskStepType
  <2>2. stamps' \subseteq Task \X Nat \X Nat
    BY <1>2, <1>3, <2>1, NoteType
  <2>3. QED
    BY <2>1, <2>2 DEF TypeOK, ClockTypeOK, ShadowTypeOK
<1>4. CASE UNCHANGED vars
  BY <1>1, <1>4 DEF vars, programVars, taskStateVars, lockStateVars, hbVars, orderVars,
     clockVars, shadowVars, TypeOK, ProgramTypeOK
<1>5. QED
  BY <1>1, <1>3, <1>4 DEF Next, Terminated

(***************************************************************************)
(* Every clock, epoch and map stays within its type, whatever the tasks    *)
(* and locks, with siblings and without.                                   *)
(***************************************************************************)
THEOREM FastTrackTypeCorrect == Spec => []TypeOK
BY InitType, NextType, PTL DEF Spec

-----------------------------------------------------------------------------
(***************************************************************************)
(* The invariant behind ClocksExact.  No task but a finished one is known  *)
(* to anyone with its present clock, in its present segment: so the stamp  *)
(* of a segment that begins is covered by no clock and in no past.         *)
(***************************************************************************)
Births ==
  \A t \in Task :
    /\ t > spawned => seg[t] = 0 /\ status[t] = "unborn" /\ vc[t][t] = 0
    /\ t =< spawned => seg[t] > 0

Stamped ==
  \A t \in Task, n, k \in Nat :
    <<t, n, k>> \in stamps => 0 < n /\ n =< seg[t] /\ 0 < k /\ k =< vc[t][t]

Noted == \A t \in Task : vc[t][t] > 0 => <<t, seg[t], vc[t][t]>> \in stamps

OwnPast == \A t \in Task, n \in Nat : 0 < n /\ n < seg[t] => <<t, n>> \in before[t]

Seen(P) ==
  \A u \in Task, n \in Nat :
    <<u, n>> \in P =>
      0 < n /\ n =< seg[u] /\ (n = seg[u] => status[u] = "finished")

PastsBounded == (\A t \in Task : Seen(before[t])) /\ \A l \in Locks : Seen(lockPast[l])

Below(C, u) ==
  C[u] =< vc[u][u] /\ (C[u] = vc[u][u] /\ C[u] > 0 => status[u] = "finished")

ClocksBounded ==
  /\ \A t, u \in Task : u # t => Below(vc[t], u)
  /\ \A l \in Locks, u \in Task : Below(lvc[l], u)

Covers(C, P, u) ==
  \A n, k \in Nat : <<u, n, k>> \in stamps => (k =< C[u] <=> <<u, n>> \in P)

TasksCover == \A t, u \in Task : u # t /\ t =< spawned => Covers(vc[t], before[t], u)
LocksCover == \A l \in Locks, u \in Task : Covers(lvc[l], lockPast[l], u)

Children ==
  /\ \A t \in Task : m_child[t] = tbb_children[t] \cup tbb_roots[t]
  /\ \A t \in Task : tbb_roots[t] # {} => status[t] = "rootwait"
  /\ \A t \in Task : status[t] = "rootwait" => t = 0
  /\ \A t \in Task : status[t] = "finished" /\ t # 0 => tbb_children[t] = {}
  /\ tbb_children[0] = {} /\ status[0] # "waiting"
  /\ \A t \in Task, c \in Task : c \in m_child[t] => c # 0 /\ c =< spawned

ClockInv ==
  Births /\ Stamped /\ Noted /\ OwnPast /\ PastsBounded /\ ClocksBounded
    /\ TasksCover /\ LocksCover /\ Children

LEMMA InitClockInv == Init => ClockInv
<1>1. SUFFICES ASSUME Init PROVE ClockInv
  OBVIOUS
<1>2. Births
  BY <1>1, TaskFacts DEF Init, ProgramInit, HBInit, Births
<1>3. Stamped /\ Noted
  BY <1>1 DEF Init, Stamped, Noted
<1>4. OwnPast
  BY <1>1 DEF Init, ProgramInit, HBInit, OwnPast
<1>5. PastsBounded
  BY <1>1 DEF Init, ProgramInit, HBInit, PastsBounded, Seen
<1>6. ClocksBounded
  BY <1>1 DEF Init, ClocksBounded, Below
<1>7. TasksCover /\ LocksCover
  BY <1>1 DEF Init, TasksCover, LocksCover, Covers
<1>8. Children
  BY <1>1, TaskFacts DEF Init, ProgramInit, Children
<1>9. QED
  BY <1>2, <1>3, <1>4, <1>5, <1>6, <1>7, <1>8 DEF ClockInv

-----------------------------------------------------------------------------
(***************************************************************************)
(* The stamps after a step are those before it and one for every task.     *)
(***************************************************************************)
LEMMA StampsAfter ==
  ASSUME TypeOK, TypeOK', Note
  PROVE  \A u \in Task, n, k \in Nat :
           <<u, n, k>> \in stamps' <=>
             <<u, n, k>> \in stamps \/ (n = seg'[u] /\ k = vc'[u][u] /\ k > 0)
BY DEF Note

LEMMA NotedAfter ==
  ASSUME TypeOK, TypeOK', Note
  PROVE  Noted'
<1>1. \A u \in Task : seg'[u] \in Nat /\ vc'[u][u] \in Nat
  BY DEF TypeOK, ProgramTypeOK
<1>2. QED
  BY <1>1, StampsAfter DEF Noted

(* A task whose segment and clock a step leaves alone gets no new stamp.   *)
LEMMA NoNewStamp ==
  ASSUME TypeOK, TypeOK', Note, Noted,
         NEW u \in Task, seg'[u] = seg[u], vc'[u][u] = vc[u][u]
  PROVE  \A n, k \in Nat : <<u, n, k>> \in stamps' <=> <<u, n, k>> \in stamps
BY StampsAfter DEF Noted

(* The clocks after a spawn, entry by entry.                               *)
LEMMA TwoClocks ==
  ASSUME NEW f \in [Task -> [Task -> Nat]], NEW p \in Task, NEW c \in Task, p # c,
         NEW a \in [Task -> Nat], NEW g, g = [f EXCEPT ![c] = a, ![p][p] = @ + 1]
  PROVE  /\ g[c] = a
         /\ g[p][p] = f[p][p] + 1
         /\ \A u \in Task : u # p => g[p][u] = f[p][u]
         /\ \A t \in Task : t # p /\ t # c => g[t] = f[t]
OBVIOUS

LEMMA SpawnedClocks ==
  ASSUME TypeOK, NEW p \in Task, NEW c \in Task, p # c, BookSpawn(p, c)
  PROVE  /\ vc'[c][c] = vc[p][c] + 1
         /\ \A u \in Task : u # c => vc'[c][u] = vc[p][u]
         /\ vc'[p][p] = vc[p][p] + 1
         /\ \A u \in Task : u # p => vc'[p][u] = vc[p][u]
         /\ \A t \in Task : t # p /\ t # c => vc'[t] = vc[t]
<1>1. vc \in [Task -> [Task -> Nat]]
  BY DEF TypeOK
<1>2. PICK a \in [Task -> Nat] : a = [vc[p] EXCEPT ![c] = @ + 1]
  <2>1. [vc[p] EXCEPT ![c] = @ + 1] \in [Task -> Nat]
    BY <1>1
  <2>2. QED
    BY <2>1, Zenon
<1>3. vc' = [vc EXCEPT ![c] = a, ![p][p] = @ + 1]
  BY <1>2, Zenon DEF BookSpawn
<1>4. /\ vc'[c] = a
      /\ vc'[p][p] = vc[p][p] + 1
      /\ \A u \in Task : u # p => vc'[p][u] = vc[p][u]
      /\ \A t \in Task : t # p /\ t # c => vc'[t] = vc[t]
  BY <1>1, <1>3, TwoClocks, Zenon
<1>5. a[c] = vc[p][c] + 1 /\ \A u \in Task : u # c => a[u] = vc[p][u]
  BY <1>1, <1>2
<1>6. QED
  BY <1>4, <1>5

-----------------------------------------------------------------------------
(***************************************************************************)
(* A spawn: the parent moves on to a segment and a clock nobody has seen.  *)
(***************************************************************************)
LEMMA SpawnKeeps ==
  ASSUME TypeOK, TypeOK', ClockInv, Note, NEW p \in Task, NEW c \in Task,
         NEW next \in {"running", "waiting", "rootwait"},
         Create(p, p, c, next), BookSpawn(p, c)
  PROVE  /\ Births' /\ Stamped' /\ Noted' /\ OwnPast' /\ PastsBounded'
         /\ ClocksBounded' /\ TasksCover' /\ LocksCover'
<1>1. /\ seg \in [Task -> Nat] /\ spawned \in Nat /\ status \in [Task -> Status]
      /\ before \in [Task -> SUBSET (Task \X Nat)]
      /\ \A t, u \in Task : vc[t][u] \in Nat
      /\ \A l \in Locks, u \in Task : lvc[l][u] \in Nat
      /\ \A t \in Task : t \in Nat
  BY TaskFacts DEF TypeOK, ProgramTypeOK
<1>2. /\ status[p] = "running" /\ c = spawned + 1 /\ spawned' = c
      /\ p =< spawned /\ p # c
  BY <1>1 DEF Create, Running, ClockInv, Births
<1>3. /\ status'[p] # "finished" /\ status'[c] = "ready"
      /\ \A t \in Task : t # p /\ t # c => status'[t] = status[t]
  BY <1>1, <1>2 DEF Create
<1>4. /\ seg'[p] = seg[p] + 1 /\ seg'[c] = 1 /\ seg[c] = 0 /\ seg[p] > 0
      /\ \A t \in Task : t # p /\ t # c => seg'[t] = seg[t]
  <2>1. seg[c] = 0 /\ seg[p] > 0
    BY <1>1, <1>2 DEF ClockInv, Births
  <2>2. seg' = [seg EXCEPT ![p] = @ + 1, ![c] = 1]
    BY DEF Create, HBFork
  <2>3. QED
    BY <1>1, <1>2, <2>1, <2>2
<1>5. /\ before'[p] = before[p] \cup {<<p, seg[p]>>}
      /\ before'[c] = before[p] \cup {<<p, seg[p]>>}
      /\ \A t \in Task : t # p /\ t # c => before'[t] = before[t]
      /\ lockPast' = lockPast
  BY <1>1, <1>2 DEF Create, HBFork, PastOf, lockStateVars
<1>6. vc[c][c] = 0 /\ \A t \in Task : vc[t][c] = 0
  BY <1>1, <1>2 DEF ClockInv, Births, ClocksBounded, Below
<1>7. /\ vc'[c][c] = 1
      /\ \A u \in Task : u # c => vc'[c][u] = vc[p][u]
      /\ vc'[p][p] = vc[p][p] + 1
      /\ \A u \in Task : u # p => vc'[p][u] = vc[p][u]
      /\ \A t \in Task : t # p /\ t # c => vc'[t] = vc[t]
      /\ lvc' = lvc
  <2>1. /\ vc'[c][c] = vc[p][c] + 1
        /\ \A u \in Task : u # c => vc'[c][u] = vc[p][u]
        /\ vc'[p][p] = vc[p][p] + 1
        /\ \A u \in Task : u # p => vc'[p][u] = vc[p][u]
        /\ \A t \in Task : t # p /\ t # c => vc'[t] = vc[t]
    BY <1>2, SpawnedClocks, Zenon
  <2>2. lvc' = lvc
    BY DEF BookSpawn
  <2>3. QED
    BY <1>6, <2>1, <2>2
<1>8. /\ \A u \in Task, n, k \in Nat : u # p /\ u # c =>
           (<<u, n, k>> \in stamps' <=> <<u, n, k>> \in stamps)
      /\ \A n, k \in Nat : <<p, n, k>> \in stamps' <=>
           <<p, n, k>> \in stamps \/ (n = seg[p] + 1 /\ k = vc[p][p] + 1)
      /\ \A n, k \in Nat : <<c, n, k>> \in stamps' <=> n = 1 /\ k = 1
  <2>1. \A u \in Task, n, k \in Nat : u # p /\ u # c =>
          (<<u, n, k>> \in stamps' <=> <<u, n, k>> \in stamps)
    BY <1>4, <1>7, NoNewStamp DEF ClockInv
  <2>2. \A n, k \in Nat : <<c, n, k>> \notin stamps
    BY <1>4 DEF ClockInv, Stamped
  <2>3. \A n, k \in Nat : <<p, n, k>> \in stamps' <=>
          <<p, n, k>> \in stamps \/ (n = seg'[p] /\ k = vc'[p][p] /\ k > 0)
    BY StampsAfter
  <2>4. \A n, k \in Nat : <<c, n, k>> \in stamps' <=>
          <<c, n, k>> \in stamps \/ (n = seg'[c] /\ k = vc'[c][c] /\ k > 0)
    BY StampsAfter
  <2>5. vc[p][p] \in Nat /\ seg'[p] = seg[p] + 1 /\ vc'[p][p] = vc[p][p] + 1
    BY <1>1, <1>4, <1>7
  <2>6. \A n, k \in Nat : <<p, n, k>> \in stamps' <=>
          <<p, n, k>> \in stamps \/ (n = seg[p] + 1 /\ k = vc[p][p] + 1)
    BY <2>3, <2>5
  <2>7. seg'[c] = 1 /\ vc'[c][c] = 1
    BY <1>4, <1>7
  <2>8. \A n, k \in Nat : <<c, n, k>> \in stamps' <=> n = 1 /\ k = 1
    BY <2>2, <2>4, <2>7
  <2>9. QED
    BY <2>1, <2>6, <2>8
<1>9. Births'
  BY <1>1, <1>2, <1>3, <1>4, <1>7 DEF ClockInv, Births
<1>10. Stamped'
  BY <1>1, <1>2, <1>4, <1>7, <1>8 DEF ClockInv, Stamped
<1>11. Noted'
  BY NotedAfter
<1>12. OwnPast'
  BY <1>1, <1>2, <1>4, <1>5 DEF ClockInv, OwnPast
<1>13. \A t \in Task : Seen(before[t])'
  <2>1. SUFFICES ASSUME NEW t \in Task, NEW u \in Task, NEW n \in Nat, <<u, n>> \in before'[t]
                 PROVE  0 < n /\ n =< seg'[u] /\ (n = seg'[u] => status'[u] = "finished")
    BY DEF Seen
  <2>2. \/ <<u, n>> \in before[t] \/ <<u, n>> \in before[p]
        \/ u = p /\ n = seg[p]
    BY <1>5, <2>1
  <2>3. \/ 0 < n /\ n =< seg[u] /\ (n = seg[u] => status[u] = "finished")
        \/ u = p /\ n = seg[p]
    BY <2>2 DEF ClockInv, PastsBounded, Seen
  <2>4. seg[u] \in Nat /\ seg[c] = 0 /\ seg[p] > 0
    BY <1>1, <1>4
  <2>5. CASE u = p
    <3>1. seg'[u] = seg[p] + 1 /\ status[p] = "running"
      BY <1>2, <1>4, <2>5
    <3>2. QED
      BY <2>3, <2>4, <2>5, <3>1
  <2>6. CASE u = c
    BY <1>2, <2>3, <2>4, <2>6
  <2>7. CASE u # p /\ u # c
    <3>1. seg'[u] = seg[u] /\ status'[u] = status[u]
      BY <1>3, <1>4, <2>7
    <3>2. QED
      BY <2>3, <2>7, <3>1
  <2>8. QED
    BY <2>5, <2>6, <2>7
<1>14. \A l \in Locks : Seen(lockPast[l])'
  BY <1>1, <1>2, <1>3, <1>4, <1>5 DEF ClockInv, PastsBounded, Seen
<1>15. PastsBounded'
  BY <1>13, <1>14 DEF PastsBounded
<1>16. \A t, u \in Task : u # t => Below(vc[t], u)'
  <2>1. SUFFICES ASSUME NEW t \in Task, NEW u \in Task, u # t
                 PROVE  /\ vc'[t][u] =< vc'[u][u]
                        /\ vc'[t][u] = vc'[u][u] /\ vc'[t][u] > 0 => status'[u] = "finished"
    BY DEF Below
  <2>2. CASE u = c
    BY <1>2, <1>6, <1>7, <2>1, <2>2
  <2>3. CASE u = p
    <3>1. vc'[t][p] =< vc[p][p]
      BY <1>1, <1>7, <2>1, <2>3 DEF ClockInv, ClocksBounded, Below
    <3>2. QED
      BY <1>1, <1>7, <2>3, <3>1
  <2>4. CASE u # c /\ u # p
    <3>1. vc'[u][u] = vc[u][u] /\ status'[u] = status[u]
      BY <1>3, <1>7, <2>4
    <3>2. vc'[t][u] \in {vc[t][u], vc[p][u]}
      BY <1>7, <2>4
    <3>3. Below(vc[t], u) /\ Below(vc[p], u)
      BY <2>1, <2>4 DEF ClockInv, ClocksBounded
    <3>4. QED
      BY <3>1, <3>2, <3>3 DEF Below
  <2>5. QED
    BY <2>2, <2>3, <2>4
<1>17. \A l \in Locks, u \in Task : Below(lvc[l], u)'
  BY <1>1, <1>2, <1>3, <1>6, <1>7 DEF ClockInv, ClocksBounded, Below
<1>18. ClocksBounded'
  BY <1>16, <1>17 DEF ClocksBounded
<1>19. TasksCover'
  <2>1. SUFFICES ASSUME NEW t \in Task, NEW u \in Task, u # t, t =< spawned',
                        NEW n \in Nat, NEW k \in Nat, <<u, n, k>> \in stamps'
                 PROVE  k =< vc'[t][u] <=> <<u, n>> \in before'[t]
    BY DEF TasksCover, Covers
  <2> DEFINE s == IF t = c THEN p ELSE t
  <2>2. CASE u = c
    <3>1. n = 1 /\ k = 1
      BY <1>8, <2>1, <2>2
    <3>2. vc'[t][u] = 0
      BY <1>2, <1>6, <1>7, <2>1, <2>2
    <3>3. \A x \in Task : <<c, 1>> \notin before[x]
      BY <1>4 DEF ClockInv, PastsBounded, Seen
    <3>4. <<u, n>> \notin before'[t]
      BY <1>2, <1>5, <2>1, <2>2, <3>1, <3>3
    <3>5. QED
      BY <3>1, <3>2, <3>4
  <2>3. CASE u = p /\ <<u, n, k>> \notin stamps
    <3>1. n = seg[p] + 1 /\ k = vc[p][p] + 1
      BY <1>8, <2>1, <2>3
    <3>2. vc'[t][p] =< vc[p][p]
      BY <1>1, <1>7, <2>1, <2>3 DEF ClockInv, ClocksBounded, Below
    <3>3. \A x \in Task : <<p, n>> \notin before[x]
      BY <1>1, <3>1 DEF ClockInv, PastsBounded, Seen
    <3>4. <<u, n>> \notin before'[t]
      BY <1>1, <1>5, <2>1, <2>3, <3>1, <3>3
    <3>5. ~ k =< vc'[t][u]
      <4>1. vc'[t][p] \in Nat /\ vc[p][p] \in Nat
        BY <1>1, <1>7, <2>1, <2>3
      <4>2. QED
        BY <2>3, <3>1, <3>2, <4>1
    <3>6. QED
      BY <3>4, <3>5
  <2>4. CASE u # c /\ <<u, n, k>> \in stamps
    <3>1. CASE u = p /\ t = c
      <4>1. k =< vc[p][p] /\ 0 < n /\ n =< seg[p]
        BY <2>4, <3>1 DEF ClockInv, Stamped
      <4>2. <<p, n>> \in before'[c]
        <5>1. n = seg[p] \/ n < seg[p]
          BY <1>1, <4>1
        <5>2. n < seg[p] => <<p, n>> \in before[p]
          BY <4>1 DEF ClockInv, OwnPast
        <5>3. QED
          BY <1>5, <5>1, <5>2
      <4>3. vc'[c][p] = vc[p][p]
        BY <1>2, <1>7
      <4>4. QED
        BY <3>1, <4>1, <4>2, <4>3
    <3>2. CASE u # p /\ t \in {p, c}
      <4>1. k =< vc[p][u] <=> <<u, n>> \in before[p]
        BY <1>2, <2>4, <3>2 DEF ClockInv, TasksCover, Covers
      <4>2. vc'[t][u] = vc[p][u]
        BY <1>7, <2>4, <3>2
      <4>3. <<u, n>> \in before'[t] <=> <<u, n>> \in before[p]
        BY <1>5, <3>2
      <4>4. QED
        BY <4>1, <4>2, <4>3
    <3>3. CASE t # p /\ t # c
      <4>1. t =< spawned
        BY <1>1, <1>2, <2>1, <3>3
      <4>2. k =< vc[t][u] <=> <<u, n>> \in before[t]
        BY <2>1, <2>4, <4>1 DEF ClockInv, TasksCover, Covers
      <4>3. QED
        BY <1>5, <1>7, <3>3, <4>2
    <3>4. QED
      BY <2>1, <3>1, <3>2, <3>3
  <2>5. QED
    BY <1>8, <2>1, <2>2, <2>3, <2>4
<1>20. LocksCover'
  <2>1. SUFFICES ASSUME NEW l \in Locks, NEW u \in Task,
                        NEW n \in Nat, NEW k \in Nat, <<u, n, k>> \in stamps'
                 PROVE  k =< lvc[l][u] <=> <<u, n>> \in lockPast[l]
    BY <1>5, <1>7 DEF LocksCover, Covers
  <2>2. Below(lvc[l], u) /\ Seen(lockPast[l])
    BY DEF ClockInv, ClocksBounded, PastsBounded
  <2>3. CASE <<u, n, k>> \in stamps
    BY <2>3 DEF ClockInv, LocksCover, Covers
  <2>4. CASE <<u, n, k>> \notin stamps
    <3>1. \/ u = c /\ n = 1 /\ k = 1
          \/ u = p /\ n = seg[p] + 1 /\ k = vc[p][p] + 1
      BY <1>8, <2>1, <2>4
    <3>2. n > seg[u] /\ k > vc[u][u]
      BY <1>1, <1>4, <1>6, <3>1
    <3>3. QED
      BY <1>1, <2>2, <3>2 DEF Below, Seen
  <2>5. QED
    BY <2>3, <2>4
<1>21. QED
  BY <1>9, <1>10, <1>11, <1>12, <1>15, <1>18, <1>19, <1>20

-----------------------------------------------------------------------------
(***************************************************************************)
(* A wait: the children have finished, and none of them left any behind.   *)
(***************************************************************************)
LEMMA LeftBehindIsChildren ==
  ASSUME m_child \in [Task -> SUBSET Task], NEW t \in Task,
         \A c \in m_child[t] : m_child[c] = {}
  PROVE  LeftBehind(t) = m_child[t]
<1>1. m_child[t] \in SUBSET Task
  OBVIOUS
<1>2. Adopts(m_child[t], t)
  BY DEF Adopts
<1>3. ASSUME NEW c \in LeftBehind(t) PROVE c \in m_child[t]
  BY <1>1, <1>2, <1>3 DEF LeftBehind
<1>4. ASSUME NEW c \in m_child[t] PROVE c \in LeftBehind(t)
  BY <1>1, <1>4 DEF LeftBehind, Adopts
<1>5. QED
  BY <1>3, <1>4

LEMMA JoinedClocks ==
  ASSUME TypeOK, NEW t \in Task, NEW S \in SUBSET Task, S = m_child[t],
         t \notin S, \A c \in S : m_child[c] = {}, Capturewait_for_all(t)
  PROVE  /\ \A x \in Task : x # t => vc'[x] = vc[x]
         /\ \A u \in Task :
              /\ \A x \in {t} \cup S : vc[x][u] =< vc'[t][u]
              /\ \E x \in {t} \cup S : vc[x][u] = vc'[t][u]
         /\ \A x \in Task : m_child'[x] = IF x = t THEN {} ELSE m_child[x]
         /\ lvc' = lvc
<1>1. vc \in [Task -> [Task -> Nat]] /\ m_child \in [Task -> SUBSET Task]
  BY DEF TypeOK
<1>2. LeftBehind(t) = S
  BY <1>1, LeftBehindIsChildren
<1>3. \A c \in S : LeftBehind(c) = {}
  BY <1>1, LeftBehindIsChildren
<1>4. vc' = [x \in Task |-> IF x \in {t} \cup S THEN JoinedClock(x) ELSE vc[x]]
  BY <1>2 DEF Capturewait_for_all
<1>5. ASSUME NEW x \in Task, x # t PROVE vc'[x] = vc[x]
  <2>1. CASE x \notin S
    BY <1>4, <1>5, <2>1
  <2>2. CASE x \in S
    <3>1. \A u \in Task : JoinedClock(x)[u] = vc[x][u]
      BY <1>1, <1>3, <2>2, JoinedClockFacts
    <3>2. JoinedClock(x) = [u \in Task |-> JoinedClock(x)[u]]
      BY DEF JoinedClock
    <3>3. JoinedClock(x) = vc[x]
      BY <1>1, <3>1, <3>2
    <3>4. QED
      BY <1>4, <2>2, <3>3
  <2>3. QED
    BY <2>1, <2>2
<1>6. ASSUME NEW u \in Task
      PROVE  /\ \A x \in {t} \cup S : vc[x][u] =< vc'[t][u]
             /\ \E x \in {t} \cup S : vc[x][u] = vc'[t][u]
  BY <1>1, <1>2, <1>4, JoinedClockFacts
<1>7. \A x \in Task : m_child'[x] = IF x = t THEN {} ELSE m_child[x]
  BY <1>1, <1>2 DEF Capturewait_for_all
<1>8. lvc' = lvc
  BY DEF Capturewait_for_all
<1>9. QED
  BY <1>5, <1>6, <1>7, <1>8

LEMMA JoinKeeps ==
  ASSUME TypeOK, TypeOK', ClockInv, Note, NEW t \in Task, NEW S \in SUBSET Task,
         S = m_child[t], \A c \in S : status[c] = "finished",
         status[t] \in {"waiting", "rootwait"},
         status' = [status EXCEPT ![t] = "running"], HBJoin(t, S),
         UNCHANGED <<spawned, lockPast>>, Capturewait_for_all(t)
  PROVE  /\ Births' /\ Stamped' /\ Noted' /\ OwnPast' /\ PastsBounded'
         /\ ClocksBounded' /\ TasksCover' /\ LocksCover'
<1>1. /\ seg \in [Task -> Nat] /\ spawned \in Nat /\ status \in [Task -> Status]
      /\ before \in [Task -> SUBSET (Task \X Nat)]
      /\ \A x, u \in Task : vc[x][u] \in Nat /\ vc'[x][u] \in Nat
      /\ \A l \in Locks, u \in Task : lvc[l][u] \in Nat
      /\ \A x \in Task : x \in Nat
  BY TaskFacts DEF TypeOK, ProgramTypeOK
<1>2. /\ t \notin S
      /\ \A c \in S : m_child[c] = {}
      /\ \A c \in S : c =< spawned
  BY DEF ClockInv, Children
<1>3. /\ status'[t] = "running" /\ status[t] # "finished" /\ t =< spawned
      /\ \A x \in Task : x # t => status'[x] = status[x]
  BY <1>1 DEF ClockInv, Births
<1>4. /\ seg'[t] = seg[t] + 1
      /\ \A x \in Task : x # t => seg'[x] = seg[x]
      /\ \A x \in Task : x # t => before'[x] = before[x]
  BY <1>1 DEF HBJoin
<1>5. \A u \in Task, n \in Nat :
        <<u, n>> \in before'[t] <=>
          \E x \in {t} \cup S : <<u, n>> \in before[x] \/ (u = x /\ n = seg[x])
  BY <1>1 DEF HBJoin, PastOf
<1>6. /\ \A x \in Task : x # t => vc'[x] = vc[x]
      /\ \A u \in Task : /\ \A x \in {t} \cup S : vc[x][u] =< vc'[t][u]
                         /\ \E x \in {t} \cup S : vc[x][u] = vc'[t][u]
      /\ lvc' = lvc
  BY <1>2, JoinedClocks
<1>7. \A u \in Task : vc'[u][u] = vc[u][u]
  <2>1. \A x \in S : vc[x][t] =< vc[t][t]
    BY <1>2 DEF ClockInv, ClocksBounded, Below
  <2>2. vc'[t][t] = vc[t][t]
    <3>1. vc[t][t] =< vc'[t][t]
      BY <1>6
    <3>2. PICK x \in {t} \cup S : vc[x][t] = vc'[t][t]
      BY <1>6
    <3>3. vc[x][t] =< vc[t][t]
      BY <1>1, <2>1
    <3>4. vc[t][t] \in Nat /\ vc'[t][t] \in Nat
      BY <1>1
    <3>5. QED
      BY <3>1, <3>2, <3>3, <3>4
  <2>3. QED
    BY <1>6, <2>2
<1>8. /\ \A u \in Task, n, k \in Nat : u # t =>
           (<<u, n, k>> \in stamps' <=> <<u, n, k>> \in stamps)
      /\ \A n, k \in Nat : <<t, n, k>> \in stamps' <=>
           <<t, n, k>> \in stamps \/ (n = seg[t] + 1 /\ k = vc[t][t] /\ k > 0)
  BY <1>4, <1>7, NoNewStamp, StampsAfter DEF ClockInv
<1>9. Births'
  BY <1>1, <1>3, <1>4, <1>7 DEF ClockInv, Births
<1>10. Stamped'
  <2>1. SUFFICES ASSUME NEW u \in Task, NEW n \in Nat, NEW k \in Nat, <<u, n, k>> \in stamps'
                 PROVE  0 < n /\ n =< seg'[u] /\ 0 < k /\ k =< vc'[u][u]
    BY DEF Stamped
  <2>2. seg[u] \in Nat /\ vc[u][u] \in Nat /\ seg'[u] >= seg[u] /\ vc'[u][u] = vc[u][u]
    BY <1>1, <1>4, <1>7
  <2>3. CASE <<u, n, k>> \in stamps
    <3>1. 0 < n /\ n =< seg[u] /\ 0 < k /\ k =< vc[u][u]
      BY <2>3 DEF ClockInv, Stamped
    <3>2. seg'[u] \in Nat
      BY <1>1, <1>4
    <3>3. QED
      BY <2>2, <3>1, <3>2
  <2>4. CASE <<u, n, k>> \notin stamps
    <3>1. u = t /\ n = seg[t] + 1 /\ k = vc[t][t] /\ k > 0
      BY <1>8, <2>1, <2>4
    <3>2. QED
      BY <1>4, <2>2, <3>1
  <2>5. QED
    BY <2>3, <2>4
<1>11. Noted'
  BY NotedAfter
<1>12. OwnPast'
  <2>1. SUFFICES ASSUME NEW u \in Task, NEW n \in Nat, 0 < n, n < seg'[u]
                 PROVE  <<u, n>> \in before'[u]
    BY DEF OwnPast
  <2>2. CASE u # t
    BY <1>4, <2>1, <2>2 DEF ClockInv, OwnPast
  <2>3. CASE u = t
    <3>1. n = seg[t] \/ <<t, n>> \in before[t]
      <4>1. seg[t] \in Nat /\ n < seg[t] + 1
        BY <1>1, <1>4, <2>1, <2>3
      <4>2. n < seg[t] => <<t, n>> \in before[t]
        BY <2>1 DEF ClockInv, OwnPast
      <4>3. QED
        BY <4>1, <4>2
    <3>2. QED
      BY <1>5, <2>3, <3>1
  <2>4. QED
    BY <2>2, <2>3
<1>13. \A x \in Task : Seen(before[x])'
  <2>1. SUFFICES ASSUME NEW x \in Task, NEW u \in Task, NEW n \in Nat, <<u, n>> \in before'[x]
                 PROVE  0 < n /\ n =< seg'[u] /\ (n = seg'[u] => status'[u] = "finished")
    BY DEF Seen
  <2>2. \/ \E y \in Task : <<u, n>> \in before[y]
        \/ u \in {t} \cup S /\ n = seg[u]
    BY <1>4, <1>5, <2>1
  <2>3. \A y \in {t} \cup S : seg[y] > 0
    BY <1>2, <1>3 DEF ClockInv, Births
  <2>4. \/ 0 < n /\ n =< seg[u] /\ (n = seg[u] => status[u] = "finished")
        \/ u = t /\ n = seg[t] /\ n > 0
    BY <1>1, <2>2, <2>3 DEF ClockInv, PastsBounded, Seen
  <2>5. QED
    BY <1>1, <1>3, <1>4, <2>4
<1>14. \A l \in Locks : Seen(lockPast[l])'
  BY <1>1, <1>3, <1>4 DEF ClockInv, PastsBounded, Seen
<1>15. PastsBounded'
  BY <1>13, <1>14 DEF PastsBounded
<1>16. \A x, u \in Task : u # x => Below(vc[x], u)'
  <2>1. SUFFICES ASSUME NEW x \in Task, NEW u \in Task, u # x
                 PROVE  /\ vc'[x][u] =< vc'[u][u]
                        /\ vc'[x][u] = vc'[u][u] /\ vc'[x][u] > 0 => status'[u] = "finished"
    BY DEF Below
  <2>2. CASE x # t
    BY <1>3, <1>6, <1>7, <2>1, <2>2 DEF ClockInv, ClocksBounded, Below
  <2>3. CASE x = t
    <3>1. PICK y \in {t} \cup S : vc[y][u] = vc'[t][u]
      BY <1>6
    <3>2. CASE y = u
      BY <1>1, <1>3, <1>7, <2>1, <2>3, <3>1, <3>2
    <3>3. CASE y # u
      BY <1>3, <1>7, <2>1, <2>3, <3>1, <3>3 DEF ClockInv, ClocksBounded, Below
    <3>4. QED
      BY <3>2, <3>3
  <2>4. QED
    BY <2>2, <2>3
<1>17. \A l \in Locks, u \in Task : Below(lvc[l], u)'
  BY <1>1, <1>3, <1>6, <1>7 DEF ClockInv, ClocksBounded, Below
<1>18. ClocksBounded'
  BY <1>16, <1>17 DEF ClocksBounded
<1>19. TasksCover'
  <2>1. SUFFICES ASSUME NEW x \in Task, NEW u \in Task, u # x, x =< spawned',
                        NEW n \in Nat, NEW k \in Nat, <<u, n, k>> \in stamps'
                 PROVE  k =< vc'[x][u] <=> <<u, n>> \in before'[x]
    BY DEF TasksCover, Covers
  <2>2. CASE x # t /\ <<u, n, k>> \in stamps
    BY <1>4, <1>6, <2>1, <2>2 DEF ClockInv, TasksCover, Covers
  <2>3. CASE x # t /\ <<u, n, k>> \notin stamps
    <3>1. u = t /\ n = seg[t] + 1 /\ k = vc[t][t] /\ k > 0
      BY <1>8, <2>1, <2>3
    <3>2. Below(vc[x], t) /\ Seen(before[x])
      BY <2>1, <3>1 DEF ClockInv, ClocksBounded, PastsBounded
    <3>3. ~ k =< vc[x][t]
      <4>1. vc[x][t] \in Nat /\ vc[t][t] \in Nat
        BY <1>1
      <4>2. QED
        BY <1>3, <3>1, <3>2, <4>1 DEF Below
    <3>4. <<t, n>> \notin before[x]
      BY <1>1, <3>1, <3>2 DEF Seen
    <3>5. QED
      BY <1>4, <1>6, <2>3, <3>1, <3>3, <3>4
  <2>4. CASE x = t
    <3>1. u # t /\ <<u, n, k>> \in stamps
      BY <1>8, <2>1, <2>4
    <3>2. 0 < n /\ n =< seg[u] /\ k =< vc[u][u]
      BY <3>1 DEF ClockInv, Stamped
    <3>3. \A y \in {t} \cup S : y # u => (k =< vc[y][u] <=> <<u, n>> \in before[y])
      BY <1>2, <1>3, <3>1 DEF ClockInv, TasksCover, Covers
    <3>4. n = seg[u] \/ <<u, n>> \in before[u]
      <4>1. seg[u] \in Nat
        BY <1>1
      <4>2. n < seg[u] => <<u, n>> \in before[u]
        BY <3>2 DEF ClockInv, OwnPast
      <4>3. QED
        BY <3>2, <4>1, <4>2
    <3>5. k =< vc'[t][u] <=> \E y \in {t} \cup S : k =< vc[y][u]
      BY <1>1, <1>6
    <3>6. ASSUME u \in S PROVE k =< vc'[t][u] /\ <<u, n>> \in before'[t]
      BY <1>5, <3>2, <3>4, <3>5, <3>6
    <3>7. ASSUME u \notin S PROVE k =< vc'[t][u] <=> <<u, n>> \in before'[t]
      BY <1>5, <3>1, <3>3, <3>5, <3>7
    <3>8. QED
      BY <2>4, <3>6, <3>7
  <2>5. QED
    BY <2>2, <2>3, <2>4
<1>20. LocksCover'
  <2>1. SUFFICES ASSUME NEW l \in Locks, NEW u \in Task,
                        NEW n \in Nat, NEW k \in Nat, <<u, n, k>> \in stamps'
                 PROVE  k =< lvc[l][u] <=> <<u, n>> \in lockPast[l]
    BY <1>6 DEF LocksCover, Covers
  <2>2. Below(lvc[l], u) /\ Seen(lockPast[l])
    BY DEF ClockInv, ClocksBounded, PastsBounded
  <2>3. CASE <<u, n, k>> \in stamps
    BY <2>3 DEF ClockInv, LocksCover, Covers
  <2>4. CASE <<u, n, k>> \notin stamps
    <3>1. u = t /\ n = seg[t] + 1 /\ k = vc[t][t] /\ k > 0
      BY <1>8, <2>1, <2>4
    <3>2. ~ k =< lvc[l][t]
      <4>1. lvc[l][t] \in Nat /\ vc[t][t] \in Nat
        BY <1>1
      <4>2. QED
        BY <1>3, <2>2, <3>1, <4>1 DEF Below
    <3>3. <<t, n>> \notin lockPast[l]
      <4>1. seg[t] \in Nat
        BY <1>1
      <4>2. QED
        BY <2>2, <3>1, <4>1 DEF Seen
    <3>4. QED
      BY <3>1, <3>2, <3>3
  <2>5. QED
    BY <2>3, <2>4
<1>21. QED
  BY <1>9, <1>10, <1>11, <1>12, <1>15, <1>18, <1>19, <1>20

-----------------------------------------------------------------------------
(***************************************************************************)
(* Taking a lock: the clock and the past of the lock are joined.           *)
(***************************************************************************)
LEMMA AcquireKeeps ==
  ASSUME TypeOK, TypeOK', ClockInv, Note, NEW t \in Task, NEW l \in Locks,
         Acquire(t, l), CaptureLockAcquire(t, l)
  PROVE  /\ Births' /\ Stamped' /\ Noted' /\ OwnPast' /\ PastsBounded'
         /\ ClocksBounded' /\ TasksCover' /\ LocksCover'
<1>1. /\ before \in [Task -> SUBSET (Task \X Nat)]
      /\ \A x, u \in Task : vc[x][u] \in Nat
      /\ \A m \in Locks, u \in Task : lvc[m][u] \in Nat
  BY DEF TypeOK, ProgramTypeOK
<1>2. /\ UNCHANGED <<spawned, status, seg, lockPast, lvc>>
      /\ before'[t] = before[t] \cup lockPast[l]
      /\ \A x \in Task : x # t => before'[x] = before[x]
  BY <1>1 DEF Acquire, taskStateVars, CaptureLockAcquire
<1>3. /\ \A x \in Task : x # t => vc'[x] = vc[x]
      /\ \A u \in Task :
           vc'[t][u] = IF vc[t][u] >= lvc[l][u] THEN vc[t][u] ELSE lvc[l][u]
  <2>1. vc \in [Task -> [Task -> Nat]]
    BY DEF TypeOK
  <2>2. vc' = [vc EXCEPT ![t] = [u \in Task |-> Max({vc[t][u], lvc[l][u]})]]
    BY DEF CaptureLockAcquire
  <2>3. /\ \A x \in Task : x # t => vc'[x] = vc[x]
        /\ \A u \in Task : vc'[t][u] = Max({vc[t][u], lvc[l][u]})
    BY <2>1, <2>2
  <2>4. \A u \in Task : Max({vc[t][u], lvc[l][u]})
                          = IF vc[t][u] >= lvc[l][u] THEN vc[t][u] ELSE lvc[l][u]
    BY <1>1, MaxOfPair
  <2>5. QED
    BY <2>3, <2>4
<1>4. \A u \in Task : vc'[u][u] = vc[u][u]
  <2>1. Below(lvc[l], t)
    BY DEF ClockInv, ClocksBounded
  <2>2. lvc[l][t] =< vc[t][t]
    BY <2>1 DEF Below
  <2>3. vc'[t][t] = vc[t][t]
    BY <1>1, <1>3, <2>2
  <2>4. QED
    BY <1>3, <2>3
<1>5. \A u \in Task, n, k \in Nat : <<u, n, k>> \in stamps' <=> <<u, n, k>> \in stamps
  BY <1>2, <1>4, NoNewStamp DEF ClockInv
<1>6. Births'
  BY <1>2, <1>4 DEF ClockInv, Births
<1>7. Stamped'
  BY <1>2, <1>4, <1>5 DEF ClockInv, Stamped
<1>8. Noted'
  BY NotedAfter
<1>9. OwnPast'
  BY <1>2 DEF ClockInv, OwnPast
<1>10. PastsBounded'
  <2>1. \A x \in Task : Seen(before[x])'
    BY <1>2 DEF ClockInv, PastsBounded, Seen
  <2>2. \A m \in Locks : Seen(lockPast[m])'
    BY <1>2 DEF ClockInv, PastsBounded, Seen
  <2>3. QED
    BY <2>1, <2>2 DEF PastsBounded
<1>11. ClocksBounded'
  <2>1. \A x, u \in Task : u # x => Below(vc[x], u)'
    <3>1. SUFFICES ASSUME NEW x \in Task, NEW u \in Task, u # x
                   PROVE  Below(vc[x], u)'
      OBVIOUS
    <3>2. Below(vc[x], u) /\ Below(lvc[l], u)
      BY <3>1 DEF ClockInv, ClocksBounded
    <3>3. vc'[x][u] \in {vc[x][u], lvc[l][u]}
      BY <1>3
    <3>4. QED
      BY <1>2, <1>4, <3>2, <3>3 DEF Below
  <2>2. \A m \in Locks, u \in Task : Below(lvc[m], u)'
    BY <1>2, <1>4 DEF ClockInv, ClocksBounded, Below
  <2>3. QED
    BY <2>1, <2>2 DEF ClocksBounded
<1>12. TasksCover'
  <2>1. SUFFICES ASSUME NEW x \in Task, NEW u \in Task, u # x, x =< spawned,
                        NEW n \in Nat, NEW k \in Nat, <<u, n, k>> \in stamps
                 PROVE  k =< vc'[x][u] <=> <<u, n>> \in before'[x]
    BY <1>2, <1>5 DEF TasksCover, Covers
  <2>2. k =< vc[x][u] <=> <<u, n>> \in before[x]
    BY <2>1 DEF ClockInv, TasksCover, Covers
  <2>3. k =< lvc[l][u] <=> <<u, n>> \in lockPast[l]
    BY <2>1 DEF ClockInv, LocksCover, Covers
  <2>4. CASE x # t
    BY <1>2, <1>3, <2>2, <2>4
  <2>5. CASE x = t
    <3>1. k =< vc'[t][u] <=> k =< vc[t][u] \/ k =< lvc[l][u]
      <4>1. vc[t][u] \in Nat /\ lvc[l][u] \in Nat
        BY <1>1
      <4>2. QED
        BY <1>3, <4>1
    <3>2. QED
      BY <1>2, <2>2, <2>3, <2>5, <3>1
  <2>6. QED
    BY <2>4, <2>5
<1>13. LocksCover'
  BY <1>2, <1>5 DEF ClockInv, LocksCover, Covers
<1>14. QED
  BY <1>6, <1>7, <1>8, <1>9, <1>10, <1>11, <1>12, <1>13

-----------------------------------------------------------------------------
(***************************************************************************)
(* Steps that begin a segment or a clock of one running task and leave the *)
(* clocks of the others alone: a release, and the first hook of main.      *)
(***************************************************************************)
LEMMA MovesOn ==
  ASSUME TypeOK, TypeOK', ClockInv, Note, NEW t \in Task, status[t] = "running",
         UNCHANGED <<spawned, status>>,
         seg'[t] \in {seg[t], seg[t] + 1}, vc'[t][t] \in {vc[t][t], vc[t][t] + 1},
         vc'[t][t] > vc[t][t] \/ (seg'[t] = seg[t] /\ vc'[t][t] = vc[t][t]),
         \A x \in Task : x # t => seg'[x] = seg[x] /\ vc'[x] = vc[x] /\ before'[x] = before[x],
         \A u \in Task : u # t => vc'[t][u] = vc[t][u],
         before'[t] = IF seg'[t] = seg[t] THEN before[t] ELSE PastOf(t)
  PROVE  /\ Births' /\ Stamped' /\ Noted' /\ OwnPast' /\ TasksCover'
         /\ (\A x \in Task : Seen(before[x])')
         /\ (\A x, u \in Task : u # x => Below(vc[x], u)')
         /\ (\A n, k \in Nat : <<t, n, k>> \in stamps' /\ <<t, n, k>> \notin stamps =>
               k = vc[t][t] + 1 /\ n = seg'[t])
         /\ (\A u \in Task, n, k \in Nat : u # t => (<<u, n, k>> \in stamps' <=> <<u, n, k>> \in stamps))
<1>1. /\ seg \in [Task -> Nat]
      /\ \A x, u \in Task : vc[x][u] \in Nat
      /\ \A x \in Task : vc'[x][x] \in Nat /\ seg'[x] \in Nat
  BY DEF TypeOK, ProgramTypeOK
<1>2. t =< spawned /\ seg[t] > 0
  <2>1. t =< spawned
    BY DEF ClockInv, Births, TypeOK, ProgramTypeOK, Task
  <2>2. QED
    BY <2>1 DEF ClockInv, Births
<1>3. /\ \A u \in Task, n, k \in Nat : u # t => (<<u, n, k>> \in stamps' <=> <<u, n, k>> \in stamps)
      /\ \A n, k \in Nat : <<t, n, k>> \in stamps' /\ <<t, n, k>> \notin stamps =>
           k = vc[t][t] + 1 /\ n = seg'[t]
      /\ \A n, k \in Nat : <<t, n, k>> \in stamps => <<t, n, k>> \in stamps'
  <2>1. \A u \in Task, n, k \in Nat : u # t => (<<u, n, k>> \in stamps' <=> <<u, n, k>> \in stamps)
    BY NoNewStamp DEF ClockInv
  <2>2. CASE vc'[t][t] = vc[t][t] /\ seg'[t] = seg[t]
    BY <2>1, <2>2, NoNewStamp DEF ClockInv
  <2>3. CASE vc'[t][t] = vc[t][t] + 1
    BY <2>1, <2>3, StampsAfter
  <2>4. QED
    BY <1>1, <2>2, <2>3
<1>4. Births'
  <2>1. t =< spawned
    BY <1>2
  <2>2. SUFFICES ASSUME NEW x \in Task
                 PROVE  /\ x > spawned => seg'[x] = 0 /\ status[x] = "unborn" /\ vc'[x][x] = 0
                        /\ x =< spawned => seg'[x] > 0
    BY DEF Births
  <2>3. /\ x > spawned => seg[x] = 0 /\ status[x] = "unborn" /\ vc[x][x] = 0
        /\ x =< spawned => seg[x] > 0
    BY DEF ClockInv, Births
  <2>4. x # t => seg'[x] = seg[x] /\ vc'[x][x] = vc[x][x]
    OBVIOUS
  <2>5. spawned \in Int /\ x \in Int /\ seg[x] \in Nat
    BY <1>1, TaskFacts DEF TypeOK, ProgramTypeOK
  <2>6. QED
    BY <2>1, <2>3, <2>4, <2>5
<1>5. Stamped'
  <2>1. SUFFICES ASSUME NEW u \in Task, NEW n \in Nat, NEW k \in Nat, <<u, n, k>> \in stamps'
                 PROVE  0 < n /\ n =< seg'[u] /\ 0 < k /\ k =< vc'[u][u]
    BY DEF Stamped
  <2>2. CASE <<u, n, k>> \in stamps
    <3>1. 0 < n /\ n =< seg[u] /\ 0 < k /\ k =< vc[u][u]
      BY <2>2 DEF ClockInv, Stamped
    <3>2. /\ seg[u] \in Nat /\ seg'[u] \in Nat /\ seg[u] =< seg'[u]
          /\ vc[u][u] \in Nat /\ vc'[u][u] \in Nat /\ vc[u][u] =< vc'[u][u]
      BY <1>1
    <3>3. QED
      BY <3>1, <3>2
  <2>3. CASE <<u, n, k>> \notin stamps
    <3>1. u = t /\ n = seg'[t] /\ k = vc'[t][t] /\ k > 0
      BY <1>3, <2>1, <2>3, StampsAfter
    <3>2. seg[t] > 0
      BY <1>2
    <3>3. QED
      BY <1>1, <3>1, <3>2
  <2>4. QED
    BY <2>2, <2>3
<1>6. Noted'
  BY NotedAfter
<1>7. OwnPast'
  <2>1. SUFFICES ASSUME NEW u \in Task, NEW n \in Nat, 0 < n, n < seg'[u]
                 PROVE  <<u, n>> \in before'[u]
    BY DEF OwnPast
  <2>2. seg[u] \in Nat /\ (u # t => seg'[u] = seg[u])
    BY <1>1
  <2>3. n < seg[u] \/ (u = t /\ n = seg[t] /\ seg'[t] # seg[t])
    BY <2>1, <2>2
  <2>4. n < seg[u] => <<u, n>> \in before[u]
    BY <2>1 DEF ClockInv, OwnPast
  <2>5. QED
    BY <2>3, <2>4 DEF PastOf
<1>8. \A x \in Task : Seen(before[x])'
  <2>1. SUFFICES ASSUME NEW x \in Task, NEW u \in Task, NEW n \in Nat, <<u, n>> \in before'[x]
                 PROVE  0 < n /\ n =< seg'[u] /\ (n = seg'[u] => status'[u] = "finished")
    BY DEF Seen
  <2>2. <<u, n>> \in before[x] \/ (u = t /\ n = seg[t] /\ seg'[t] # seg[t])
    BY <2>1 DEF PastOf
  <2>3. seg[t] > 0
    BY <1>2
  <2>4. \/ 0 < n /\ n =< seg[u] /\ (n = seg[u] => status[u] = "finished")
        \/ u = t /\ n = seg[t] /\ seg'[t] = seg[t] + 1
    BY <2>2 DEF ClockInv, PastsBounded, Seen
  <2>5. seg[u] \in Nat /\ seg[t] \in Nat /\ (u # t => seg'[u] = seg[u])
    BY <1>1
  <2>6. QED
    BY <2>3, <2>4, <2>5
<1>9. \A x, u \in Task : u # x => Below(vc[x], u)'
  <2>1. SUFFICES ASSUME NEW x \in Task, NEW u \in Task, u # x
                 PROVE  Below(vc[x], u)'
    OBVIOUS
  <2>2. Below(vc[x], u)
    BY <2>1 DEF ClockInv, ClocksBounded
  <2>3. vc'[x][u] = vc[x][u] /\ vc'[u][u] >= vc[u][u] /\ (u # t => vc'[u][u] = vc[u][u])
    BY <1>1, <2>1
  <2>4. vc[x][u] \in Nat /\ vc[u][u] \in Nat /\ vc'[u][u] \in Nat
    BY <1>1
  <2>5. QED
    BY <2>2, <2>3, <2>4 DEF Below
<1>10. TasksCover'
  <2>1. SUFFICES ASSUME NEW x \in Task, NEW u \in Task, u # x, x =< spawned,
                        NEW n \in Nat, NEW k \in Nat, <<u, n, k>> \in stamps'
                 PROVE  k =< vc'[x][u] <=> <<u, n>> \in before'[x]
    BY DEF TasksCover, Covers
  <2>2. vc'[x][u] = vc[x][u]
    BY <2>1
  <2>3. <<u, n>> \in before'[x] <=> <<u, n>> \in before[x]
    BY <2>1 DEF PastOf
  <2>4. CASE <<u, n, k>> \in stamps
    BY <2>1, <2>2, <2>3, <2>4 DEF ClockInv, TasksCover, Covers
  <2>5. CASE <<u, n, k>> \notin stamps
    <3>1. u = t /\ k = vc[t][t] + 1 /\ n = seg'[t]
      BY <1>3, <2>1, <2>5
    <3>2. vc[x][t] =< vc[t][t]
      BY <2>1, <3>1 DEF ClockInv, ClocksBounded, Below
    <3>3. ~ k =< vc[x][u]
      <4>1. vc[x][t] \in Nat /\ vc[t][t] \in Nat
        BY <1>1
      <4>2. QED
        BY <3>1, <3>2, <4>1
    <3>4. <<t, n>> \notin before[x]
      <4>1. seg[t] \in Nat /\ n >= seg[t]
        BY <1>1, <3>1
      <4>2. QED
        BY <4>1 DEF ClockInv, PastsBounded, Seen
    <3>5. QED
      BY <2>2, <2>3, <3>1, <3>3, <3>4
  <2>6. QED
    BY <2>4, <2>5
<1>11. QED
  BY <1>3, <1>4, <1>5, <1>6, <1>7, <1>8, <1>9, <1>10

LEMMA ReleaseKeeps ==
  ASSUME LockOrder, TypeOK, TypeOK', ClockInv, Note, NEW t \in Task, NEW l \in Locks,
         Release(t, l), CaptureLockRelease(t, l)
  PROVE  /\ Births' /\ Stamped' /\ Noted' /\ OwnPast' /\ PastsBounded'
         /\ ClocksBounded' /\ TasksCover' /\ LocksCover'
<1>1. /\ seg \in [Task -> Nat] /\ before \in [Task -> SUBSET (Task \X Nat)]
      /\ lockPast \in [Locks -> SUBSET (Task \X Nat)]
      /\ vc \in [Task -> [Task -> Nat]] /\ lvc \in [Locks -> [Task -> Nat]]
  BY DEF TypeOK, ProgramTypeOK
<1>2. /\ status[t] = "running"
      /\ UNCHANGED <<spawned, status>>
      /\ seg' = [seg EXCEPT ![t] = @ + 1]
      /\ before' = [before EXCEPT ![t] = PastOf(t)]
      /\ lockPast' = [lockPast EXCEPT ![l] = PastOf(t)]
  BY DEF Release, Running, HBJoin, taskStateVars
<1>3. vc' = [vc EXCEPT ![t][t] = @ + 1] /\ lvc' = [lvc EXCEPT ![l] = vc[t]]
  BY DEF CaptureLockRelease
<1>4. /\ seg'[t] = seg[t] + 1
      /\ vc'[t][t] = vc[t][t] + 1
      /\ \A x \in Task : x # t => seg'[x] = seg[x] /\ vc'[x] = vc[x] /\ before'[x] = before[x]
      /\ \A u \in Task : u # t => vc'[t][u] = vc[t][u]
      /\ before'[t] = PastOf(t)
      /\ \A u \in Task : seg[u] \in Nat /\ vc[u][u] \in Nat
  BY <1>1, <1>2, <1>3
<1>5. vc'[t][t] > vc[t][t] /\ seg'[t] # seg[t]
  BY <1>4
<1>6. /\ Births' /\ Stamped' /\ Noted' /\ OwnPast' /\ TasksCover'
      /\ (\A x \in Task : Seen(before[x])')
      /\ (\A x, u \in Task : u # x => Below(vc[x], u)')
      /\ (\A n, k \in Nat : <<t, n, k>> \in stamps' /\ <<t, n, k>> \notin stamps =>
            k = vc[t][t] + 1 /\ n = seg'[t])
      /\ (\A u \in Task, n, k \in Nat : u # t => (<<u, n, k>> \in stamps' <=> <<u, n, k>> \in stamps))
  BY <1>2, <1>4, <1>5, MovesOn
<1>7. \A u \in Task :
        /\ seg[u] =< seg'[u] /\ vc[u][u] =< vc'[u][u]
        /\ u # t => seg'[u] = seg[u] /\ vc'[u][u] = vc[u][u]
  BY <1>4
<1>8. \A m \in Locks : Seen(lockPast[m])'
  <2>1. SUFFICES ASSUME NEW m \in Locks, NEW u \in Task, NEW n \in Nat, <<u, n>> \in lockPast'[m]
                 PROVE  0 < n /\ n =< seg'[u] /\ (n = seg'[u] => status[u] = "finished")
    BY <1>2 DEF Seen
  <2>2. <<u, n>> \in lockPast[m] \/ <<u, n>> \in before'[t]
    BY <1>1, <1>2, <1>4, <2>1
  <2>3. <<u, n>> \in before'[t] => 0 < n /\ n =< seg'[u] /\ (n = seg'[u] => status[u] = "finished")
    BY <1>2, <1>6 DEF Seen
  <2>4. <<u, n>> \in lockPast[m] => 0 < n /\ n =< seg[u] /\ (n = seg[u] => status[u] = "finished")
    BY DEF ClockInv, PastsBounded, Seen
  <2>5. <<u, n>> \in lockPast[m] => 0 < n /\ n =< seg'[u] /\ (n = seg'[u] => status[u] = "finished")
    <3>1. seg[u] \in Nat /\ seg'[u] \in {seg[u], seg[u] + 1} /\ (seg'[u] # seg[u] => status[u] # "finished")
      BY <1>2, <1>4
    <3>2. QED
      BY <1>2, <2>4, <3>1
  <2>6. QED
    BY <2>2, <2>3, <2>5
<1>9. \A m \in Locks, u \in Task : Below(lvc[m], u)'
  <2>1. SUFFICES ASSUME NEW m \in Locks, NEW u \in Task
                 PROVE  /\ lvc'[m][u] =< vc'[u][u]
                        /\ lvc'[m][u] = vc'[u][u] /\ lvc'[m][u] > 0 => status[u] = "finished"
    BY <1>2 DEF Below
  <2>2. CASE m = l /\ u = t
    BY <1>1, <1>3, <1>4, <2>2
  <2>3. CASE m = l /\ u # t
    <3>1. lvc'[m][u] = vc[t][u] /\ vc'[u][u] = vc[u][u] /\ Below(vc[t], u)
      BY <1>1, <1>3, <1>7, <2>3 DEF ClockInv, ClocksBounded
    <3>2. QED
      BY <3>1 DEF Below
  <2>4. CASE m # l
    <3>1. lvc'[m][u] = lvc[m][u] /\ Below(lvc[m], u)
      BY <1>1, <1>3, <2>4 DEF ClockInv, ClocksBounded
    <3>2. lvc[m][u] \in Nat /\ vc[u][u] \in Nat /\ vc'[u][u] \in {vc[u][u], vc[u][u] + 1}
      BY <1>1, <1>4
    <3>3. QED
      BY <3>1, <3>2 DEF Below
  <2>5. QED
    BY <2>2, <2>3, <2>4
<1>10. PastsBounded'
  BY <1>6, <1>8 DEF PastsBounded
<1>11. ClocksBounded'
  BY <1>6, <1>9 DEF ClocksBounded
<1>12. LocksCover'
  <2>1. SUFFICES ASSUME NEW m \in Locks, NEW u \in Task,
                        NEW n \in Nat, NEW k \in Nat, <<u, n, k>> \in stamps'
                 PROVE  k =< lvc'[m][u] <=> <<u, n>> \in lockPast'[m]
    BY DEF LocksCover, Covers
  <2>2. CASE <<u, n, k>> \in stamps /\ m = l
    <3>1. lvc'[m][u] = vc[t][u] /\ lockPast'[m] = before[t] \cup {<<t, seg[t]>>}
      BY <1>1, <1>2, <1>3, <2>2 DEF PastOf
    <3>2. CASE u # t
      <4>1. t =< spawned
        BY <1>2 DEF ClockInv, Births, TypeOK, ProgramTypeOK, Task
      <4>2. k =< vc[t][u] <=> <<u, n>> \in before[t]
        BY <2>2, <3>2, <4>1 DEF ClockInv, TasksCover, Covers
      <4>3. QED
        BY <3>1, <3>2, <4>2
    <3>3. CASE u = t
      <4>1. 0 < n /\ n =< seg[t] /\ k =< vc[t][t]
        BY <2>2, <3>3 DEF ClockInv, Stamped
      <4>2. n = seg[t] \/ <<t, n>> \in before[t]
        <5>1. seg[t] \in Nat
          BY <1>4
        <5>2. n < seg[t] => <<t, n>> \in before[t]
          BY <4>1 DEF ClockInv, OwnPast
        <5>3. QED
          BY <4>1, <5>1, <5>2
      <4>3. QED
        BY <3>1, <3>3, <4>1, <4>2
    <3>4. QED
      BY <3>2, <3>3
  <2>3. CASE <<u, n, k>> \in stamps /\ m # l
    <3>1. lvc'[m] = lvc[m] /\ lockPast'[m] = lockPast[m]
      BY <1>1, <1>2, <1>3, <2>3
    <3>2. QED
      BY <2>3, <3>1 DEF ClockInv, LocksCover, Covers
  <2>4. CASE <<u, n, k>> \notin stamps
    <3>1. u = t /\ k = vc[t][t] + 1 /\ n = seg[t] + 1
      BY <1>4, <1>6, <2>1, <2>4
    <3>2. lvc'[m][t] =< vc[t][t]
      <4>1. Below(lvc[m], t)
        BY DEF ClockInv, ClocksBounded
      <4>2. lvc'[m][t] \in {lvc[m][t], vc[t][t]}
        BY <1>1, <1>3
      <4>3. QED
        BY <1>4, <4>1, <4>2 DEF Below
    <3>3. ~ k =< lvc'[m][u]
      <4>1. lvc'[m][t] \in Nat /\ vc[t][t] \in Nat
        BY <1>1, <1>3
      <4>2. QED
        BY <3>1, <3>2, <4>1
    <3>4. <<t, n>> \notin lockPast'[m]
      <4>1. status[t] # "finished"
        BY <1>2
      <4>2. n = seg'[t]
        BY <1>4, <3>1
      <4>3. QED
        BY <1>2, <1>8, <4>1, <4>2 DEF Seen
    <3>5. QED
      BY <3>1, <3>3, <3>4
  <2>5. QED
    BY <2>2, <2>3, <2>4
<1>13. QED
  BY <1>6, <1>10, <1>11, <1>12

LEMMA AccessKeeps ==
  ASSUME TypeOK, TypeOK', ClockInv, Note, NEW t \in Task, NEW kind \in AccessType,
         Access(t, kind)
  PROVE  /\ Births' /\ Stamped' /\ Noted' /\ OwnPast' /\ PastsBounded'
         /\ ClocksBounded' /\ TasksCover' /\ LocksCover'
<1>1. vc \in [Task -> [Task -> Nat]]
  BY DEF TypeOK
<1>2. /\ status[t] = "running"
      /\ UNCHANGED <<spawned, status, seg, before, lockPast, lvc>>
      /\ vc' = [vc EXCEPT ![t][t] = Clock(t)]
  BY DEF Access, Touch, Running, HBAccess, orderVars, taskStateVars, lockStateVars, RecordMem
<1>3. /\ vc'[t][t] = IF vc[t][t] = 0 THEN 1 ELSE vc[t][t]
      /\ \A x \in Task : x # t => vc'[x] = vc[x]
      /\ \A u \in Task : u # t => vc'[t][u] = vc[t][u]
      /\ \A u \in Task : vc[u][u] \in Nat
  BY <1>1, <1>2 DEF Clock
<1>4. /\ vc'[t][t] \in {vc[t][t], vc[t][t] + 1}
      /\ vc'[t][t] > vc[t][t] \/ vc'[t][t] = vc[t][t]
  BY <1>3
<1>5. /\ Births' /\ Stamped' /\ Noted' /\ OwnPast' /\ TasksCover'
      /\ (\A x \in Task : Seen(before[x])')
      /\ (\A x, u \in Task : u # x => Below(vc[x], u)')
      /\ (\A n, k \in Nat : <<t, n, k>> \in stamps' /\ <<t, n, k>> \notin stamps =>
            k = vc[t][t] + 1 /\ n = seg'[t])
      /\ (\A u \in Task, n, k \in Nat : u # t => (<<u, n, k>> \in stamps' <=> <<u, n, k>> \in stamps))
  BY <1>2, <1>3, <1>4, MovesOn
<1>6. PastsBounded'
  <2>1. \A l \in Locks : Seen(lockPast[l])'
    BY <1>2 DEF ClockInv, PastsBounded, Seen
  <2>2. QED
    BY <1>5, <2>1 DEF PastsBounded
<1>7. ClocksBounded'
  <2>1. \A l \in Locks, u \in Task : Below(lvc[l], u)'
    <3>1. SUFFICES ASSUME NEW l \in Locks, NEW u \in Task PROVE Below(lvc[l], u)'
      OBVIOUS
    <3>2. Below(lvc[l], u)
      BY DEF ClockInv, ClocksBounded
    <3>3. lvc[l][u] \in Nat /\ vc[u][u] \in Nat /\ vc'[u][u] \in {vc[u][u], vc[u][u] + 1}
      BY <1>3, <1>4 DEF TypeOK
    <3>4. QED
      BY <1>2, <3>2, <3>3 DEF Below
  <2>2. QED
    BY <1>5, <2>1 DEF ClocksBounded
<1>8. LocksCover'
  <2>1. SUFFICES ASSUME NEW l \in Locks, NEW u \in Task,
                        NEW n \in Nat, NEW k \in Nat, <<u, n, k>> \in stamps'
                 PROVE  k =< lvc[l][u] <=> <<u, n>> \in lockPast[l]
    BY <1>2 DEF LocksCover, Covers
  <2>2. CASE <<u, n, k>> \in stamps
    BY <2>2 DEF ClockInv, LocksCover, Covers
  <2>3. CASE <<u, n, k>> \notin stamps
    <3>1. u = t /\ k = vc[t][t] + 1 /\ n = seg[t]
      BY <1>2, <1>5, <2>1, <2>3
    <3>2. Below(lvc[l], t) /\ Seen(lockPast[l])
      BY DEF ClockInv, ClocksBounded, PastsBounded
    <3>3. ~ k =< lvc[l][t]
      <4>1. lvc[l][t] \in Nat /\ vc[t][t] \in Nat
        BY DEF TypeOK
      <4>2. QED
        BY <3>1, <3>2, <4>1 DEF Below
    <3>4. <<t, n>> \notin lockPast[l]
      BY <1>2, <3>1, <3>2 DEF Seen
    <3>5. QED
      BY <3>1, <3>3, <3>4
  <2>4. QED
    BY <2>2, <2>3
<1>9. QED
  BY <1>5, <1>6, <1>7, <1>8

-----------------------------------------------------------------------------
LEMMA MoveKeeps ==
  ASSUME TypeOK, TypeOK', ClockInv, Note, NEW t \in Task,
         NEW from, NEW to \in {"running", "waiting", "finished"},
         from # "unborn", from # "finished", Move(t, from, to), NoHook
  PROVE  /\ Births' /\ Stamped' /\ Noted' /\ OwnPast' /\ PastsBounded'
         /\ ClocksBounded' /\ TasksCover' /\ LocksCover'
<1>1. UNCHANGED <<spawned, seg, before, lockPast, vc, lvc>>
  BY DEF Move, NoHook, clockVars, hbVars, orderVars, lockStateVars
<1>2. /\ status[t] = from
      /\ \A u \in Task : u # t => status'[u] = status[u]
      /\ \A u \in Task : status[u] = "finished" => status'[u] = "finished"
  BY DEF Move, TypeOK, ProgramTypeOK
<1>3. \A u \in Task, n, k \in Nat : <<u, n, k>> \in stamps' <=> <<u, n, k>> \in stamps
  BY <1>1, NoNewStamp DEF ClockInv
<1>4. Births'
  BY <1>1, <1>2 DEF ClockInv, Births
<1>5. Stamped' /\ OwnPast'
  BY <1>1, <1>3 DEF ClockInv, Stamped, OwnPast
<1>6. Noted'
  BY NotedAfter
<1>7. PastsBounded'
  BY <1>1, <1>2 DEF ClockInv, PastsBounded, Seen
<1>8. ClocksBounded'
  BY <1>1, <1>2 DEF ClockInv, ClocksBounded, Below
<1>9. TasksCover' /\ LocksCover'
  BY <1>1, <1>3 DEF ClockInv, TasksCover, LocksCover, Covers
<1>10. QED
  BY <1>4, <1>5, <1>6, <1>7, <1>8, <1>9

-----------------------------------------------------------------------------
(***************************************************************************)
(* m_child holds the children of TBB, step by step.                        *)
(***************************************************************************)
LEMMA SpawnKeepsChildren ==
  ASSUME TypeOK, ClockInv, NEW s \in Task, NEW c \in Task,
         NEW next \in {"running", "waiting"},
         SpawnChild(s, c, next), BookSpawn(s, c)
  PROVE  Children'
<1>1. /\ status \in [Task -> Status] /\ spawned \in Task /\ s # 0
      /\ tbb_children \in [Task -> SUBSET Task] /\ tbb_roots \in [Task -> SUBSET Task]
      /\ m_child \in [Task -> SUBSET Task]
  BY DEF TypeOK, ProgramTypeOK, SpawnChild
<1>2. /\ status[s] = "running" /\ status[c] = "unborn"
      /\ c = spawned + 1 /\ spawned' = c /\ c # 0 /\ c # s
  <2>1. c = spawned + 1 /\ spawned' = c /\ status[s] = "running"
    BY DEF SpawnChild, Create, Running
  <2>2. c # 0 /\ c > spawned
    BY <1>1, <2>1, TaskFacts
  <2>3. QED
    BY <2>1, <2>2 DEF ClockInv, Births
<1>3. /\ status' = [status EXCEPT ![c] = "ready", ![s] = next]
      /\ tbb_children' = [tbb_children EXCEPT ![s] = @ \cup {c}]
      /\ tbb_roots' = tbb_roots
      /\ m_child' = [m_child EXCEPT ![s] = @ \cup {c}]
  BY DEF SpawnChild, Create, BookSpawn
<1>4. \A t \in Task : status'[t] = IF t = s THEN next ELSE IF t = c THEN "ready" ELSE status[t]
  BY <1>1, <1>2, <1>3
<1>5. tbb_roots[s] = {} /\ tbb_roots[c] = {}
  BY <1>2 DEF ClockInv, Children
<1>6. \A t \in Task : m_child'[t] = tbb_children'[t] \cup tbb_roots'[t]
  BY <1>1, <1>3 DEF ClockInv, Children
<1>7. /\ \A t \in Task : tbb_roots'[t] # {} => status'[t] = "rootwait"
      /\ \A t \in Task : status'[t] = "rootwait" => t = 0
      /\ \A t \in Task : status'[t] = "finished" /\ t # 0 => tbb_children'[t] = {}
      /\ tbb_children'[0] = {} /\ status'[0] # "waiting"
  BY <1>1, <1>2, <1>3, <1>4, <1>5, TaskFacts DEF ClockInv, Children
<1>8. \A t \in Task, x \in Task : x \in m_child'[t] => x # 0 /\ x =< spawned'
  <2>1. \A t \in Task, x \in Task : x \in m_child'[t] => x \in m_child[t] \/ x = c
    BY <1>1, <1>3
  <2>2. QED
    BY <1>1, <1>2, <2>1, TaskFacts DEF ClockInv, Children
<1>9. QED
  BY <1>6, <1>7, <1>8 DEF Children

LEMMA RootKeepsChildren ==
  ASSUME TypeOK, ClockInv, NEW s \in Task, NEW c \in Task,
         SpawnRootAndWait(s, c), BookSpawn(s, c)
  PROVE  Children'
<1>1. /\ status \in [Task -> Status] /\ spawned \in Task /\ s = 0
      /\ tbb_children \in [Task -> SUBSET Task] /\ tbb_roots \in [Task -> SUBSET Task]
      /\ m_child \in [Task -> SUBSET Task]
  BY DEF TypeOK, ProgramTypeOK, SpawnRootAndWait
<1>2. /\ status[s] = "running" /\ status[c] = "unborn"
      /\ c = spawned + 1 /\ spawned' = c /\ c # 0 /\ c # s
  <2>1. c = spawned + 1 /\ spawned' = c /\ status[s] = "running"
    BY DEF SpawnRootAndWait, Create, Running
  <2>2. c # 0 /\ c > spawned
    BY <1>1, <2>1, TaskFacts
  <2>3. QED
    BY <2>1, <2>2 DEF ClockInv, Births
<1>3. /\ status' = [status EXCEPT ![c] = "ready", ![s] = "rootwait"]
      /\ tbb_children' = tbb_children
      /\ tbb_roots' = [tbb_roots EXCEPT ![s] = {c}]
      /\ m_child' = [m_child EXCEPT ![s] = @ \cup {c}]
  BY DEF SpawnRootAndWait, Create, BookSpawn
<1>4. \A t \in Task : status'[t] = IF t = s THEN "rootwait" ELSE IF t = c THEN "ready" ELSE status[t]
  BY <1>1, <1>2, <1>3
<1>5. tbb_roots[s] = {} /\ tbb_children[s] = {} /\ m_child[s] = {} /\ tbb_roots[c] = {}
  BY <1>1, <1>2 DEF ClockInv, Children
<1>6. \A t \in Task : m_child'[t] = tbb_children'[t] \cup tbb_roots'[t]
  BY <1>1, <1>3, <1>5 DEF ClockInv, Children
<1>7. /\ \A t \in Task : tbb_roots'[t] # {} => status'[t] = "rootwait"
      /\ \A t \in Task : status'[t] = "rootwait" => t = 0
      /\ \A t \in Task : status'[t] = "finished" /\ t # 0 => tbb_children'[t] = {}
      /\ tbb_children'[0] = {} /\ status'[0] # "waiting"
  BY <1>1, <1>2, <1>3, <1>4, <1>5, TaskFacts DEF ClockInv, Children
<1>8. \A t \in Task, x \in Task : x \in m_child'[t] => x # 0 /\ x =< spawned'
  <2>1. \A t \in Task, x \in Task : x \in m_child'[t] => x \in m_child[t] \/ x = c
    BY <1>1, <1>3
  <2>2. QED
    BY <1>1, <1>2, <2>1, TaskFacts DEF ClockInv, Children
<1>9. QED
  BY <1>6, <1>7, <1>8 DEF Children

(* What a wait is for is what m_child holds.                               *)
LEMMA WaitKeeps ==
  ASSUME TypeOK, TypeOK', ClockInv, Note, NEW t \in Task,
         WaitForAllReturn(t) \/ RootWaitReturn(t), Capturewait_for_all(t)
  PROVE  ClockInv'
<1>1. /\ status \in [Task -> Status]
      /\ tbb_children \in [Task -> SUBSET Task] /\ tbb_roots \in [Task -> SUBSET Task]
      /\ m_child \in [Task -> SUBSET Task]
  BY DEF TypeOK, ProgramTypeOK
<1> DEFINE S == m_child[t]
<1>2. /\ HBJoin(t, S) /\ \A c \in S : status[c] = "finished"
      /\ tbb_children'[t] = {} /\ tbb_roots'[t] = {}
      /\ \A x \in Task : x # t => tbb_children'[x] = tbb_children[x] /\ tbb_roots'[x] = tbb_roots[x]
  <2>1. CASE WaitForAllReturn(t)
    <3>1. status[t] = "waiting" /\ tbb_roots[t] = {}
      BY <2>1 DEF WaitForAllReturn, WaitReturn, ClockInv, Children
    <3>2. S = tbb_children[t]
      BY <3>1 DEF ClockInv, Children
    <3>3. QED
      BY <1>1, <2>1, <3>1, <3>2 DEF WaitForAllReturn, WaitReturn
  <2>2. CASE RootWaitReturn(t)
    <3>1. t = 0 /\ tbb_children[t] = {}
      BY <2>2 DEF RootWaitReturn, WaitReturn, ClockInv, Children
    <3>2. S = tbb_roots[t]
      BY <3>1 DEF ClockInv, Children
    <3>3. QED
      BY <1>1, <2>2, <3>1, <3>2 DEF RootWaitReturn, WaitReturn
  <2>3. QED
    BY <2>1, <2>2
<1>3. /\ status[t] \in {"waiting", "rootwait"}
      /\ status' = [status EXCEPT ![t] = "running"]
      /\ UNCHANGED <<spawned, lockPast>>
  BY DEF WaitForAllReturn, RootWaitReturn, WaitReturn, lockStateVars
<1>4. S \in SUBSET Task
  BY <1>1
<1>5. /\ Births' /\ Stamped' /\ Noted' /\ OwnPast' /\ PastsBounded'
      /\ ClocksBounded' /\ TasksCover' /\ LocksCover'
  BY <1>2, <1>3, <1>4, JoinKeeps
<1>6. t \notin S /\ \A c \in S : m_child[c] = {}
  BY <1>1, <1>2, <1>3 DEF ClockInv, Children
<1>7. \A x \in Task : m_child'[x] = IF x = t THEN {} ELSE m_child[x]
  BY <1>4, <1>6, JoinedClocks
<1>8. \A x \in Task : m_child'[x] = tbb_children'[x] \cup tbb_roots'[x]
  BY <1>2, <1>7 DEF ClockInv, Children
<1>9. \A x \in Task : status'[x] = IF x = t THEN "running" ELSE status[x]
  BY <1>1, <1>3
<1>10. /\ \A x \in Task : tbb_roots'[x] # {} => status'[x] = "rootwait"
       /\ \A x \in Task : status'[x] = "rootwait" => x = 0
       /\ \A x \in Task : status'[x] = "finished" /\ x # 0 => tbb_children'[x] = {}
       /\ tbb_children'[0] = {} /\ status'[0] # "waiting"
  BY <1>2, <1>9, TaskFacts DEF ClockInv, Children
<1>11. \A x \in Task, c \in Task : c \in m_child'[x] => c # 0 /\ c =< spawned'
  BY <1>3, <1>7 DEF ClockInv, Children
<1>12. QED
  BY <1>5, <1>8, <1>10, <1>11 DEF ClockInv, Children

LEMMA StillChildren ==
  ASSUME Children, UNCHANGED <<status, tbb_children, tbb_roots, m_child, spawned>>
  PROVE  Children'
BY DEF Children

LEMMA MoveKeepsChildren ==
  ASSUME TypeOK, ClockInv, NEW t \in Task, NoHook,
         ExecBegin(t) \/ ExecEnd(t) \/ WaitForAll(t) \/ (t = 0 /\ MainReturns)
  PROVE  Children'
<1>1. /\ status \in [Task -> Status]
      /\ UNCHANGED <<tbb_children, tbb_roots, m_child, spawned>>
  BY DEF TypeOK, ProgramTypeOK, ExecBegin, ExecEnd, WaitForAll, MainReturns, Move,
     NoHook, clockVars
<1>2. /\ \A x \in Task : x # t => status'[x] = status[x]
      /\ status[t] \in {"ready", "running"}
      /\ status'[t] \in {"running", "waiting", "finished"}
      /\ status'[t] = "finished" => t = 0 \/ tbb_children[t] = {}
      /\ status'[t] = "waiting" => tbb_children[t] # {}
  BY <1>1 DEF ExecBegin, ExecEnd, WaitForAll, MainReturns, Move
<1>3. tbb_roots[t] = {} /\ (status'[t] = "waiting" => t # 0)
  BY <1>2 DEF ClockInv, Children
<1>4. /\ \A x \in Task : m_child'[x] = tbb_children'[x] \cup tbb_roots'[x]
      /\ \A x, c \in Task : c \in m_child'[x] => c # 0 /\ c =< spawned'
  BY <1>1 DEF ClockInv, Children
<1>5. /\ \A x \in Task : tbb_roots'[x] # {} => status'[x] = "rootwait"
      /\ \A x \in Task : status'[x] = "rootwait" => x = 0
  BY <1>1, <1>2, <1>3 DEF ClockInv, Children
<1>6. /\ \A x \in Task : status'[x] = "finished" /\ x # 0 => tbb_children'[x] = {}
      /\ tbb_children'[0] = {}
  BY <1>1, <1>2 DEF ClockInv, Children
<1>7. status'[0] # "waiting"
  BY <1>2, <1>3, TaskFacts DEF ClockInv, Children
<1>8. QED
  BY <1>4, <1>5, <1>6, <1>7 DEF Children

-----------------------------------------------------------------------------
StrictInv == strict => ClockInv

LEMMA StepKeepsClockInv ==
  ASSUME LockOrder, TypeOK, TypeOK', StrictInv, TaskStep, Note
  PROVE  StrictInv'
<1>1. CASE ~ strict'
  BY <1>1 DEF StrictInv
<1>2. ASSUME NEW s \in Task, NEW c \in Task,
             Spawn(s, c) \/ SpawnAndWaitForAll(s, c), BookSpawn(s, c)
      PROVE  StrictInv'
  <2>1. PICK next \in {"running", "waiting"} : SpawnChild(s, c, next)
    BY <1>2 DEF Spawn, SpawnAndWaitForAll
  <2>2. UNCHANGED strict /\ Create(s, s, c, next)
    BY <2>1 DEF SpawnChild
  <2>3. CASE strict
    <3>1. ClockInv
      BY <2>3 DEF StrictInv
    <3>2. Children'
      BY <1>2, <2>1, <3>1, SpawnKeepsChildren
    <3>3. QED
      BY <1>2, <2>2, <3>1, <3>2, SpawnKeeps DEF StrictInv, ClockInv
  <2>4. QED
    BY <2>2, <2>3 DEF StrictInv
<1>3. ASSUME NEW s \in Task, NEW c \in Task, SpawnRootAndWait(s, c), BookSpawn(s, c)
      PROVE  StrictInv'
  <2>1. UNCHANGED strict /\ Create(s, s, c, "rootwait")
    BY <1>3 DEF SpawnRootAndWait
  <2>2. CASE strict
    <3>1. ClockInv
      BY <2>2 DEF StrictInv
    <3>2. Children'
      BY <1>3, <3>1, RootKeepsChildren
    <3>3. QED
      BY <1>3, <2>1, <3>1, <3>2, SpawnKeeps DEF StrictInv, ClockInv
  <2>3. QED
    BY <2>1, <2>2 DEF StrictInv
<1>4. ASSUME NEW s \in Task, NEW c \in Task, SpawnSibling(s, c)
      PROVE  StrictInv'
  BY <1>4 DEF SpawnSibling, StrictInv
<1>5. ASSUME NEW t \in Task, WaitForAllReturn(t) \/ RootWaitReturn(t),
             Capturewait_for_all(t)
      PROVE  StrictInv'
  <2>1. UNCHANGED strict
    BY <1>5 DEF WaitForAllReturn, RootWaitReturn, WaitReturn
  <2>2. QED
    BY <1>5, <2>1, WaitKeeps DEF StrictInv
<1>6. ASSUME NEW t \in Task, NoHook,
             ExecBegin(t) \/ ExecEnd(t) \/ WaitForAll(t) \/ (t = 0 /\ MainReturns)
      PROVE  StrictInv'
  <2>1. PICK from \in {"ready", "running"}, to \in {"running", "waiting", "finished"} :
          Move(t, from, to)
    BY <1>6 DEF ExecBegin, ExecEnd, WaitForAll, MainReturns
  <2>2. UNCHANGED strict
    BY <2>1 DEF Move
  <2>3. CASE strict
    <3>1. ClockInv
      BY <2>3 DEF StrictInv
    <3>2. Children'
      BY <1>6, <3>1, MoveKeepsChildren
    <3>3. QED
      BY <1>6, <2>1, <3>1, <3>2, MoveKeeps DEF StrictInv, ClockInv
  <2>4. QED
    BY <2>2, <2>3 DEF StrictInv
<1>7. ASSUME NEW t \in Task, NEW l \in Locks,
             \/ Acquire(t, l) /\ CaptureLockAcquire(t, l)
             \/ Release(t, l) /\ CaptureLockRelease(t, l)
      PROVE  StrictInv'
  <2>1. UNCHANGED <<strict, status, tbb_children, tbb_roots, m_child, spawned>>
    BY <1>7 DEF Acquire, Release, taskStateVars, CaptureLockAcquire, CaptureLockRelease
  <2>2. CASE strict
    <3>1. ClockInv
      BY <2>2 DEF StrictInv
    <3>2. Children'
      BY <2>1, <3>1, StillChildren DEF ClockInv
    <3>3. QED
      BY <1>7, <3>1, <3>2, AcquireKeeps, ReleaseKeeps DEF StrictInv, ClockInv
  <2>3. QED
    BY <2>1, <2>2 DEF StrictInv
<1>8. ASSUME NEW t \in Task, NEW kind \in AccessType, Access(t, kind)
      PROVE  StrictInv'
  <2>1. UNCHANGED <<strict, status, tbb_children, tbb_roots, m_child, spawned>>
    BY <1>8 DEF Access, Touch, taskStateVars, RecordMem
  <2>2. CASE strict
    <3>1. ClockInv
      BY <2>2 DEF StrictInv
    <3>2. Children'
      BY <2>1, <3>1, StillChildren DEF ClockInv
    <3>3. QED
      BY <1>8, <3>1, <3>2, AccessKeeps DEF StrictInv, ClockInv
  <2>3. QED
    BY <2>1, <2>2 DEF StrictInv
<1>9. QED
  BY <1>2, <1>3, <1>4, <1>5, <1>6, <1>7, <1>8, TaskFacts DEF TaskStep

LEMMA NextKeepsClockInv ==
  ASSUME LockOrder
  PROVE  TypeOK /\ TypeOK' /\ StrictInv /\ [Next]_vars => StrictInv'
<1>1. SUFFICES ASSUME TypeOK, TypeOK', StrictInv, [Next]_vars PROVE StrictInv'
  OBVIOUS
<1>2. CASE TaskStep /\ Note
  BY <1>1, <1>2, StepKeepsClockInv
<1>3. CASE UNCHANGED vars
  BY <1>1, <1>3 DEF vars, programVars, taskStateVars, lockStateVars, hbVars, orderVars,
     clockVars, shadowVars, StrictInv, ClockInv, Births, Stamped, Noted, OwnPast,
     PastsBounded, Seen, ClocksBounded, Below, TasksCover, LocksCover, Covers, Children
<1>4. QED
  BY <1>1, <1>2, <1>3 DEF Next, Terminated

(***************************************************************************)
(* The vector clocks of a strict program are exact, for any number of      *)
(* tasks and locks: an epoch of another task is covered by the clock of t  *)
(* if and only if what was recorded with it happened before t.             *)
(***************************************************************************)
THEOREM ClocksAreExact == ASSUME LockOrder PROVE Spec => []ClocksExact
<1>1. Init => StrictInv
  BY InitClockInv DEF StrictInv
<1>2. TypeOK /\ StrictInv => ClocksExact
  <2>1. SUFFICES ASSUME TypeOK, ClockInv, NEW t \in Task, NEW s \in stamps,
                        s[1] # t, seg[t] > 0
                 PROVE  s[3] =< vc[t][s[1]] <=> <<s[1], s[2]>> \in before[t]
    BY DEF StrictInv, ClocksExact
  <2>2. s \in Task \X Nat \X Nat
    BY <2>1 DEF TypeOK
  <2>3. PICK u \in Task, n \in Nat, k \in Nat : s = <<u, n, k>>
    BY <2>2
  <2>4. t =< spawned
    BY <2>1 DEF ClockInv, Births, TypeOK, ProgramTypeOK, Task
  <2>5. k =< vc[t][u] <=> <<u, n>> \in before[t]
    BY <2>1, <2>3, <2>4 DEF ClockInv, TasksCover, Covers
  <2>6. QED
    BY <2>3, <2>5
<1>3. TypeOK /\ TypeOK' /\ StrictInv /\ [Next]_vars => StrictInv'
  BY NextKeepsClockInv
<1>4. Spec => []TypeOK
  BY FastTrackTypeCorrect
<1>5. QED
  BY <1>1, <1>2, <1>3, <1>4, PTL DEF Spec

-----------------------------------------------------------------------------
(***************************************************************************)
(* Every epoch and every entry of a read map was recorded by an access in  *)
(* a segment stamped with its clock, but for the address of a map.         *)
(***************************************************************************)
Made(u, k, kinds) ==
  \E a \in history :
    a.task = u /\ a.kind \in kinds /\ <<u, a.seg, k>> \in stamps

MadeNext(u, k, kinds) ==
  \E a \in history' :
    a.task = u /\ a.kind \in kinds /\ <<u, a.seg, k>> \in stamps'

EpochsMade ==
  /\ word.wr.clk > 0 => Made(word.wr.tid, word.wr.clk, {WRITE})
  /\ word.rd.tid = PointerTask => word.rd = Pointer
  /\ word.rd.clk > 0 /\ word.rd.tid # PointerTask
       => Made(word.rd.tid, word.rd.clk, AccessType)
  /\ \A u \in Task : word.rd_vc[u] > 0 => Made(u, word.rd_vc[u], AccessType)

LEMMA InitEpochsMade == Init => EpochsMade
BY PointerAssumption, TaskFacts DEF Init, EpochsMade, NoEpoch, NoReads, Recorded

LEMMA MadeStays ==
  ASSUME history \subseteq history', stamps \subseteq stamps',
         NEW u, NEW k, NEW kinds, Made(u, k, kinds)
  PROVE  MadeNext(u, k, kinds)
BY DEF Made, MadeNext

LEMMA NoteGrows == ASSUME Note PROVE stamps \subseteq stamps'
BY DEF Note

LEMMA OtherKeepsEpochs ==
  ASSUME EpochsMade, UNCHANGED word, history \subseteq history', stamps \subseteq stamps'
  PROVE  EpochsMade'
<1>1. word.wr.clk > 0 => MadeNext(word.wr.tid, word.wr.clk, {WRITE})
  BY MadeStays DEF EpochsMade
<1>2. word.rd.clk > 0 /\ word.rd.tid # PointerTask
        => MadeNext(word.rd.tid, word.rd.clk, AccessType)
  BY MadeStays DEF EpochsMade
<1>3. \A u \in Task : word.rd_vc[u] > 0 => MadeNext(u, word.rd_vc[u], AccessType)
  BY MadeStays DEF EpochsMade
<1>4. QED
  BY <1>1, <1>2, <1>3 DEF EpochsMade, Made, MadeNext

LEMMA AccessKeepsEpochs ==
  ASSUME TypeOK, TypeOK', EpochsMade, Note, NEW t \in Task, NEW kind \in AccessType,
         Access(t, kind)
  PROVE  EpochsMade'
<1>1. history \subseteq history' /\ stamps \subseteq stamps'
  BY NoteGrows DEF Access, Touch, HBAccess
<1>2. word \in VarState /\ word' \in VarState
  BY DEF TypeOK
<1>3. Clock(t) \in Nat /\ Clock(t) > 0 /\ vc'[t][t] = Clock(t) /\ seg' = seg
  BY DEF TypeOK, Clock, Access, RecordMem, Touch, HBAccess, orderVars
<1>4. <<t, seg[t], Clock(t)>> \in stamps'
  BY <1>3 DEF Note
<1>5. AccessOf(t, kind, IF LockOrder THEN {} ELSE held[t]) \in history'
  BY DEF Access, Touch, HBAccess
<1>6. MadeNext(t, Clock(t), {kind})
  BY <1>4, <1>5 DEF MadeNext, AccessOf
<1>7. MadeNext(t, Clock(t), AccessType)
  BY <1>6 DEF MadeNext
<1>8. /\ word.wr.clk > 0 => MadeNext(word.wr.tid, word.wr.clk, {WRITE})
      /\ word.rd.clk > 0 /\ word.rd.tid # PointerTask
           => MadeNext(word.rd.tid, word.rd.clk, AccessType)
      /\ \A u \in Task : word.rd_vc[u] > 0 => MadeNext(u, word.rd_vc[u], AccessType)
  BY <1>1, MadeStays DEF EpochsMade
<1> DEFINE Good(w) ==
      /\ w.wr.clk > 0 => MadeNext(w.wr.tid, w.wr.clk, {WRITE})
      /\ w.rd.tid = PointerTask => w.rd = Pointer
      /\ w.rd.clk > 0 /\ w.rd.tid # PointerTask => MadeNext(w.rd.tid, w.rd.clk, AccessType)
      /\ \A u \in Task : w.rd_vc[u] > 0 => MadeNext(u, w.rd_vc[u], AccessType)
<1>9. Good(word)
  BY <1>8 DEF EpochsMade
<1>10. Good([word EXCEPT !.racy = TRUE])
  BY <1>2, <1>9 DEF VarState
<1>11. Epoch(t).tid = t /\ Epoch(t).clk = Clock(t) /\ t # PointerTask
  BY PointerAssumption DEF Epoch
<1>12. ASSUME kind = READ PROVE Good(ReadWord(t))
  <2>1. CASE word.is_vector
    <3>1. ReadWord(t) = [word EXCEPT !.rd_vc[t] = IF @ = 0 THEN Clock(t) ELSE @]
      BY <2>1 DEF ReadWord
    <3>2. /\ ReadWord(t).wr = word.wr /\ ReadWord(t).rd = word.rd
          /\ \A u \in Task : u # t => ReadWord(t).rd_vc[u] = word.rd_vc[u]
          /\ ReadWord(t).rd_vc[t] \in {word.rd_vc[t], Clock(t)}
      BY <1>2, <3>1 DEF VarState, Recorded
    <3>3. QED
      BY <1>7, <1>9, <3>2
  <2>2. CASE ~ word.is_vector /\ word.rd.clk =< element(t, word.rd.tid)
    <3>1. ReadWord(t) = [word EXCEPT !.rd = Epoch(t)]
      BY <2>2 DEF ReadWord
    <3>2. /\ ReadWord(t).wr = word.wr /\ ReadWord(t).rd = Epoch(t)
          /\ ReadWord(t).rd_vc = word.rd_vc
      BY <1>2, <3>1 DEF VarState
    <3>3. QED
      BY <1>7, <1>9, <1>11, <3>2
  <2>3. CASE ~ word.is_vector /\ ~ word.rd.clk =< element(t, word.rd.tid)
    <3> DEFINE reads == [NoReads EXCEPT ![word.rd.tid] = word.rd.clk, ![t] = Clock(t)]
    <3>1. ReadWord(t) = [word EXCEPT !.rd = Pointer, !.is_vector = TRUE, !.rd_vc = reads]
      BY <2>3 DEF ReadWord
    <3>2. /\ ReadWord(t).wr = word.wr /\ ReadWord(t).rd = Pointer
          /\ ReadWord(t).rd_vc = reads
      <4> HIDE DEF reads
      <4>1. QED
        BY <1>2, <3>1 DEF VarState
    <3>3. Pointer.tid = PointerTask
      BY DEF Pointer
    <3>4. \A u \in Task : \/ u = t /\ reads[u] = Clock(t)
                          \/ u = word.rd.tid /\ reads[u] = word.rd.clk
                          \/ reads[u] = 0
      BY DEF NoReads, Recorded
    <3>5. \A u \in Task : reads[u] > 0 => MadeNext(u, reads[u], AccessType)
      <4> HIDE DEF reads
      <4>1. TAKE u \in Task
      <4>2. u # PointerTask
        BY PointerAssumption
      <4>3. QED
        BY <1>7, <1>8, <3>4, <4>2
    <3>6. QED
      <4> HIDE DEF reads
      <4>1. QED
        BY <1>9, <3>2, <3>3, <3>5
  <2>4. QED
    BY <2>1, <2>2, <2>3
<1>13. ASSUME kind = WRITE PROVE Good(WrittenWord(t))
  <2>1. /\ WrittenWord(t).wr = Epoch(t) /\ WrittenWord(t).rd_vc = NoReads
        /\ WrittenWord(t).rd \in {word.rd, NoEpoch}
    BY <1>2 DEF WrittenWord, VarState
  <2>2. NoEpoch.clk = 0 /\ NoEpoch.tid # PointerTask /\ \A u \in Task : NoReads[u] = 0
    BY PointerAssumption, TaskFacts DEF NoEpoch, NoReads, Recorded
  <2>3. QED
    BY <1>6, <1>9, <1>11, <1>13, <2>1, <2>2
<1>14. word' \in {word, [word EXCEPT !.racy = TRUE]}
         \/ (kind = READ /\ word' = ReadWord(t))
         \/ (kind = WRITE /\ word' = WrittenWord(t))
  BY DEF Access, RecordMem, AccessType
<1>15. Good(word')
  BY <1>9, <1>10, <1>12, <1>13, <1>14
<1>16. QED
  BY <1>15 DEF EpochsMade, Made, MadeNext

LEMMA NextKeepsEpochs == TypeOK /\ TypeOK' /\ EpochsMade /\ [Next]_vars => EpochsMade'
<1>1. SUFFICES ASSUME TypeOK, TypeOK', EpochsMade, [Next]_vars PROVE EpochsMade'
  OBVIOUS
<1>2. ASSUME NEW t \in Task, NEW kind \in AccessType, Access(t, kind), Note
      PROVE  EpochsMade'
  BY <1>1, <1>2, AccessKeepsEpochs
<1>3. ASSUME UNCHANGED <<word, history>>, Note
      PROVE  EpochsMade'
  BY <1>1, <1>3, NoteGrows, OtherKeepsEpochs
<1>4. ASSUME NEW s \in Task, NEW c \in Task, NEW p,
             BookSpawn(p, c),
             Spawn(s, c) \/ SpawnAndWaitForAll(s, c) \/ SpawnRootAndWait(s, c) \/ SpawnSibling(s, c)
      PROVE  UNCHANGED <<word, history>>
  BY <1>4 DEF BookSpawn, shadowVars, Spawn, SpawnAndWaitForAll, SpawnChild,
     SpawnRootAndWait, SpawnSibling, Create
<1>5. ASSUME NEW t \in Task, WaitForAllReturn(t) \/ RootWaitReturn(t), Capturewait_for_all(t)
      PROVE  UNCHANGED <<word, history>>
  BY <1>5 DEF Capturewait_for_all, shadowVars, WaitForAllReturn, RootWaitReturn, WaitReturn
<1>6. ASSUME NEW t \in Task, NoHook,
             ExecBegin(t) \/ ExecEnd(t) \/ WaitForAll(t) \/ MainReturns
      PROVE  UNCHANGED <<word, history>>
  BY <1>6 DEF NoHook, shadowVars, ExecBegin, ExecEnd, WaitForAll, MainReturns, Move, hbVars
<1>7. ASSUME NEW t \in Task, NEW l \in Locks,
             \/ Acquire(t, l) /\ CaptureLockAcquire(t, l)
             \/ Release(t, l) /\ CaptureLockRelease(t, l)
      PROVE  UNCHANGED <<word, history>>
  BY <1>7 DEF CaptureLockAcquire, CaptureLockRelease, shadowVars, Acquire, Release
<1>8. CASE TaskStep /\ Note
  BY <1>2, <1>3, <1>4, <1>5, <1>6, <1>7, <1>8, TaskFacts DEF TaskStep
<1>9. CASE UNCHANGED vars
  BY <1>1, <1>9, OtherKeepsEpochs DEF vars, programVars, hbVars, shadowVars
<1>10. QED
  BY <1>1, <1>8, <1>9 DEF Next, Terminated

(***************************************************************************)
(* FastTrack reports nothing but races in a strict program, for any number *)
(* of tasks and locks, unless it takes the address of a read map for an    *)
(* epoch: whatever the access under check is compared with was recorded by *)
(* a real access, which did not happen before it.                          *)
(***************************************************************************)
THEOREM ReportsAreRaces == ASSUME LockOrder PROVE Spec => []ReportsAreGenuine
<1>1. TypeOK /\ StrictInv /\ EpochsMade => ReportsAreGenuine
  <2>1. SUFFICES ASSUME TypeOK, ClockInv, EpochsMade, NEW t \in Task, NEW kind \in AccessType,
                        Running(t), Reports(t, kind), ~ StaleRead
                 PROVE  RacesWith(t, kind, {}) # {}
    BY DEF StrictInv, ReportsAreGenuine
  <2>2. t =< spawned
    BY <2>1 DEF Running, ClockInv, Births, TypeOK, ProgramTypeOK, Task
  <2>3. ASSUME NEW u \in Task, NEW k \in Nat, NEW kinds, u # t, k > vc[t][u],
               Made(u, k, kinds), kind = WRITE \/ kinds = {WRITE}
        PROVE  RacesWith(t, kind, {}) # {}
    <3>1. PICK a \in history : a.task = u /\ a.kind \in kinds /\ <<u, a.seg, k>> \in stamps
      BY <2>3 DEF Made
    <3>2. a.seg \in Nat
      BY <2>1, <3>1 DEF TypeOK
    <3>3. <<u, a.seg>> \notin before[t]
      <4>1. k =< vc[t][u] <=> <<u, a.seg>> \in before[t]
        BY <2>1, <2>2, <2>3, <3>1, <3>2 DEF ClockInv, TasksCover, Covers
      <4>2. vc[t][u] \in Nat
        BY <2>1 DEF TypeOK
      <4>3. QED
        BY <2>3, <4>1, <4>2
    <3>4. a \in RacesWith(t, kind, {})
      BY <2>3, <3>1, <3>3 DEF RacesWith, Concurrent
    <3>5. QED
      BY <3>4
  <2>4. word \in VarState /\ \A u \in Task : vc[t][u] \in Nat
    BY <2>1 DEF TypeOK
  <2>5. ASSUME NotBefore(t, word.wr) PROVE RacesWith(t, kind, {}) # {}
    <3>1. /\ word.wr.tid \in Task /\ word.wr.clk \in Nat
          /\ word.wr.tid # t /\ word.wr.clk > vc[t][word.wr.tid]
      BY <2>4, <2>5 DEF NotBefore, element, VarState
    <3>2. Made(word.wr.tid, word.wr.clk, {WRITE})
      BY <2>1, <2>4, <3>1 DEF EpochsMade
    <3>3. QED
      BY <2>3, <3>1, <3>2
  <2>6. ASSUME kind = WRITE, ReadsRace(t) PROVE RacesWith(t, kind, {}) # {}
    <3>1. CASE word.is_vector
      <4>1. PICK u \in Recorded : u # t /\ word.rd_vc[u] > element(t, u)
        BY <2>6, <3>1 DEF ReadsRace
      <4>2. u \in Task
        BY <2>1, <4>1, PointerAssumption DEF StaleRead, Recorded, element
      <4>3. word.rd_vc[u] \in Nat /\ word.rd_vc[u] > vc[t][u]
        BY <2>4, <4>1, <4>2 DEF element, VarState
      <4>4. Made(u, word.rd_vc[u], AccessType)
        BY <2>1, <2>4, <4>2, <4>3 DEF EpochsMade
      <4>5. QED
        BY <2>3, <2>6, <4>1, <4>2, <4>3, <4>4
    <3>2. CASE ~ word.is_vector
      <4>1. NotBefore(t, word.rd)
        BY <2>6, <3>2 DEF ReadsRace
      <4>2. word.rd.tid \in Task /\ word.rd.clk \in Nat /\ word.rd.tid # PointerTask
        BY <2>1, <2>4, <3>2, PointerAssumption DEF StaleRead, EpochsMade, VarState, Recorded
      <4>3. word.rd.tid # t /\ word.rd.clk > vc[t][word.rd.tid]
        BY <4>1, <4>2 DEF NotBefore, element
      <4>4. Made(word.rd.tid, word.rd.clk, AccessType)
        BY <2>1, <2>4, <4>2, <4>3 DEF EpochsMade
      <4>5. QED
        BY <2>3, <2>6, <4>2, <4>3, <4>4
    <3>3. QED
      BY <3>1, <3>2
  <2>7. QED
    BY <2>1, <2>5, <2>6 DEF Reports
<1>2. Init => StrictInv
  BY InitClockInv DEF StrictInv
<1>3. TypeOK /\ TypeOK' /\ StrictInv /\ [Next]_vars => StrictInv'
  BY NextKeepsClockInv
<1>4. QED
  BY <1>1, <1>2, <1>3, FastTrackTypeCorrect, InitEpochsMade, NextKeepsEpochs, PTL DEF Spec

-----------------------------------------------------------------------------
(***************************************************************************)
(* While nothing is reported in a strict program, whoever knows the last   *)
(* write knows every write, and whoever made the last reads knows the last *)
(* write.                                                                  *)
(***************************************************************************)
HistoryOK ==
  \A a \in history :
    a.task \in Task /\ a.seg \in Nat /\ 0 < a.seg /\ a.seg =< seg[a.task]

Covered(t) == word.wr.tid = t \/ word.wr.clk =< vc[t][word.wr.tid]

WritesKnown ==
  /\ \A t \in Task : t =< spawned /\ Covered(t) =>
       \A a \in history :
         a.kind = WRITE => a.task = t \/ <<a.task, a.seg>> \in before[t]
  /\ \A l \in Locks : word.wr.clk =< lvc[l][word.wr.tid] =>
       \A a \in history : a.kind = WRITE => <<a.task, a.seg>> \in lockPast[l]

ReadsKnow ==
  /\ ~ word.racy
  /\ word.is_vector => word.rd = Pointer
  /\ word.rd.tid \in Task /\ word.rd.clk > 0 => Covered(word.rd.tid)

Known == HistoryOK /\ WritesKnown /\ ReadsKnow

LEMMA InitKnown == Init => Known
<1>1. SUFFICES ASSUME Init PROVE Known
  OBVIOUS
<1>2. HistoryOK /\ WritesKnown
  BY <1>1 DEF Init, ProgramInit, HBInit, HistoryOK, WritesKnown
<1>3. ReadsKnow
  BY <1>1 DEF Init, ReadsKnow, NoEpoch
<1>4. QED
  BY <1>2, <1>3 DEF Known

(* A task known by an epoch or an access has been spawned.                 *)
LEMMA RecordedIsBorn ==
  ASSUME TypeOK, ClockInv, EpochsMade, NEW c \in Task, c > spawned
  PROVE  /\ word.wr.clk > 0 => word.wr.tid # c
         /\ word.rd.clk > 0 => word.rd.tid # c
<1>1. seg[c] = 0
  BY DEF ClockInv, Births
<1>2. ASSUME NEW k \in Nat, NEW kinds, Made(c, k, kinds) PROVE FALSE
  <2>1. PICK a \in history : <<c, a.seg, k>> \in stamps
    BY <1>2 DEF Made
  <2>2. a.seg \in Nat
    BY <2>1 DEF TypeOK
  <2>3. QED
    BY <1>1, <1>2, <2>1, <2>2 DEF ClockInv, Stamped
<1>3. c # PointerTask
  BY PointerAssumption
<1>4. word.wr.clk \in Nat /\ word.rd.clk \in Nat
  BY DEF TypeOK, VarState
<1>5. QED
  BY <1>2, <1>3, <1>4 DEF EpochsMade

(* What a task did itself is in the past it hands on.                      *)
LEMMA OwnAccessInPast ==
  ASSUME TypeOK, ClockInv, HistoryOK, NEW t \in Task, NEW a \in history,
         a.task = t \/ <<a.task, a.seg>> \in before[t]
  PROVE  <<a.task, a.seg>> \in PastOf(t)
<1>1. CASE a.task = t
  <2>1. a.seg \in Nat /\ 0 < a.seg /\ a.seg =< seg[t] /\ seg[t] \in Nat
    BY <1>1 DEF HistoryOK, TypeOK, ProgramTypeOK
  <2>2. a.seg = seg[t] \/ <<t, a.seg>> \in before[t]
    BY <2>1 DEF ClockInv, OwnPast
  <2>3. QED
    BY <1>1, <2>2 DEF PastOf
<1>2. CASE <<a.task, a.seg>> \in before[t]
  BY <1>2 DEF PastOf
<1>3. QED
  BY <1>1, <1>2

LEMMA SpawnKeepsKnown ==
  ASSUME TypeOK, TypeOK', ClockInv, EpochsMade, Known, NEW p \in Task, NEW c \in Task,
         NEW next, Create(p, p, c, next), BookSpawn(p, c)
  PROVE  Known'
<1>1. /\ seg \in [Task -> Nat] /\ spawned \in Nat /\ \A t \in Task : t \in Nat
      /\ before \in [Task -> SUBSET (Task \X Nat)]
      /\ \A t, u \in Task : vc[t][u] \in Nat /\ vc'[t][u] \in Nat
      /\ word.wr.tid \in Task /\ word.wr.clk \in Nat /\ word.rd.clk \in Nat
  BY TaskFacts DEF TypeOK, ProgramTypeOK, VarState
<1>2. c = spawned + 1 /\ spawned' = c /\ p =< spawned /\ p # c
  <2>1. status[p] = "running" /\ c = spawned + 1 /\ spawned' = c
    BY DEF Create, Running
  <2>2. p =< spawned
    BY <2>1 DEF ClockInv, Births, TypeOK, ProgramTypeOK, Task
  <2>3. QED
    BY <1>1, <2>1, <2>2
<1>3. seg[c] = 0
  BY <1>1, <1>2 DEF ClockInv, Births
<1>4. seg' = [seg EXCEPT ![p] = @ + 1, ![c] = 1]
  BY DEF Create, HBFork
<1>5. \A t \in Task : seg[t] =< seg'[t]
  BY <1>1, <1>2, <1>3, <1>4
<1>6. /\ before'[p] = PastOf(p) /\ before'[c] = PastOf(p)
      /\ \A t \in Task : t # p /\ t # c => before'[t] = before[t]
      /\ UNCHANGED <<lockPast, history>>
  BY <1>1, <1>2 DEF Create, HBFork, lockStateVars
<1>7. /\ \A u \in Task : u # c => vc'[c][u] = vc[p][u]
      /\ \A u \in Task : u # p => vc'[p][u] = vc[p][u]
      /\ \A t \in Task : t # p /\ t # c => vc'[t] = vc[t]
      /\ UNCHANGED <<lvc, word>>
  BY <1>2, SpawnedClocks DEF BookSpawn, shadowVars
<1>8. word.wr.clk > 0 => word.wr.tid # c
  BY <1>1, <1>2, RecordedIsBorn
<1>9. HistoryOK'
  <2>1. SUFFICES ASSUME NEW a \in history
                 PROVE  a.task \in Task /\ a.seg \in Nat /\ 0 < a.seg /\ a.seg =< seg'[a.task]
    BY <1>6 DEF HistoryOK
  <2>2. a.task \in Task /\ a.seg \in Nat /\ 0 < a.seg /\ a.seg =< seg[a.task]
    BY DEF Known, HistoryOK
  <2>3. seg[a.task] \in Nat /\ seg'[a.task] \in Nat /\ seg[a.task] =< seg'[a.task]
    BY <1>5, <2>2 DEF TypeOK, ProgramTypeOK
  <2>4. QED
    BY <2>2, <2>3
<1>10. WritesKnown'
  <2>1. SUFFICES ASSUME NEW t \in Task, t =< spawned', Covered(t)', NEW a \in history,
                        a.kind = WRITE
                 PROVE  a.task = t \/ <<a.task, a.seg>> \in before'[t]
    BY <1>6, <1>7 DEF Known, WritesKnown
  <2>2. CASE t # p /\ t # c
    <3>1. t =< spawned /\ Covered(t)
      BY <1>1, <1>2, <1>7, <2>1, <2>2 DEF Covered
    <3>2. QED
      BY <1>6, <2>1, <2>2, <3>1 DEF Known, WritesKnown
  <2>3. CASE t \in {p, c}
    <3>1. Covered(p)
      <4>1. CASE word.wr.clk = 0
        BY <1>1, <4>1 DEF Covered
      <4>2. CASE word.wr.clk > 0
        <5>1. word.wr.tid # c /\ word.wr.tid \in Task
          BY <1>1, <1>8, <4>2
        <5>2. word.wr.tid # p => word.wr.clk =< vc'[t][word.wr.tid]
          <6>1. word.wr.tid = t \/ word.wr.clk =< vc'[t][word.wr.tid]
            BY <1>7, <2>1 DEF Covered
          <6>2. QED
            BY <2>3, <5>1, <6>1
        <5>3. word.wr.tid # p => vc'[t][word.wr.tid] = vc[p][word.wr.tid]
          BY <1>7, <2>3, <5>1
        <5>4. QED
          BY <5>2, <5>3 DEF Covered
      <4>3. QED
        BY <1>1, <4>1, <4>2
    <3>2. a.task = p \/ <<a.task, a.seg>> \in before[p]
      BY <1>2, <2>1, <3>1 DEF Known, WritesKnown
    <3>3. <<a.task, a.seg>> \in PastOf(p)
      BY <3>2, OwnAccessInPast DEF Known
    <3>4. QED
      BY <1>6, <2>3, <3>3
  <2>4. QED
    BY <2>2, <2>3
<1>11. ReadsKnow'
  <2>1. ASSUME word.rd.tid \in Task, word.rd.clk > 0 PROVE Covered(word.rd.tid)'
    <3>1. word.rd.tid # c /\ Covered(word.rd.tid)
      BY <1>1, <1>2, <2>1, RecordedIsBorn DEF Known, ReadsKnow
    <3>2. QED
      BY <1>1, <1>7, <2>1, <3>1 DEF Covered
  <2>2. QED
    BY <1>7, <2>1 DEF Known, ReadsKnow
<1>12. QED
  BY <1>9, <1>10, <1>11 DEF Known

LEMMA JoinKeepsKnown ==
  ASSUME TypeOK, TypeOK', ClockInv, EpochsMade, Known, NEW t \in Task,
         NEW S \in SUBSET Task, S = m_child[t], t \notin S,
         \A c \in S : m_child[c] = {} /\ c =< spawned, t =< spawned,
         HBJoin(t, S), UNCHANGED <<spawned, lockPast, history>>, Capturewait_for_all(t)
  PROVE  Known'
<1>1. /\ seg \in [Task -> Nat] /\ before \in [Task -> SUBSET (Task \X Nat)]
      /\ \A x, u \in Task : vc[x][u] \in Nat /\ vc'[x][u] \in Nat
      /\ word.wr.tid \in Task /\ word.wr.clk \in Nat
  BY DEF TypeOK, ProgramTypeOK, VarState
<1>2. /\ \A x \in Task : seg[x] =< seg'[x]
      /\ \A x \in Task : x # t => before'[x] = before[x]
      /\ \A x \in {t} \cup S : PastOf(x) \subseteq before'[t]
  BY <1>1 DEF HBJoin
<1>3. /\ \A x \in Task : x # t => vc'[x] = vc[x]
      /\ \A u \in Task : /\ \A x \in {t} \cup S : vc[x][u] =< vc'[t][u]
                         /\ \E x \in {t} \cup S : vc[x][u] = vc'[t][u]
      /\ UNCHANGED <<lvc, word>>
  BY JoinedClocks DEF Capturewait_for_all, shadowVars
<1>4. HistoryOK'
  <2>1. SUFFICES ASSUME NEW a \in history
                 PROVE  a.task \in Task /\ a.seg \in Nat /\ 0 < a.seg /\ a.seg =< seg'[a.task]
    BY DEF HistoryOK
  <2>2. a.task \in Task /\ a.seg \in Nat /\ 0 < a.seg /\ a.seg =< seg[a.task]
    BY DEF Known, HistoryOK
  <2>3. seg[a.task] \in Nat /\ seg'[a.task] \in Nat /\ seg[a.task] =< seg'[a.task]
    BY <1>2, <2>2 DEF TypeOK, ProgramTypeOK
  <2>4. QED
    BY <2>2, <2>3
<1>5. WritesKnown'
  <2>1. SUFFICES ASSUME NEW x \in Task, x =< spawned, Covered(x)', NEW a \in history,
                        a.kind = WRITE
                 PROVE  a.task = x \/ <<a.task, a.seg>> \in before'[x]
    BY <1>3 DEF Known, WritesKnown
  <2>2. CASE x # t
    BY <1>2, <1>3, <2>1, <2>2 DEF Known, WritesKnown, Covered
  <2>3. CASE x = t
    <3>1. PICK y \in {t} \cup S : Covered(y)
      <4>1. CASE word.wr.tid = t
        BY <4>1 DEF Covered
      <4>2. CASE word.wr.tid # t
        <5>1. word.wr.clk =< vc'[t][word.wr.tid]
          BY <1>3, <2>1, <2>3, <4>2 DEF Covered
        <5>2. PICK y \in {t} \cup S : vc[y][word.wr.tid] = vc'[t][word.wr.tid]
          BY <1>1, <1>3
        <5>3. QED
          BY <5>1, <5>2 DEF Covered
      <4>3. QED
        BY <4>1, <4>2
    <3>2. a.task = y \/ <<a.task, a.seg>> \in before[y]
      BY <2>1, <3>1 DEF Known, WritesKnown
    <3>3. <<a.task, a.seg>> \in PastOf(y)
      BY <3>2, OwnAccessInPast DEF Known
    <3>4. QED
      BY <1>2, <2>3, <3>3
  <2>4. QED
    BY <2>2, <2>3
<1>6. ReadsKnow'
  <2>1. ASSUME word.rd.tid \in Task, word.rd.clk > 0 PROVE Covered(word.rd.tid)'
    <3>1. Covered(word.rd.tid)
      BY <2>1 DEF Known, ReadsKnow
    <3>2. vc[word.rd.tid][word.wr.tid] =< vc'[word.rd.tid][word.wr.tid]
      BY <1>1, <1>3, <2>1
    <3>3. /\ vc[word.rd.tid][word.wr.tid] \in Nat
          /\ vc'[word.rd.tid][word.wr.tid] \in Nat
      BY <1>1, <2>1
    <3>4. QED
      BY <1>1, <1>3, <3>1, <3>2, <3>3 DEF Covered
  <2>2. QED
    BY <1>3, <2>1 DEF Known, ReadsKnow
<1>7. QED
  BY <1>4, <1>5, <1>6 DEF Known

LEMMA WaitKeepsKnown ==
  ASSUME TypeOK, TypeOK', ClockInv, EpochsMade, Known, NEW t \in Task,
         WaitForAllReturn(t) \/ RootWaitReturn(t), Capturewait_for_all(t)
  PROVE  Known'
<1>1. /\ tbb_children \in [Task -> SUBSET Task] /\ tbb_roots \in [Task -> SUBSET Task]
      /\ m_child \in [Task -> SUBSET Task]
  BY DEF TypeOK, ProgramTypeOK
<1> DEFINE S == m_child[t]
<1>2. HBJoin(t, S) /\ \A c \in S : status[c] = "finished"
  <2>1. CASE WaitForAllReturn(t)
    <3>1. status[t] = "waiting" /\ tbb_roots[t] = {}
      BY <2>1 DEF WaitForAllReturn, WaitReturn, ClockInv, Children
    <3>2. S = tbb_children[t]
      BY <3>1 DEF ClockInv, Children
    <3>3. QED
      BY <2>1, <3>2 DEF WaitForAllReturn, WaitReturn
  <2>2. CASE RootWaitReturn(t)
    <3>1. t = 0 /\ tbb_children[t] = {}
      BY <2>2 DEF RootWaitReturn, WaitReturn, ClockInv, Children
    <3>2. S = tbb_roots[t]
      BY <3>1 DEF ClockInv, Children
    <3>3. QED
      BY <2>2, <3>2 DEF RootWaitReturn, WaitReturn
  <2>3. QED
    BY <2>1, <2>2
<1>3. /\ status[t] \in {"waiting", "rootwait"}
      /\ UNCHANGED <<spawned, lockPast, history>>
  BY DEF WaitForAllReturn, RootWaitReturn, WaitReturn, lockStateVars
<1>4. t \notin S /\ \A c \in S : m_child[c] = {} /\ c =< spawned
  <2>1. t \notin S
    BY <1>2, <1>3
  <2>2. \A c \in S : c # 0 /\ c =< spawned
    BY <1>1 DEF ClockInv, Children
  <2>3. \A c \in S : m_child[c] = {}
    BY <1>1, <1>2, <2>2 DEF ClockInv, Children
  <2>4. QED
    BY <2>1, <2>2, <2>3
<1>5. t =< spawned
  BY <1>3 DEF ClockInv, Births, TypeOK, ProgramTypeOK, Task
<1>6. S \in SUBSET Task
  BY <1>1
<1>7. QED
  BY <1>2, <1>3, <1>4, <1>5, <1>6, JoinKeepsKnown

(* A task reads the clock of a running task below what it would record.    *)
LEMMA NobodyKnowsRunning ==
  ASSUME TypeOK, ClockInv, NEW t \in Task, status[t] = "running"
  PROVE  /\ Clock(t) > 0
         /\ \A x \in Task : x # t => ~ Clock(t) =< vc[x][t]
         /\ \A l \in Locks : ~ Clock(t) =< lvc[l][t]
<1>1. /\ \A x \in Task : vc[x][t] \in Nat
      /\ \A l \in Locks : lvc[l][t] \in Nat
  BY DEF TypeOK
<1>2. /\ \A x \in Task : x # t => Below(vc[x], t)
      /\ \A l \in Locks : Below(lvc[l], t)
  BY DEF ClockInv, ClocksBounded
<1>3. QED
  BY <1>1, <1>2 DEF Below, Clock

LEMMA AcquireKeepsKnown ==
  ASSUME TypeOK, TypeOK', ClockInv, Known, NEW t \in Task, NEW l \in Locks,
         Acquire(t, l), CaptureLockAcquire(t, l)
  PROVE  Known'
<1>1. /\ before \in [Task -> SUBSET (Task \X Nat)]
      /\ vc \in [Task -> [Task -> Nat]]
      /\ \A x, u \in Task : vc[x][u] \in Nat
      /\ \A u \in Task : lvc[l][u] \in Nat
      /\ word.wr.tid \in Task /\ word.wr.clk \in Nat
  BY DEF TypeOK, ProgramTypeOK, VarState
<1>2. /\ UNCHANGED <<seg, history, spawned, lockPast, lvc, word>>
      /\ status[t] = "running"
      /\ before' = [before EXCEPT ![t] = @ \cup lockPast[l]]
      /\ vc' = [vc EXCEPT ![t] = [u \in Task |-> Max({vc[t][u], lvc[l][u]})]]
  BY DEF Acquire, CaptureLockAcquire, shadowVars, taskStateVars, Running
<1>3. /\ \A x \in Task : x # t => vc'[x] = vc[x] /\ before'[x] = before[x]
      /\ before'[t] = before[t] \cup lockPast[l]
      /\ \A u \in Task : vc'[t][u] = Max({vc[t][u], lvc[l][u]})
  BY <1>1, <1>2
<1>4. \A u \in Task : vc'[t][u] = IF vc[t][u] >= lvc[l][u] THEN vc[t][u] ELSE lvc[l][u]
  <2>1. TAKE u \in Task
  <2>2. vc[t][u] \in Nat /\ lvc[l][u] \in Nat
    BY <1>1
  <2>3. QED
    BY <1>3, <2>2, MaxOfPair
<1>5. HistoryOK'
  BY <1>2 DEF Known, HistoryOK
<1>6. WritesKnown'
  <2>1. SUFFICES ASSUME NEW x \in Task, x =< spawned, Covered(x)', NEW a \in history,
                        a.kind = WRITE
                 PROVE  a.task = x \/ <<a.task, a.seg>> \in before'[x]
    BY <1>2 DEF Known, WritesKnown
  <2>2. CASE x # t
    BY <1>2, <1>3, <2>1, <2>2 DEF Known, WritesKnown, Covered
  <2>3. CASE x = t
    <3>1. Covered(t) \/ word.wr.clk =< lvc[l][word.wr.tid]
      BY <1>1, <1>2, <1>4, <2>1, <2>3 DEF Covered
    <3>2. QED
      BY <1>3, <2>1, <2>3, <3>1 DEF Known, WritesKnown
  <2>4. QED
    BY <2>2, <2>3
<1>7. ReadsKnow'
  <2>1. ASSUME word.rd.tid \in Task, word.rd.clk > 0 PROVE Covered(word.rd.tid)'
    <3>1. Covered(word.rd.tid)
      BY <2>1 DEF Known, ReadsKnow
    <3>2. vc[word.rd.tid][word.wr.tid] =< vc'[word.rd.tid][word.wr.tid]
      BY <1>1, <1>3, <1>4, <2>1
    <3>3. vc'[word.rd.tid][word.wr.tid] \in Nat
      BY <1>1, <2>1 DEF TypeOK
    <3>4. QED
      BY <1>1, <1>2, <2>1, <3>1, <3>2, <3>3 DEF Covered
  <2>2. QED
    BY <1>2, <2>1 DEF Known, ReadsKnow
<1>8. QED
  BY <1>5, <1>6, <1>7 DEF Known

LEMMA ReleaseKeepsKnown ==
  ASSUME LockOrder, TypeOK, TypeOK', ClockInv, Known, NEW t \in Task, NEW l \in Locks,
         Release(t, l), CaptureLockRelease(t, l)
  PROVE  Known'
<1>1. /\ seg \in [Task -> Nat] /\ before \in [Task -> SUBSET (Task \X Nat)]
      /\ lockPast \in [Locks -> SUBSET (Task \X Nat)]
      /\ vc \in [Task -> [Task -> Nat]] /\ lvc \in [Locks -> [Task -> Nat]]
      /\ \A x, u \in Task : vc[x][u] \in Nat
      /\ word.wr.tid \in Task /\ word.wr.clk \in Nat
  BY DEF TypeOK, ProgramTypeOK, VarState
<1>2. /\ UNCHANGED <<history, spawned, word>>
      /\ status[t] = "running"
      /\ seg' = [seg EXCEPT ![t] = @ + 1]
      /\ before' = [before EXCEPT ![t] = PastOf(t)]
      /\ lockPast' = [lockPast EXCEPT ![l] = PastOf(t)]
      /\ vc' = [vc EXCEPT ![t][t] = @ + 1] /\ lvc' = [lvc EXCEPT ![l] = vc[t]]
  BY DEF Release, HBJoin, CaptureLockRelease, shadowVars, taskStateVars, Running
<1>3. /\ \A x \in Task : x # t => vc'[x] = vc[x] /\ before'[x] = before[x]
      /\ before'[t] = PastOf(t) /\ lockPast'[l] = PastOf(t) /\ lvc'[l] = vc[t]
      /\ \A m \in Locks : m # l => lockPast'[m] = lockPast[m] /\ lvc'[m] = lvc[m]
      /\ \A u \in Task : u # t => vc'[t][u] = vc[t][u]
      /\ \A x \in Task : seg[x] =< seg'[x]
  BY <1>1, <1>2
<1>4. t =< spawned
  BY <1>2 DEF ClockInv, Births, TypeOK, ProgramTypeOK, Task
<1>5. HistoryOK'
  <2>1. SUFFICES ASSUME NEW a \in history
                 PROVE  a.task \in Task /\ a.seg \in Nat /\ 0 < a.seg /\ a.seg =< seg'[a.task]
    BY <1>2 DEF HistoryOK
  <2>2. a.task \in Task /\ a.seg \in Nat /\ 0 < a.seg /\ a.seg =< seg[a.task]
    BY DEF Known, HistoryOK
  <2>3. seg[a.task] \in Nat /\ seg'[a.task] \in Nat /\ seg[a.task] =< seg'[a.task]
    BY <1>3, <2>2 DEF TypeOK, ProgramTypeOK
  <2>4. QED
    BY <2>2, <2>3
<1>6. ASSUME Covered(t), NEW a \in history, a.kind = WRITE
      PROVE  <<a.task, a.seg>> \in PastOf(t)
  <2>1. a.task = t \/ <<a.task, a.seg>> \in before[t]
    BY <1>4, <1>6 DEF Known, WritesKnown
  <2>2. QED
    BY <2>1, OwnAccessInPast DEF Known
<1>7. WritesKnown'
  <2>1. ASSUME NEW x \in Task, x =< spawned, Covered(x)', NEW a \in history, a.kind = WRITE
        PROVE  a.task = x \/ <<a.task, a.seg>> \in before'[x]
    <3>1. CASE x # t
      BY <1>2, <1>3, <2>1, <3>1 DEF Known, WritesKnown, Covered
    <3>2. CASE x = t
      <4>1. Covered(t)
        BY <1>1, <1>2, <1>3, <2>1, <3>2 DEF Covered
      <4>2. QED
        BY <1>3, <1>6, <2>1, <3>2, <4>1
    <3>3. QED
      BY <3>1, <3>2
  <2>2. ASSUME NEW m \in Locks, word.wr.clk =< lvc'[m][word.wr.tid],
               NEW a \in history, a.kind = WRITE
        PROVE  <<a.task, a.seg>> \in lockPast'[m]
    <3>1. CASE m # l
      BY <1>3, <2>2, <3>1 DEF Known, WritesKnown
    <3>2. CASE m = l
      <4>1. Covered(t)
        BY <1>3, <2>2, <3>2 DEF Covered
      <4>2. QED
        BY <1>3, <1>6, <2>2, <3>2, <4>1
    <3>3. QED
      BY <3>1, <3>2
  <2>3. QED
    BY <1>2, <2>1, <2>2 DEF WritesKnown
<1>8. ReadsKnow'
  BY <1>1, <1>2, <1>3 DEF Known, ReadsKnow, Covered
<1>9. QED
  BY <1>5, <1>7, <1>8 DEF Known

LEMMA AccessKeepsKnown ==
  ASSUME TypeOK, ClockInv, Known, NEW t \in Task, NEW kind \in AccessType,
         Access(t, kind), ~ detected'
  PROVE  Known'
<1> DEFINE new == AccessOf(t, kind, IF LockOrder THEN {} ELSE held[t])
<1>1. /\ status[t] = "running"
      /\ history' = history \cup {new}
      /\ new.task = t /\ new.seg = seg[t] /\ new.kind = kind
      /\ UNCHANGED <<spawned, seg, before, lockPast, lvc>>
      /\ vc' = [vc EXCEPT ![t][t] = Clock(t)]
      /\ ~ Reports(t, kind)
  BY DEF Access, Touch, Running, HBAccess, AccessOf, orderVars, taskStateVars,
     lockStateVars, RecordMem
<1>2. /\ word \in VarState /\ word.wr.tid \in Task /\ word.wr.clk \in Nat
      /\ vc \in [Task -> [Task -> Nat]] /\ seg[t] \in Nat
  BY DEF TypeOK, ProgramTypeOK, VarState
<1>3. /\ \A x \in Task : x # t => vc'[x] = vc[x]
      /\ \A u \in Task : u # t => vc'[t][u] = vc[t][u]
  BY <1>1, <1>2
<1>4. t =< spawned /\ seg[t] > 0
  BY <1>1 DEF ClockInv, Births, TypeOK, ProgramTypeOK, Task
<1>5. HistoryOK'
  BY <1>1, <1>2, <1>4 DEF Known, HistoryOK
<1>6. ~ word.racy
  BY DEF Known, ReadsKnow
<1>7. \A x \in Task : word'.wr = word.wr => (Covered(x)' <=> Covered(x))
  BY <1>2, <1>3 DEF Covered
<1>8. ASSUME word'.wr = word.wr, kind = READ
      PROVE  WritesKnown'
  <2>1. READ # WRITE
    BY DEF READ, WRITE
  <2>2. \A a \in history' : a.kind = WRITE => a \in history
    BY <1>1, <1>8, <2>1
  <2>3. QED
    BY <1>1, <1>7, <1>8, <2>2 DEF Known, WritesKnown
<1>9. ASSUME word'.wr = Epoch(t), Covered(t)
      PROVE  WritesKnown'
  <2>1. word'.wr.tid = t /\ word'.wr.clk = Clock(t)
    BY <1>9 DEF Epoch
  <2>2. \A l \in Locks : ~ word'.wr.clk =< lvc'[l][word'.wr.tid]
    BY <1>1, <2>1, NobodyKnowsRunning
  <2>3. \A x \in Task : Covered(x)' => x = t
    BY <1>1, <1>3, <2>1, NobodyKnowsRunning DEF Covered
  <2>4. \A a \in history' : a.kind = WRITE => a.task = t \/ <<a.task, a.seg>> \in before'[t]
    BY <1>1, <1>4, <1>9 DEF Known, WritesKnown
  <2>5. QED
    BY <2>2, <2>3, <2>4 DEF WritesKnown
<1>10. CASE SameEpoch(t, kind)
  <2>1. word' = word
    BY <1>10 DEF Access, RecordMem
  <2>2. ReadsKnow'
    BY <1>7, <2>1 DEF Known, ReadsKnow
  <2>3. CASE kind = READ
    BY <1>5, <1>8, <2>1, <2>2, <2>3 DEF Known
  <2>4. CASE kind = WRITE
    <3>1. word.wr = Epoch(t) /\ Covered(t)
      BY <1>10, <2>4 DEF SameEpoch, READ, WRITE, Epoch, Covered
    <3>2. QED
      BY <1>5, <1>9, <2>1, <2>2, <3>1 DEF Known
  <2>5. QED
    BY <2>3, <2>4 DEF AccessType
<1>11. CASE ~ SameEpoch(t, kind)
  <2>1. ~ NotBefore(t, word.wr)
    BY <1>1, <1>6, <1>11 DEF Reports
  <2>2. Covered(t)
    <3>1. element(t, word.wr.tid) = vc[t][word.wr.tid] \/ word.wr.tid = t
      BY <1>2 DEF element
    <3>2. vc[t][word.wr.tid] \in Nat
      BY <1>2
    <3>3. QED
      BY <1>2, <2>1, <3>1, <3>2 DEF NotBefore, Covered
  <2>3. CASE kind = READ
    <3>1. word' = ReadWord(t)
      BY <1>6, <1>11, <2>1, <2>3 DEF Access, RecordMem
    <3>2. /\ word'.wr = word.wr /\ word'.racy = word.racy
          /\ \/ word'.is_vector = word.is_vector /\ word'.rd = word.rd
             \/ word'.rd = Epoch(t) /\ ~ word'.is_vector
             \/ word'.rd = Pointer
      <4> DEFINE reads == [NoReads EXCEPT ![word.rd.tid] = word.rd.clk, ![t] = Clock(t)]
      <4>1. \/ word' = [word EXCEPT !.rd_vc[t] = IF @ = 0 THEN Clock(t) ELSE @]
            \/ ~ word.is_vector /\ word' = [word EXCEPT !.rd = Epoch(t)]
            \/ word' = [word EXCEPT !.rd = Pointer, !.is_vector = TRUE, !.rd_vc = reads]
        BY <3>1 DEF ReadWord
      <4> HIDE DEF reads
      <4>2. QED
        BY <1>2, <4>1 DEF VarState
    <3>3. Pointer.tid \notin Task /\ Epoch(t).tid = t
      BY PointerAssumption DEF Pointer, Epoch
    <3>4. ReadsKnow'
      BY <1>6, <1>7, <2>2, <3>2, <3>3 DEF Known, ReadsKnow
    <3>5. QED
      BY <1>5, <1>8, <2>3, <3>2, <3>4 DEF Known
  <2>4. CASE kind = WRITE
    <3>1. word' = WrittenWord(t)
      BY <1>6, <1>11, <2>1, <2>4 DEF Access, RecordMem, READ, WRITE
    <3>2. /\ word'.wr = Epoch(t) /\ ~ word'.racy /\ ~ word'.is_vector
          /\ word'.rd = Pointer \/ word'.rd = NoEpoch
      BY <1>2, <3>1 DEF WrittenWord, VarState, Known, ReadsKnow
    <3>3. Pointer.tid \notin Task /\ NoEpoch.clk = 0
      BY PointerAssumption DEF Pointer, NoEpoch
    <3>4. ReadsKnow'
      BY <3>2, <3>3 DEF ReadsKnow
    <3>5. QED
      BY <1>5, <1>9, <2>2, <3>2, <3>4 DEF Known
  <2>5. QED
    BY <2>3, <2>4 DEF AccessType
<1>12. QED
  BY <1>10, <1>11

LEMMA StillKnown ==
  ASSUME Known, UNCHANGED <<spawned, seg, before, lockPast, history, vc, lvc, word>>
  PROVE  Known'
BY DEF Known, HistoryOK, WritesKnown, ReadsKnow, Covered

-----------------------------------------------------------------------------
FoundInv == strict /\ ~ detected => Known

LEMMA StepKeepsFound ==
  ASSUME LockOrder, TypeOK, TypeOK', StrictInv, EpochsMade, FoundInv, TaskStep, Note
  PROVE  FoundInv'
<1>1. CASE ~ strict' \/ detected'
  BY <1>1 DEF FoundInv
<1>2. ASSUME NEW s \in Task, NEW c \in Task,
             \/ Spawn(s, c) \/ SpawnAndWaitForAll(s, c) \/ SpawnRootAndWait(s, c),
             BookSpawn(s, c)
      PROVE  FoundInv'
  <2>1. PICK next : Create(s, s, c, next) /\ UNCHANGED strict
    BY <1>2 DEF Spawn, SpawnAndWaitForAll, SpawnChild, SpawnRootAndWait
  <2>2. UNCHANGED detected
    BY <1>2 DEF BookSpawn, shadowVars
  <2>3. QED
    BY <1>2, <2>1, <2>2, SpawnKeepsKnown DEF FoundInv, StrictInv
<1>3. ASSUME NEW s \in Task, NEW c \in Task, SpawnSibling(s, c)
      PROVE  FoundInv'
  BY <1>3 DEF SpawnSibling, FoundInv
<1>4. ASSUME NEW t \in Task, WaitForAllReturn(t) \/ RootWaitReturn(t),
             Capturewait_for_all(t)
      PROVE  FoundInv'
  <2>1. UNCHANGED <<strict, detected>>
    BY <1>4 DEF WaitForAllReturn, RootWaitReturn, WaitReturn, Capturewait_for_all, shadowVars
  <2>2. CASE strict /\ ~ detected
    <3>1. ClockInv /\ Known
      BY <2>2 DEF FoundInv, StrictInv
    <3>2. Known'
      BY <1>4, <3>1, WaitKeepsKnown
    <3>3. QED
      BY <3>2 DEF FoundInv
  <2>3. QED
    BY <2>1, <2>2 DEF FoundInv
<1>5. ASSUME NEW t \in Task, NoHook,
             ExecBegin(t) \/ ExecEnd(t) \/ WaitForAll(t) \/ MainReturns
      PROVE  FoundInv'
  <2>1. /\ UNCHANGED <<spawned, seg, before, lockPast, history, strict>>
        /\ UNCHANGED <<vc, lvc, word, detected>>
    BY <1>5 DEF ExecBegin, ExecEnd, WaitForAll, MainReturns, Move, lockStateVars, hbVars,
       orderVars, NoHook, clockVars, shadowVars
  <2>2. QED
    BY <2>1, StillKnown DEF FoundInv
<1>6. ASSUME NEW t \in Task, NEW l \in Locks,
             \/ Acquire(t, l) /\ CaptureLockAcquire(t, l)
             \/ Release(t, l) /\ CaptureLockRelease(t, l)
      PROVE  FoundInv'
  <2>1. UNCHANGED <<strict, detected>>
    BY <1>6 DEF Acquire, Release, taskStateVars, CaptureLockAcquire, CaptureLockRelease,
       shadowVars
  <2>2. QED
    BY <1>6, <2>1, AcquireKeepsKnown, ReleaseKeepsKnown DEF FoundInv, StrictInv
<1>7. ASSUME NEW t \in Task, NEW kind \in AccessType, Access(t, kind)
      PROVE  FoundInv'
  <2>1. UNCHANGED strict /\ (detected => detected')
    BY <1>7 DEF Access, Touch, taskStateVars, RecordMem
  <2>2. QED
    BY <1>7, <2>1, AccessKeepsKnown DEF FoundInv, StrictInv
<1>8. QED
  BY <1>2, <1>3, <1>4, <1>5, <1>6, <1>7, TaskFacts DEF TaskStep

LEMMA NextKeepsFound ==
  ASSUME LockOrder
  PROVE  TypeOK /\ TypeOK' /\ StrictInv /\ EpochsMade /\ FoundInv /\ [Next]_vars => FoundInv'
<1>1. SUFFICES ASSUME TypeOK, TypeOK', StrictInv, EpochsMade, FoundInv, [Next]_vars
               PROVE  FoundInv'
  OBVIOUS
<1>2. CASE TaskStep /\ Note
  BY <1>1, <1>2, StepKeepsFound
<1>3. CASE UNCHANGED vars
  <2>1. /\ UNCHANGED <<spawned, seg, before, lockPast, history, strict>>
        /\ UNCHANGED <<vc, lvc, word, detected>>
    BY <1>3 DEF vars, programVars, taskStateVars, lockStateVars, hbVars, orderVars,
       clockVars, shadowVars
  <2>2. QED
    BY <1>1, <2>1, StillKnown DEF FoundInv
<1>4. QED
  BY <1>1, <1>2, <1>3 DEF Next, Terminated

(***************************************************************************)
(* No race after a write is missed in a strict program, for any number of  *)
(* tasks and locks: until something is reported, the second access of such *)
(* a race finds a write epoch its clock does not cover.                    *)
(***************************************************************************)
THEOREM WritesAreCaught ==
  ASSUME LockOrder PROVE Spec => [](strict => WriteRacesFound)
<1>1. TypeOK /\ StrictInv /\ FoundInv => (strict => WriteRacesFound)
  <2>1. SUFFICES ASSUME TypeOK, ClockInv, Known, NEW t \in Task, NEW kind \in AccessType,
                        Running(t), NEW a \in history, a.kind = WRITE, Concurrent(t, a)
                 PROVE  Reports(t, kind)
    BY DEF StrictInv, FoundInv, WriteRacesFound
  <2>2. t =< spawned
    BY <2>1 DEF Running, ClockInv, Births, TypeOK, ProgramTypeOK, Task
  <2>3. ~ Covered(t)
    BY <2>1, <2>2 DEF Known, WritesKnown, Concurrent
  <2>4. word.wr.tid \in Task /\ word.wr.clk \in Nat /\ vc[t][word.wr.tid] \in Nat
    BY <2>1 DEF TypeOK, VarState
  <2>5. NotBefore(t, word.wr)
    BY <2>3, <2>4 DEF Covered, NotBefore, element
  <2>6. Epoch(t).tid = t /\ Epoch(t).clk > 0
    BY <2>1, NobodyKnowsRunning DEF Running, Epoch
  <2>7. ~ SameEpoch(t, kind)
    BY <2>1, <2>3, <2>6 DEF SameEpoch, Known, ReadsKnow, Covered
  <2>8. QED
    BY <2>1, <2>5, <2>7 DEF Reports, Known, ReadsKnow
<1>2. Init => StrictInv /\ FoundInv
  BY InitClockInv, InitKnown DEF StrictInv, FoundInv
<1>3. TypeOK /\ TypeOK' /\ StrictInv /\ [Next]_vars => StrictInv'
  BY NextKeepsClockInv
<1>4. TypeOK /\ TypeOK' /\ StrictInv /\ EpochsMade /\ FoundInv /\ [Next]_vars => FoundInv'
  BY NextKeepsFound
<1>5. QED
  BY <1>1, <1>2, <1>3, <1>4, FastTrackTypeCorrect, InitEpochsMade, NextKeepsEpochs, PTL DEF Spec
=============================================================================
