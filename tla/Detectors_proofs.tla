-------------------------- MODULE Detectors_proofs --------------------------
(***************************************************************************)
(* Proofs about C-RACER, PTracer and SPD3 on one program, for any number   *)
(* of tasks, accesses and locks.                                           *)
(***************************************************************************)
EXTENDS Detectors, FiniteSetTheorems, SequenceTheorems, TLAPS

LEMMA TaskFacts == 0 \in Task /\ \A t \in Task : t \in Nat /\ t < MaxTasks
BY MaxTasksAssumption DEF Task

-----------------------------------------------------------------------------
(***************************************************************************)
(* Types of the program's variables, event by event.                       *)
(***************************************************************************)
LEMMA PastOfType ==
  ASSUME ProgramTypeOK, NEW t \in Task
  PROVE  PastOf(t) \in SUBSET (Task \X Nat)
<1>1. before[t] \in SUBSET (Task \X Nat) /\ seg[t] \in Nat
  BY DEF ProgramTypeOK
<1>2. <<t, seg[t]>> \in Task \X Nat
  BY <1>1
<1>3. QED
  BY <1>1, <1>2 DEF PastOf

LEMMA HBForkType ==
  ASSUME ProgramTypeOK, NEW s \in Task, NEW c \in Task, HBFork(s, c)
  PROVE  /\ seg' \in [Task -> Nat]
         /\ before' \in [Task -> SUBSET (Task \X Nat)]
<1>1. seg \in [Task -> Nat] /\ before \in [Task -> SUBSET (Task \X Nat)]
  BY DEF ProgramTypeOK
<1>2. PastOf(s) \in SUBSET (Task \X Nat)
  BY PastOfType
<1>3. QED
  BY <1>1, <1>2 DEF HBFork

LEMMA HBJoinType ==
  ASSUME ProgramTypeOK, NEW p \in Task, NEW S \in SUBSET Task, HBJoin(p, S)
  PROVE  /\ seg' \in [Task -> Nat]
         /\ before' \in [Task -> SUBSET (Task \X Nat)]
<1>1. seg \in [Task -> Nat] /\ before \in [Task -> SUBSET (Task \X Nat)]
  BY DEF ProgramTypeOK
<1>2. \A c \in Task : PastOf(c) \in SUBSET (Task \X Nat)
  BY PastOfType
<1>3. PastOf(p) \cup UNION {PastOf(c) : c \in S} \in SUBSET (Task \X Nat)
  BY <1>2
<1>4. QED
  BY <1>1, <1>3 DEF HBJoin

LEMMA CreateType ==
  ASSUME ProgramTypeOK, NEW s \in Task, NEW p \in Task, NEW c \in Task,
         NEW next \in Status, Create(s, p, c, next),
         tbb_children' \in [Task -> SUBSET Task],
         tbb_roots' \in [Task -> SUBSET Task],
         strict' \in BOOLEAN
  PROVE  ProgramTypeOK'
<1>1. seg' \in [Task -> Nat] /\ before' \in [Task -> SUBSET (Task \X Nat)]
  BY HBForkType DEF Create
<1>2. status' \in [Task -> Status]
  BY DEF Create, ProgramTypeOK, Status
<1>3. parent' \in [Task -> Task] /\ spawned' \in Task
  BY DEF Create, ProgramTypeOK
<1>4. held' \in [Task -> SUBSET Locks] /\ lockPast' \in [Locks -> SUBSET (Task \X Nat)]
  BY DEF Create, ProgramTypeOK, lockStateVars
<1>5. QED
  BY <1>1, <1>2, <1>3, <1>4 DEF ProgramTypeOK

LEMMA SpawnChildType ==
  ASSUME ProgramTypeOK, NEW s \in Task, NEW c \in Task,
         NEW next \in Status, SpawnChild(s, c, next)
  PROVE  ProgramTypeOK'
<1>1. /\ tbb_children' \in [Task -> SUBSET Task]
      /\ tbb_roots' \in [Task -> SUBSET Task]
      /\ strict' \in BOOLEAN
  BY DEF SpawnChild, ProgramTypeOK
<1>2. QED
  BY <1>1, CreateType DEF SpawnChild

LEMMA SpawnSiblingType ==
  ASSUME ProgramTypeOK, NEW s \in Task, NEW c \in Task, SpawnSibling(s, c)
  PROVE  ProgramTypeOK'
<1>1. /\ tbb_children' \in [Task -> SUBSET Task]
      /\ tbb_roots' \in [Task -> SUBSET Task]
      /\ strict' \in BOOLEAN /\ parent[s] \in Task
  BY DEF SpawnSibling, ProgramTypeOK
<1>2. QED
  BY <1>1, CreateType DEF SpawnSibling, Status

LEMMA SpawnRootType ==
  ASSUME ProgramTypeOK, NEW s \in Task, NEW c \in Task, SpawnRootAndWait(s, c)
  PROVE  ProgramTypeOK'
<1>1. /\ tbb_children' \in [Task -> SUBSET Task]
      /\ tbb_roots' \in [Task -> SUBSET Task]
      /\ strict' \in BOOLEAN
  BY DEF SpawnRootAndWait, ProgramTypeOK
<1>2. QED
  BY <1>1, CreateType DEF SpawnRootAndWait, Status

LEMMA MoveType ==
  ASSUME ProgramTypeOK, NEW t \in Task, NEW from, NEW to \in Status, Move(t, from, to)
  PROVE  ProgramTypeOK'
BY DEF Move, ProgramTypeOK, lockStateVars, hbVars, orderVars

LEMMA WaitReturnType ==
  ASSUME ProgramTypeOK, NEW t \in Task,
         WaitForAllReturn(t) \/ RootWaitReturn(t)
  PROVE  ProgramTypeOK'
<1>1. PICK S \in SUBSET Task : HBJoin(t, S)
  BY DEF WaitForAllReturn, RootWaitReturn, WaitReturn, ProgramTypeOK
<1>2. seg' \in [Task -> Nat] /\ before' \in [Task -> SUBSET (Task \X Nat)]
  BY <1>1, HBJoinType
<1>3. status' \in [Task -> Status]
  BY DEF WaitForAllReturn, RootWaitReturn, WaitReturn, ProgramTypeOK, Status
<1>4. tbb_children' \in [Task -> SUBSET Task] /\ tbb_roots' \in [Task -> SUBSET Task]
  BY DEF WaitForAllReturn, RootWaitReturn, ProgramTypeOK
<1>5. UNCHANGED <<parent, spawned, strict, lockStateVars>>
  BY DEF WaitForAllReturn, RootWaitReturn, WaitReturn
<1>6. QED
  BY <1>2, <1>3, <1>4, <1>5 DEF ProgramTypeOK, lockStateVars

LEMMA LockType ==
  ASSUME ProgramTypeOK, NEW t \in Task, NEW l \in Locks,
         Acquire(t, l) \/ Release(t, l)
  PROVE  ProgramTypeOK'
<1>1. CASE Acquire(t, l)
  <2>1. before' \in [Task -> SUBSET (Task \X Nat)]
    BY <1>1 DEF Acquire, ProgramTypeOK
  <2>2. held' \in [Task -> SUBSET Locks]
    BY <1>1 DEF Acquire, ProgramTypeOK
  <2>3. QED
    BY <1>1, <2>1, <2>2 DEF Acquire, ProgramTypeOK, taskStateVars
<1>2. CASE Release(t, l)
  <2>1. held' \in [Task -> SUBSET Locks]
    BY <1>2 DEF Release, ProgramTypeOK
  <2>2. /\ lockPast' \in [Locks -> SUBSET (Task \X Nat)]
        /\ seg' \in [Task -> Nat]
        /\ before' \in [Task -> SUBSET (Task \X Nat)]
    <3>1. CASE LockOrder
      BY <1>2, <3>1, PastOfType, HBJoinType DEF Release, ProgramTypeOK
    <3>2. CASE ~ LockOrder
      BY <1>2, <3>2 DEF Release, ProgramTypeOK, orderVars
    <3>3. QED
      BY <3>1, <3>2
  <2>3. QED
    BY <1>2, <2>1, <2>2 DEF Release, ProgramTypeOK, taskStateVars
<1>3. QED
  BY <1>1, <1>2

-----------------------------------------------------------------------------
(***************************************************************************)
(* Types of the variables of the detectors, event by event.                *)
(***************************************************************************)
LEMMA FrontType ==
  ASSUME NEW S, NEW l \in Seq(S)
  PROVE  Front(l) \in Seq(S)
<1>1. Len(l) \in Nat /\ \A i \in 1 .. Len(l) : l[i] \in S
  OBVIOUS
<1>2. CASE Len(l) = 0
  <2>1. Front(l) = <<>>
    BY <1>2 DEF Front
  <2>2. QED
    BY <2>1
<1>3. CASE Len(l) # 0
  <2>1. 1 \in 1 .. Len(l) + 1 /\ Len(l) - 1 \in 0 .. Len(l)
    BY <1>1, <1>3
  <2>2. SubSeq(l, 1, Len(l) - 1) \in Seq(S)
    BY <1>1, <2>1
  <2>3. QED
    BY <2>2 DEF Front
<1>4. QED
  BY <1>2, <1>3

LockStackOK == thd_lockset \in [Task -> Seq(Locks)]
DueOK == due \in [Task -> 0 .. 2]
FlagsOK == conflict \in BOOLEAN /\ ptracerFound \in BOOLEAN /\ spd3Found \in BOOLEAN

(* A born task is in a strand.                                             *)
InStrand == \A t \in Task : t <= spawned => current[t] # NULL

LEMMA StrandNames ==
  /\ \A c \in Task : /\ <<"first", c>> \in Strand /\ <<"cont", c>> \in Strand
                     /\ <<"sync", c>> \in Strand
  /\ NULL \notin Strand
BY DEF Strand, NULL

LEMMA InsertedType ==
  ASSUME NEW R, R \subseteq Strand \X Strand, NEW b \in Strand, NEW n \in Strand
  PROVE  E!InsertedAfter(R, b, n) \subseteq Strand \X Strand
BY DEF E!InsertedAfter, E!Before, E!After

LEMMA CRacerSpawnType ==
  ASSUME CRacerTypeOK, NEW p \in Task, NEW c \in Task, current[p] # NULL, CRacerSpawn(p, c)
  PROVE  /\ CRacerTypeOK'
         /\ \A t \in Task : current[t] # NULL \/ t = c => current'[t] # NULL
<1> DEFINE first == <<"first", c>>
           cont == <<"cont", c>>
           group == IF sync[p] = NULL THEN <<"sync", c>> ELSE NULL
<1>1. /\ first \in Strand /\ cont \in Strand /\ group \in Strand \cup {NULL}
      /\ current[p] \in Strand
  BY StrandNames DEF CRacerTypeOK
<1>2. /\ english' = Inserted(english, current[p], group, first, cont)
      /\ hebrew' = Inserted(hebrew, current[p], group, cont, first)
      /\ current' = [current EXCEPT ![p] = cont, ![c] = first]
      /\ sync' = [sync EXCEPT ![p] = IF group = NULL THEN @ ELSE group]
      /\ child' = [child EXCEPT ![p] = @ \cup {c}]
      /\ UNCHANGED <<deleted, accessVars>>
  BY DEF CRacerSpawn
<1> HIDE DEF first, cont, group
<1>3. \A R, a, b : R \subseteq Strand \X Strand /\ a \in Strand /\ b \in Strand
        => Inserted(R, current[p], group, a, b) \subseteq Strand \X Strand
  BY <1>1, InsertedType DEF Inserted
<1>4. english' \subseteq Strand \X Strand /\ hebrew' \subseteq Strand \X Strand
  BY <1>1, <1>2, <1>3 DEF CRacerTypeOK
<1>5. /\ current' \in [Task -> Strand \cup {NULL}]
      /\ sync' \in [Task -> Strand \cup {NULL}]
      /\ child' \in [Task -> SUBSET Task]
  BY <1>1, <1>2 DEF CRacerTypeOK
<1>6. \A t \in Task : current[t] # NULL \/ t = c => current'[t] # NULL
  BY <1>1, <1>2, StrandNames DEF CRacerTypeOK
<1>7. QED
  BY <1>2, <1>4, <1>5, <1>6 DEF CRacerTypeOK, accessVars

LEMMA CRacerMoveType ==
  ASSUME CRacerTypeOK, NEW t \in Task, CRacerExecBegin(t) \/ CRacerWait(t)
  PROVE  /\ CRacerTypeOK'
         /\ \A u \in Task : current[u] # NULL => current'[u] # NULL
<1>1. CASE CRacerExecBegin(t)
  BY <1>1 DEF CRacerExecBegin, CRacerTypeOK, accessVars
<1>2. CASE CRacerWait(t)
  <2>1. Adopted(t) \subseteq Task
    BY DEF Adopted
  <2>2. /\ current' \in [Task -> Strand \cup {NULL}]
        /\ sync' \in [Task -> Strand \cup {NULL}]
        /\ \A u \in Task : current[u] # NULL => current'[u] # NULL
    BY <1>2 DEF CRacerWait, CRacerTypeOK
  <2>3. child' \in [Task -> SUBSET Task] /\ deleted' \subseteq Task
    BY <1>2, <2>1 DEF CRacerWait, CRacerTypeOK
  <2>4. UNCHANGED <<english, hebrew, accessVars>>
    BY <1>2 DEF CRacerWait
  <2>5. QED
    BY <2>2, <2>3, <2>4 DEF CRacerTypeOK, accessVars
<1>3. QED
  BY <1>1, <1>2

LEMMA CRacerRecordType ==
  ASSUME CRacerTypeOK, NEW t \in Task, NEW kind, CRacerRecordMem(t, kind)
  PROVE  CRacerTypeOK'
<1>1. access' \in [writer : Strand \cup {NULL}, lreader : Strand \cup {NULL},
                   rreader : Strand \cup {NULL}]
  <2>1. current[t] \in Strand \cup {NULL}
    BY DEF CRacerTypeOK
  <2>2. QED
    BY <2>1 DEF CRacerRecordMem, CRacerTypeOK
<1>2. violation' \in BOOLEAN
  BY DEF CRacerRecordMem, CRacerTypeOK, CRacerFinds, RacesWithStrand
<1>3. UNCHANGED strandVars
  BY DEF CRacerRecordMem
<1>4. QED
  BY <1>1, <1>2, <1>3 DEF CRacerTypeOK, strandVars

-----------------------------------------------------------------------------
(***************************************************************************)
(* The events of the program with the hooks of the three detectors.        *)
(***************************************************************************)
Awaited(t) == tbb_children[t] \cup tbb_roots[t]

(* s creates c under p and goes on in the state next.                      *)
ForkStep(s, p, c, next) ==
  /\ Create(s, p, c, next)
  /\ \/ /\ p = s /\ s # 0 /\ next \in {"running", "waiting"} /\ strict' = strict
        /\ tbb_children' = [tbb_children EXCEPT ![p] = @ \cup {c}]
        /\ tbb_roots' = tbb_roots
     \/ /\ p = s /\ s = 0 /\ next = "rootwait" /\ strict' = strict
        /\ tbb_roots' = [tbb_roots EXCEPT ![p] = {c}]
        /\ tbb_children' = tbb_children
     \/ /\ p = parent[s] /\ s # 0 /\ status[p] = "rootwait" /\ next = "running"
        /\ strict' = FALSE
        /\ tbb_roots' = [tbb_roots EXCEPT ![p] = @ \cup {c}]
        /\ tbb_children' = tbb_children

SpawnEvent(s, p, c, next) ==
  /\ ForkStep(s, p, c, next) /\ CRacerSpawn(p, c)
  /\ IF s = 0 THEN TreeSpawnRoot(s, c) ELSE TreeSpawn(s, c)
  /\ due' = IF s = 0 THEN due ELSE [due EXCEPT ![s] = 2]
  /\ UNCHANGED OtherVars

LEMMA SpawnIsEvent ==
  ASSUME ProgramTypeOK, NEW s \in Task, NEW c \in Task, SpawnStep(s, c)
  PROVE  \E p \in Task : \E next : SpawnEvent(s, p, c, next)
<1>1. CASE Spawn(s, c) /\ CRacerSpawn(s, c) /\ TreeSpawn(s, c)
           /\ due' = [due EXCEPT ![s] = 2] /\ UNCHANGED OtherVars
  <2>1. SpawnEvent(s, s, c, "running")
    BY <1>1 DEF Spawn, SpawnChild, ForkStep, SpawnEvent
  <2>2. QED
    BY <2>1
<1>2. CASE SpawnAndWaitForAll(s, c) /\ CRacerSpawn(s, c) /\ TreeSpawn(s, c)
           /\ due' = [due EXCEPT ![s] = 2] /\ UNCHANGED OtherVars
  <2>1. SpawnEvent(s, s, c, "waiting")
    BY <1>2 DEF SpawnAndWaitForAll, SpawnChild, ForkStep, SpawnEvent
  <2>2. QED
    BY <2>1
<1>3. CASE SpawnSibling(s, c) /\ CRacerSpawn(parent[s], c) /\ TreeSpawn(s, c)
           /\ due' = [due EXCEPT ![s] = 2] /\ UNCHANGED OtherVars
  <2>1. SpawnEvent(s, parent[s], c, "running")
    BY <1>3 DEF SpawnSibling, ForkStep, SpawnEvent
  <2>2. parent[s] \in Task
    BY DEF ProgramTypeOK
  <2>3. QED
    BY <2>1, <2>2
<1>4. CASE SpawnRootAndWait(s, c) /\ CRacerSpawn(s, c) /\ TreeSpawnRoot(s, c)
           /\ UNCHANGED <<due, OtherVars>>
  <2>1. SpawnEvent(s, s, c, "rootwait")
    BY <1>4 DEF SpawnRootAndWait, ForkStep, SpawnEvent
  <2>2. QED
    BY <2>1
<1>5. QED
  BY <1>1, <1>2, <1>3, <1>4 DEF SpawnStep

LEMMA NextIs ==
  ASSUME ProgramTypeOK, [Next]_vars
  PROVE  \/ \E s, p, c \in Task : \E next : SpawnEvent(s, p, c, next) /\ Note
         \/ \E t \in Task : MoveStep(t) /\ Note
         \/ \E t \in Task, l \in Locks : LockStep(t, l) /\ Note
         \/ \E t \in Task, kind \in AccessType : Access(t, kind) /\ Note
         \/ \E t \in Task : IdleWait(t)
         \/ UNCHANGED vars
BY SpawnIsEvent DEF Next, Terminated

(***************************************************************************)
(* Which tasks wait for which: the lists of TBB, with siblings.            *)
(***************************************************************************)
Births ==
  \A t \in Task : IF t <= spawned
                  THEN status[t] # "unborn"
                  ELSE status[t] = "unborn" /\ Awaited(t) = {}

Waits ==
  /\ \A t \in Task : tbb_roots[t] # {} => t = 0 /\ status[0] = "rootwait"
  /\ \A t \in Task : status[t] = "rootwait" => t = 0 /\ tbb_roots[0] # {}
  /\ \A t \in Task : status[t] = "waiting" => tbb_children[t] # {}
  /\ \A t \in Task : t # 0 /\ status[t] \in {"unborn", "ready", "finished"} =>
       tbb_children[t] = {}
  /\ tbb_children[0] = {} /\ status[0] \notin {"ready", "waiting"}

Parents ==
  /\ \A p, c \in Task : c \in Awaited(p) =>
       c # 0 /\ c <= spawned /\ p < c /\ parent[c] = p
  /\ \A c \in Task : c # 0 /\ c <= spawned /\ status[c] # "finished" =>
       c \in Awaited(parent[c])
  /\ parent[0] = 0

FamilyInv == Births /\ Waits /\ Parents

LEMMA FamilyInit == ProgramInit => FamilyInv
<1> SUFFICES ASSUME ProgramInit PROVE FamilyInv
  OBVIOUS
<1>1. /\ spawned = 0 /\ status[0] = "running" /\ parent[0] = 0
      /\ \A t \in Task : /\ tbb_children[t] = {} /\ tbb_roots[t] = {}
                         /\ t # 0 => status[t] = "unborn"
      /\ \A t \in Task : t \in Nat
      /\ 0 \in Task
  BY TaskFacts DEF ProgramInit
<1>2. Births
  BY <1>1 DEF Births, Awaited
<1>3. Waits
  BY <1>1 DEF Waits
<1>4. Parents
  BY <1>1 DEF Parents, Awaited
<1>5. QED
  BY <1>2, <1>3, <1>4 DEF FamilyInv

LEMMA ForkFacts ==
  ASSUME ProgramTypeOK, FamilyInv, NEW s \in Task, NEW p \in Task, NEW c \in Task, NEW next,
         ForkStep(s, p, c, next)
  PROVE  /\ spawned \in Nat /\ c \in Nat /\ c = spawned + 1 /\ spawned' = c
         /\ s <= spawned /\ p <= spawned /\ s # c /\ p # c /\ c # 0
         /\ status[s] = "running" /\ status[c] = "unborn"
         /\ status'[c] = "ready" /\ status'[s] = next
         /\ \A t \in Task : t # c /\ t # s => status'[t] = status[t]
         /\ parent'[c] = p /\ \A t \in Task : t # c => parent'[t] = parent[t]
         /\ Awaited(c) = {} /\ Awaited(c)' = {} /\ Awaited(p)' = Awaited(p) \cup {c}
         /\ \A t \in Task : t # p => Awaited(t)' = Awaited(t)
         /\ next \in {"running", "waiting", "rootwait"}
         /\ p # s => p = 0 /\ status[p] = "rootwait" /\ next = "running" /\ s # 0
<1>1. /\ Running(s) /\ c = spawned + 1 /\ spawned' = c
      /\ parent' = [parent EXCEPT ![c] = p]
      /\ status' = [status EXCEPT ![c] = "ready", ![s] = next]
  BY DEF ForkStep, Create
<1>2. spawned \in Nat /\ \A t \in Task : t \in Nat
  BY TaskFacts DEF ProgramTypeOK
<1>3. s <= spawned
  BY <1>1, <1>2 DEF FamilyInv, Births, Running
<1>4. p <= spawned /\ (p # s => p = 0 /\ status[p] = "rootwait" /\ next = "running" /\ s # 0)
  <2>1. p = s \/ (p = parent[s] /\ status[p] = "rootwait" /\ next = "running" /\ s # 0)
    BY DEF ForkStep
  <2>2. status[p] = "rootwait" => p = 0
    BY DEF FamilyInv, Waits
  <2>3. QED
    BY <1>2, <1>3, <2>1, <2>2
<1>5. s # c /\ p # c /\ c # 0 /\ ~ (c <= spawned)
  BY <1>1, <1>2, <1>3, <1>4
<1>6. status[c] = "unborn" /\ Awaited(c) = {}
  BY <1>5 DEF FamilyInv, Births
<1>7. /\ Awaited(p)' = Awaited(p) \cup {c}
      /\ \A t \in Task : t # p => Awaited(t)' = Awaited(t)
  <2>1. /\ tbb_children \in [Task -> SUBSET Task] /\ tbb_roots \in [Task -> SUBSET Task]
    BY DEF ProgramTypeOK
  <2>2. status[p] = "running" => tbb_roots[p] = {}
    BY <1>1 DEF FamilyInv, Waits
  <2>3. CASE p = s /\ s # 0 /\ tbb_roots' = tbb_roots
             /\ tbb_children' = [tbb_children EXCEPT ![p] = @ \cup {c}]
    BY <2>1, <2>3 DEF Awaited
  <2>4. CASE p = s /\ tbb_roots' = [tbb_roots EXCEPT ![p] = {c}]
             /\ tbb_children' = tbb_children
    BY <1>1, <2>1, <2>2, <2>4 DEF Awaited, Running
  <2>5. CASE tbb_roots' = [tbb_roots EXCEPT ![p] = @ \cup {c}] /\ tbb_children' = tbb_children
    BY <2>1, <2>5 DEF Awaited
  <2>6. QED
    BY <2>3, <2>4, <2>5 DEF ForkStep
<1>8. /\ status'[c] = "ready" /\ status'[s] = next
      /\ \A t \in Task : t # c /\ t # s => status'[t] = status[t]
      /\ parent'[c] = p /\ \A t \in Task : t # c => parent'[t] = parent[t]
  BY <1>1, <1>5 DEF ProgramTypeOK
<1>9. next \in {"running", "waiting", "rootwait"}
  BY DEF ForkStep
<1>10. QED
  BY <1>1, <1>2, <1>3, <1>4, <1>5, <1>6, <1>7, <1>8, <1>9 DEF Running

LEMMA ForkKeepsFamily ==
  ASSUME ProgramTypeOK, FamilyInv, NEW s \in Task, NEW p \in Task, NEW c \in Task, NEW next,
         ForkStep(s, p, c, next)
  PROVE  FamilyInv'
<1>1. /\ spawned \in Nat /\ c \in Nat /\ c = spawned + 1 /\ spawned' = c
      /\ s <= spawned /\ p <= spawned /\ s # c /\ p # c /\ c # 0
      /\ status[s] = "running" /\ status[c] = "unborn"
      /\ status'[c] = "ready" /\ status'[s] = next
      /\ \A t \in Task : t # c /\ t # s => status'[t] = status[t]
      /\ parent'[c] = p /\ \A t \in Task : t # c => parent'[t] = parent[t]
      /\ Awaited(c) = {} /\ Awaited(c)' = {} /\ Awaited(p)' = Awaited(p) \cup {c}
      /\ \A t \in Task : t # p => Awaited(t)' = Awaited(t)
      /\ next \in {"running", "waiting", "rootwait"}
  BY ForkFacts
<1>2. \A t \in Task : t \in Nat
  BY TaskFacts
<1>3. Births /\ Waits /\ Parents
  BY DEF FamilyInv
<1>4. Births'
  <2>1. \A t \in Task : t <= spawned' <=> t <= spawned \/ t = c
    BY <1>1, <1>2
  <2>2. \A t \in Task : ~ (t <= spawned') => status'[t] = "unborn" /\ Awaited(t)' = {}
    BY <1>1, <1>3, <2>1 DEF Births
  <2>3. \A t \in Task : t <= spawned' => status'[t] # "unborn"
    BY <1>1, <1>3, <2>1 DEF Births
  <2>4. QED
    BY <2>2, <2>3 DEF Births, Awaited
<1>5. Waits'
  <2>1. /\ tbb_children \in [Task -> SUBSET Task] /\ tbb_roots \in [Task -> SUBSET Task]
        /\ 0 \in Task
    BY TaskFacts DEF ProgramTypeOK
  <2>2. CASE /\ p = s /\ s # 0 /\ next \in {"running", "waiting"}
             /\ tbb_children' = [tbb_children EXCEPT ![p] = @ \cup {c}]
             /\ tbb_roots' = tbb_roots
    <3>1. /\ \A t \in Task : t # p => tbb_children'[t] = tbb_children[t]
          /\ tbb_children'[p] = tbb_children[p] \cup {c}
      BY <2>1, <2>2
    <3>2. status'[0] = status[0]
      BY <1>1, <2>1, <2>2
    <3>3. \A t \in Task : status'[t] = "rootwait" => status[t] = "rootwait"
      BY <1>1, <2>2
    <3>4. \A t \in Task : status'[t] = "waiting" => tbb_children'[t] # {}
      BY <1>1, <1>3, <2>2, <3>1 DEF Waits
    <3>5. \A t \in Task : t # 0 /\ status'[t] \in {"unborn", "ready", "finished"} =>
            tbb_children'[t] = {}
      <4>1. status'[p] \notin {"unborn", "ready", "finished"}
        BY <1>1, <2>2
      <4>2. QED
        BY <1>1, <1>3, <3>1, <4>1 DEF Waits
    <3>6. QED
      BY <1>3, <2>1, <2>2, <3>1, <3>2, <3>3, <3>4, <3>5 DEF Waits
  <2>3. CASE /\ p = s /\ s = 0 /\ next = "rootwait"
             /\ tbb_roots' = [tbb_roots EXCEPT ![p] = {c}]
             /\ tbb_children' = tbb_children
    <3>1. /\ \A t \in Task : t # 0 => tbb_roots'[t] = tbb_roots[t]
          /\ tbb_roots'[0] = {c} /\ status'[0] = "rootwait"
      BY <1>1, <2>1, <2>3
    <3>2. \A t \in Task : t # 0 => status'[t] = status[t] \/ (t = c /\ status'[t] = "ready")
      BY <1>1, <2>3
    <3>3. QED
      BY <1>1, <1>3, <2>1, <2>3, <3>1, <3>2 DEF Waits
  <2>4. CASE /\ status[p] = "rootwait" /\ s # 0 /\ next = "running"
             /\ tbb_roots' = [tbb_roots EXCEPT ![p] = @ \cup {c}]
             /\ tbb_children' = tbb_children
    <3>1. p = 0
      BY <1>3, <2>4 DEF Waits
    <3>2. /\ \A t \in Task : t # 0 => tbb_roots'[t] = tbb_roots[t]
          /\ tbb_roots'[0] # {} /\ status'[0] = "rootwait"
      BY <1>1, <2>1, <2>4, <3>1
    <3>3. \A t \in Task : \/ status'[t] = status[t]
                          \/ t = c /\ status'[t] = "ready"
                          \/ t = s /\ status'[t] = "running"
      BY <1>1, <2>4
    <3>4. QED
      BY <1>1, <1>3, <2>1, <2>4, <3>2, <3>3 DEF Waits
  <2>5. QED
    BY <2>2, <2>3, <2>4 DEF ForkStep
<1>6. Parents'
  <2>1. ASSUME NEW q \in Task, NEW d \in Task, d \in Awaited(q)'
        PROVE  d # 0 /\ d <= spawned' /\ q < d /\ parent'[d] = q
    <3>1. CASE d \in Awaited(q)
      <4>1. d # 0 /\ d <= spawned /\ q < d /\ parent[d] = q
        BY <1>3, <3>1 DEF Parents
      <4>2. QED
        BY <1>1, <1>2, <4>1
    <3>2. CASE q = p /\ d = c
      BY <1>1, <1>2, <3>2
    <3>3. QED
      BY <1>1, <2>1, <3>1, <3>2
  <2>2. ASSUME NEW d \in Task, d # 0, d <= spawned', status'[d] # "finished"
        PROVE  d \in Awaited(parent[d])'
    <3>1. CASE d = c
      <4>1. Awaited(parent[d])' = Awaited(p)'
        BY <1>1, <3>1 DEF Awaited
      <4>2. QED
        BY <1>1, <3>1, <4>1
    <3>2. CASE d # c
      <4>1. d <= spawned /\ status[d] # "finished"
        BY <1>1, <1>2, <2>2, <3>2
      <4>2. d \in Awaited(parent[d]) /\ parent'[d] = parent[d] /\ parent[d] \in Task
        BY <1>1, <1>3, <2>2, <3>2, <4>1 DEF Parents, ProgramTypeOK
      <4>3. Awaited(parent[d])' = tbb_children'[parent'[d]] \cup tbb_roots'[parent'[d]]
        BY DEF Awaited
      <4>4. \A q \in Task : Awaited(q) \subseteq Awaited(q)'
        BY <1>1
      <4>5. \A q \in Task : Awaited(q) \subseteq tbb_children'[q] \cup tbb_roots'[q]
        BY <4>4 DEF Awaited
      <4>6. QED
        BY <4>2, <4>3, <4>5
    <3>3. QED
      BY <3>1, <3>2
  <2>3. \A d \in Task : Awaited(parent[d])' = tbb_children'[parent'[d]] \cup tbb_roots'[parent'[d]]
    BY DEF Awaited
  <2>4. parent'[0] = 0
    BY <1>1, <1>3, TaskFacts DEF Parents
  <2>5. QED
    BY <2>1, <2>2, <2>3, <2>4 DEF Parents, Awaited
<1>7. QED
  BY <1>4, <1>5, <1>6 DEF FamilyInv

(* A task returns from its wait.                                           *)
ReturnStep(t) == WaitForAllReturn(t) \/ RootWaitReturn(t)

LEMMA ReturnFacts ==
  ASSUME ProgramTypeOK, FamilyInv, NEW t \in Task, ReturnStep(t)
  PROVE  /\ status[t] \in {"waiting", "rootwait"} /\ status'[t] = "running"
         /\ \A u \in Task : u # t => status'[u] = status[u]
         /\ Awaited(t) # {} /\ Awaited(t)' = {} /\ t <= spawned
         /\ \A u \in Task : u # t => Awaited(u)' = Awaited(u)
         /\ \A c \in Awaited(t) : c \in Task /\ status[c] = "finished" /\ Awaited(c) = {} /\ c # t
         /\ HBJoin(t, Awaited(t))
         /\ UNCHANGED <<parent, spawned, strict, lockStateVars, history, raced>>
         /\ \A u \in Task : u # t => tbb_roots'[u] = tbb_roots[u]
                                     /\ tbb_children'[u] = tbb_children[u]
<1>1. Births /\ Waits /\ Parents
  BY DEF FamilyInv
<1>2. /\ tbb_children \in [Task -> SUBSET Task] /\ tbb_roots \in [Task -> SUBSET Task]
      /\ status \in [Task -> Status] /\ 0 \in Task
      /\ \A u \in Task : u \in Nat
  BY TaskFacts DEF ProgramTypeOK
<1>3. /\ status' = [status EXCEPT ![t] = "running"]
      /\ UNCHANGED <<parent, spawned, strict, lockStateVars, history, raced>>
  BY DEF ReturnStep, WaitForAllReturn, RootWaitReturn, WaitReturn
<1>4. \/ /\ status[t] = "waiting" /\ Awaited(t) = tbb_children[t] /\ Awaited(t) # {}
         /\ HBJoin(t, tbb_children[t]) /\ tbb_roots[t] = {}
         /\ tbb_children' = [tbb_children EXCEPT ![t] = {}] /\ tbb_roots' = tbb_roots
         /\ \A c \in tbb_children[t] : status[c] = "finished"
      \/ /\ status[t] = "rootwait" /\ Awaited(t) = tbb_roots[t] /\ Awaited(t) # {}
         /\ HBJoin(t, tbb_roots[t]) /\ tbb_children[t] = {}
         /\ tbb_roots' = [tbb_roots EXCEPT ![t] = {}] /\ tbb_children' = tbb_children
         /\ \A c \in tbb_roots[t] : status[c] = "finished"
  <2>1. CASE WaitForAllReturn(t)
    <3>1. status[t] = "waiting" /\ tbb_children[t] # {} /\ tbb_roots[t] = {}
      BY <1>1, <2>1 DEF WaitForAllReturn, WaitReturn, Waits
    <3>2. QED
      BY <2>1, <3>1 DEF WaitForAllReturn, WaitReturn, Awaited
  <2>2. CASE RootWaitReturn(t)
    <3>1. status[t] = "rootwait" /\ tbb_roots[t] # {} /\ tbb_children[t] = {}
      BY <1>1, <2>2 DEF RootWaitReturn, WaitReturn, Waits
    <3>2. QED
      BY <2>2, <3>1 DEF RootWaitReturn, WaitReturn, Awaited
  <2>3. QED
    BY <2>1, <2>2 DEF ReturnStep
<1>5. Awaited(t)' = {} /\ \A u \in Task : u # t => Awaited(u)' = Awaited(u)
  BY <1>2, <1>4 DEF Awaited
<1>6. ASSUME NEW c \in Awaited(t)
      PROVE  c \in Task /\ status[c] = "finished" /\ Awaited(c) = {} /\ c # t
  <2>1. c \in Task /\ status[c] = "finished"
    BY <1>2, <1>4, <1>6
  <2>2. c # 0 /\ t < c
    BY <1>1, <1>6, <2>1 DEF Parents
  <2>3. tbb_children[c] = {} /\ tbb_roots[c] = {}
    BY <1>1, <2>1, <2>2 DEF Waits
  <2>4. QED
    BY <1>2, <2>1, <2>2, <2>3 DEF Awaited
<1>7. t <= spawned
  BY <1>1, <1>4 DEF Births
<1>8. /\ \A u \in Task : u # t => tbb_roots'[u] = tbb_roots[u]
                                  /\ tbb_children'[u] = tbb_children[u]
      /\ status'[t] = "running" /\ \A u \in Task : u # t => status'[u] = status[u]
  BY <1>2, <1>3, <1>4
<1>9. HBJoin(t, Awaited(t))
  BY <1>4
<1>10. QED
  BY <1>3, <1>4, <1>5, <1>6, <1>7, <1>8, <1>9

LEMMA ReturnKeepsFamily ==
  ASSUME ProgramTypeOK, FamilyInv, NEW t \in Task, ReturnStep(t)
  PROVE  FamilyInv'
<1>1. /\ status[t] \in {"waiting", "rootwait"} /\ status'[t] = "running"
      /\ \A u \in Task : u # t => status'[u] = status[u]
      /\ Awaited(t)' = {} /\ t <= spawned
      /\ \A u \in Task : u # t => Awaited(u)' = Awaited(u)
      /\ \A c \in Awaited(t) : status[c] = "finished"
      /\ UNCHANGED <<parent, spawned>>
      /\ \A u \in Task : u # t => tbb_roots'[u] = tbb_roots[u]
                                  /\ tbb_children'[u] = tbb_children[u]
  BY ReturnFacts
<1>2. Births /\ Waits /\ Parents
  BY DEF FamilyInv
<1>3. tbb_roots'[t] = {} /\ tbb_children'[t] = {}
  BY <1>1 DEF Awaited
<1>4. Births'
  <2>1. \A u \in Task : IF u <= spawned
                        THEN status'[u] # "unborn"
                        ELSE status'[u] = "unborn" /\ Awaited(u)' = {}
    BY <1>1, <1>2 DEF Births
  <2>2. QED
    BY <1>1, <2>1 DEF Births, Awaited
<1>5. Waits'
  <2>1. status[0] = "rootwait" /\ t # 0 => status'[0] = "rootwait"
    BY <1>1, TaskFacts
  <2>2. \A u \in Task : status'[u] = "rootwait" => u # t
    BY <1>1
  <2>3. QED
    BY <1>1, <1>2, <1>3, <2>1, <2>2, TaskFacts DEF Waits
<1>6. Parents'
  <2>1. \A p, c \in Task : c \in Awaited(p)' => c \in Awaited(p)
    BY <1>1
  <2>2. ASSUME NEW c \in Task, c # 0, c <= spawned, status'[c] # "finished"
        PROVE  c \in Awaited(parent[c])'
    <3>1. status[c] # "finished"
      BY <1>1, <2>2
    <3>2. c \in Awaited(parent[c]) /\ parent[c] \in Task
      BY <1>2, <2>2, <3>1 DEF Parents, ProgramTypeOK
    <3>3. parent[c] # t
      BY <1>1, <3>1, <3>2
    <3>4. QED
      BY <1>1, <3>2, <3>3
  <2>3. \A p \in Task : Awaited(p)' = tbb_children'[p] \cup tbb_roots'[p]
    BY DEF Awaited
  <2>4. QED
    BY <1>1, <1>2, <2>1, <2>2, <2>3 DEF Parents, Awaited
<1>7. QED
  BY <1>4, <1>5, <1>6 DEF FamilyInv

(* The other events move at most one task from one state to another.       *)
Moves(t) ==
  /\ UNCHANGED <<tbb_children, tbb_roots, parent, spawned, strict>>
  /\ \/ status' = status
     \/ /\ status[t] = "ready" /\ status' = [status EXCEPT ![t] = "running"]
     \/ /\ status[t] = "running" /\ tbb_children[t] = {}
        /\ status' = [status EXCEPT ![t] = "finished"]
     \/ /\ status[t] = "running" /\ tbb_children[t] # {}
        /\ status' = [status EXCEPT ![t] = "waiting"]

LEMMA MovesKeepFamily ==
  ASSUME ProgramTypeOK, FamilyInv, NEW t \in Task, Moves(t)
  PROVE  FamilyInv'
<1>1. Births /\ Waits /\ Parents
  BY DEF FamilyInv
<1>2. /\ UNCHANGED <<tbb_children, tbb_roots, parent, spawned, strict>>
      /\ status \in [Task -> Status] /\ 0 \in Task
  BY TaskFacts DEF Moves, ProgramTypeOK
<1>3. /\ \A u \in Task : u # t => status'[u] = status[u]
      /\ \/ status'[t] = status[t]
         \/ status[t] = "ready" /\ status'[t] = "running"
         \/ status[t] = "running" /\ tbb_children[t] = {} /\ status'[t] = "finished"
         \/ status[t] = "running" /\ tbb_children[t] # {} /\ status'[t] = "waiting"
  BY <1>2 DEF Moves
<1>4. Births'
  BY <1>1, <1>2, <1>3 DEF Births, Awaited
<1>5. Waits'
  <2>1. \A u \in Task : status'[u] = "rootwait" <=> status[u] = "rootwait"
    BY <1>3
  <2>2. \A u \in Task : status'[u] = "waiting" => tbb_children[u] # {}
    BY <1>1, <1>3 DEF Waits
  <2>3. \A u \in Task : u # 0 /\ status'[u] \in {"unborn", "ready", "finished"} =>
          tbb_children[u] = {}
    BY <1>1, <1>3 DEF Waits
  <2>4. status'[0] \notin {"ready", "waiting"}
    BY <1>1, <1>2, <1>3 DEF Waits
  <2>5. QED
    BY <1>1, <1>2, <2>1, <2>2, <2>3, <2>4 DEF Waits
<1>6. Parents'
  <2>1. \A u \in Task : status[u] = "finished" => status'[u] = "finished"
    BY <1>3
  <2>2. QED
    BY <1>1, <1>2, <2>1 DEF Parents, Awaited
<1>7. QED
  BY <1>4, <1>5, <1>6 DEF FamilyInv

(* What a MoveStep is.                                                     *)
Returns(t) ==
  /\ ReturnStep(t) /\ CRacerWait(t) /\ UNCHANGED OtherVars
  /\ \/ status[t] = "waiting" /\ TreeWait(t) /\ Settle(t)
     \/ status[t] = "rootwait" /\ UNCHANGED <<frames, due>>

Begins(t) == ExecBegin(t) /\ CRacerExecBegin(t) /\ UNCHANGED <<frames, due, OtherVars>>
Ends(t) == ExecEnd(t) /\ TreeReturn(t) /\ UNCHANGED <<cracerVars, due, OtherVars>>
Stops(t) ==
  (WaitForAll(t) \/ (t = 0 /\ MainReturns)) /\ UNCHANGED <<detectorVars, conflict, due>>

LEMMA MoveIs ==
  ASSUME NEW t \in Task, MoveStep(t)
  PROVE  Returns(t) \/ Begins(t) \/ Ends(t) \/ Stops(t)
BY DEF MoveStep, Returns, Begins, Ends, Stops,
       ReturnStep, WaitForAllReturn, RootWaitReturn, WaitReturn

LEMMA MoveFacts ==
  ASSUME FamilyInv, NEW t \in Task, Begins(t) \/ Ends(t) \/ Stops(t)
  PROVE  /\ Moves(t)
         /\ UNCHANGED <<lockStateVars, hbVars, due, OtherVars>>
<1>1. CASE Begins(t)
  BY <1>1 DEF Begins, ExecBegin, Move, Moves
<1>2. CASE Ends(t)
  BY <1>2 DEF Ends, ExecEnd, Move, Moves
<1>3. CASE Stops(t)
  <2>1. tbb_children[0] = {}
    BY DEF FamilyInv, Waits
  <2>2. CASE WaitForAll(t)
    BY <1>3, <2>2 DEF Stops, WaitForAll, Move, Moves, OtherVars, detectorVars
  <2>3. CASE t = 0 /\ MainReturns
    BY <1>3, <2>1, <2>3 DEF Stops, MainReturns, Move, Moves, OtherVars, detectorVars
  <2>4. QED
    BY <1>3, <2>2, <2>3 DEF Stops
<1>4. QED
  BY <1>1, <1>2, <1>3

LEMMA LockFacts ==
  ASSUME NEW t \in Task, NEW l \in Locks, LockStep(t, l)
  PROVE  /\ Moves(t) /\ (Acquire(t, l) \/ Release(t, l))
         /\ UNCHANGED <<taskStateVars, history, raced, cracerVars, frames, spd3Vars, conflict>>
         /\ due' = due
BY DEF LockStep, Acquire, Release, Moves, taskStateVars

LEMMA AccessFacts ==
  ASSUME NEW t \in Task, NEW kind \in AccessType, Access(t, kind)
  PROVE  /\ Moves(t) /\ Touch(t, kind)
         /\ UNCHANGED <<taskStateVars, lockStateVars, orderVars, frames, strandVars, due>>
BY DEF Access, Touch, HBAccess, CRacerRecordMem, Moves, taskStateVars

(* A wait with no child outstanding changes nothing but frames and due.    *)
LEMMA IdleFacts ==
  ASSUME NEW t \in Task, IdleWait(t)
  PROVE  /\ Moves(t) /\ status[t] = "running" /\ t # 0 /\ tbb_children[t] = {}
         /\ UNCHANGED <<programVars, cracerVars, OtherVars, stamps>>
         /\ UNCHANGED <<taskStateVars, lockStateVars, hbVars>>
BY DEF IdleWait, WaitForNothing, Running, Moves, programVars, taskStateVars

-----------------------------------------------------------------------------
(* The invariants of the program, step by step.                            *)
LEMMA NextFamily ==
  ASSUME ProgramTypeOK, FamilyInv, [Next]_vars
  PROVE  FamilyInv'
<1>1. CASE \E s, p, c \in Task : \E next : SpawnEvent(s, p, c, next) /\ Note
  BY <1>1, ForkKeepsFamily DEF SpawnEvent
<1>2. CASE \E t \in Task : MoveStep(t) /\ Note
  BY <1>2, MoveIs, MoveFacts, MovesKeepFamily, ReturnKeepsFamily DEF Returns
<1>3. CASE \E t \in Task, l \in Locks : LockStep(t, l) /\ Note
  BY <1>3, LockFacts, MovesKeepFamily
<1>4. CASE \E t \in Task, kind \in AccessType : Access(t, kind) /\ Note
  BY <1>4, AccessFacts, MovesKeepFamily
<1>5. CASE UNCHANGED vars
  <2>1. Moves(0)
    BY <1>5 DEF vars, programVars, taskStateVars, Moves
  <2>2. QED
    BY <2>1, MovesKeepFamily, TaskFacts
<1>6. CASE \E t \in Task : IdleWait(t)
  BY <1>6, IdleFacts, MovesKeepFamily
<1>7. QED
  BY <1>1, <1>2, <1>3, <1>4, <1>5, <1>6, NextIs

LEMMA NextProgramType ==
  ASSUME ProgramTypeOK, FamilyInv, [Next]_vars
  PROVE  ProgramTypeOK'
<1>1. ASSUME NEW s \in Task, NEW c \in Task, SpawnStep(s, c) PROVE ProgramTypeOK'
  BY <1>1, SpawnChildType, SpawnSiblingType, SpawnRootType
     DEF SpawnStep, Spawn, SpawnAndWaitForAll, Status
<1>2. ASSUME NEW t \in Task, MoveStep(t) PROVE ProgramTypeOK'
  <2>1. CASE Returns(t)
    BY <2>1, WaitReturnType DEF Returns, ReturnStep
  <2>2. CASE Begins(t) \/ Ends(t) \/ Stops(t)
    <3>1. \E to \in Status : \E from : Move(t, from, to)
      BY <2>2 DEF Begins, Ends, Stops, ExecBegin, ExecEnd, WaitForAll, MainReturns, Status
    <3>2. QED
      BY <3>1, MoveType
  <2>3. QED
    BY <1>2, <2>1, <2>2, MoveIs
<1>3. ASSUME NEW t \in Task, NEW l \in Locks, LockStep(t, l) PROVE ProgramTypeOK'
  BY <1>3, LockFacts, LockType
<1>4. ASSUME NEW t \in Task, NEW kind \in AccessType, Access(t, kind) PROVE ProgramTypeOK'
  BY <1>4, AccessFacts DEF ProgramTypeOK, taskStateVars, lockStateVars, orderVars
<1>5. CASE UNCHANGED vars
  BY <1>5 DEF vars, programVars, taskStateVars, lockStateVars, hbVars, orderVars, ProgramTypeOK
<1>6. ASSUME NEW t \in Task, IdleWait(t) PROVE ProgramTypeOK'
  BY <1>6, IdleFacts DEF taskStateVars, lockStateVars, hbVars, orderVars, ProgramTypeOK
<1>7. QED
  BY <1>1, <1>2, <1>3, <1>4, <1>5, <1>6 DEF Next, Terminated

TypeInv == TypeOK /\ FamilyInv /\ InStrand

LEMMA TypeInit == Init => TypeInv
<1> SUFFICES ASSUME Init PROVE TypeInv
  OBVIOUS
<1>1. ProgramInit /\ CRacerInit /\ PTracerInit /\ SPD3Init /\ conflict = FALSE
  BY DEF Init
<1>2. ProgramTypeOK
  BY <1>1, TaskFacts DEF ProgramInit, HBInit, ProgramTypeOK, Status
<1>3. CRacerTypeOK /\ InStrand
  <2>1. spawned = 0 /\ \A t \in Task : t <= 0 => t = 0
    BY <1>1, TaskFacts DEF ProgramInit
  <2>2. <<"first", 0>> \in Strand /\ <<"first", 0>> # NULL
    BY TaskFacts DEF Strand, NULL
  <2>3. QED
    BY <1>1, <2>1, <2>2 DEF CRacerInit, CRacerTypeOK, InStrand
<1>4. LockStackOK /\ FlagsOK
  <2>1. <<>> \in Seq(Locks)
    OBVIOUS
  <2>2. thd_lockset = [t \in Task |-> <<>>]
    BY <1>1 DEF PTracerInit
  <2>3. LockStackOK
    BY <2>1, <2>2 DEF LockStackOK
  <2>4. FlagsOK
    BY <1>1 DEF PTracerInit, SPD3Init, FlagsOK
  <2>5. QED
    BY <2>3, <2>4
<1>5. due \in [Task -> 0 .. 2]
  BY DEF Init
<1>6. QED
  BY <1>1, <1>2, <1>3, <1>4, <1>5, FamilyInit DEF TypeInv, TypeOK, LockStackOK, FlagsOK

LEMMA NextCRacerType ==
  ASSUME TypeInv, [Next]_vars
  PROVE  CRacerTypeOK' /\ InStrand'
<1>1. ProgramTypeOK /\ CRacerTypeOK /\ InStrand /\ FamilyInv
  BY DEF TypeInv, TypeOK
<1>2. \A t \in Task : t \in Nat
  BY TaskFacts
<1>3. ASSUME NEW s \in Task, NEW p \in Task, NEW c \in Task, NEW next,
             SpawnEvent(s, p, c, next)
      PROVE  CRacerTypeOK' /\ InStrand'
  <2>1. /\ spawned \in Nat /\ c = spawned + 1 /\ spawned' = c /\ p <= spawned
    BY <1>1, <1>3, ForkFacts DEF SpawnEvent
  <2>2. /\ CRacerTypeOK'
        /\ \A t \in Task : current[t] # NULL \/ t = c => current'[t] # NULL
    BY <1>1, <1>3, <2>1, CRacerSpawnType DEF SpawnEvent, InStrand
  <2>3. \A t \in Task : t <= spawned' => t <= spawned \/ t = c
    BY <1>2, <2>1
  <2>4. QED
    BY <1>1, <2>2, <2>3 DEF InStrand
<1>4. ASSUME NEW t \in Task, MoveStep(t) PROVE CRacerTypeOK' /\ InStrand'
  <2>1. spawned' = spawned
    BY <1>1, <1>4, MoveIs, MoveFacts, ReturnFacts DEF Moves, Returns
  <2>2. CASE CRacerExecBegin(t) \/ CRacerWait(t)
    BY <1>1, <2>1, <2>2, CRacerMoveType DEF InStrand
  <2>3. CASE UNCHANGED cracerVars
    BY <1>1, <2>1, <2>3 DEF cracerVars, strandVars, accessVars, CRacerTypeOK, InStrand
  <2>4. QED
    BY <1>4, <2>2, <2>3, MoveIs DEF Returns, Begins, Ends, Stops, detectorVars
<1>5. ASSUME NEW t \in Task, NEW l \in Locks, LockStep(t, l)
      PROVE  CRacerTypeOK' /\ InStrand'
  BY <1>1, <1>5, LockFacts
     DEF Moves, cracerVars, strandVars, accessVars, CRacerTypeOK, InStrand
<1>6. ASSUME NEW t \in Task, NEW kind \in AccessType, Access(t, kind)
      PROVE  CRacerTypeOK' /\ InStrand'
  <2>1. CRacerTypeOK'
    BY <1>1, <1>6, CRacerRecordType DEF Access
  <2>2. current' = current /\ spawned' = spawned
    BY <1>6, AccessFacts DEF strandVars, taskStateVars
  <2>3. QED
    BY <1>1, <2>1, <2>2 DEF InStrand
<1>7. CASE UNCHANGED vars
  BY <1>1, <1>7 DEF vars, programVars, taskStateVars, detectorVars, cracerVars, strandVars,
                    accessVars, CRacerTypeOK, InStrand
<1>8. ASSUME NEW t \in Task, IdleWait(t) PROVE CRacerTypeOK' /\ InStrand'
  BY <1>1, <1>8, IdleFacts
     DEF taskStateVars, cracerVars, strandVars, accessVars, CRacerTypeOK, InStrand
<1>9. QED
  BY <1>1, <1>3, <1>4, <1>5, <1>6, <1>7, <1>8, NextIs

LEMMA NextFlagsType ==
  ASSUME TypeInv, [Next]_vars
  PROVE  LockStackOK' /\ FlagsOK'
<1>1. ProgramTypeOK /\ LockStackOK /\ FlagsOK /\ FamilyInv
  BY DEF TypeInv, TypeOK, LockStackOK, FlagsOK
<1>2. CASE UNCHANGED OtherVars
  BY <1>1, <1>2 DEF OtherVars, ptracerVars, spd3Vars, LockStackOK, FlagsOK
<1>3. ASSUME NEW t \in Task, NEW l \in Locks, LockStep(t, l)
      PROVE  LockStackOK' /\ FlagsOK'
  <2>1. Append(thd_lockset[t], l) \in Seq(Locks) /\ Front(thd_lockset[t]) \in Seq(Locks)
    BY <1>1, FrontType DEF LockStackOK
  <2>2. LockStackOK' /\ ptracerFound' = ptracerFound
    BY <1>1, <1>3, <2>1 DEF LockStep, LockAcquired, LockReleased, LockStackOK
  <2>3. QED
    BY <1>1, <1>3, <2>2 DEF LockStep, spd3Vars, FlagsOK
<1>4. ASSUME NEW t \in Task, NEW kind \in AccessType, Access(t, kind)
      PROVE  LockStackOK' /\ FlagsOK'
  <2>1. thd_lockset' = thd_lockset /\ ptracerFound' \in BOOLEAN
    BY <1>1, <1>4 DEF Access, PTracerRecordMem, FlagsOK, PTracerFinds
  <2>2. spd3Found' \in BOOLEAN /\ conflict' \in BOOLEAN
    BY <1>1, <1>4 DEF Access, SPD3RecordMem, FlagsOK, SPD3Finds
  <2>3. QED
    BY <1>1, <2>1, <2>2 DEF LockStackOK, FlagsOK
<1>5. ASSUME NEW t \in Task, MoveStep(t) PROVE UNCHANGED OtherVars
  BY <1>1, <1>5, MoveIs, MoveFacts DEF Returns
<1>6. CASE UNCHANGED vars
  BY <1>2, <1>6 DEF vars, detectorVars, OtherVars
<1>7. ASSUME NEW t \in Task, IdleWait(t) PROVE UNCHANGED OtherVars
  BY <1>7, IdleFacts
<1>8. QED
  BY <1>1, <1>2, <1>3, <1>4, <1>5, <1>6, <1>7, NextIs DEF SpawnEvent

LEMMA NextDue ==
  ASSUME TypeInv, [Next]_vars
  PROVE  DueOK'
<1>1. ProgramTypeOK /\ FamilyInv /\ due \in [Task -> 0 .. 2]
  BY DEF TypeInv, TypeOK
<1>2. CASE UNCHANGED vars
  BY <1>1, <1>2 DEF vars, DueOK
<1>3. ASSUME NEW t \in Task, Settle(t), due[t] > 0 PROVE DueOK'
  BY <1>1, <1>3 DEF Settle, DueOK
<1>4. ASSUME NEW s \in Task, NEW c \in Task, SpawnStep(s, c) PROVE DueOK'
  <2>1. due' = due \/ due' = [due EXCEPT ![s] = 2]
    BY <1>4 DEF SpawnStep
  <2>2. QED
    BY <1>1, <2>1 DEF DueOK
<1>5. ASSUME WaitsMatched, NEW t \in Task, MoveStep(t) PROVE DueOK'
  BY <1>1, <1>3, <1>5 DEF MoveStep, WaitsMatched, DueOK
<1>6. ASSUME NEW t \in Task, NEW l \in Locks, LockStep(t, l) PROVE DueOK'
  BY <1>1, <1>6 DEF LockStep, DueOK
<1>7. ASSUME NEW t \in Task, NEW kind \in AccessType, Access(t, kind) PROVE DueOK'
  BY <1>1, <1>7 DEF Access, DueOK
<1>8. ASSUME WaitsMatched, NEW t \in Task, IdleWait(t) PROVE DueOK'
  BY <1>3, <1>8 DEF IdleWait, WaitsMatched
<1>9. QED
  BY <1>2, <1>4, <1>5, <1>6, <1>7, <1>8 DEF Next, Terminated

LEMMA NextType == TypeInv /\ [Next]_vars => TypeInv'
BY NextFamily, NextProgramType, NextCRacerType, NextFlagsType, NextDue
   DEF TypeInv, TypeOK, LockStackOK, FlagsOK, DueOK

(***************************************************************************)
(* Every variable of C-RACER, PTracer and SPD3 keeps its type, for any     *)
(* number of tasks and locks, with siblings and without; in particular     *)
(* every spawn inserts its strands behind one that is in the lists.        *)
(***************************************************************************)
THEOREM DetectorsTypeCorrect == Spec => []TypeOK
<1>1. Spec => []TypeInv
  BY TypeInit, NextType, PTL DEF Spec
<1>2. TypeInv => TypeOK
  BY DEF TypeInv
<1>3. QED
  BY <1>1, <1>2, PTL

-----------------------------------------------------------------------------
(***************************************************************************)
(* TaskState::child is the list of the tasks TBB waits for, and nothing    *)
(* that was deleted is on a list.                                          *)
(***************************************************************************)
DeletionInv ==
  /\ \A t \in Task : child[t] = Awaited(t)
  /\ \A t \in deleted : t # 0 /\ status[t] = "finished"
  /\ \A t \in Task : Awaited(t) \cap deleted = {}

LEMMA AdoptedIs ==
  ASSUME CRacerTypeOK, NEW t \in Task, \A c \in child[t] : child[c] = {}
  PROVE  Adopted(t) = child[t]
<1>1. child[t] \in SUBSET Task
  BY DEF CRacerTypeOK
<1>2. Adopted(t) \subseteq child[t]
  BY <1>1 DEF Adopted
<1>3. child[t] \subseteq Adopted(t)
  BY <1>1 DEF Adopted
<1>4. QED
  BY <1>2, <1>3

LEMMA NextDeletion ==
  ASSUME TypeInv, DeletionInv, [Next]_vars
  PROVE  DeletionInv'
<1>1. /\ ProgramTypeOK /\ CRacerTypeOK /\ FamilyInv
      /\ child \in [Task -> SUBSET Task] /\ deleted \subseteq Task
  BY DEF TypeInv, TypeOK, CRacerTypeOK
<1>2. /\ \A t \in Task : child[t] = Awaited(t)
      /\ \A t \in deleted : t # 0 /\ status[t] = "finished"
      /\ \A t \in Task : Awaited(t) \cap deleted = {}
  BY DEF DeletionInv
<1>3. ASSUME NEW s \in Task, NEW p \in Task, NEW c \in Task, NEW next,
             SpawnEvent(s, p, c, next)
      PROVE  DeletionInv'
  <2>1. /\ p # c /\ status[c] = "unborn" /\ status[s] = "running" /\ Awaited(c) = {}
        /\ \A t \in Task : t # c /\ t # s => status'[t] = status[t]
        /\ Awaited(c)' = {} /\ Awaited(p)' = Awaited(p) \cup {c}
        /\ \A t \in Task : t # p => Awaited(t)' = Awaited(t)
    BY <1>1, <1>3, ForkFacts DEF SpawnEvent
  <2>2. child' = [child EXCEPT ![p] = @ \cup {c}] /\ deleted' = deleted
    BY <1>3 DEF SpawnEvent, CRacerSpawn
  <2>3. \A t \in Task : child'[t] = Awaited(t)'
    BY <1>1, <1>2, <2>1, <2>2
  <2>4. c \notin deleted /\ s \notin deleted
    BY <1>2, <2>1
  <2>5. \A t \in deleted' : t # 0 /\ status'[t] = "finished"
    BY <1>1, <1>2, <2>1, <2>2, <2>4
  <2>6. \A t \in Task : Awaited(t)' \cap deleted' = {}
    BY <1>2, <2>1, <2>2, <2>4
  <2>7. QED
    BY <2>3, <2>5, <2>6 DEF DeletionInv, Awaited
<1>4. ASSUME NEW t \in Task, Returns(t) PROVE DeletionInv'
  <2>1. /\ status[t] # "finished" /\ Awaited(t)' = {}
        /\ \A u \in Task : u # t => status'[u] = status[u] /\ Awaited(u)' = Awaited(u)
        /\ \A c \in Awaited(t) : c \in Task /\ status[c] = "finished" /\ Awaited(c) = {} /\ c # t
    BY <1>1, <1>4, ReturnFacts DEF Returns
  <2>2. Adopted(t) = Awaited(t)
    BY <1>1, <1>2, <2>1, AdoptedIs
  <2>3. /\ child' = [x \in Task |-> IF x \in {t} \cup Awaited(t) THEN {} ELSE child[x]]
        /\ deleted' = deleted \cup Awaited(t)
    BY <1>4, <2>2 DEF Returns, CRacerWait
  <2>4. \A u \in Task : child'[u] = Awaited(u)'
    BY <1>2, <2>1, <2>3
  <2>5. \A c \in Awaited(t) : c # 0
    BY <1>1, <2>1 DEF FamilyInv, Parents
  <2>6. t \notin deleted'
    BY <1>2, <2>1, <2>3
  <2>7. \A u \in deleted' : u # 0 /\ status'[u] = "finished"
    BY <1>1, <1>2, <2>1, <2>3, <2>5, <2>6
  <2>8. \A u \in Task : u # t => Awaited(u) \cap Awaited(t) = {}
    BY <1>1, <2>1 DEF FamilyInv, Parents
  <2>9. \A u \in Task : Awaited(u)' \cap deleted' = {}
    BY <1>2, <2>1, <2>3, <2>8
  <2>10. QED
    BY <2>4, <2>7, <2>9 DEF DeletionInv, Awaited
<1>5. ASSUME NEW t \in Task, Moves(t), deleted' = deleted,
             \A u \in Task : child'[u] = child[u]
      PROVE  DeletionInv'
  <2>1. \A u \in Task : Awaited(u)' = Awaited(u)
    BY <1>5 DEF Moves, Awaited
  <2>2. \A u \in Task : status[u] = "finished" => status'[u] = "finished"
    BY <1>1, <1>5 DEF Moves, ProgramTypeOK
  <2>3. QED
    BY <1>1, <1>2, <1>5, <2>1, <2>2 DEF DeletionInv, Awaited
<1>6. ASSUME NEW t \in Task, Begins(t) PROVE \A u \in Task : child'[u] = child[u]
  <2>1. status[t] = "ready" /\ child' = [child EXCEPT ![t] = {}]
    BY <1>6 DEF Begins, ExecBegin, Move, CRacerExecBegin
  <2>2. Awaited(t) = {}
    BY <1>1, <2>1 DEF FamilyInv, Waits, Awaited
  <2>3. QED
    BY <1>1, <1>2, <2>1, <2>2
<1>7. ASSUME NEW t \in Task, MoveStep(t) PROVE DeletionInv'
  <2>1. CASE Begins(t)
    BY <1>1, <1>5, <1>6, <2>1, MoveFacts DEF Begins, CRacerExecBegin
  <2>2. CASE Ends(t) \/ Stops(t)
    <3>1. UNCHANGED cracerVars
      BY <2>2 DEF Ends, Stops, detectorVars
    <3>2. QED
      BY <1>1, <1>5, <2>2, <3>1, MoveFacts DEF cracerVars, strandVars
  <2>3. QED
    BY <1>4, <1>7, <2>1, <2>2, MoveIs
<1>8. CASE UNCHANGED vars
  <2>1. Moves(0) /\ deleted' = deleted /\ child' = child
    BY <1>8 DEF vars, programVars, taskStateVars, detectorVars, cracerVars, strandVars, Moves
  <2>2. QED
    BY <1>5, <2>1, TaskFacts
<1>9. ASSUME NEW t \in Task, NEW l \in Locks, LockStep(t, l) PROVE DeletionInv'
  BY <1>5, <1>9, LockFacts DEF cracerVars, strandVars
<1>10. ASSUME NEW t \in Task, NEW kind \in AccessType, Access(t, kind) PROVE DeletionInv'
  BY <1>5, <1>10, AccessFacts DEF strandVars
<1>11. ASSUME NEW t \in Task, IdleWait(t) PROVE DeletionInv'
  BY <1>5, <1>11, IdleFacts DEF cracerVars, strandVars
<1>12. QED
  BY <1>1, <1>3, <1>7, <1>8, <1>9, <1>10, <1>11, NextIs

(***************************************************************************)
(* C-RACER deletes the state of a task once, after the task has ended and  *)
(* when no task that goes on can spawn under it any more: for any number   *)
(* of tasks, with siblings and without.                                    *)
(***************************************************************************)
THEOREM DeletionIsSafe == Spec => []StatesDeletedOnce
<1>1. Init => TypeInv /\ DeletionInv
  BY TypeInit DEF Init, ProgramInit, CRacerInit, DeletionInv, Awaited
<1>2. TypeInv /\ DeletionInv /\ [Next]_vars => TypeInv' /\ DeletionInv'
  BY NextType, NextDeletion
<1>3. TypeInv /\ DeletionInv => StatesDeletedOnce
  <2>1. SUFFICES ASSUME TypeInv, DeletionInv PROVE StatesDeletedOnce
    OBVIOUS
  <2>2. /\ \A t \in Task : child[t] = Awaited(t)
        /\ \A t \in deleted : t # 0 /\ status[t] = "finished"
        /\ \A t \in Task : Awaited(t) \cap deleted = {}
    BY <2>1 DEF DeletionInv
  <2>3. /\ child \in [Task -> SUBSET Task] /\ parent \in [Task -> Task]
        /\ Births /\ Waits /\ Parents
    BY <2>1 DEF TypeInv, TypeOK, ProgramTypeOK, CRacerTypeOK, FamilyInv
  <2>4. ASSUME NEW t \in Task PROVE Adopted(t) \cap deleted = {}
    <3>1. /\ child[t] \subseteq Task \ deleted
          /\ \A x \in Task \ deleted : child[x] \subseteq Task \ deleted
      BY <2>2, <2>3
    <3>2. \A c \in Adopted(t) : c \in Task \ deleted
      BY <3>1 DEF Adopted
    <3>3. QED
      BY <3>2
  <2>5. ASSUME NEW t \in Task \ deleted, Running(t) PROVE parent[t] \notin deleted
    <3>1. t <= spawned /\ status[t] = "running"
      BY <2>3, <2>5 DEF Running, Births
    <3>2. CASE t # 0
      <4>1. t \in Awaited(parent[t])
        BY <2>3, <3>1, <3>2 DEF Parents
      <4>2. \A u \in Task : u # 0 /\ status[u] = "finished" => Awaited(u) = {}
        BY <2>3 DEF Waits, Awaited
      <4>3. QED
        BY <2>2, <2>3, <4>1, <4>2
    <3>3. CASE t = 0
      <4>1. parent[0] = 0
        BY <2>3 DEF Parents
      <4>2. QED
        BY <2>2, <3>3, <4>1
    <3>4. QED
      BY <3>2, <3>3
  <2>6. QED
    BY <2>2, <2>4, <2>5 DEF StatesDeletedOnce
<1>4. QED
  BY <1>1, <1>2, <1>3, PTL DEF Spec

-----------------------------------------------------------------------------
(***************************************************************************)
(* The stack of a task: its own node, and over it the FINISH node under    *)
(* which its outstanding children hang, if it has opened one.              *)
(***************************************************************************)
Label == Nat \X {"ASYNC", "FINISH", "STEP"}
FrameSet == [path : Seq(Label), num_children : Nat, async : BOOLEAN, step : Seq(Label),
             opened : BOOLEAN]

OwnFrame(f) == f \in FrameSet /\ ~ f.async /\ ~ f.opened
OpenFrame(f) == f \in FrameSet /\ f.async /\ f.opened

One(t) == \E f : OwnFrame(f) /\ frames[t] = <<f>>
Two(t) == \E f, g : OwnFrame(f) /\ OpenFrame(g) /\ frames[t] = <<f, g>>

FullStacks ==
  /\ DOMAIN frames = Task /\ frames = [t \in Task |-> frames[t]]
  /\ \E f \in FrameSet : frames[0] = <<f>>
  /\ \A t \in Task : t # 0 /\ status[t] \in {"unborn", "finished"} => frames[t] = <<>>
  /\ \A t \in Task : t # 0 /\ status[t] = "ready" => One(t)
  /\ \A t \in Task : t # 0 /\ status[t] = "running" =>
       Two(t) \/ (One(t) /\ tbb_children[t] = {})
  /\ \A t \in Task : t # 0 /\ status[t] = "waiting" => Two(t)

(* The next wait takes off the FINISH node of a task that has opened one,  *)
(* which in a strict program has outstanding children; else its own node.  *)
NodesDue ==
  /\ \A t \in Task : t = 0 \/ status[t] = "unborn" => due[t] = 1
  /\ \A t \in Task : t # 0 => (One(t) => due[t] = 1) /\ (Two(t) => due[t] = 2)
  /\ \A t \in Task :
       t # 0 /\ status[t] = "running" /\ Two(t) /\ strict => tbb_children[t] # {}

StackInv == \/ FullStacks /\ NodesDue
            \/ ~ WaitsMatched /\ StackBalanced

LEMMA StackFacts ==
  /\ \A f : Front(<<f>>) = <<>> /\ Last(<<f>>) = f /\ Append(<<>>, f) = <<f>>
  /\ \A f, g : /\ Front(<<f, g>>) = <<f>> /\ Last(<<f, g>>) = g
               /\ Append(<<f>>, g) = <<f, g>>
<1>1. ASSUME NEW f PROVE Front(<<f>>) = <<>> /\ Last(<<f>>) = f /\ Append(<<>>, f) = <<f>>
  <2>1. Len(<<f>>) = 1 /\ <<f>>[1] = f /\ SubSeq(<<f>>, 1, 0) = <<>>
    OBVIOUS
  <2>2. QED
    BY <2>1 DEF Front, Last
<1>2. ASSUME NEW f, NEW g
      PROVE  Front(<<f, g>>) = <<f>> /\ Last(<<f, g>>) = g /\ Append(<<f>>, g) = <<f, g>>
  <2> DEFINE S == {f, g}
  <2>1. <<f, g>> \in Seq(S) /\ Len(<<f, g>>) = 2 /\ <<f, g>>[1] = f /\ <<f, g>>[2] = g
    OBVIOUS
  <2>2. SubSeq(<<f, g>>, 1, 1) \in Seq(S) /\ Len(SubSeq(<<f, g>>, 1, 1)) = 1
        /\ SubSeq(<<f, g>>, 1, 1)[1] = f
    BY <2>1
  <2>3. <<f>> \in Seq(S) /\ Len(<<f>>) = 1 /\ <<f>>[1] = f
    OBVIOUS
  <2>4. SubSeq(<<f, g>>, 1, 1) = <<f>>
    <3> DEFINE s == SubSeq(<<f, g>>, 1, 1)
               t == <<f>>
    <3>1. s \in Seq(S) /\ t \in Seq(S) /\ Len(s) = Len(t) /\ \A i \in 1 .. Len(s) : s[i] = t[i]
      BY <2>2, <2>3
    <3> HIDE DEF s, t, S
    <3>2. s = t
      BY <3>1, SeqEqual
    <3>3. QED
      BY <3>2 DEF s, t
  <2>5. Append(<<f>>, g) = <<f, g>>
    <3> DEFINE s == Append(<<f>>, g)
               t == <<f, g>>
    <3>1. /\ s \in Seq(S) /\ Len(s) = 2 /\ s[1] = f /\ s[2] = g
          /\ t \in Seq(S) /\ Len(t) = 2 /\ t[1] = f /\ t[2] = g
      BY <2>1, <2>3, AppendProperties
    <3> HIDE DEF s, t, S
    <3>2. Len(s) = Len(t) /\ \A i \in 1 .. Len(s) : s[i] = t[i]
      BY <3>1
    <3>3. s = t
      BY <3>1, <3>2, SeqEqual
    <3>4. QED
      BY <3>3 DEF s, t
  <2>6. Len(<<f, g>>) - 1 = 1
    BY <2>1
  <2> HIDE DEF S
  <2>7. /\ Front(<<f, g>>) = SubSeq(<<f, g>>, 1, Len(<<f, g>>) - 1)
        /\ Last(<<f, g>>) = <<f, g>>[Len(<<f, g>>)]
    BY Zenon DEF Front, Last
  <2>8. QED
    BY <2>1, <2>4, <2>5, <2>6, <2>7, Zenon
<1>3. QED
  BY <1>1, <1>2

LEMMA FrameFacts ==
  /\ \A f \in FrameSet : \A type \in {"ASYNC", "FINISH", "STEP"} : Node(f, type) \in Seq(Label)
  /\ \A f \in FrameSet :
       /\ NextChild(f) \in FrameSet /\ NextChild(f).async = f.async
       /\ NextChild(f).opened = f.opened
       /\ NewStep(f) \in FrameSet /\ NewStep(f).async = f.async
       /\ NewStep(f).opened = f.opened
       /\ \A b \in BOOLEAN : /\ [f EXCEPT !.async = b] \in FrameSet
                             /\ [f EXCEPT !.async = b].async = b
                             /\ [f EXCEPT !.async = b].opened = f.opened
  /\ \A path, step \in Seq(Label) : \A b \in BOOLEAN :
       /\ Frame(path, step, b) \in FrameSet
       /\ ~ Frame(path, step, b).async /\ Frame(path, step, b).opened = b
<1>1. ASSUME NEW f \in FrameSet, NEW type \in {"ASYNC", "FINISH", "STEP"}
      PROVE  Node(f, type) \in Seq(Label)
  <2>1. f.path \in Seq(Label) /\ <<f.num_children, type>> \in Label
    BY DEF FrameSet, Label
  <2>2. QED
    BY <2>1 DEF Node
<1>2. ASSUME NEW f \in FrameSet
      PROVE  /\ NextChild(f) \in FrameSet /\ NextChild(f).async = f.async
             /\ NextChild(f).opened = f.opened
  BY DEF NextChild, FrameSet
<1>3. ASSUME NEW f \in FrameSet
      PROVE  /\ NewStep(f) \in FrameSet /\ NewStep(f).async = f.async
             /\ NewStep(f).opened = f.opened
  <2>1. PICK n \in Seq(Label) : n = Node(f, "STEP")
    BY <1>1
  <2>2. PICK g : g = [f EXCEPT !.step = n]
    OBVIOUS
  <2>3. g \in FrameSet /\ g.async = f.async /\ g.opened = f.opened
    BY <2>1, <2>2 DEF FrameSet
  <2>4. NewStep(f) = NextChild(g)
    BY <2>1, <2>2 DEF NewStep
  <2>5. QED
    BY <1>2, <2>3, <2>4
<1>4. ASSUME NEW f \in FrameSet, NEW b \in BOOLEAN
      PROVE  /\ [f EXCEPT !.async = b] \in FrameSet
             /\ [f EXCEPT !.async = b].async = b
             /\ [f EXCEPT !.async = b].opened = f.opened
  BY DEF FrameSet
<1>5. ASSUME NEW path \in Seq(Label), NEW step \in Seq(Label), NEW b \in BOOLEAN
      PROVE  /\ Frame(path, step, b) \in FrameSet
             /\ ~ Frame(path, step, b).async /\ Frame(path, step, b).opened = b
  BY DEF Frame, FrameSet
<1>6. QED
  BY <1>1, <1>2, <1>3, <1>4, <1>5

(* A spawn by a task other than main.                                      *)
LEMMA SpawnStack ==
  ASSUME NEW s \in Task, NEW c \in Task, s # c, One(s) \/ Two(s),
         DOMAIN frames = Task, frames = [t \in Task |-> frames[t]], TreeSpawn(s, c)
  PROVE  /\ DOMAIN frames' = Task /\ frames' = [t \in Task |-> frames'[t]]
         /\ Two(s)' /\ One(c)'
         /\ \A t \in Task : t # s /\ t # c => frames'[t] = frames[t]
<1> DEFINE group == IF Top(s).async
                    THEN frames[s]
                    ELSE Append(WithTop(s, NextChild(Top(s))),
                                Frame(Node(Top(s), "FINISH"), <<>>, TRUE))
           own(f) == NewStep(Frame(Node(f, "ASYNC"), <<>>, FALSE))
           spawner(f) == NewStep([NextChild(f) EXCEPT !.async = TRUE])
<1>1. frames' = [frames EXCEPT ![s] = Append(Front(group), spawner(Last(group))),
                               ![c] = <<own(Last(group))>>]
  BY DEF TreeSpawn
<1>2. <<>> \in Seq(Label)
  OBVIOUS
<1>3. \E f, g : OwnFrame(f) /\ g \in FrameSet /\ g.opened /\ group = <<f, g>>
  <2>1. CASE Two(s)
    <3>1. PICK f, g : OwnFrame(f) /\ OpenFrame(g) /\ frames[s] = <<f, g>>
      BY <2>1 DEF Two
    <3>2. Top(s) = g
      BY <3>1, StackFacts DEF Top
    <3>3. group = <<f, g>>
      BY <3>1, <3>2 DEF OpenFrame
    <3>4. QED
      BY <3>1, <3>3 DEF OpenFrame
  <2>2. CASE One(s)
    <3>1. PICK f : OwnFrame(f) /\ frames[s] = <<f>>
      BY <2>2 DEF One
    <3>2. Top(s) = f /\ WithTop(s, NextChild(f)) = <<NextChild(f)>>
      BY <3>1, StackFacts DEF Top, WithTop
    <3>3. OwnFrame(NextChild(f))
      BY <3>1, FrameFacts DEF OwnFrame
    <3>4. Node(f, "FINISH") \in Seq(Label)
      BY <3>1, FrameFacts DEF OwnFrame
    <3>5. PICK g : g = Frame(Node(f, "FINISH"), <<>>, TRUE)
      OBVIOUS
    <3>6. g \in FrameSet /\ g.opened
      BY <1>2, <3>4, <3>5, FrameFacts
    <3>7. group = <<NextChild(f), g>>
      BY <3>1, <3>2, <3>5, StackFacts DEF OwnFrame
    <3>8. QED
      BY <3>3, <3>6, <3>7
  <2>3. QED
    BY <2>1, <2>2
<1>4. PICK f, g : OwnFrame(f) /\ g \in FrameSet /\ g.opened /\ group = <<f, g>>
  BY <1>3
<1>5. Last(group) = g /\ Append(Front(group), spawner(g)) = <<f, spawner(g)>>
  <2>1. Last(<<f, g>>) = g /\ \A h : Append(Front(<<f, g>>), h) = <<f, h>>
    BY StackFacts
  <2> HIDE DEF group, spawner
  <2>2. QED
    BY <1>4, <2>1
<1>6. OpenFrame(spawner(g))
  <2>1. NextChild(g) \in FrameSet /\ NextChild(g).opened
    BY <1>4, FrameFacts
  <2>2. PICK h : h = [NextChild(g) EXCEPT !.async = TRUE]
    OBVIOUS
  <2>3. h \in FrameSet /\ h.async /\ h.opened
    BY <2>1, <2>2, FrameFacts
  <2>4. QED
    BY <2>2, <2>3, FrameFacts DEF OpenFrame
<1>7. OwnFrame(own(g))
  <2>1. Node(g, "ASYNC") \in Seq(Label)
    BY <1>4, FrameFacts
  <2>2. PICK h : h = Frame(Node(g, "ASYNC"), <<>>, FALSE)
    OBVIOUS
  <2>3. h \in FrameSet /\ ~ h.async /\ ~ h.opened
    BY <1>2, <2>1, <2>2, FrameFacts
  <2>4. QED
    BY <2>2, <2>3, FrameFacts DEF OwnFrame
<1> HIDE DEF group, own, spawner
<1>8. frames' = [frames EXCEPT ![s] = <<f, spawner(g)>>, ![c] = <<own(g)>>]
  BY <1>1, <1>5
<1>9. /\ DOMAIN frames' = Task /\ frames' = [t \in Task |-> frames'[t]]
      /\ frames'[s] = <<f, spawner(g)>> /\ frames'[c] = <<own(g)>>
      /\ \A t \in Task : t # s /\ t # c => frames'[t] = frames[t]
  BY <1>8
<1>10. Two(s)'
  BY <1>4, <1>6, <1>9 DEF Two
<1>11. One(c)'
  BY <1>7, <1>9 DEF One
<1>12. QED
  BY <1>9, <1>10, <1>11

(* A root spawned by main.                                                 *)
LEMMA SpawnRootStack ==
  ASSUME NEW c \in Task, c # 0, DOMAIN frames = Task, frames = [t \in Task |-> frames[t]],
         NEW f \in FrameSet, frames[0] = <<f>>, TreeSpawnRoot(0, c)
  PROVE  /\ DOMAIN frames' = Task /\ frames' = [t \in Task |-> frames'[t]]
         /\ One(c)' /\ \E g \in FrameSet : frames'[0] = <<g>>
         /\ \A t \in Task : t # 0 /\ t # c => frames'[t] = frames[t]
<1>1. Top(0) = f /\ \A g : WithTop(0, g) = <<g>>
  BY StackFacts DEF Top, WithTop
<1>2. PICK g : g = [NextChild(f) EXCEPT !.async = FALSE]
  OBVIOUS
<1>3. g \in FrameSet
  BY <1>2, FrameFacts
<1>4. PICK h : h = NewStep(Frame(Node(f, "FINISH"), <<>>, FALSE))
  OBVIOUS
<1>5. OwnFrame(h)
  <2>1. Node(f, "FINISH") \in Seq(Label) /\ <<>> \in Seq(Label)
    BY FrameFacts
  <2>2. PICK k : k = Frame(Node(f, "FINISH"), <<>>, FALSE)
    OBVIOUS
  <2>3. k \in FrameSet /\ ~ k.async /\ ~ k.opened
    BY <2>1, <2>2, FrameFacts
  <2>4. QED
    BY <1>4, <2>2, <2>3, FrameFacts DEF OwnFrame
<1>6. frames' = [frames EXCEPT ![0] = <<g>>, ![c] = <<h>>]
  BY <1>1, <1>2, <1>4 DEF TreeSpawnRoot
<1>7. /\ DOMAIN frames' = Task /\ frames' = [t \in Task |-> frames'[t]]
      /\ frames'[0] = <<g>> /\ frames'[c] = <<h>>
      /\ \A t \in Task : t # 0 /\ t # c => frames'[t] = frames[t]
  BY <1>6, TaskFacts
<1>8. QED
  BY <1>3, <1>5, <1>7 DEF One

(* The end of a wait.                                                      *)
LEMMA WaitStack ==
  ASSUME NEW t \in Task, Two(t), DOMAIN frames = Task, frames = [u \in Task |-> frames[u]],
         TreeWait(t)
  PROVE  /\ DOMAIN frames' = Task /\ frames' = [u \in Task |-> frames'[u]]
         /\ One(t)' /\ \A u \in Task : u # t => frames'[u] = frames[u]
<1>1. PICK f, g : OwnFrame(f) /\ OpenFrame(g) /\ frames[t] = <<f, g>>
  BY DEF Two
<1>2. Front(frames[t]) = <<f>>
  BY <1>1, StackFacts
<1>3. \A h : Append(Front(<<f>>), h) = <<h>>
  BY StackFacts
<1>4. Last(<<f>>) = f
  BY StackFacts
<1>5. <<f>> # <<>>
  OBVIOUS
<1>6. frames' = [frames EXCEPT ![t] = <<NewStep(f)>>]
  BY <1>2, <1>3, <1>4, <1>5 DEF TreeWait
<1>7. OwnFrame(NewStep(f))
  BY <1>1, FrameFacts DEF OwnFrame
<1>8. /\ DOMAIN frames' = Task /\ frames' = [u \in Task |-> frames'[u]]
      /\ frames'[t] = <<NewStep(f)>> /\ \A u \in Task : u # t => frames'[u] = frames[u]
  BY <1>6
<1>9. QED
  BY <1>7, <1>8 DEF One

(* A wait of a task that has only its own node.                            *)
LEMMA WaitEmpties ==
  ASSUME NEW t \in Task, One(t), DOMAIN frames = Task, TreeWait(t)
  PROVE  frames'[t] = <<>> /\ \A u \in Task : u # t => frames'[u] = frames[u]
<1>1. PICK f : frames[t] = <<f>>
  BY DEF One
<1>2. Front(frames[t]) = <<>>
  BY <1>1, StackFacts
<1>3. frames' = [frames EXCEPT ![t] = <<>>]
  BY <1>2 DEF TreeWait
<1>4. QED
  BY <1>3

(* The end of a task.                                                      *)
LEMMA ReturnStack ==
  ASSUME NEW t \in Task, One(t) \/ Two(t), DOMAIN frames = Task,
         frames = [u \in Task |-> frames[u]], TreeReturn(t)
  PROVE  /\ DOMAIN frames' = Task /\ frames' = [u \in Task |-> frames'[u]]
         /\ frames'[t] = <<>> /\ \A u \in Task : u # t => frames'[u] = frames[u]
<1>1. frames' = [frames EXCEPT ![t] = IF Top(t).opened THEN Front(Front(frames[t]))
                                                        ELSE Front(frames[t])]
  BY DEF TreeReturn
<1>2. CASE One(t)
  <2>1. PICK f : OwnFrame(f) /\ frames[t] = <<f>>
    BY <1>2 DEF One
  <2>2. ~ Top(t).opened /\ Front(frames[t]) = <<>>
    BY <2>1, StackFacts DEF Top, OwnFrame
  <2>3. QED
    BY <1>1, <2>2
<1>3. CASE Two(t)
  <2>1. PICK f, g : OwnFrame(f) /\ OpenFrame(g) /\ frames[t] = <<f, g>>
    BY <1>3 DEF Two
  <2>2. Top(t).opened /\ Front(frames[t]) = <<f>>
    <3>1. Last(<<f, g>>) = g /\ Front(<<f, g>>) = <<f>>
      BY StackFacts
    <3>2. g.opened
      BY <2>1 DEF OpenFrame
    <3>3. QED
      BY <2>1, <3>1, <3>2 DEF Top
  <2>3. Front(<<f>>) = <<>>
    BY StackFacts
  <2>4. QED
    BY <1>1, <2>2, <2>3
<1>4. QED
  BY <1>2, <1>3

LEMMA NextFullStacks ==
  ASSUME TypeInv, TypeInv', FullStacks, [Next]_vars, ~ \E t \in Task : IdleWait(t)
  PROVE  FullStacks'
<1>1. ProgramTypeOK /\ CRacerTypeOK /\ FamilyInv /\ Births /\ Waits
  BY DEF TypeInv, TypeOK, FamilyInv
<1>2. \A u \in Task : /\ status[u] \in Status /\ (One(u) \/ Two(u))' = (One(u)' \/ Two(u)')
                      /\ frames'[u] = frames[u] =>
                           (One(u)' <=> One(u)) /\ (Two(u)' <=> Two(u))
  BY <1>1 DEF ProgramTypeOK, One, Two
<1>3. ASSUME NEW s \in Task, NEW p \in Task, NEW c \in Task, NEW next,
             SpawnEvent(s, p, c, next)
      PROVE  FullStacks'
  <2>1. /\ s # c /\ c # 0 /\ status[s] = "running" /\ status'[s] = next
        /\ status'[c] = "ready" /\ next \in {"running", "waiting", "rootwait"}
        /\ \A u \in Task : u # s /\ u # c => status'[u] = status[u]
    BY <1>1, <1>3, ForkFacts DEF SpawnEvent
  <2>2. \A u \in Task : u # p => tbb_children'[u] = tbb_children[u]
    BY <1>1, <1>3 DEF SpawnEvent, ForkStep, ProgramTypeOK
  <2>3. s # 0 => next # "rootwait"
    BY <1>3 DEF SpawnEvent, ForkStep
  <2>4. p # s => p = 0
    BY <1>1, <1>3, ForkFacts DEF SpawnEvent
  <2>5. CASE s = 0
    <3>1. PICK f \in FrameSet : frames[0] = <<f>>
      BY DEF FullStacks
    <3>2. TreeSpawnRoot(0, c)
      BY <1>3, <2>5 DEF SpawnEvent
    <3>3. /\ DOMAIN frames' = Task /\ frames' = [t \in Task |-> frames'[t]]
          /\ One(c)' /\ \E g \in FrameSet : frames'[0] = <<g>>
          /\ \A t \in Task : t # 0 /\ t # c => frames'[t] = frames[t]
      BY <2>1, <3>1, <3>2, SpawnRootStack DEF FullStacks
    <3>4. p = 0
      BY <2>4, <2>5
    <3>5. QED
      BY <1>2, <2>1, <2>2, <2>5, <3>3, <3>4 DEF FullStacks
  <2>6. CASE s # 0
    <3>1. One(s) \/ Two(s)
      BY <2>1, <2>6 DEF FullStacks
    <3>2. TreeSpawn(s, c)
      BY <1>3, <2>6 DEF SpawnEvent
    <3>3. /\ DOMAIN frames' = Task /\ frames' = [t \in Task |-> frames'[t]]
          /\ Two(s)' /\ One(c)'
          /\ \A t \in Task : t # s /\ t # c => frames'[t] = frames[t]
      BY <2>1, <3>1, <3>2, SpawnStack DEF FullStacks
    <3>4. \A u \in Task : u # 0 /\ u # s => tbb_children'[u] = tbb_children[u]
      BY <2>2, <2>4
    <3>5. \E g \in FrameSet : frames'[0] = <<g>>
      BY <2>1, <2>6, <3>3, TaskFacts DEF FullStacks
    <3>6. QED
      BY <1>2, <2>1, <2>3, <2>6, <3>3, <3>4, <3>5 DEF FullStacks
  <2>7. QED
    BY <2>5, <2>6
<1>4. ASSUME NEW t \in Task, Moves(t), frames' = frames,
             ~ (t # 0 /\ status'[t] = "finished" /\ status[t] = "running")
      PROVE  FullStacks'
  <2>1. \A u \in Task : /\ u # t => status'[u] = status[u]
                        /\ tbb_children'[u] = tbb_children[u]
    BY <1>1, <1>4 DEF Moves, ProgramTypeOK
  <2>2. \/ status'[t] = status[t]
        \/ status[t] = "ready" /\ status'[t] = "running"
        \/ t = 0
        \/ status[t] = "running" /\ status'[t] = "waiting" /\ tbb_children[t] # {}
    BY <1>1, <1>4 DEF Moves, ProgramTypeOK
  <2>3. status[t] = "ready" => tbb_children[t] = {}
    BY <1>1 DEF Waits
  <2>4. ASSUME NEW u \in Task, u # 0
        PROVE  /\ status'[u] \in {"unborn", "finished"} => frames'[u] = <<>>
               /\ status'[u] = "ready" => One(u)'
               /\ status'[u] = "running" =>
                    Two(u)' \/ (One(u)' /\ tbb_children'[u] = {})
               /\ status'[u] = "waiting" => Two(u)'
    <3>1. frames'[u] = frames[u] /\ (One(u)' <=> One(u)) /\ (Two(u)' <=> Two(u))
      BY <1>2, <1>4
    <3>2. /\ status[u] \in {"unborn", "finished"} => frames[u] = <<>>
          /\ status[u] = "ready" => One(u)
          /\ status[u] = "running" => Two(u) \/ (One(u) /\ tbb_children[u] = {})
          /\ status[u] = "waiting" => Two(u)
      BY <2>4 DEF FullStacks
    <3>3. CASE u # t
      BY <2>1, <3>1, <3>2, <3>3
    <3>4. CASE u = t /\ status'[t] = status[t]
      <4>1. status[t] = "running" => tbb_children'[t] = tbb_children[t]
        BY <1>1, <1>4, <3>4 DEF Moves, ProgramTypeOK
      <4>2. QED
        BY <3>1, <3>2, <3>4, <4>1
    <3>5. CASE u = t /\ status[t] = "ready" /\ status'[t] = "running"
      <4>1. tbb_children'[t] = {}
        BY <1>1, <1>4, <2>3, <3>5 DEF Moves, ProgramTypeOK
      <4>2. QED
        BY <3>1, <3>2, <3>5, <4>1
    <3>6. CASE u = t /\ status[t] = "running" /\ status'[t] = "waiting"
               /\ tbb_children[t] # {}
      BY <3>1, <3>2, <3>6
    <3>7. QED
      BY <2>2, <2>4, <3>3, <3>4, <3>5, <3>6
  <2>5. DOMAIN frames' = Task /\ frames' = [u \in Task |-> frames'[u]]
        /\ \E f \in FrameSet : frames'[0] = <<f>>
    BY <1>4 DEF FullStacks
  <2>6. QED
    BY <2>4, <2>5 DEF FullStacks
<1>5. ASSUME NEW t \in Task, Returns(t) PROVE FullStacks'
  <2>1. /\ status[t] \in {"waiting", "rootwait"} /\ status'[t] = "running"
        /\ \A u \in Task : u # t => status'[u] = status[u]
        /\ Awaited(t)' = {} /\ \A u \in Task : u # t => Awaited(u)' = Awaited(u)
    BY <1>1, <1>5, ReturnFacts DEF Returns
  <2>2. tbb_children'[t] = {} /\ \A u \in Task : u # t => tbb_children'[u] = tbb_children[u]
    BY <1>1, <1>5, <2>1 DEF Returns, ReturnStep, WaitForAllReturn, RootWaitReturn,
                            ProgramTypeOK, Awaited
  <2>3. CASE status[t] = "waiting" /\ TreeWait(t)
    <3>1. t # 0 /\ Two(t)
      BY <1>1, <2>3 DEF Waits, FullStacks
    <3>2. /\ DOMAIN frames' = Task /\ frames' = [u \in Task |-> frames'[u]]
          /\ One(t)' /\ \A u \in Task : u # t => frames'[u] = frames[u]
      BY <2>3, <3>1, WaitStack DEF FullStacks
    <3>3. \E g \in FrameSet : frames'[0] = <<g>>
      BY <3>1, <3>2, TaskFacts DEF FullStacks
    <3>4. QED
      BY <1>2, <2>1, <2>2, <3>1, <3>2, <3>3 DEF FullStacks
  <2>4. CASE status[t] = "rootwait" /\ UNCHANGED frames
    <3>1. t = 0
      BY <1>1, <2>4 DEF Waits
    <3>2. QED
      BY <1>2, <2>1, <2>2, <2>4, <3>1 DEF FullStacks
  <2>5. QED
    BY <1>5, <2>3, <2>4 DEF Returns
<1>6. ASSUME NEW t \in Task, Ends(t) PROVE FullStacks'
  <2>1. /\ t # 0 /\ status[t] = "running" /\ status'[t] = "finished"
        /\ \A u \in Task : u # t => status'[u] = status[u]
        /\ tbb_children' = tbb_children
    BY <1>1, <1>6 DEF Ends, ExecEnd, Move, ProgramTypeOK
  <2>2. One(t) \/ Two(t)
    BY <2>1 DEF FullStacks
  <2>3. /\ DOMAIN frames' = Task /\ frames' = [u \in Task |-> frames'[u]]
        /\ frames'[t] = <<>> /\ \A u \in Task : u # t => frames'[u] = frames[u]
    BY <1>6, <2>2, ReturnStack DEF Ends, FullStacks
  <2>4. \E g \in FrameSet : frames'[0] = <<g>>
    BY <2>1, <2>3, TaskFacts DEF FullStacks
  <2>5. QED
    BY <1>2, <2>1, <2>3, <2>4 DEF FullStacks
<1>7. ASSUME NEW t \in Task, MoveStep(t) PROVE FullStacks'
  <2>1. CASE Begins(t)
    <3>1. status[t] = "ready"
      BY <2>1 DEF Begins, ExecBegin, Move
    <3>2. QED
      BY <1>1, <1>4, <2>1, <3>1, MoveFacts DEF Begins
  <2>2. CASE Stops(t)
    <3>1. status'[t] # "finished" \/ t = 0
      BY <1>1, <2>2 DEF Stops, WaitForAll, Move, ProgramTypeOK
    <3>2. frames' = frames
      BY <2>2 DEF Stops, detectorVars
    <3>3. QED
      BY <1>1, <1>4, <2>2, <3>1, <3>2, MoveFacts
  <2>3. QED
    BY <1>5, <1>6, <1>7, <2>1, <2>2, MoveIs
<1>8. CASE UNCHANGED vars
  <2>1. Moves(0) /\ frames' = frames
    BY <1>8 DEF vars, programVars, taskStateVars, detectorVars, Moves
  <2>2. QED
    BY <1>4, <2>1, TaskFacts
<1>9. ASSUME NEW t \in Task, NEW l \in Locks, LockStep(t, l) PROVE FullStacks'
  <2>1. Moves(t) /\ status' = status /\ frames' = frames
    BY <1>9, LockFacts DEF LockStep, Acquire, Release, taskStateVars
  <2>2. QED
    BY <1>4, <2>1
<1>10. ASSUME NEW t \in Task, NEW kind \in AccessType, Access(t, kind) PROVE FullStacks'
  <2>1. Moves(t) /\ status' = status /\ frames' = frames
    BY <1>10, AccessFacts DEF Access, Touch, taskStateVars
  <2>2. QED
    BY <1>4, <2>1
<1>11. QED
  BY <1>1, <1>3, <1>7, <1>8, <1>9, <1>10, NextIs

LEMMA NextMatched ==
  ASSUME [Next]_vars
  PROVE  UNCHANGED vars \/ WaitsMatched
BY DEF Next, Terminated

LEMMA StacksDiffer == \A f, g, h : <<f>> # <<g, h>> /\ <<f>> # <<>> /\ <<g, h>> # <<>>
<1>1. ASSUME NEW f, NEW g, NEW h PROVE <<f>> # <<g, h>> /\ <<f>> # <<>> /\ <<g, h>> # <<>>
  <2>1. Len(<<f>>) = 1 /\ Len(<<g, h>>) = 2 /\ Len(<<>>) = 0
    OBVIOUS
  <2>2. QED
    BY <2>1
<1>2. QED
  BY <1>1

(* What a task has on the stack, and what its next wait takes off it, go   *)
(* together.                                                               *)
LEMMA NextNodesDue ==
  ASSUME TypeInv, FullStacks, NodesDue, [Next]_vars, ~ \E t \in Task : IdleWait(t)
  PROVE  NodesDue'
<1>1. /\ ProgramTypeOK /\ FamilyInv /\ Births /\ Waits /\ due \in [Task -> 0 .. 2]
      /\ strict \in BOOLEAN
  BY DEF TypeInv, TypeOK, FamilyInv, ProgramTypeOK
<1>2. \A u \in Task : frames'[u] = frames[u] =>
                        (One(u)' <=> One(u)) /\ (Two(u)' <=> Two(u))
  BY DEF One, Two
<1>3. \A u \in Task : /\ ~ (One(u) /\ Two(u)) /\ ~ (One(u)' /\ Two(u)')
                      /\ frames'[u] = <<>> => ~ One(u)' /\ ~ Two(u)'
  BY StacksDiffer DEF One, Two
<1>4. ASSUME NEW s \in Task, NEW p \in Task, NEW c \in Task, NEW next,
             SpawnEvent(s, p, c, next)
      PROVE  NodesDue'
  <2>1. /\ s # c /\ c # 0 /\ status[s] = "running" /\ status[c] = "unborn"
        /\ status'[c] = "ready" /\ status'[s] = next /\ next # "unborn"
        /\ \A u \in Task : u # s /\ u # c => status'[u] = status[u]
    BY <1>1, <1>4, ForkFacts DEF SpawnEvent
  <2>2. \A u \in Task : u # p => tbb_children'[u] = tbb_children[u]
    BY <1>1, <1>4 DEF SpawnEvent, ForkStep, ProgramTypeOK
  <2>3. (p # s => p = 0) /\ (strict' => strict)
    <3>1. p # s => p = 0
      BY <1>1, <1>4, ForkFacts DEF SpawnEvent
    <3>2. strict' => strict
      BY <1>4 DEF SpawnEvent, ForkStep
    <3>3. QED
      BY <3>1, <3>2
  <2>4. CASE s = 0
    <3>1. PICK f \in FrameSet : frames[0] = <<f>>
      BY DEF FullStacks
    <3>2. TreeSpawnRoot(0, c) /\ due' = due
      BY <1>4, <2>4 DEF SpawnEvent
    <3>3. One(c)' /\ \A t \in Task : t # 0 /\ t # c => frames'[t] = frames[t]
      BY <2>1, <3>1, <3>2, SpawnRootStack DEF FullStacks
    <3>4. \A u \in Task : u # 0 => tbb_children'[u] = tbb_children[u]
      BY <2>2, <2>3, <2>4
    <3>5. QED
      BY <1>2, <1>3, <2>1, <2>3, <2>4, <3>2, <3>3, <3>4 DEF NodesDue
  <2>5. CASE s # 0
    <3>1. (One(s) \/ Two(s)) /\ TreeSpawn(s, c)
      BY <1>4, <2>1, <2>5 DEF FullStacks, SpawnEvent
    <3>2. Two(s)' /\ One(c)' /\ \A t \in Task : t # s /\ t # c => frames'[t] = frames[t]
      BY <2>1, <3>1, SpawnStack DEF FullStacks
    <3>3. due'[s] = 2 /\ \A u \in Task : u # s => due'[u] = due[u]
      BY <1>1, <1>4, <2>5 DEF SpawnEvent
    <3>4. strict' => c \in tbb_children'[s]
      <4>1. strict' => p = s /\ tbb_children' = [tbb_children EXCEPT ![p] = @ \cup {c}]
        BY <1>4, <2>5, Zenon DEF SpawnEvent, ForkStep
      <4>2. QED
        BY <1>1, <4>1 DEF ProgramTypeOK
    <3>5. \A u \in Task : u # 0 /\ u # s => tbb_children'[u] = tbb_children[u]
      BY <2>2, <2>3
    <3>6. QED
      BY <1>2, <1>3, <2>1, <2>3, <2>5, <3>2, <3>3, <3>4, <3>5 DEF NodesDue
  <2>6. QED
    BY <2>4, <2>5
<1>5. ASSUME NEW t \in Task, Moves(t), due' = due,
             t = 0 \/ status[t] # "ready" \/ ~ Two(t),
             \A u \in Task : One(u)' \/ Two(u)' => frames'[u] = frames[u]
      PROVE  NodesDue'
  <2>1. /\ \A u \in Task : u # t => status'[u] = status[u]
        /\ tbb_children' = tbb_children /\ strict' = strict
        /\ status'[t] = "unborn" => status[t] = "unborn"
        /\ status'[t] = "running" => status[t] \in {"running", "ready"}
    BY <1>1, <1>5 DEF Moves, ProgramTypeOK
  <2>2. QED
    BY <1>2, <1>5, <2>1 DEF NodesDue
<1>6. ASSUME NEW t \in Task, Returns(t) PROVE NodesDue'
  <2>1. /\ status[t] \in {"waiting", "rootwait"} /\ status'[t] = "running"
        /\ \A u \in Task : u # t => status'[u] = status[u]
    BY <1>1, <1>6, ReturnFacts DEF Returns
  <2>2. /\ \A u \in Task : u # t => tbb_children'[u] = tbb_children[u]
        /\ strict' = strict
    BY <1>1, <1>6 DEF Returns, ReturnStep, WaitForAllReturn, RootWaitReturn, WaitReturn,
                      ProgramTypeOK
  <2>3. CASE status[t] = "waiting" /\ TreeWait(t) /\ Settle(t)
    <3>1. t # 0 /\ Two(t)
      BY <1>1, <2>3 DEF Waits, FullStacks
    <3>2. One(t)' /\ \A u \in Task : u # t => frames'[u] = frames[u]
      BY <2>3, <3>1, WaitStack DEF FullStacks
    <3>3. due[t] = 2
      BY <3>1 DEF NodesDue
    <3>4. due'[t] = 1 /\ \A u \in Task : u # t => due'[u] = due[u]
      BY <1>1, <2>3, <3>3 DEF Settle
    <3>5. QED
      BY <1>2, <1>3, <2>1, <2>2, <3>1, <3>2, <3>4 DEF NodesDue
  <2>4. CASE status[t] = "rootwait" /\ UNCHANGED <<frames, due>>
    <3>1. t = 0
      BY <1>1, <2>4 DEF Waits
    <3>2. QED
      BY <1>2, <2>1, <2>2, <2>4, <3>1 DEF NodesDue
  <2>5. QED
    BY <1>6, <2>3, <2>4 DEF Returns
<1>7. ASSUME NEW t \in Task, MoveStep(t) PROVE NodesDue'
  <2>1. CASE Begins(t)
    <3>1. status[t] = "ready" /\ (t = 0 \/ One(t))
      BY <2>1 DEF Begins, ExecBegin, Move, FullStacks
    <3>2. Moves(t) /\ due' = due /\ frames' = frames
      BY <1>1, <2>1, MoveFacts DEF Begins
    <3>3. QED
      BY <1>3, <1>5, <3>1, <3>2
  <2>2. CASE Ends(t)
    <3>1. t # 0 /\ status[t] = "running"
      BY <2>2 DEF Ends, ExecEnd, Move
    <3>2. One(t) \/ Two(t)
      BY <3>1 DEF FullStacks
    <3>3. frames'[t] = <<>> /\ \A u \in Task : u # t => frames'[u] = frames[u]
      BY <2>2, <3>2, ReturnStack DEF Ends, FullStacks
    <3>4. Moves(t) /\ due' = due
      BY <1>1, <2>2, MoveFacts
    <3>5. QED
      BY <1>3, <1>5, <3>1, <3>3, <3>4
  <2>3. CASE Stops(t)
    <3>1. status[t] = "running"
      BY <2>3 DEF Stops, WaitForAll, MainReturns, Move
    <3>2. Moves(t) /\ due' = due /\ frames' = frames
      BY <1>1, <2>3, MoveFacts DEF Stops, detectorVars
    <3>3. QED
      BY <1>5, <3>1, <3>2
  <2>4. QED
    BY <1>6, <1>7, <2>1, <2>2, <2>3, MoveIs
<1>8. ASSUME NEW t \in Task, Moves(t), UNCHANGED <<status, frames, due>> PROVE NodesDue'
  <2>1. tbb_children' = tbb_children /\ strict' = strict
    BY <1>8 DEF Moves
  <2>2. QED
    BY <1>2, <1>8, <2>1 DEF NodesDue
<1>9. ASSUME NEW t \in Task, NEW l \in Locks, LockStep(t, l) PROVE NodesDue'
  BY <1>8, <1>9, LockFacts DEF taskStateVars
<1>10. ASSUME NEW t \in Task, NEW kind \in AccessType, Access(t, kind) PROVE NodesDue'
  BY <1>8, <1>10, AccessFacts DEF taskStateVars
<1>11. CASE UNCHANGED vars
  <2>1. Moves(0) /\ UNCHANGED <<status, frames, due>>
    BY <1>11 DEF vars, programVars, taskStateVars, detectorVars, Moves
  <2>2. QED
    BY <1>8, <2>1, TaskFacts
<1>12. QED
  BY <1>1, <1>4, <1>7, <1>9, <1>10, <1>11, NextIs

LEMMA BalanceIs ==
  ASSUME TypeInv, FullStacks, NodesDue
  PROVE  StackBalanced
<1>1. ASSUME NEW t \in Task, t # 0
      PROVE  Len(frames[t]) = IF status[t] \in {"unborn", "finished"} THEN 0 ELSE due[t]
  <2>1. status[t] \in {"unborn", "finished", "ready", "running", "waiting"}
    BY <1>1 DEF TypeInv, TypeOK, FamilyInv, Waits, ProgramTypeOK, Status
  <2>2. CASE status[t] \in {"unborn", "finished"}
    BY <1>1, <2>2 DEF FullStacks
  <2>3. CASE status[t] \notin {"unborn", "finished"}
    <3>1. One(t) \/ Two(t)
      BY <1>1, <2>1, <2>3 DEF FullStacks
    <3>2. One(t) => Len(frames[t]) = 1
      BY DEF One
    <3>3. Two(t) => Len(frames[t]) = 2
      BY DEF Two
    <3>4. QED
      BY <1>1, <2>3, <3>1, <3>2, <3>3 DEF NodesDue
  <2>4. QED
    BY <2>2, <2>3
<1>2. QED
  BY <1>1 DEF StackBalanced

(* A wait with no child outstanding: either the task has spawned siblings  *)
(* and its FINISH node is taken off, or its own node is, and its number of *)
(* nodes still is what is due.                                             *)
LEMMA IdleStack ==
  ASSUME TypeInv, TypeInv', FullStacks, NodesDue, NEW t \in Task, IdleWait(t)
  PROVE  StackInv'
<1>1. /\ ProgramTypeOK /\ due \in [Task -> 0 .. 2] /\ t # 0 /\ status[t] = "running"
      /\ tbb_children[t] = {} /\ TreeWait(t) /\ Settle(t)
      /\ UNCHANGED <<status, tbb_children, strict>>
  BY IdleFacts DEF TypeInv, TypeOK, IdleWait, taskStateVars
<1>2. \A u \in Task : frames'[u] = frames[u] =>
                        (One(u)' <=> One(u)) /\ (Two(u)' <=> Two(u))
  BY DEF One, Two
<1>3. \A u \in Task : u # t => due'[u] = due[u]
  BY <1>1 DEF Settle
<1>4. CASE Two(t)
  <2>1. /\ DOMAIN frames' = Task /\ frames' = [u \in Task |-> frames'[u]]
        /\ One(t)' /\ \A u \in Task : u # t => frames'[u] = frames[u]
    BY <1>1, <1>4, WaitStack DEF FullStacks
  <2>2. ~ Two(t)'
    BY <2>1, StacksDiffer DEF One, Two
  <2>3. due'[t] = 1
    BY <1>1, <1>4 DEF NodesDue, Settle
  <2>4. \E f \in FrameSet : frames'[0] = <<f>>
    BY <1>1, <2>1, TaskFacts DEF FullStacks
  <2>5. FullStacks'
    BY <1>1, <1>2, <2>1, <2>4 DEF FullStacks
  <2>6. NodesDue'
    BY <1>1, <1>2, <1>3, <2>1, <2>2, <2>3 DEF NodesDue
  <2>7. QED
    BY <2>5, <2>6 DEF StackInv
<1>5. CASE One(t)
  <2>1. frames'[t] = <<>> /\ \A u \in Task : u # t => frames'[u] = frames[u]
    BY <1>1, <1>5, WaitEmpties DEF FullStacks
  <2>2. due'[t] = 0
    BY <1>1, <1>5 DEF NodesDue, Settle
  <2>3. StackBalanced
    BY BalanceIs
  <2>4. StackBalanced'
    BY <1>1, <1>3, <2>1, <2>2, <2>3 DEF StackBalanced
  <2>5. ~ WaitsMatched'
    BY <2>2 DEF WaitsMatched
  <2>6. QED
    BY <2>4, <2>5 DEF StackInv
<1>6. QED
  BY <1>1, <1>4, <1>5 DEF FullStacks

LEMMA NextStack ==
  ASSUME TypeInv, TypeInv', StackInv, [Next]_vars
  PROVE  StackInv'
<1>1. CASE UNCHANGED vars
  BY <1>1 DEF vars, programVars, taskStateVars, detectorVars, StackInv, StackBalanced,
              WaitsMatched, FullStacks, NodesDue, One, Two
<1>2. CASE WaitsMatched
  <2>1. FullStacks /\ NodesDue
    BY <1>2 DEF StackInv
  <2>2. CASE \E t \in Task : IdleWait(t)
    BY <2>1, <2>2, IdleStack
  <2>3. CASE ~ \E t \in Task : IdleWait(t)
    <3>1. FullStacks' /\ NodesDue'
      BY <2>1, <2>3, NextFullStacks, NextNodesDue
    <3>2. QED
      BY <3>1 DEF StackInv
  <2>4. QED
    BY <2>2, <2>3
<1>3. QED
  BY <1>1, <1>2, NextMatched

LEMMA StackStart == Init => StackInv
<1>1. SUFFICES ASSUME Init PROVE StackInv
  OBVIOUS
<1>2. frames = [t \in Task |-> IF t = 0 THEN <<Frame(<<>>, <<>>, FALSE)>> ELSE <<>>]
  BY <1>1 DEF Init, TreeInit
<1>3. status = [t \in Task |-> IF t = 0 THEN "running" ELSE "unborn"]
  BY <1>1 DEF Init, ProgramInit
<1>4. PICK f : f = Frame(<<>>, <<>>, FALSE)
  OBVIOUS
<1>5. f \in FrameSet
  <2>1. <<>> \in Seq(Label)
    OBVIOUS
  <2>2. QED
    BY <1>4, <2>1, FrameFacts
<1>6. FullStacks
  BY <1>2, <1>3, <1>4, <1>5, TaskFacts DEF FullStacks
<1>7. due = [t \in Task |-> 1]
  BY <1>1 DEF Init
<1>8. NodesDue
  BY <1>2, <1>3, <1>7, StacksDiffer DEF NodesDue, One, Two
<1>9. QED
  BY <1>6, <1>8 DEF StackInv

(***************************************************************************)
(* However many tasks spawn children and siblings and wait, for children   *)
(* or with none outstanding: the nodes of the tree that a task has on the  *)
(* stack of its thread are its own and at most one FINISH node, and none   *)
(* is left at its end; the only step that takes its own node off before is *)
(* a wait of a task that has spawned nothing since the last one.           *)
(***************************************************************************)
THEOREM StackIsBalanced == Spec => []StackBalanced
<1>1. Init => TypeInv /\ StackInv
  BY TypeInit, StackStart
<1>2. TypeInv /\ StackInv /\ [Next]_vars => TypeInv' /\ StackInv'
  BY NextType, NextStack
<1>3. TypeInv /\ StackInv => StackBalanced
  BY BalanceIs DEF StackInv
<1>4. QED
  BY <1>1, <1>2, <1>3, PTL DEF Spec

-----------------------------------------------------------------------------
(***************************************************************************)
(* Total orders and what an insertion does to them.                        *)
(***************************************************************************)
StrictTotal(R, N) ==
  /\ R \subseteq N \X N
  /\ \A x \in N : <<x, x>> \notin R
  /\ \A x, y \in N : x # y => <<x, y>> \in R \/ <<y, x>> \in R
  /\ \A x, y, z \in N : <<x, y>> \in R /\ <<y, z>> \in R => <<x, z>> \in R

(* The strands W go right behind b, and all else stays.                    *)
GoBehind(R, Q, N, b, W) ==
  /\ StrictTotal(Q, N \cup W)
  /\ \A x, y \in N : <<x, y>> \in Q <=> <<x, y>> \in R
  /\ \A x \in N : \A w \in W : /\ <<x, w>> \in Q <=> x = b \/ <<x, b>> \in R
                               /\ <<w, x>> \in Q <=> <<b, x>> \in R

LEMMA OneInserted ==
  ASSUME NEW N, N \subseteq Strand, NEW R, StrictTotal(R, N), NEW b \in N,
         NEW n \in Strand, n \notin N, NEW Q, Q = E!InsertedAfter(R, b, n)
  PROVE  GoBehind(R, Q, N, b, {n})
<1>1. Q = R \cup (({b} \cup {y \in Strand : <<y, b>> \in R}) \X {n})
            \cup ({n} \X {y \in Strand : <<b, y>> \in R})
  BY DEF E!InsertedAfter, E!Before, E!After
<1>2. /\ R \subseteq N \X N
      /\ \A x \in N : <<x, x>> \notin R
      /\ \A x, y \in N : x # y => <<x, y>> \in R \/ <<y, x>> \in R
      /\ \A x, y, z \in N : <<x, y>> \in R /\ <<y, z>> \in R => <<x, z>> \in R
  BY DEF StrictTotal
<1>3. \A x, y \in Strand :
        <<x, y>> \in Q <=> \/ <<x, y>> \in R
                          \/ (y = n /\ (x = b \/ <<x, b>> \in R))
                          \/ (x = n /\ <<b, y>> \in R)
  <2>1. ASSUME NEW x \in Strand, NEW y \in Strand
        PROVE  /\ <<x, y>> \in ({b} \cup {z \in Strand : <<z, b>> \in R}) \X {n}
                    <=> (y = n /\ (x = b \/ <<x, b>> \in R))
               /\ <<x, y>> \in {n} \X {z \in Strand : <<b, z>> \in R}
                    <=> (x = n /\ <<b, y>> \in R)
    BY <2>1
  <2>2. QED
    BY <1>1, <2>1
<1>4. \A x, y \in N : <<x, y>> \in Q <=> <<x, y>> \in R
  BY <1>2, <1>3
<1>5. \A x : <<x, n>> \notin R /\ <<n, x>> \notin R
  BY <1>2
<1>6. \A x \in N : <<x, n>> \in Q <=> x = b \/ <<x, b>> \in R
  BY <1>3, <1>5
<1>7. \A x \in N : <<n, x>> \in Q <=> <<b, x>> \in R
  <2>1. TAKE x \in N
  <2>2. x \in Strand /\ n \in Strand /\ x # n
    BY <1>2
  <2>3. <<n, x>> \notin R
    BY <1>5
  <2>4. <<n, x>> \in Q <=> \/ <<n, x>> \in R
                          \/ (x = n /\ (n = b \/ <<n, b>> \in R))
                          \/ (n = n /\ <<b, x>> \in R)
    BY <1>3, <2>2, Zenon
  <2>5. QED
    BY <2>2, <2>3, <2>4, Zenon
<1>8. <<n, n>> \notin Q
  BY <1>3, <1>5
<1>9. Q \subseteq (N \cup {n}) \X (N \cup {n})
  BY <1>1, <1>2
<1>10. \A x, y \in N \cup {n} : x # y => <<x, y>> \in Q \/ <<y, x>> \in Q
  BY <1>2, <1>4, <1>6, <1>7
<1>11. ASSUME NEW x \in N \cup {n}, NEW y \in N \cup {n}, NEW z \in N \cup {n},
              <<x, y>> \in Q, <<y, z>> \in Q
       PROVE  <<x, z>> \in Q
  <2>1. CASE x \in N /\ y \in N /\ z \in N
    BY <1>2, <1>4, <1>11, <2>1
  <2>2. CASE x = n
    <3>1. y \in N /\ <<b, y>> \in R
      BY <1>7, <1>8, <1>11, <2>2
    <3>2. z \in N
      BY <1>2, <1>6, <1>11, <3>1
    <3>3. QED
      BY <1>2, <1>4, <1>7, <1>11, <2>2, <3>1, <3>2
  <2>3. CASE x \in N /\ y = n
    <3>1. z \in N /\ <<b, z>> \in R
      BY <1>7, <1>8, <1>11, <2>3
    <3>2. QED
      BY <1>2, <1>4, <1>6, <1>11, <2>3, <3>1
  <2>4. CASE x \in N /\ y \in N /\ z = n
    BY <1>2, <1>4, <1>6, <1>11, <2>4
  <2>5. QED
    BY <2>1, <2>2, <2>3, <2>4
<1>12. StrictTotal(Q, N \cup {n})
  BY <1>2, <1>4, <1>8, <1>9, <1>10, <1>11 DEF StrictTotal
<1>13. QED
  BY <1>4, <1>6, <1>7, <1>12 DEF GoBehind

(* Two strands inserted behind b, the second behind the first.             *)
LEMMA TwoInserted ==
  ASSUME NEW N, N \subseteq Strand, NEW R, StrictTotal(R, N), NEW b \in N,
         NEW m \in Strand \ N, NEW n \in Strand \ N, m # n,
         NEW P, P = E!InsertedAfter(R, b, m), NEW Q, Q = E!InsertedAfter(P, m, n)
  PROVE  GoBehind(R, Q, N, b, {m, n}) /\ <<m, n>> \in Q
<1>8. GoBehind(R, P, N, b, {m})
  BY OneInserted
<1>1. /\ StrictTotal(P, N \cup {m})
      /\ \A x, y \in N : <<x, y>> \in P <=> <<x, y>> \in R
      /\ \A x \in N : <<x, m>> \in P <=> x = b \/ <<x, b>> \in R
      /\ \A x \in N : <<m, x>> \in P <=> <<b, x>> \in R
  BY <1>8 DEF GoBehind
<1>2. PICK K : K = N \cup {m}
  OBVIOUS
<1>3. /\ StrictTotal(Q, K \cup {n})
      /\ \A x, y \in K : <<x, y>> \in Q <=> <<x, y>> \in P
      /\ \A x \in K : <<x, n>> \in Q <=> x = m \/ <<x, m>> \in P
      /\ \A x \in K : <<n, x>> \in Q <=> <<m, x>> \in P
  <2>1. K \subseteq Strand /\ n \in Strand /\ n \notin K /\ m \in K
    BY <1>2
  <2>2. StrictTotal(P, K)
    BY <1>1, <1>2
  <2>3. GoBehind(P, Q, K, m, {n})
    BY <2>1, <2>2, OneInserted
  <2>4. QED
    BY <2>3 DEF GoBehind
<1>4. K \cup {n} = N \cup {m, n}
  BY <1>2
<1>5. StrictTotal(Q, N \cup {m, n})
  BY <1>3, <1>4
<1>6. /\ \A x, y \in N : <<x, y>> \in Q <=> <<x, y>> \in R
      /\ <<m, n>> \in Q
      /\ \A x \in N : /\ <<x, m>> \in Q <=> x = b \/ <<x, b>> \in R
                      /\ <<x, n>> \in Q <=> x = b \/ <<x, b>> \in R
                      /\ <<m, x>> \in Q <=> <<b, x>> \in R
                      /\ <<n, x>> \in Q <=> <<b, x>> \in R
  BY <1>1, <1>2, <1>3
<1>7. QED
  BY <1>5, <1>6 DEF GoBehind

LEMMA SpawnInserts ==
  ASSUME NEW N, N \subseteq Strand, NEW R, StrictTotal(R, N), NEW b \in N,
         NEW m \in Strand \ N, NEW n \in Strand \ N, m # n,
         NEW g \in (Strand \ N) \cup {NULL}, g # m, g # n,
         NEW Q, Q = Inserted(R, b, g, m, n)
  PROVE  /\ GoBehind(R, Q, N, b, {m, n} \cup ({g} \ {NULL}))
         /\ <<m, n>> \in Q
         /\ g # NULL => <<m, g>> \in Q /\ <<n, g>> \in Q
<1>1. CASE g = NULL
  <2>2. {m, n} \cup ({g} \ {NULL}) = {m, n}
    BY <1>1
  <2>1. PICK P : P = E!InsertedAfter(R, b, m)
    OBVIOUS
  <2>3. Q = E!InsertedAfter(P, m, n)
    BY <1>1, <2>1 DEF Inserted
  <2>4. GoBehind(R, Q, N, b, {m, n}) /\ <<m, n>> \in Q
    BY <2>1, <2>3, TwoInserted
  <2>6. QED
    BY <1>1, <2>2, <2>4
<1>2. CASE g # NULL
  <2>1. PICK P : P = E!InsertedAfter(R, b, g)
    OBVIOUS
  <2>2. PICK K : K = N \cup {g}
    OBVIOUS
  <2>4. PICK O : O = E!InsertedAfter(P, b, m)
    OBVIOUS
  <2>3. Q = E!InsertedAfter(O, m, n)
    BY <1>2, <2>1, <2>4 DEF Inserted
  <2>5. g \in Strand /\ g \notin N /\ K \subseteq Strand /\ b \in K
        /\ m \in Strand \ K /\ n \in Strand \ K
    BY <1>2, <2>2
  <2>6. /\ StrictTotal(P, K)
        /\ \A x, y \in N : <<x, y>> \in P <=> <<x, y>> \in R
        /\ \A x \in N : <<x, g>> \in P <=> x = b \/ <<x, b>> \in R
        /\ \A x \in N : <<g, x>> \in P <=> <<b, x>> \in R
    <3>1. GoBehind(R, P, N, b, {g})
      BY <2>1, <2>5, OneInserted
    <3>2. QED
      BY <2>2, <3>1 DEF GoBehind
  <2>7. /\ StrictTotal(Q, K \cup {m, n})
        /\ \A x, y \in K : <<x, y>> \in Q <=> <<x, y>> \in P
        /\ \A x \in K : /\ <<x, m>> \in Q <=> x = b \/ <<x, b>> \in P
                        /\ <<x, n>> \in Q <=> x = b \/ <<x, b>> \in P
                        /\ <<m, x>> \in Q <=> <<b, x>> \in P
                        /\ <<n, x>> \in Q <=> <<b, x>> \in P
        /\ <<m, n>> \in Q
    <3>1. GoBehind(P, Q, K, b, {m, n}) /\ <<m, n>> \in Q
      BY <2>3, <2>4, <2>5, <2>6, TwoInserted
    <3>2. QED
      BY <3>1 DEF GoBehind
  <2>8. <<b, g>> \in P /\ <<m, g>> \in Q /\ <<n, g>> \in Q
    BY <2>2, <2>6, <2>7
  <2>9. PICK W : W = {m, n} \cup ({g} \ {NULL})
    OBVIOUS
  <2>10. W = {m, n, g} /\ N \cup W = K \cup {m, n}
    BY <1>2, <2>2, <2>9
  <2>11. StrictTotal(Q, N \cup W)
    BY <2>7, <2>10
  <2>12. \A x, y \in N : <<x, y>> \in Q <=> <<x, y>> \in R
    BY <2>2, <2>6, <2>7
  <2>13. ASSUME NEW x \in N, NEW w \in W
         PROVE  /\ <<x, w>> \in Q <=> x = b \/ <<x, b>> \in R
                /\ <<w, x>> \in Q <=> <<b, x>> \in R
    <3>1. x \in K /\ g \in K /\ b \in K /\ b \in N
      BY <2>2, <2>5
    <3>2. CASE w = g
      BY <2>6, <2>7, <3>1, <3>2
    <3>3. CASE w = m \/ w = n
      BY <2>6, <2>7, <3>1, <3>3
    <3>4. QED
      BY <2>10, <3>2, <3>3
  <2>14. GoBehind(R, Q, N, b, W)
    BY <2>11, <2>12, <2>13 DEF GoBehind
  <2>15. QED
    BY <2>7, <2>8, <2>9, <2>14
<1>3. QED
  BY <1>1, <1>2

-----------------------------------------------------------------------------
(***************************************************************************)
(* The strands of C-RACER.  Known are the strands in the lists; x precedes *)
(* y when both lists say so.                                               *)
(***************************************************************************)
FirstStrand == <<"first", 0>>

Known == {x \in Strand : \/ x = FirstStrand
                         \/ \E y \in Strand : <<x, y>> \in english \/ <<y, x>> \in english}

Both == english \cap hebrew

UpTo(R, x, y) == x = y \/ <<x, y>> \in R

(* The segment n of task u is noted with strand x.                         *)
Mark(u, n, x) == \E s \in stamps : s[1] = u /\ s[2] = n /\ s[3] = x

(* A strand some task is in, or was in while it ran.                       *)
Visited(x) ==
  \/ \E u \in Task : u <= spawned /\ x = current[u]
  \/ \E u, n : Mark(u, n, x)

(* The strand a task has behind it when it has ended, or at its next wait. *)
Fin(t) == IF sync[t] # NULL THEN sync[t] ELSE current[t]

OrdersInv ==
  /\ \A x \in Known : x[2] <= spawned
  /\ StrictTotal(english, Known) /\ StrictTotal(hebrew, Known)
  /\ \A x : Visited(x) => x \in Known
  /\ \A t \in Task : sync[t] # NULL => sync[t] \in Known

NamesInv ==
  /\ \A t \in Task : sync[t] # NULL <=> Awaited(t) # {}
  /\ \A t, u \in Task : sync[t] # NULL /\ sync[t] = sync[u] => t = u
  /\ \A t, u \in Task : t <= spawned /\ u <= spawned /\ current[t] = current[u] => t = u

(* What precedes the strand after the wait precedes the task itself or one *)
(* of those it waits for.                                                  *)
SyncInv ==
  \A t \in Task : sync[t] # NULL =>
    \A x \in Known :
      <<x, sync[t]>> \in Both <=> \/ UpTo(Both, x, current[t])
                                   \/ \E c \in Awaited(t) : UpTo(Both, x, Fin(c))

(* Nothing is behind a strand that is still to come, nor behind the one an *)
(* unfinished task is in.                                                  *)
FrontierInv ==
  /\ \A t \in Task : sync[t] # NULL => \A x : Visited(x) => ~ UpTo(Both, sync[t], x)
  /\ \A t \in Task : t <= spawned /\ status[t] # "finished" =>
       \A x : Visited(x) => <<current[t], x>> \notin Both

StrandInv == OrdersInv /\ NamesInv /\ SyncInv /\ FrontierInv

(***************************************************************************)
(* A spawn under p puts the strand of the child, the next strand of p and, *)
(* for the first of a group, the strand after the wait behind the strand   *)
(* p was in.                                                               *)
(***************************************************************************)
ChildStrand(c) == <<"first", c>>
NextStrand(c) == <<"cont", c>>
SyncStrand(c) == <<"sync", c>>

NewStrands(p, c) ==
  {ChildStrand(c), NextStrand(c)} \cup (IF sync[p] = NULL THEN {SyncStrand(c)} ELSE {})

LEMMA NewNames ==
  ASSUME NEW c \in Task, \A x \in Known : x[2] <= spawned, spawned \in Nat, c = spawned + 1
  PROVE  /\ ChildStrand(c) \in Strand \ Known /\ NextStrand(c) \in Strand \ Known
         /\ SyncStrand(c) \in Strand \ Known
         /\ ChildStrand(c) # NextStrand(c) /\ SyncStrand(c) # ChildStrand(c)
         /\ SyncStrand(c) # NextStrand(c)
         /\ ChildStrand(c) # NULL /\ NextStrand(c) # NULL /\ SyncStrand(c) # NULL
         /\ ChildStrand(c)[2] = c /\ NextStrand(c)[2] = c /\ SyncStrand(c)[2] = c
<1>1. ~ (c <= spawned)
  OBVIOUS
<1>2. QED
  BY <1>1 DEF ChildStrand, NextStrand, SyncStrand, Strand, NULL

LEMMA ForkOrders ==
  ASSUME TypeInv, OrdersInv, NEW s \in Task, NEW p \in Task, NEW c \in Task, NEW next,
         SpawnEvent(s, p, c, next),
         NEW W, W = NewStrands(p, c)
  PROVE  /\ W \subseteq Strand \ Known /\ \A w \in W : w[2] = c
         /\ GoBehind(english, english', Known, current[p], W)
         /\ GoBehind(hebrew, hebrew', Known, current[p], W)
         /\ Known' = Known \cup W
         /\ <<ChildStrand(c), NextStrand(c)>> \in english'
         /\ <<NextStrand(c), ChildStrand(c)>> \in hebrew'
         /\ sync[p] = NULL =>
              /\ <<ChildStrand(c), SyncStrand(c)>> \in Both'
              /\ <<NextStrand(c), SyncStrand(c)>> \in Both'
<1> DEFINE first == ChildStrand(c)
           cont == NextStrand(c)
           group == IF sync[p] = NULL THEN SyncStrand(c) ELSE NULL
<1>1. /\ spawned \in Nat /\ c = spawned + 1 /\ p <= spawned
  BY ForkFacts DEF SpawnEvent, TypeInv, TypeOK
<1>2. /\ \A x \in Known : x[2] <= spawned
      /\ StrictTotal(english, Known) /\ StrictTotal(hebrew, Known)
      /\ current[p] \in Known
  BY <1>1 DEF OrdersInv, Visited
<1>3. /\ first \in Strand \ Known /\ cont \in Strand \ Known /\ SyncStrand(c) \in Strand \ Known
      /\ first # cont /\ SyncStrand(c) # first /\ SyncStrand(c) # cont
      /\ first # NULL /\ cont # NULL /\ SyncStrand(c) # NULL
      /\ first[2] = c /\ cont[2] = c /\ SyncStrand(c)[2] = c
  BY <1>1, <1>2, NewNames
<1>4. /\ english' = Inserted(english, current[p], group, first, cont)
      /\ hebrew' = Inserted(hebrew, current[p], group, cont, first)
  BY DEF SpawnEvent, CRacerSpawn, ChildStrand, NextStrand, SyncStrand
<1> HIDE DEF first, cont
<1>5. group \in (Strand \ Known) \cup {NULL} /\ group # first /\ group # cont
  BY <1>3
<1>6. W = {first, cont} \cup ({group} \ {NULL})
  BY <1>3 DEF NewStrands, first, cont
<1>7. W = {cont, first} \cup ({group} \ {NULL})
  BY <1>6
<1>8. group # NULL <=> sync[p] = NULL
  BY <1>3
<1>9. sync[p] = NULL => group = SyncStrand(c)
  OBVIOUS
<1> HIDE DEF group
<1>11. Known \subseteq Strand
  BY DEF Known
<1>12. /\ GoBehind(english, english', Known, current[p], W)
       /\ <<first, cont>> \in english'
       /\ group # NULL => <<first, group>> \in english' /\ <<cont, group>> \in english'
  BY <1>2, <1>3, <1>4, <1>5, <1>6, <1>11, SpawnInserts
<1>13. /\ GoBehind(hebrew, hebrew', Known, current[p], W)
       /\ <<cont, first>> \in hebrew'
       /\ group # NULL => <<cont, group>> \in hebrew' /\ <<first, group>> \in hebrew'
  <2>1. cont # first
    BY <1>3
  <2>2. PICK H : H = hebrew'
    OBVIOUS
  <2>3. H = Inserted(hebrew, current[p], group, cont, first)
    BY <1>4, <2>2
  <2>4. /\ GoBehind(hebrew, H, Known, current[p], {cont, first} \cup ({group} \ {NULL}))
        /\ <<cont, first>> \in H
        /\ group # NULL => <<cont, group>> \in H /\ <<first, group>> \in H
    BY <1>2, <1>3, <1>5, <1>11, <2>1, <2>3, SpawnInserts
  <2>5. QED
    BY <1>7, <2>2, <2>4
<1>14. W \subseteq Strand \ Known /\ \A w \in W : w[2] = c
  BY <1>3, <1>6, <1>8, <1>9
<1>15. Known' = Known \cup W
  <2>1. FirstStrand \in Strand
    BY TaskFacts DEF FirstStrand, Strand
  <2>2. PICK N : N = Known \cup W
    OBVIOUS
  <2>3. N \subseteq Strand /\ FirstStrand \in N /\ StrictTotal(english', N)
    BY <1>11, <1>12, <1>14, <2>1, <2>2 DEF GoBehind, Known
  <2>4. Known' = N
    <3>1. ASSUME NEW x \in N PROVE x \in Known'
      <4>1. x = FirstStrand \/ <<x, FirstStrand>> \in english' \/ <<FirstStrand, x>> \in english'
        BY <2>3, <3>1 DEF StrictTotal
      <4>2. QED
        BY <2>1, <2>3, <3>1, <4>1 DEF Known
    <3>2. ASSUME NEW x \in Known' PROVE x \in N
      BY <2>3, <3>2 DEF Known, StrictTotal
    <3>3. QED
      BY <3>1, <3>2
  <2>5. QED
    BY <2>2, <2>4
<1>16. sync[p] = NULL =>
         <<ChildStrand(c), SyncStrand(c)>> \in Both' /\ <<NextStrand(c), SyncStrand(c)>> \in Both'
  BY <1>8, <1>9, <1>12, <1>13 DEF Both, first, cont
<1>17. QED
  BY <1>12, <1>13, <1>14, <1>15, <1>16 DEF first, cont

(* What the two lists then say together: of the new strands W, and of the  *)
(* old ones.                                                               *)
BehindTheOld(p, W) ==
  /\ \A x, y \in Known : <<x, y>> \in Both' <=> <<x, y>> \in Both
  /\ \A x \in Known : \A w \in W : /\ <<x, w>> \in Both' <=> UpTo(Both, x, current[p])
                                   /\ <<w, x>> \in Both' <=> <<current[p], x>> \in Both

AmongTheNew(p, c) ==
  /\ \A w \in NewStrands(p, c) : <<w, w>> \notin Both'
  /\ <<ChildStrand(c), NextStrand(c)>> \notin Both'
  /\ <<NextStrand(c), ChildStrand(c)>> \notin Both'
  /\ sync[p] = NULL =>
       /\ <<ChildStrand(c), SyncStrand(c)>> \in Both'
       /\ <<NextStrand(c), SyncStrand(c)>> \in Both'
       /\ <<SyncStrand(c), ChildStrand(c)>> \notin Both'
       /\ <<SyncStrand(c), NextStrand(c)>> \notin Both'

LEMMA ForkPrec ==
  ASSUME TypeInv, OrdersInv, NEW s \in Task, NEW p \in Task, NEW c \in Task, NEW next,
         SpawnEvent(s, p, c, next),
         NEW W, W = NewStrands(p, c)
  PROVE  /\ StrictTotal(english', Known') /\ StrictTotal(hebrew', Known')
         /\ BehindTheOld(p, W) /\ AmongTheNew(p, c)
<1>1. /\ GoBehind(english, english', Known, current[p], W)
      /\ GoBehind(hebrew, hebrew', Known, current[p], W)
      /\ Known' = Known \cup W
      /\ <<ChildStrand(c), NextStrand(c)>> \in english'
      /\ <<NextStrand(c), ChildStrand(c)>> \in hebrew'
      /\ sync[p] = NULL =>
           /\ <<ChildStrand(c), SyncStrand(c)>> \in Both'
           /\ <<NextStrand(c), SyncStrand(c)>> \in Both'
  BY ForkOrders
<1>2. StrictTotal(english', Known') /\ StrictTotal(hebrew', Known')
  BY <1>1 DEF GoBehind
<1>3. \A x, y \in Known : <<x, y>> \in Both' <=> <<x, y>> \in Both
  BY <1>1 DEF GoBehind, Both
<1>4. current[p] \in Known /\ \A x \in Known : <<x, x>> \notin english
  <2>1. p <= spawned
    BY ForkFacts DEF SpawnEvent, TypeInv, TypeOK
  <2>2. QED
    BY <2>1 DEF OrdersInv, Visited, StrictTotal
<1>5. \A x \in Known : \A w \in W : /\ <<x, w>> \in Both' <=> UpTo(Both, x, current[p])
                                    /\ <<w, x>> \in Both' <=> <<current[p], x>> \in Both
  BY <1>1 DEF GoBehind, Both, UpTo
<1>6. ASSUME NEW x \in Known', NEW y \in Known', <<x, y>> \in english'
      PROVE  <<y, x>> \notin english'
  BY <1>2, <1>6 DEF StrictTotal
<1>7. ASSUME NEW x \in Known', NEW y \in Known', <<x, y>> \in hebrew'
      PROVE  <<y, x>> \notin hebrew'
  BY <1>2, <1>7 DEF StrictTotal
<1>8. \A w \in W : <<w, w>> \notin Both'
  BY <1>1, <1>2 DEF StrictTotal, Both
<1>9. /\ ChildStrand(c) \in Known' /\ NextStrand(c) \in Known'
      /\ sync[p] = NULL => SyncStrand(c) \in Known'
  BY <1>1 DEF NewStrands
<1>10. QED
  BY <1>1, <1>2, <1>3, <1>5, <1>6, <1>7, <1>8, <1>9
     DEF Both, BehindTheOld, AmongTheNew

-----------------------------------------------------------------------------
(* What Note adds.                                                         *)
LEMMA NoteFacts ==
  ASSUME Note
  PROVE  /\ \A u, n, x : Mark(u, n, x) => Mark(u, n, x)'
         /\ \A u, n, x : Mark(u, n, x)' =>
              \/ Mark(u, n, x)
              \/ u \in Task /\ status'[u] = "running" /\ n = seg'[u] /\ x = current'[u]
         /\ \A u \in Task : \A n, x :
              status'[u] = "running" /\ n = seg'[u] /\ x = current'[u] => Mark(u, n, x)'
<1> DEFINE new == {<<t, seg'[t], current'[t], Last(frames'[t]).step>> :
                     t \in {u \in Task : status'[u] = "running"}}
<1>1. stamps' = stamps \cup new
  BY DEF Note
<1>2. \A s \in new : \E t \in Task : /\ status'[t] = "running" /\ s[1] = t
                                     /\ s[2] = seg'[t] /\ s[3] = current'[t]
  OBVIOUS
<1>3. ASSUME NEW u \in Task, status'[u] = "running"
      PROVE  \E s \in new : s[1] = u /\ s[2] = seg'[u] /\ s[3] = current'[u]
  <2>1. <<u, seg'[u], current'[u], Last(frames'[u]).step>> \in new
    BY <1>3
  <2>2. QED
    BY <2>1
<1> HIDE DEF new
<1>4. QED
  BY <1>1, <1>2, <1>3 DEF Mark

LEMMA MarkGrows ==
  ASSUME Note \/ stamps' = stamps
  PROVE  \A u, n, x : Mark(u, n, x)' =>
           \/ Mark(u, n, x)
           \/ u \in Task /\ status'[u] = "running" /\ n = seg'[u] /\ x = current'[u]
<1>1. CASE Note
  BY <1>1, NoteFacts
<1>2. CASE stamps' = stamps
  BY <1>2 DEF Mark
<1>3. QED
  BY <1>1, <1>2

LEMMA VisitedFacts ==
  ASSUME Note \/ stamps' = stamps, FamilyInv', ProgramTypeOK'
  PROVE  \A x : Visited(x)' => Visited(x) \/ \E u \in Task : u <= spawned' /\ x = current'[u]
<1>1. \A u \in Task : status'[u] = "running" => u <= spawned'
  BY DEF FamilyInv, Births
<1>2. QED
  BY <1>1, MarkGrows DEF Visited

LEMMA ForkVisits ==
  ASSUME TypeInv, TypeInv', OrdersInv, Note,
         NEW s \in Task, NEW p \in Task, NEW c \in Task, NEW next,
         SpawnEvent(s, p, c, next)
  PROVE  /\ \A x : Visited(x)' => Visited(x) \/ x = ChildStrand(c) \/ x = NextStrand(c)
         /\ \A t \in Task : t <= spawned' <=> t <= spawned \/ t = c
         /\ p <= spawned /\ p # c /\ ~ (c <= spawned) /\ spawned' = c
         /\ current'[p] = NextStrand(c) /\ current'[c] = ChildStrand(c)
         /\ \A t \in Task : t # p /\ t # c => current'[t] = current[t]
         /\ sync'[p] = (IF sync[p] = NULL THEN SyncStrand(c) ELSE sync[p])
         /\ \A t \in Task : t # p => sync'[t] = sync[t]
         /\ status[p] # "finished"
<1>1. /\ spawned \in Nat /\ c = spawned + 1 /\ spawned' = c /\ p <= spawned /\ p # c
      /\ p # s => status[p] = "rootwait"
      /\ status[s] = "running"
  BY ForkFacts DEF SpawnEvent, TypeInv, TypeOK
<1>2. \A t \in Task : t \in Nat
  BY TaskFacts
<1>3. \A t \in Task : t <= spawned' <=> t <= spawned \/ t = c
  BY <1>1, <1>2
<1>4. /\ current' = [current EXCEPT ![p] = NextStrand(c), ![c] = ChildStrand(c)]
      /\ sync' = [sync EXCEPT ![p] = IF sync[p] = NULL THEN SyncStrand(c) ELSE @]
  <2>1. SyncStrand(c) # NULL
    BY DEF SyncStrand, NULL
  <2>2. /\ current' = [current EXCEPT ![p] = NextStrand(c), ![c] = ChildStrand(c)]
        /\ sync' = [sync EXCEPT ![p] =
             IF (IF sync[p] = NULL THEN SyncStrand(c) ELSE NULL) = NULL
             THEN @ ELSE (IF sync[p] = NULL THEN SyncStrand(c) ELSE NULL)]
    BY DEF SpawnEvent, CRacerSpawn, ChildStrand, NextStrand, SyncStrand
  <2>3. QED
    BY <2>1, <2>2
<1>5. DOMAIN current = Task /\ DOMAIN sync = Task
  BY DEF TypeInv, TypeOK, CRacerTypeOK
<1>6. /\ current'[p] = NextStrand(c) /\ current'[c] = ChildStrand(c)
      /\ \A t \in Task : t # p /\ t # c => current'[t] = current[t]
      /\ sync'[p] = (IF sync[p] = NULL THEN SyncStrand(c) ELSE sync[p])
      /\ \A t \in Task : t # p => sync'[t] = sync[t]
  BY <1>1, <1>4, <1>5
<1>7. \A x : Visited(x)' => Visited(x) \/ \E u \in Task : u <= spawned' /\ x = current'[u]
  BY VisitedFacts DEF TypeInv, TypeOK
<1>8. \A u \in Task : u <= spawned => Visited(current[u])
  BY DEF Visited
<1>9. ASSUME NEW x, NEW u \in Task, u <= spawned', x = current'[u]
      PROVE  Visited(x) \/ x = ChildStrand(c) \/ x = NextStrand(c)
  BY <1>3, <1>6, <1>8, <1>9
<1>10. status[p] # "finished"
  BY <1>1
<1>11. ~ (c <= spawned)
  BY <1>1
<1>12. QED
  BY <1>1, <1>3, <1>6, <1>7, <1>9, <1>10, <1>11

LEMMA ForkKeepsOrders ==
  ASSUME TypeInv, TypeInv', OrdersInv, NamesInv, Note,
         NEW s \in Task, NEW p \in Task, NEW c \in Task, NEW next,
         SpawnEvent(s, p, c, next)
  PROVE  OrdersInv' /\ NamesInv'
<1>1. PICK W : W = NewStrands(p, c)
  OBVIOUS
<1>2. /\ W \subseteq Strand \ Known /\ (\A w \in W : w[2] = c) /\ Known' = Known \cup W
      /\ StrictTotal(english', Known') /\ StrictTotal(hebrew', Known')
  <2>1. W \subseteq Strand \ Known /\ (\A w \in W : w[2] = c) /\ Known' = Known \cup W
    BY <1>1, ForkOrders, Zenon
  <2>2. StrictTotal(english', Known') /\ StrictTotal(hebrew', Known')
    BY <1>1, ForkPrec, Zenon
  <2>3. QED
    BY <2>1, <2>2
<1>3. /\ ChildStrand(c) \in W /\ NextStrand(c) \in W /\ ChildStrand(c) # NextStrand(c)
      /\ sync[p] = NULL => SyncStrand(c) \in W
      /\ SyncStrand(c) # NULL
  BY <1>1 DEF NewStrands, ChildStrand, NextStrand, SyncStrand, NULL
<1>4. /\ \A x : Visited(x)' => Visited(x) \/ x = ChildStrand(c) \/ x = NextStrand(c)
      /\ \A t \in Task : t <= spawned' <=> t <= spawned \/ t = c
      /\ p <= spawned /\ p # c /\ spawned' = c
      /\ current'[p] = NextStrand(c) /\ current'[c] = ChildStrand(c)
      /\ \A t \in Task : t # p /\ t # c => current'[t] = current[t]
      /\ sync'[p] = (IF sync[p] = NULL THEN SyncStrand(c) ELSE sync[p])
      /\ \A t \in Task : t # p => sync'[t] = sync[t]
  BY ForkVisits
<1>5. \A x : Visited(x) => x \in Known
  BY DEF OrdersInv
<1>6. \A t \in Task : t <= spawned => current[t] \in Known
  BY <1>5 DEF Visited
<1>7. \A t \in Task : sync[t] # NULL => sync[t] \in Known
  BY DEF OrdersInv
<1>8. OrdersInv'
  <2>1. ASSUME NEW x \in Known' PROVE x[2] <= spawned'
    <3>1. spawned \in Nat /\ spawned' = spawned + 1
      BY ForkFacts DEF SpawnEvent, TypeInv, TypeOK
    <3>2. CASE x \in Known
      <4>1. x[2] \in Task /\ x[2] <= spawned
        BY <3>2 DEF OrdersInv, Known, Strand
      <4>2. x[2] \in Nat
        BY <4>1, TaskFacts
      <4>3. QED
        BY <3>1, <4>1, <4>2
    <3>3. CASE x \in W
      BY <1>2, <1>4, <3>1, <3>3
    <3>4. QED
      BY <1>2, <2>1, <3>2, <3>3
  <2>2. \A x : Visited(x)' => x \in Known'
    BY <1>2, <1>3, <1>4, <1>5
  <2>3. \A t \in Task : sync'[t] # NULL => sync'[t] \in Known'
    BY <1>2, <1>3, <1>4, <1>7
  <2>4. QED
    BY <1>2, <2>1, <2>2, <2>3 DEF OrdersInv
<1>9. NamesInv'
  <2>1. /\ Awaited(p)' = Awaited(p) \cup {c}
        /\ \A t \in Task : t # p => Awaited(t)' = Awaited(t)
    BY ForkFacts DEF SpawnEvent, TypeInv, TypeOK
  <2>2. /\ \A t \in Task : sync[t] # NULL <=> Awaited(t) # {}
        /\ \A t, u \in Task : sync[t] # NULL /\ sync[t] = sync[u] => t = u
        /\ \A t, u \in Task : t <= spawned /\ u <= spawned /\ current[t] = current[u] => t = u
    BY DEF NamesInv
  <2>3. \A t \in Task : sync'[t] # NULL <=> Awaited(t)' # {}
    BY <1>3, <1>4, <2>1, <2>2
  <2>4. \A t, u \in Task : sync'[t] # NULL /\ sync'[t] = sync'[u] => t = u
    BY <1>2, <1>3, <1>4, <1>7, <2>2
  <2>5. \A t, u \in Task : t <= spawned' /\ u <= spawned' /\ current'[t] = current'[u] => t = u
    <3>1. \A t \in Task : t <= spawned =>
            current[t] # ChildStrand(c) /\ current[t] # NextStrand(c)
      BY <1>2, <1>3, <1>6
    <3>2. QED
      BY <1>3, <1>4, <2>2, <3>1
  <2>6. QED
    BY <2>3, <2>4, <2>5 DEF NamesInv
<1>10. QED
  BY <1>8, <1>9

LEMMA ForkKeepsFrontier ==
  ASSUME TypeInv, TypeInv', OrdersInv, NamesInv, FrontierInv, Note,
         NEW s \in Task, NEW p \in Task, NEW c \in Task, NEW next,
         SpawnEvent(s, p, c, next)
  PROVE  FrontierInv'
<1>1. PICK W : W = NewStrands(p, c)
  OBVIOUS
<1>2. /\ W \subseteq Strand \ Known /\ Known' = Known \cup W
      /\ \A x, y \in Known : <<x, y>> \in Both' <=> <<x, y>> \in Both
      /\ \A x \in Known : \A w \in W : /\ <<x, w>> \in Both' <=> UpTo(Both, x, current[p])
                                       /\ <<w, x>> \in Both' <=> <<current[p], x>> \in Both
      /\ \A w \in W : <<w, w>> \notin Both'
  <2>1. W \subseteq Strand \ Known /\ Known' = Known \cup W
    BY <1>1, ForkOrders, Zenon
  <2>2. /\ \A x, y \in Known : <<x, y>> \in Both' <=> <<x, y>> \in Both
        /\ \A x \in Known : \A w \in W : /\ <<x, w>> \in Both' <=> UpTo(Both, x, current[p])
                                         /\ <<w, x>> \in Both' <=> <<current[p], x>> \in Both
        /\ \A w \in W : <<w, w>> \notin Both'
    <3>1. BehindTheOld(p, W) /\ AmongTheNew(p, c)
      BY <1>1, ForkPrec, Zenon
    <3>2. QED
      BY <1>1, <3>1 DEF BehindTheOld, AmongTheNew
  <2>3. QED
    BY <2>1, <2>2
<1>3. /\ <<ChildStrand(c), NextStrand(c)>> \notin Both'
      /\ <<NextStrand(c), ChildStrand(c)>> \notin Both'
      /\ sync[p] = NULL =>
           /\ <<SyncStrand(c), ChildStrand(c)>> \notin Both'
           /\ <<SyncStrand(c), NextStrand(c)>> \notin Both'
  <2>1. AmongTheNew(p, c)
    BY <1>1, ForkPrec, Zenon
  <2>2. QED
    BY <2>1 DEF AmongTheNew
<1>4. /\ ChildStrand(c) \in W /\ NextStrand(c) \in W
      /\ sync[p] = NULL => SyncStrand(c) \in W
      /\ SyncStrand(c) # NULL /\ SyncStrand(c) # ChildStrand(c)
      /\ SyncStrand(c) # NextStrand(c)
  BY <1>1 DEF NewStrands, ChildStrand, NextStrand, SyncStrand, NULL
<1>5. /\ \A x : Visited(x)' => Visited(x) \/ x = ChildStrand(c) \/ x = NextStrand(c)
      /\ \A t \in Task : t <= spawned' <=> t <= spawned \/ t = c
      /\ p <= spawned /\ p # c /\ status[p] # "finished"
      /\ current'[p] = NextStrand(c) /\ current'[c] = ChildStrand(c)
      /\ \A t \in Task : t # p /\ t # c => current'[t] = current[t]
      /\ sync'[p] = (IF sync[p] = NULL THEN SyncStrand(c) ELSE sync[p])
      /\ \A t \in Task : t # p => sync'[t] = sync[t]
  BY ForkVisits
<1>6. \A x : Visited(x) => x \in Known
  BY DEF OrdersInv
<1>7. \A t \in Task : t <= spawned => Visited(current[t])
  BY DEF Visited
<1>8. \A t \in Task : sync[t] # NULL => sync[t] \in Known
  BY DEF OrdersInv
<1>9. /\ \A t \in Task : sync[t] # NULL => \A x : Visited(x) => ~ UpTo(Both, sync[t], x)
      /\ \A t \in Task : t <= spawned /\ status[t] # "finished" =>
           \A x : Visited(x) => <<current[t], x>> \notin Both
  BY DEF FrontierInv
<1>10. ASSUME NEW t \in Task, sync'[t] # NULL, NEW x, Visited(x)'
       PROVE  x # sync'[t] /\ <<sync'[t], x>> \notin Both'
  <2>1. CASE sync[t] # NULL
    <3>1. sync'[t] = sync[t] /\ sync[t] \in Known
      BY <1>5, <1>8, <2>1
    <3>2. CASE Visited(x)
      BY <1>2, <1>6, <1>9, <2>1, <3>1, <3>2 DEF UpTo
    <3>3. CASE x = ChildStrand(c) \/ x = NextStrand(c)
      <4>1. x \in W /\ x # sync[t]
        BY <1>2, <1>4, <3>1, <3>3
      <4>2. ~ UpTo(Both, sync[t], current[p])
        BY <1>5, <1>7, <1>9, <2>1
      <4>3. QED
        BY <1>2, <3>1, <4>1, <4>2
    <3>4. QED
      BY <1>5, <1>10, <3>2, <3>3
  <2>2. CASE sync[t] = NULL
    <3>1. t = p /\ sync'[t] = SyncStrand(c) /\ sync[p] = NULL
      BY <1>5, <1>10, <2>2
    <3>2. CASE Visited(x)
      <4>1. x \in Known /\ <<current[p], x>> \notin Both
        BY <1>5, <1>6, <1>9, <3>2
      <4>2. QED
        BY <1>2, <1>4, <3>1, <4>1
    <3>3. CASE x = ChildStrand(c) \/ x = NextStrand(c)
      BY <1>3, <1>4, <3>1, <3>3
    <3>4. QED
      BY <1>5, <1>10, <3>2, <3>3
  <2>3. QED
    BY <2>1, <2>2
<1>11. ASSUME NEW t \in Task, t <= spawned', status'[t] # "finished", NEW x, Visited(x)'
       PROVE  <<current'[t], x>> \notin Both'
  <2>1. CASE t = p \/ t = c
    <3>1. current'[t] \in W /\ (current'[t] = ChildStrand(c) \/ current'[t] = NextStrand(c))
      BY <1>4, <1>5, <2>1
    <3>2. CASE Visited(x)
      <4>1. x \in Known /\ <<current[p], x>> \notin Both
        BY <1>5, <1>6, <1>9, <3>2
      <4>2. QED
        BY <1>2, <3>1, <4>1
    <3>3. CASE x = ChildStrand(c) \/ x = NextStrand(c)
      BY <1>2, <1>3, <1>4, <3>1, <3>3
    <3>4. QED
      BY <1>5, <1>11, <3>2, <3>3
  <2>2. CASE t # p /\ t # c
    <3>1. t <= spawned /\ current'[t] = current[t]
      BY <1>5, <1>11, <2>2
    <3>2. status[t] # "finished"
      <4>1. status'[t] = status[t] \/ status[t] = "running"
        BY ForkFacts, <2>2 DEF SpawnEvent, TypeInv, TypeOK
      <4>2. QED
        BY <1>11, <4>1
    <3>3. current[t] \in Known
      BY <1>6, <1>7, <3>1
    <3>4. CASE Visited(x)
      BY <1>2, <1>6, <1>9, <3>1, <3>2, <3>3, <3>4
    <3>5. CASE x = ChildStrand(c) \/ x = NextStrand(c)
      <4>1. current[t] # current[p]
        BY <1>5, <2>2, <3>1 DEF NamesInv
      <4>2. <<current[t], current[p]>> \notin Both
        BY <1>5, <1>7, <1>9, <3>1, <3>2
      <4>3. ~ UpTo(Both, current[t], current[p])
        BY <4>1, <4>2 DEF UpTo
      <4>4. QED
        BY <1>2, <1>4, <3>1, <3>3, <3>5, <4>3
    <3>6. QED
      BY <1>5, <1>11, <3>4, <3>5
  <2>3. QED
    BY <2>1, <2>2
<1>12. QED
  BY <1>10, <1>11 DEF FrontierInv, UpTo

LEMMA ForkKeepsSync ==
  ASSUME TypeInv, TypeInv', OrdersInv, NamesInv, SyncInv, FrontierInv, Note,
         NEW s \in Task, NEW p \in Task, NEW c \in Task, NEW next,
         SpawnEvent(s, p, c, next)
  PROVE  SyncInv'
<1>1. PICK W : W = NewStrands(p, c)
  OBVIOUS
<1>2. /\ W \subseteq Strand \ Known /\ Known' = Known \cup W
      /\ BehindTheOld(p, W) /\ AmongTheNew(p, c)
  <2>1. W \subseteq Strand \ Known /\ Known' = Known \cup W
    BY <1>1, ForkOrders, Zenon
  <2>2. BehindTheOld(p, W) /\ AmongTheNew(p, c)
    BY <1>1, ForkPrec, Zenon
  <2>3. QED
    BY <2>1, <2>2
<1>3. /\ \A x, y \in Known : <<x, y>> \in Both' <=> <<x, y>> \in Both
      /\ \A x \in Known : \A w \in W : /\ <<x, w>> \in Both' <=> UpTo(Both, x, current[p])
                                       /\ <<w, x>> \in Both' <=> <<current[p], x>> \in Both
  BY <1>2 DEF BehindTheOld
<1>4. /\ \A w \in W : <<w, w>> \notin Both'
      /\ sync[p] = NULL =>
           /\ <<ChildStrand(c), SyncStrand(c)>> \in Both'
           /\ <<NextStrand(c), SyncStrand(c)>> \in Both'
           /\ <<SyncStrand(c), ChildStrand(c)>> \notin Both'
           /\ <<SyncStrand(c), NextStrand(c)>> \notin Both'
  BY <1>1, <1>2 DEF AmongTheNew
<1>5. /\ W = {ChildStrand(c), NextStrand(c)} \cup (IF sync[p] = NULL THEN {SyncStrand(c)} ELSE {})
      /\ SyncStrand(c) # NULL /\ SyncStrand(c) # ChildStrand(c)
      /\ SyncStrand(c) # NextStrand(c)
  BY <1>1 DEF NewStrands, ChildStrand, NextStrand, SyncStrand, NULL
<1>6. /\ \A t \in Task : t <= spawned' <=> t <= spawned \/ t = c
      /\ p <= spawned /\ p # c /\ ~ (c <= spawned)
      /\ current'[p] = NextStrand(c) /\ current'[c] = ChildStrand(c)
      /\ \A t \in Task : t # p /\ t # c => current'[t] = current[t]
      /\ sync'[p] = (IF sync[p] = NULL THEN SyncStrand(c) ELSE sync[p])
      /\ \A t \in Task : t # p => sync'[t] = sync[t]
  BY ForkVisits
<1>7. /\ \A t \in Task : t <= spawned => current[t] \in Known /\ Visited(current[t])
      /\ \A t \in Task : sync[t] # NULL => sync[t] \in Known
  BY DEF OrdersInv, Visited
<1>8. /\ Births /\ Parents
      /\ \A t \in Task : Awaited(t) \subseteq Task
      /\ \A t, u \in Task : u \in Awaited(t) => u <= spawned /\ u # t /\ u # c
      /\ Awaited(p)' = Awaited(p) \cup {c} /\ Awaited(c) = {}
      /\ \A t \in Task : t # p => Awaited(t)' = Awaited(t)
  <2>1. /\ Awaited(p)' = Awaited(p) \cup {c} /\ Awaited(c) = {}
        /\ \A t \in Task : t # p => Awaited(t)' = Awaited(t)
    BY ForkFacts DEF SpawnEvent, TypeInv, TypeOK
  <2>2. Births /\ Parents /\ \A t \in Task : Awaited(t) \subseteq Task
    BY DEF TypeInv, TypeOK, FamilyInv, ProgramTypeOK, Awaited
  <2>3. \A t, u \in Task : u \in Awaited(t) => u <= spawned /\ u # t /\ u # c
    BY <1>6, <2>2, TaskFacts DEF Parents
  <2>4. QED
    BY <2>1, <2>2, <2>3
<1>9. /\ \A t \in Task : sync[t] # NULL <=> Awaited(t) # {}
      /\ \A t, u \in Task : t <= spawned /\ u <= spawned /\ current[t] = current[u] => t = u
  BY DEF NamesInv
<1>10. sync[c] = NULL
  BY <1>8, <1>9
<1>11. \A t \in Task : t # p /\ t # c => Fin(t)' = Fin(t)
  BY <1>6 DEF Fin
<1>12. Fin(c)' = ChildStrand(c)
  BY <1>6, <1>10 DEF Fin
<1>13. Fin(p)' = IF sync[p] = NULL THEN SyncStrand(c) ELSE Fin(p)
  BY <1>5, <1>6 DEF Fin
<1>14. \A t \in Task : t <= spawned => Fin(t) \in Known
  BY <1>7 DEF Fin
<1>15. \A t \in Task : t <= spawned /\ Fin(t) = current[p] => t = p /\ sync[p] = NULL
  <2>1. ASSUME NEW t \in Task, t <= spawned, Fin(t) = current[p]
        PROVE  t = p /\ sync[p] = NULL
    <3>1. sync[t] = NULL
      BY <1>6, <1>7, <2>1 DEF FrontierInv, UpTo, Fin
    <3>2. QED
      BY <1>6, <1>9, <2>1, <3>1 DEF Fin
  <2>2. QED
    BY <2>1
<1>16. \A t \in Task : sync[t] # NULL =>
         \A x \in Known :
           <<x, sync[t]>> \in Both <=> \/ UpTo(Both, x, current[t])
                                       \/ \E d \in Awaited(t) : UpTo(Both, x, Fin(d))
  BY DEF SyncInv
<1>17. \A x, y \in Known : UpTo(Both', x, y) <=> UpTo(Both, x, y)
  BY <1>3 DEF UpTo
<1>18. \A x \in Known : \A w \in W : UpTo(Both', x, w) <=> UpTo(Both, x, current[p])
  BY <1>2, <1>3 DEF UpTo
<1>19. \A x \in Known : \A w \in W : UpTo(Both', w, x) <=> <<current[p], x>> \in Both
  BY <1>2, <1>3 DEF UpTo
<1> DEFINE Reached(t, x) == \/ UpTo(Both', x, current'[t])
                            \/ \E d \in Awaited(t)' : UpTo(Both', x, Fin(d)')
<1>20. ASSUME NEW t \in Task, t # p, sync[t] # NULL, NEW x \in Known'
       PROVE  <<x, sync[t]>> \in Both' <=> Reached(t, x)
  <2>1. t # c /\ t <= spawned /\ Awaited(t)' = Awaited(t) /\ current'[t] = current[t]
        /\ sync[t] \in Known /\ current[t] \in Known
    BY <1>6, <1>7, <1>8, <1>9, <1>10, <1>20 DEF Births
  <2>2. \A d \in Awaited(t) : d \in Task /\ d <= spawned /\ d # c /\ Fin(d) \in Known
    BY <1>8, <1>14, <1>20
  <2>3. CASE x \in Known
    <3>1. \A d \in Awaited(t) : UpTo(Both', x, Fin(d)') <=> UpTo(Both, x, Fin(d))
      <4>1. ASSUME NEW d \in Awaited(t)
            PROVE  UpTo(Both', x, Fin(d)') <=> UpTo(Both, x, Fin(d))
        <5>1. CASE Fin(d)' = Fin(d)
          BY <1>17, <2>2, <2>3, <5>1
        <5>2. CASE d = p /\ sync[p] = NULL
          <6>1. Fin(d)' = SyncStrand(c) /\ SyncStrand(c) \in W /\ Fin(d) = current[p]
            BY <1>5, <1>13, <5>2 DEF Fin
          <6>2. QED
            BY <1>18, <2>3, <6>1
        <5>3. QED
          BY <1>11, <1>13, <2>2, <5>1, <5>2
      <4>2. QED
        BY <4>1
    <3>2. UpTo(Both', x, current'[t]) <=> UpTo(Both, x, current[t])
      BY <1>17, <2>1, <2>3
    <3>3. <<x, sync[t]>> \in Both' <=> <<x, sync[t]>> \in Both
      BY <1>3, <2>1, <2>3
    <3>4. QED
      BY <1>16, <1>20, <2>1, <2>3, <3>1, <3>2, <3>3
  <2>4. CASE x \in W
    <3>1. <<x, sync[t]>> \in Both' <=> <<current[p], sync[t]>> \in Both
      BY <1>3, <2>1, <2>4
    <3>2. UpTo(Both', x, current'[t]) <=> UpTo(Both, current[p], current[t])
      <4>1. current[t] # current[p]
        BY <1>6, <1>9, <1>20, <2>1
      <4>2. QED
        BY <1>19, <2>1, <2>4, <4>1 DEF UpTo
    <3>3. ASSUME NEW d \in Awaited(t)
          PROVE  UpTo(Both', x, Fin(d)') <=> UpTo(Both, current[p], Fin(d))
      <4>1. CASE d = p /\ sync[p] = NULL
        <5>1. Fin(d)' = SyncStrand(c) /\ Fin(d) = current[p]
          BY <1>13, <4>1 DEF Fin
        <5>2. UpTo(Both', x, SyncStrand(c))
          BY <1>4, <1>5, <2>4, <4>1 DEF UpTo
        <5>3. QED
          BY <5>1, <5>2 DEF UpTo
      <4>2. CASE ~ (d = p /\ sync[p] = NULL)
        <5>1. Fin(d)' = Fin(d) /\ Fin(d) \in Known
          BY <1>11, <1>13, <2>2, <4>2
        <5>2. Fin(d) # current[p]
          BY <1>15, <2>2, <4>2
        <5>3. QED
          BY <1>19, <2>4, <5>1, <5>2 DEF UpTo
      <4>3. QED
        BY <4>1, <4>2
    <3>4. current[p] \in Known
      BY <1>6, <1>7
    <3>5. QED
      BY <1>16, <1>20, <2>1, <3>1, <3>2, <3>3, <3>4
  <2>5. QED
    BY <1>2, <1>20, <2>3, <2>4
<1>21. ASSUME sync[p] # NULL, NEW x \in Known'
       PROVE  <<x, sync[p]>> \in Both' <=> Reached(p, x)
  <2>1. /\ sync[p] \in Known /\ current[p] \in Known /\ current'[p] \in W /\ Fin(c)' \in W
        /\ Fin(c)' = ChildStrand(c) /\ current'[p] = NextStrand(c)
        /\ W = {ChildStrand(c), NextStrand(c)}
    BY <1>5, <1>6, <1>7, <1>12, <1>21
  <2>2. \A d \in Awaited(p) : /\ d \in Task /\ d <= spawned
                              /\ Fin(d)' = Fin(d) /\ Fin(d) \in Known
    BY <1>8, <1>11, <1>14
  <2>3. CASE x \in Known
    <3>1. UpTo(Both', x, current'[p]) <=> UpTo(Both, x, current[p])
      BY <1>18, <2>1, <2>3
    <3>2. UpTo(Both', x, Fin(c)') <=> UpTo(Both, x, current[p])
      BY <1>18, <2>1, <2>3
    <3>3. \A d \in Awaited(p) : UpTo(Both', x, Fin(d)') <=> UpTo(Both, x, Fin(d))
      BY <1>17, <2>2, <2>3
    <3>4. <<x, sync[p]>> \in Both' <=> <<x, sync[p]>> \in Both
      BY <1>3, <2>1, <2>3
    <3>5. QED
      BY <1>8, <1>16, <1>21, <2>3, <3>1, <3>2, <3>3, <3>4
  <2>4. CASE x \in W
    <3>1. <<current[p], sync[p]>> \in Both
      BY <1>16, <1>21, <2>1 DEF UpTo
    <3>2. <<x, sync[p]>> \in Both'
      BY <1>3, <2>1, <2>4, <3>1
    <3>3. Reached(p, x)
      BY <1>8, <2>1, <2>4 DEF UpTo
    <3>4. QED
      BY <3>2, <3>3
  <2>5. QED
    BY <1>2, <1>21, <2>3, <2>4
<1>22. ASSUME sync[p] = NULL, NEW x \in Known'
       PROVE  <<x, SyncStrand(c)>> \in Both' <=> Reached(p, x)
  <2>1. /\ current[p] \in Known /\ SyncStrand(c) \in W
        /\ Fin(c)' = ChildStrand(c) /\ current'[p] = NextStrand(c)
        /\ W = {ChildStrand(c), NextStrand(c), SyncStrand(c)}
    BY <1>5, <1>6, <1>7, <1>12, <1>22
  <2>2. Awaited(p)' = {c}
    BY <1>8, <1>9, <1>22
  <2>3. Reached(p, x) <=> UpTo(Both', x, NextStrand(c)) \/ UpTo(Both', x, ChildStrand(c))
    BY <2>1, <2>2
  <2>4. CASE x \in Known
    <3>1. <<x, SyncStrand(c)>> \in Both' <=> UpTo(Both, x, current[p])
      BY <1>3, <2>1, <2>4
    <3>2. /\ UpTo(Both', x, NextStrand(c)) <=> UpTo(Both, x, current[p])
          /\ UpTo(Both', x, ChildStrand(c)) <=> UpTo(Both, x, current[p])
      BY <1>18, <2>1, <2>4
    <3>3. QED
      BY <2>3, <3>1, <3>2
  <2>5. CASE x = ChildStrand(c) \/ x = NextStrand(c)
    BY <1>4, <1>22, <2>3, <2>5 DEF UpTo
  <2>6. CASE x = SyncStrand(c)
    BY <1>4, <1>5, <1>22, <2>1, <2>3, <2>6 DEF UpTo
  <2>7. QED
    BY <1>2, <1>22, <2>1, <2>4, <2>5, <2>6
<1>23. ASSUME NEW t \in Task, sync'[t] # NULL, NEW x \in Known'
       PROVE  <<x, sync'[t]>> \in Both' <=> Reached(t, x)
  BY <1>6, <1>20, <1>21, <1>22, <1>23
<1>24. QED
  BY <1>23 DEF SyncInv

-----------------------------------------------------------------------------
(***************************************************************************)
(* The end of a wait: the task goes on in the strand made for it.          *)
(***************************************************************************)
LEMMA JoinFacts ==
  ASSUME TypeInv, TypeInv', NamesInv, Note, NEW t \in Task, Returns(t)
  PROVE  /\ sync[t] # NULL /\ sync'[t] = NULL /\ current'[t] = sync[t]
         /\ \A u \in Task : u # t => sync'[u] = sync[u] /\ current'[u] = current[u]
         /\ Known' = Known /\ Both' = Both /\ english' = english /\ hebrew' = hebrew
         /\ spawned' = spawned /\ t <= spawned /\ status[t] # "finished"
         /\ \A c \in Awaited(t) : /\ c \in Task /\ c # t /\ c <= spawned
                                  /\ status[c] = "finished" /\ Fin(c) = current[c]
         /\ \A u \in Task : Fin(u)' = Fin(u)
         /\ \A x : Visited(x)' => Visited(x) \/ x = sync[t]
<1>1. /\ status[t] \in {"waiting", "rootwait"} /\ Awaited(t) # {} /\ t <= spawned
      /\ spawned' = spawned
      /\ \A c \in Awaited(t) : c \in Task /\ status[c] = "finished" /\ Awaited(c) = {} /\ c # t
  BY ReturnFacts DEF Returns, TypeInv, TypeOK
<1>2. \A u \in Task : sync[u] # NULL <=> Awaited(u) # {}
  BY DEF NamesInv
<1>3. /\ sync[t] # NULL
      /\ current' = [current EXCEPT ![t] = sync[t]] /\ sync' = [sync EXCEPT ![t] = NULL]
      /\ english' = english /\ hebrew' = hebrew
  BY <1>1, <1>2 DEF Returns, CRacerWait
<1>4. DOMAIN current = Task /\ DOMAIN sync = Task
  BY DEF TypeInv, TypeOK, CRacerTypeOK
<1>5. /\ sync'[t] = NULL /\ current'[t] = sync[t]
      /\ \A u \in Task : u # t => sync'[u] = sync[u] /\ current'[u] = current[u]
  BY <1>3, <1>4
<1>6. \A c \in Awaited(t) : c <= spawned /\ Fin(c) = current[c]
  <2>1. \A c \in Awaited(t) : c <= spawned
    BY <1>1 DEF TypeInv, FamilyInv, Parents
  <2>2. QED
    BY <1>1, <1>2, <2>1 DEF Fin
<1>7. \A u \in Task : Fin(u)' = Fin(u)
  BY <1>3, <1>5 DEF Fin
<1>8. ASSUME NEW x, Visited(x)' PROVE Visited(x) \/ x = sync[t]
  <2>1. Visited(x) \/ \E u \in Task : u <= spawned' /\ x = current'[u]
    BY <1>8, VisitedFacts DEF TypeInv, TypeOK
  <2>2. QED
    BY <1>1, <1>5, <2>1 DEF Visited
<1>9. Known' = Known /\ Both' = Both
  BY <1>3 DEF Known, Both
<1>10. QED
  BY <1>1, <1>3, <1>5, <1>6, <1>7, <1>8, <1>9

LEMMA JoinKeepsStrands ==
  ASSUME TypeInv, TypeInv', StrandInv, Note, NEW t \in Task, Returns(t)
  PROVE  StrandInv'
<1>1. /\ sync[t] # NULL /\ sync'[t] = NULL /\ current'[t] = sync[t]
      /\ \A u \in Task : u # t => sync'[u] = sync[u] /\ current'[u] = current[u]
      /\ Known' = Known /\ Both' = Both /\ english' = english /\ hebrew' = hebrew
      /\ spawned' = spawned /\ t <= spawned /\ status[t] # "finished"
      /\ \A c \in Awaited(t) : /\ c \in Task /\ c # t /\ c <= spawned
                               /\ status[c] = "finished" /\ Fin(c) = current[c]
      /\ \A u \in Task : Fin(u)' = Fin(u)
      /\ \A x : Visited(x)' => Visited(x) \/ x = sync[t]
  BY JoinFacts DEF StrandInv
<1>2. OrdersInv /\ NamesInv /\ SyncInv /\ FrontierInv
  BY DEF StrandInv
<1>3. \A u \in Task : u <= spawned => Visited(current[u]) /\ current[u] \in Known
  BY <1>2 DEF OrdersInv, Visited
<1>4. \A u \in Task : sync[u] # NULL => sync[u] \in Known
  BY <1>2 DEF OrdersInv
<1>5. /\ \A u \in Task : sync[u] # NULL => \A x : Visited(x) => ~ UpTo(Both, sync[u], x)
      /\ \A u \in Task : u <= spawned /\ status[u] # "finished" =>
           \A x : Visited(x) => <<current[u], x>> \notin Both
  BY <1>2 DEF FrontierInv
<1>6. /\ \A u, v \in Task : sync[u] # NULL /\ sync[u] = sync[v] => u = v
      /\ \A u, v \in Task : u <= spawned /\ v <= spawned /\ current[u] = current[v] => u = v
  BY <1>2 DEF NamesInv
<1>7. \A x \in Known : <<x, sync[t]>> \in Both <=>
                         \/ UpTo(Both, x, current[t])
                         \/ \E c \in Awaited(t) : UpTo(Both, x, current[c])
  BY <1>1, <1>2 DEF SyncInv
<1>8. OrdersInv'
  <2>1. \A x : Visited(x)' => x \in Known'
    BY <1>1, <1>2, <1>4 DEF OrdersInv
  <2>2. QED
    BY <1>1, <1>2, <1>4, <2>1 DEF OrdersInv
<1>9. NamesInv'
  <2>1. Awaited(t)' = {} /\ \A u \in Task : u # t => Awaited(u)' = Awaited(u)
    BY ReturnFacts DEF Returns, TypeInv, TypeOK
  <2>2. \A u \in Task : sync'[u] # NULL <=> Awaited(u)' # {}
    BY <1>1, <1>2, <2>1 DEF NamesInv
  <2>3. \A u \in Task : u <= spawned => current[u] # sync[t]
    BY <1>1, <1>3, <1>5 DEF UpTo
  <2>4. \A u, v \in Task : u <= spawned' /\ v <= spawned' /\ current'[u] = current'[v] => u = v
    BY <1>1, <1>6, <2>3
  <2>5. \A u, v \in Task : sync'[u] # NULL /\ sync'[u] = sync'[v] => u = v
    BY <1>1, <1>6
  <2>6. QED
    BY <2>2, <2>4, <2>5 DEF NamesInv
<1>10. SyncInv'
  <2>1. \A u \in Task : u # t => Awaited(u)' = Awaited(u)
    BY ReturnFacts DEF Returns, TypeInv, TypeOK
  <2>2. ASSUME NEW u \in Task, sync'[u] # NULL, NEW x \in Known'
        PROVE  <<x, sync'[u]>> \in Both' <=> \/ UpTo(Both', x, current'[u])
                                             \/ \E c \in Awaited(u)' : UpTo(Both', x, Fin(c)')
    <3>1. u # t /\ sync'[u] = sync[u] /\ current'[u] = current[u] /\ x \in Known
          /\ Awaited(u)' = Awaited(u)
      BY <1>1, <2>1, <2>2
    <3>2. \A c \in Awaited(u) : Fin(c)' = Fin(c)
      <4>1. Awaited(u) \subseteq Task
        BY DEF Awaited, TypeInv, TypeOK, ProgramTypeOK
      <4>2. QED
        BY <1>1, <4>1
    <3>3. <<x, sync[u]>> \in Both <=> \/ UpTo(Both, x, current[u])
                                      \/ \E c \in Awaited(u) : UpTo(Both, x, Fin(c))
      BY <1>2, <2>2, <3>1 DEF SyncInv
    <3>4. QED
      BY <1>1, <3>1, <3>2, <3>3
  <2>3. QED
    BY <2>2 DEF SyncInv
<1>11. ASSUME NEW u \in Task, sync'[u] # NULL, NEW x, Visited(x)'
       PROVE  ~ UpTo(Both', sync'[u], x)
  <2>1. u # t /\ sync'[u] = sync[u] /\ sync[u] \in Known
    BY <1>1, <1>4, <1>11
  <2>2. CASE Visited(x)
    BY <1>1, <1>5, <1>11, <2>1, <2>2
  <2>3. CASE x = sync[t]
    <3>1. sync[u] # sync[t]
      BY <1>1, <1>6, <2>1
    <3>2. ~ UpTo(Both, sync[u], current[t])
      BY <1>1, <1>3, <1>5, <1>11, <2>1
    <3>3. \A c \in Awaited(t) : ~ UpTo(Both, sync[u], current[c])
      BY <1>1, <1>3, <1>5, <1>11, <2>1
    <3>4. QED
      BY <1>1, <1>7, <2>1, <2>3, <3>1, <3>2, <3>3 DEF UpTo
  <2>4. QED
    BY <1>1, <1>11, <2>2, <2>3
<1>12. ASSUME NEW u \in Task, u <= spawned', status'[u] # "finished", NEW x, Visited(x)'
       PROVE  <<current'[u], x>> \notin Both'
  <2>1. CASE u = t
    <3>1. CASE Visited(x)
      BY <1>1, <1>5, <2>1, <3>1 DEF UpTo
    <3>2. CASE x = sync[t]
      <4>1. <<sync[t], sync[t]>> \notin english
        BY <1>1, <1>2, <1>4 DEF OrdersInv, StrictTotal
      <4>2. QED
        BY <1>1, <2>1, <3>2, <4>1 DEF Both
    <3>3. QED
      BY <1>1, <1>12, <3>1, <3>2
  <2>2. CASE u # t
    <3>1. u <= spawned /\ current'[u] = current[u] /\ current[u] \in Known
          /\ status[u] # "finished"
      <4>1. status'[u] = status[u]
        BY <2>2, ReturnFacts DEF Returns, TypeInv, TypeOK
      <4>2. QED
        BY <1>1, <1>3, <1>12, <2>2, <4>1
    <3>2. CASE Visited(x)
      BY <1>1, <1>5, <3>1, <3>2
    <3>3. CASE x = sync[t]
      <4>1. \A v \in Task : v <= spawned /\ v # u => ~ UpTo(Both, current[u], current[v])
        BY <1>3, <1>5, <1>6, <3>1 DEF UpTo
      <4>2. \A c \in Awaited(t) : c # u
        BY <1>1, <3>1
      <4>3. <<current[u], sync[t]>> \notin Both
        BY <1>1, <1>7, <2>2, <3>1, <4>1, <4>2
      <4>4. QED
        BY <1>1, <3>1, <3>3, <4>3
    <3>4. QED
      BY <1>1, <1>12, <3>2, <3>3
  <2>3. QED
    BY <2>1, <2>2
<1>13. FrontierInv'
  BY <1>11, <1>12 DEF FrontierInv
<1>14. QED
  BY <1>8, <1>9, <1>10, <1>13 DEF StrandInv

-----------------------------------------------------------------------------
(***************************************************************************)
(* The strands and what happened before: a segment Pair(u, n, x) is one    *)
(* that task u has run, or is about to run, in strand x.                   *)
(***************************************************************************)
Pair(u, n, x) ==
  \/ Mark(u, n, x)
  \/ u \in Task /\ status[u] \in {"ready", "running"} /\ n = seg[u] /\ x = current[u]

SegmentsInv ==
  /\ \A t \in Task : IF t <= spawned THEN seg[t] > 0 ELSE seg[t] = 0
  /\ \A t \in Task, n \in Nat : 0 < n /\ n < seg[t] => <<t, n>> \in before[t]
  /\ \A u, n, x : Mark(u, n, x) => /\ u \in Task /\ u <= spawned
                                   /\ n \in Nat /\ 0 < n /\ n <= seg[u]

(* What precedes the strand of a task happened before it, and only the     *)
(* task itself has been in its strand.                                     *)
OrderedInv ==
  \A u, n, x : Pair(u, n, x) =>
    \A t \in Task : t <= spawned =>
      /\ <<x, current[t]>> \in Both => <<u, n>> \in before[t]
      /\ x = current[t] => u = t

(* While main waits its next strand has not been run in, and the roots     *)
(* come after all that came before main: a sibling may go behind main.     *)
SiblingInv ==
  status[0] = "rootwait" =>
    /\ \A c \in Awaited(0) : before[0] \subseteq before[c]
    /\ \A u, n, x : Pair(u, n, x) => x # current[0]

PairInv == SegmentsInv /\ OrderedInv /\ SiblingInv

LEMMA PairFacts ==
  ASSUME TypeInv, StrandInv, SegmentsInv, NEW u, NEW n, NEW x, Pair(u, n, x)
  PROVE  /\ u \in Task /\ u <= spawned /\ n \in Nat /\ 0 < n /\ n <= seg[u]
         /\ Visited(x) /\ x \in Known
<1>1. u \in Task /\ u <= spawned /\ n \in Nat /\ 0 < n /\ n <= seg[u] /\ Visited(x)
  <2>1. CASE Mark(u, n, x)
    BY <2>1 DEF SegmentsInv, Visited
  <2>2. CASE u \in Task /\ status[u] \in {"ready", "running"} /\ n = seg[u] /\ x = current[u]
    <3>1. u <= spawned /\ seg[u] \in Nat
      BY <2>2 DEF TypeInv, TypeOK, ProgramTypeOK, FamilyInv, Births
    <3>2. QED
      BY <2>2, <3>1 DEF SegmentsInv, Visited
  <2>3. QED
    BY <2>1, <2>2 DEF Pair
<1>2. QED
  BY <1>1 DEF StrandInv, OrdersInv

LEMMA PairGrows ==
  ASSUME Note \/ stamps' = stamps, NEW u, NEW n, NEW x, Pair(u, n, x)'
  PROVE  \/ Mark(u, n, x)
         \/ /\ u \in Task /\ status'[u] \in {"ready", "running"}
            /\ n = seg'[u] /\ x = current'[u]
<1>1. Mark(u, n, x)' \/ /\ u \in Task /\ status'[u] \in {"ready", "running"}
                        /\ n = seg'[u] /\ x = current'[u]
  BY DEF Pair
<1>2. Mark(u, n, x)' => \/ Mark(u, n, x)
                        \/ u \in Task /\ status'[u] = "running" /\ n = seg'[u] /\ x = current'[u]
  BY MarkGrows
<1>3. QED
  BY <1>1, <1>2

(* A segment that is ready or running ends nothing that is there.          *)
LEMMA NewPairs ==
  ASSUME TypeInv', OrdersInv', NamesInv', FrontierInv',
         NEW u \in Task, status'[u] \in {"ready", "running"}
  PROVE  \A t \in Task : t <= spawned' =>
           /\ <<current'[u], current'[t]>> \notin Both'
           /\ current'[u] = current'[t] => u = t
<1>1. u <= spawned' /\ status'[u] # "finished"
  BY DEF TypeInv, TypeOK, ProgramTypeOK, FamilyInv, Births
<1>2. ASSUME NEW t \in Task, t <= spawned', NEW y, y = current'[t]
      PROVE  Visited(y)'
  BY <1>2 DEF Visited
<1>3. \A x : Visited(x)' => <<current'[u], x>> \notin Both'
  BY <1>1 DEF FrontierInv
<1>4. \A t \in Task : t <= spawned' => <<current'[u], current'[t]>> \notin Both'
  BY <1>2, <1>3
<1>5. QED
  BY <1>1, <1>4 DEF NamesInv

(* How a spawn and the end of a wait change the past of the tasks.         *)
LEMMA ForkPast ==
  ASSUME TypeInv, NEW s \in Task, NEW p \in Task, NEW c \in Task, NEW next,
         SpawnEvent(s, p, c, next)
  PROVE  /\ seg'[s] = seg[s] + 1 /\ seg'[c] = 1
         /\ before'[s] = before[s] \cup {<<s, seg[s]>>} /\ before'[c] = before'[s]
         /\ \A t \in Task : t # s /\ t # c => seg'[t] = seg[t] /\ before'[t] = before[t]
         /\ \A t \in Task : seg[t] \in Nat
         /\ lockPast' = lockPast
<1>1. s # c
  BY ForkFacts DEF SpawnEvent, TypeInv, TypeOK
<1>2. HBFork(s, c) /\ UNCHANGED lockPast
  BY DEF SpawnEvent, ForkStep, Create, lockStateVars
<1>3. seg \in [Task -> Nat] /\ DOMAIN before = Task
  BY DEF TypeInv, TypeOK, ProgramTypeOK
<1>4. QED
  BY <1>1, <1>2, <1>3 DEF HBFork, PastOf

LEMMA JoinPast ==
  ASSUME TypeInv, NEW t \in Task, Returns(t)
  PROVE  /\ seg'[t] = seg[t] + 1
         /\ \A u, n : <<u, n>> \in before'[t] <=>
              \/ <<u, n>> \in before[t] \/ (u = t /\ n = seg[t])
              \/ \E c \in Awaited(t) : <<u, n>> \in before[c] \/ (u = c /\ n = seg[c])
         /\ before[t] \subseteq before'[t]
         /\ \A u \in Task : u # t => seg'[u] = seg[u] /\ before'[u] = before[u]
         /\ \A u \in Task : seg[u] \in Nat
         /\ lockPast' = lockPast
<1>1. HBJoin(t, Awaited(t)) /\ UNCHANGED lockPast
  BY ReturnFacts DEF Returns, TypeInv, TypeOK, lockStateVars
<1>2. seg \in [Task -> Nat] /\ DOMAIN before = Task
  BY DEF TypeInv, TypeOK, ProgramTypeOK
<1>3. before'[t] = PastOf(t) \cup UNION {PastOf(c) : c \in Awaited(t)}
  BY <1>1, <1>2 DEF HBJoin
<1>4. ASSUME NEW u, NEW n
      PROVE  <<u, n>> \in before'[t] <=>
               \/ <<u, n>> \in before[t] \/ (u = t /\ n = seg[t])
               \/ \E c \in Awaited(t) : <<u, n>> \in before[c] \/ (u = c /\ n = seg[c])
  BY <1>3 DEF PastOf
<1>5. before[t] \subseteq before'[t]
  BY <1>3 DEF PastOf
<1>6. QED
  BY <1>1, <1>2, <1>4, <1>5 DEF HBJoin

LEMMA ForkKeepsSegments ==
  ASSUME TypeInv, TypeInv', SegmentsInv, Note,
         NEW s \in Task, NEW p \in Task, NEW c \in Task, NEW next,
         SpawnEvent(s, p, c, next)
  PROVE  SegmentsInv'
<1>1. /\ seg'[s] = seg[s] + 1 /\ seg'[c] = 1
      /\ before'[s] = before[s] \cup {<<s, seg[s]>>}
      /\ \A t \in Task : t # s /\ t # c => seg'[t] = seg[t] /\ before'[t] = before[t]
      /\ \A t \in Task : seg[t] \in Nat
  BY ForkPast
<1>2. /\ spawned \in Nat /\ c = spawned + 1 /\ spawned' = c /\ s <= spawned /\ s # c
  BY ForkFacts DEF SpawnEvent, TypeInv, TypeOK
<1>3. \A t \in Task : t <= spawned' <=> t <= spawned \/ t = c
  BY <1>2, TaskFacts
<1>4. /\ \A t \in Task : IF t <= spawned THEN seg[t] > 0 ELSE seg[t] = 0
      /\ \A t \in Task, n \in Nat : 0 < n /\ n < seg[t] => <<t, n>> \in before[t]
      /\ \A u, n, x : Mark(u, n, x) => /\ u \in Task /\ u <= spawned
                                       /\ n \in Nat /\ 0 < n /\ n <= seg[u]
  BY DEF SegmentsInv
<1>5. ASSUME NEW t \in Task PROVE IF t <= spawned' THEN seg'[t] > 0 ELSE seg'[t] = 0
  <2>1. CASE t = s
    <3>1. t <= spawned' /\ seg[s] \in Nat
      BY <1>1, <1>2, <1>3, <2>1
    <3>2. QED
      BY <1>1, <2>1, <3>1
  <2>2. CASE t = c
    <3>1. t <= spawned'
      BY <1>3, <2>2
    <3>2. QED
      BY <1>1, <2>2, <3>1
  <2>3. CASE t # s /\ t # c
    <3>1. (t <= spawned' <=> t <= spawned) /\ seg'[t] = seg[t]
      BY <1>1, <1>3, <2>3
    <3>2. QED
      BY <1>4, <3>1
  <2>4. QED
    BY <2>1, <2>2, <2>3
<1>6. ASSUME NEW t \in Task, NEW n \in Nat, 0 < n, n < seg'[t]
      PROVE  <<t, n>> \in before'[t]
  <2>1. CASE t = s
    <3>1. n < seg[s] \/ n = seg[s]
      BY <1>1, <1>6, <2>1
    <3>2. QED
      BY <1>1, <1>4, <1>6, <2>1, <3>1
  <2>2. CASE t = c
    BY <1>1, <1>6, <2>2
  <2>3. CASE t # s /\ t # c
    BY <1>1, <1>4, <1>6, <2>3
  <2>4. QED
    BY <2>1, <2>2, <2>3
<1>7. ASSUME NEW u, NEW n, NEW x, Mark(u, n, x)'
      PROVE  u \in Task /\ u <= spawned' /\ n \in Nat /\ 0 < n /\ n <= seg'[u]
  <2>1. CASE Mark(u, n, x)
    <3>1. u \in Task /\ u <= spawned /\ n \in Nat /\ 0 < n /\ n <= seg[u]
      BY <1>4, <2>1
    <3>2. u # c
      BY <1>2, <3>1
    <3>3. QED
      BY <1>1, <1>3, <3>1, <3>2
  <2>2. CASE u \in Task /\ status'[u] = "running" /\ n = seg'[u] /\ x = current'[u]
    <3>1. u <= spawned'
      BY <2>2 DEF TypeInv, FamilyInv, Births
    <3>2. QED
      BY <1>5, <2>2, <3>1 DEF TypeInv, TypeOK, ProgramTypeOK
  <2>3. QED
    BY <1>7, <2>1, <2>2, NoteFacts
<1>8. QED
  BY <1>5, <1>6, <1>7 DEF SegmentsInv

(* What was up to the strand of the spawning task is past for it and its   *)
(* child.                                                                  *)
LEMMA ForkReaches ==
  ASSUME TypeInv, StrandInv, PairInv,
         NEW s \in Task, NEW p \in Task, NEW c \in Task, NEW next,
         SpawnEvent(s, p, c, next),
         NEW u, NEW n, NEW x, Mark(u, n, x), UpTo(Both, x, current[p])
  PROVE  <<u, n>> \in before'[p] /\ <<u, n>> \in before'[c]
<1>1. /\ before'[s] = before[s] \cup {<<s, seg[s]>>} /\ before'[c] = before'[s]
      /\ \A t \in Task : t # s /\ t # c => before'[t] = before[t]
      /\ \A t \in Task : seg[t] \in Nat
  BY ForkPast
<1>2. /\ s <= spawned /\ p <= spawned /\ p # c /\ status[s] = "running"
      /\ p # s => p = 0 /\ status[p] = "rootwait" /\ s # 0
  BY ForkFacts DEF SpawnEvent, TypeInv, TypeOK
<1>3. Pair(u, n, x)
  BY DEF Pair
<1>4. u \in Task /\ n \in Nat /\ 0 < n /\ n <= seg[u]
  BY <1>3, PairFacts DEF PairInv
<1>5. /\ <<x, current[p]>> \in Both => <<u, n>> \in before[p]
      /\ x = current[p] => u = p
  BY <1>2, <1>3 DEF PairInv, OrderedInv
<1>6. CASE p = s
  <2>1. x = current[p] => <<u, n>> \in before'[s]
    BY <1>1, <1>4, <1>5, <1>6 DEF PairInv, SegmentsInv
  <2>2. QED
    BY <1>1, <1>5, <1>6, <2>1 DEF UpTo
<1>7. CASE p # s
  <2>1. p = 0 /\ status[0] = "rootwait" /\ s \in Awaited(0)
    <3>1. p = parent[s]
      BY <1>7 DEF SpawnEvent, ForkStep
    <3>2. QED
      BY <1>2, <1>7, <3>1 DEF TypeInv, FamilyInv, Parents
  <2>2. before[0] \subseteq before[s] /\ x # current[p]
    BY <1>3, <2>1 DEF PairInv, SiblingInv
  <2>3. QED
    BY <1>1, <1>2, <1>5, <1>7, <2>1, <2>2 DEF UpTo
<1>8. QED
  BY <1>6, <1>7

LEMMA ForkKeepsOrdered ==
  ASSUME TypeInv, TypeInv', StrandInv, StrandInv', PairInv, Note,
         NEW s \in Task, NEW p \in Task, NEW c \in Task, NEW next,
         SpawnEvent(s, p, c, next)
  PROVE  OrderedInv'
<1>1. PICK W : W = NewStrands(p, c)
  OBVIOUS
<1>2. W \subseteq Strand \ Known /\ BehindTheOld(p, W)
  <2>1. W \subseteq Strand \ Known
    BY <1>1, ForkOrders, Zenon DEF StrandInv
  <2>2. BehindTheOld(p, W)
    BY <1>1, ForkPrec, Zenon DEF StrandInv
  <2>3. QED
    BY <2>1, <2>2
<1>3. /\ \A x, y \in Known : <<x, y>> \in Both' <=> <<x, y>> \in Both
      /\ \A x \in Known : \A w \in W : <<x, w>> \in Both' <=> UpTo(Both, x, current[p])
  BY <1>2 DEF BehindTheOld
<1>4. ChildStrand(c) \in W /\ NextStrand(c) \in W
  BY <1>1 DEF NewStrands
<1>5. /\ \A t \in Task : t <= spawned' <=> t <= spawned \/ t = c
      /\ current'[p] = NextStrand(c) /\ current'[c] = ChildStrand(c)
      /\ \A t \in Task : t # p /\ t # c => current'[t] = current[t]
  BY ForkVisits DEF StrandInv
<1>6. \A t \in Task : t <= spawned => current[t] \in Known
  BY DEF StrandInv, OrdersInv, Visited
<1>7. \A t \in Task : t # c => before[t] \subseteq before'[t]
  BY ForkPast
<1>8. ASSUME NEW u, NEW n, NEW x, Mark(u, n, x), NEW t \in Task, t <= spawned'
      PROVE  /\ <<x, current'[t]>> \in Both' => <<u, n>> \in before'[t]
             /\ x = current'[t] => u = t
  <2>1. Pair(u, n, x)
    BY <1>8 DEF Pair
  <2>2. x \in Known
    BY <2>1, PairFacts DEF PairInv
  <2>3. CASE t = p \/ t = c
    <3>1. current'[t] \in W
      BY <1>4, <1>5, <2>3
    <3>2. x # current'[t] /\ (<<x, current'[t]>> \in Both' <=> UpTo(Both, x, current[p]))
      BY <1>2, <1>3, <2>2, <3>1
    <3>3. UpTo(Both, x, current[p]) => <<u, n>> \in before'[p] /\ <<u, n>> \in before'[c]
      BY <1>8, ForkReaches
    <3>4. QED
      BY <2>3, <3>2, <3>3
  <2>4. CASE t # p /\ t # c
    <3>1. t <= spawned /\ current'[t] = current[t] /\ current[t] \in Known
      BY <1>5, <1>6, <1>8, <2>4
    <3>2. /\ <<x, current[t]>> \in Both => <<u, n>> \in before[t]
          /\ x = current[t] => u = t
      BY <2>1, <3>1 DEF PairInv, OrderedInv
    <3>3. QED
      BY <1>3, <1>7, <2>2, <2>4, <3>1, <3>2
  <2>5. QED
    BY <2>3, <2>4
<1>9. ASSUME NEW u, NEW n, NEW x, Pair(u, n, x)', NEW t \in Task, t <= spawned'
      PROVE  /\ <<x, current'[t]>> \in Both' => <<u, n>> \in before'[t]
             /\ x = current'[t] => u = t
  <2>1. CASE Mark(u, n, x)
    BY <1>8, <1>9, <2>1
  <2>2. CASE u \in Task /\ status'[u] \in {"ready", "running"} /\ x = current'[u]
    BY <1>9, <2>2, NewPairs DEF StrandInv
  <2>3. QED
    BY <1>9, <2>1, <2>2, PairGrows
<1>10. QED
  BY <1>9 DEF OrderedInv

LEMMA ForkKeepsSibling ==
  ASSUME TypeInv, TypeInv', StrandInv, StrandInv', PairInv, Note,
         NEW s \in Task, NEW p \in Task, NEW c \in Task, NEW next,
         SpawnEvent(s, p, c, next), status'[0] = "rootwait"
  PROVE  /\ \A d \in Awaited(0)' : before'[0] \subseteq before'[d]
         /\ \A u, n, x : Pair(u, n, x)' => x # current'[0]
<1>1. /\ p # c /\ s # c /\ c # 0 /\ status[s] = "running" /\ status'[s] = next
      /\ \A t \in Task : t # c /\ t # s => status'[t] = status[t]
      /\ Awaited(p)' = Awaited(p) \cup {c}
      /\ \A t \in Task : t # p => Awaited(t)' = Awaited(t)
      /\ p # s => p = 0 /\ status[p] = "rootwait" /\ s # 0
      /\ s <= spawned /\ ~ (c <= spawned)
  BY ForkFacts DEF SpawnEvent, TypeInv, TypeOK
<1>2. 0 \in Task /\ \A d \in Awaited(0) : d \in Task /\ d <= spawned /\ d # 0
  <2>1. Awaited(0) \subseteq Task /\ 0 \in Task
    BY TaskFacts DEF TypeInv, TypeOK, ProgramTypeOK, Awaited
  <2>2. QED
    BY <2>1 DEF TypeInv, FamilyInv, Parents
<1>3. /\ before'[c] = before'[s] /\ before[s] \subseteq before'[s]
      /\ \A t \in Task : t # s /\ t # c => before'[t] = before[t]
  BY ForkPast
<1>4. /\ current'[p] = NextStrand(c)
      /\ \A t \in Task : t # p /\ t # c => current'[t] = current[t]
  BY ForkVisits DEF StrandInv
<1>5. NextStrand(c) \notin Known
  <2>1. \A w \in NewStrands(p, c) : w \notin Known
    BY ForkOrders DEF StrandInv
  <2>2. QED
    BY <2>1 DEF NewStrands
<1>6. s # 0 => status[0] = "rootwait" /\ before'[0] = before[0]
  BY <1>1, <1>2, <1>3
<1>7. \A d \in Awaited(0)' : before'[0] \subseteq before'[d]
  <2>1. CASE s = 0
    <3>1. p = 0 /\ Awaited(0) = {}
      BY <1>1, <1>2, <2>1 DEF TypeInv, FamilyInv, Waits, Awaited
    <3>2. QED
      BY <1>1, <1>3, <2>1, <3>1
  <2>2. CASE s # 0 /\ p = s
    <3>1. Awaited(0)' = Awaited(0)
      BY <1>1, <1>2, <2>2
    <3>2. \A d \in Awaited(0) : before[0] \subseteq before[d] /\ before[d] \subseteq before'[d]
      <4>1. \A d \in Awaited(0) : d # c
        BY <1>1, <1>2
      <4>2. QED
        BY <1>2, <1>3, <1>6, <2>2, <4>1 DEF PairInv, SiblingInv
    <3>3. QED
      BY <1>6, <2>2, <3>1, <3>2
  <2>3. CASE p # s
    <3>1. p = 0 /\ p = parent[s] /\ s # 0
      BY <1>1, <2>3 DEF SpawnEvent, ForkStep
    <3>2. s \in Awaited(0)
      BY <1>1, <3>1 DEF TypeInv, FamilyInv, Parents
    <3>3. \A d \in Awaited(0) : before[0] \subseteq before[d] /\ before[d] \subseteq before'[d]
      <4>1. \A d \in Awaited(0) : d # c
        BY <1>1, <1>2
      <4>2. QED
        BY <1>2, <1>3, <1>6, <3>1, <4>1 DEF PairInv, SiblingInv
    <3>4. QED
      BY <1>1, <1>3, <1>6, <3>1, <3>2, <3>3
  <2>4. QED
    BY <2>1, <2>2, <2>3
<1>8. ASSUME NEW u, NEW n, NEW x, Mark(u, n, x) PROVE x # current'[0]
  <2>1. Pair(u, n, x)
    BY <1>8 DEF Pair
  <2>2. CASE p = 0
    BY <1>4, <1>5, <2>1, <2>2, PairFacts DEF PairInv
  <2>3. CASE p # 0
    <3>1. s # 0 /\ current'[0] = current[0]
      BY <1>1, <1>2, <1>4, <2>3
    <3>2. QED
      BY <1>6, <2>1, <3>1 DEF PairInv, SiblingInv
  <2>4. QED
    BY <2>2, <2>3
<1>9. ASSUME NEW u, NEW n, NEW x, Pair(u, n, x)' PROVE x # current'[0]
  <2>1. CASE u \in Task /\ status'[u] \in {"ready", "running"} /\ x = current'[u]
    <3>1. 0 <= spawned'
      BY <1>2 DEF TypeInv, FamilyInv, Births
    <3>2. QED
      BY <1>2, <2>1, <3>1, NewPairs DEF StrandInv
  <2>2. QED
    BY <1>8, <1>9, <2>1, PairGrows
<1>10. QED
  BY <1>7, <1>9

LEMMA ForkKeepsPairs ==
  ASSUME TypeInv, TypeInv', StrandInv, StrandInv', PairInv, Note,
         NEW s \in Task, NEW p \in Task, NEW c \in Task, NEW next,
         SpawnEvent(s, p, c, next)
  PROVE  PairInv'
<1>1. SegmentsInv' /\ OrderedInv'
  BY ForkKeepsSegments, ForkKeepsOrdered DEF PairInv
<1>2. SiblingInv'
  <2>1. Awaited(0)' = (tbb_children'[0] \cup tbb_roots'[0])
    BY DEF Awaited
  <2>2. status'[0] = "rootwait" =>
          /\ \A d \in Awaited(0)' : before'[0] \subseteq before'[d]
          /\ \A u, n, x : Pair(u, n, x)' => x # current'[0]
    BY ForkKeepsSibling
  <2>3. QED
    BY <2>1, <2>2 DEF SiblingInv
<1>3. QED
  BY <1>1, <1>2 DEF PairInv

LEMMA JoinKeepsPairs ==
  ASSUME TypeInv, TypeInv', StrandInv, StrandInv', PairInv, Note,
         NEW t \in Task, Returns(t)
  PROVE  PairInv'
<1>1. /\ sync[t] # NULL /\ current'[t] = sync[t]
      /\ \A u \in Task : u # t => current'[u] = current[u]
      /\ Both' = Both /\ spawned' = spawned /\ t <= spawned
      /\ \A c \in Awaited(t) : c \in Task /\ c <= spawned /\ Fin(c) = current[c]
  BY JoinFacts DEF StrandInv
<1>2. /\ seg'[t] = seg[t] + 1
      /\ \A u, n : <<u, n>> \in before'[t] <=>
           \/ <<u, n>> \in before[t] \/ (u = t /\ n = seg[t])
           \/ \E c \in Awaited(t) : <<u, n>> \in before[c] \/ (u = c /\ n = seg[c])
      /\ before[t] \subseteq before'[t]
      /\ \A u \in Task : u # t => seg'[u] = seg[u] /\ before'[u] = before[u]
      /\ \A u \in Task : seg[u] \in Nat
  BY JoinPast
<1>3. /\ status'[t] = "running" /\ \A u \in Task : u # t => status'[u] = status[u]
      /\ \A u \in Task : u # t => Awaited(u)' = Awaited(u)
  BY ReturnFacts DEF Returns, TypeInv, TypeOK
<1>4. /\ \A u \in Task : IF u <= spawned THEN seg[u] > 0 ELSE seg[u] = 0
      /\ \A u \in Task, n \in Nat : 0 < n /\ n < seg[u] => <<u, n>> \in before[u]
      /\ \A u, n, x : Mark(u, n, x) => /\ u \in Task /\ u <= spawned
                                       /\ n \in Nat /\ 0 < n /\ n <= seg[u]
  BY DEF PairInv, SegmentsInv
<1>5. SegmentsInv'
  <2>1. \A u \in Task : IF u <= spawned' THEN seg'[u] > 0 ELSE seg'[u] = 0
    BY <1>1, <1>2, <1>4
  <2>2. ASSUME NEW u \in Task, NEW n \in Nat, 0 < n, n < seg'[u]
        PROVE  <<u, n>> \in before'[u]
    <3>1. CASE u = t
      <4>1. n < seg[t] \/ n = seg[t]
        BY <1>2, <2>2, <3>1
      <4>2. QED
        BY <1>2, <1>4, <2>2, <3>1, <4>1
    <3>2. CASE u # t
      BY <1>2, <1>4, <2>2, <3>2
    <3>3. QED
      BY <3>1, <3>2
  <2>3. ASSUME NEW u, NEW n, NEW x, Mark(u, n, x)'
        PROVE  u \in Task /\ u <= spawned' /\ n \in Nat /\ 0 < n /\ n <= seg'[u]
    <3>1. CASE Mark(u, n, x)
      BY <1>1, <1>2, <1>4, <3>1
    <3>2. CASE u \in Task /\ status'[u] = "running" /\ n = seg'[u] /\ x = current'[u]
      <4>1. u <= spawned'
        BY <3>2 DEF TypeInv, FamilyInv, Births
      <4>2. QED
        BY <2>1, <3>2, <4>1 DEF TypeInv, TypeOK, ProgramTypeOK
    <3>3. QED
      BY <2>3, <3>1, <3>2, MarkGrows
  <2>4. QED
    BY <2>1, <2>2, <2>3 DEF SegmentsInv
<1>6. ASSUME NEW u, NEW n, NEW x, Mark(u, n, x), NEW v \in Task, v <= spawned'
      PROVE  /\ <<x, current'[v]>> \in Both' => <<u, n>> \in before'[v]
             /\ x = current'[v] => u = v
  <2>1. Pair(u, n, x)
    BY <1>6 DEF Pair
  <2>2. /\ x \in Known /\ Visited(x) /\ n \in Nat /\ 0 < n /\ n <= seg[u] /\ u \in Task
    BY <2>1, PairFacts DEF PairInv
  <2>3. \A w \in Task : w <= spawned =>
          /\ <<x, current[w]>> \in Both => <<u, n>> \in before[w]
          /\ x = current[w] => u = w
    BY <2>1 DEF PairInv, OrderedInv
  <2>4. CASE v # t
    BY <1>1, <1>2, <1>6, <2>3, <2>4
  <2>5. CASE v = t
    <3>1. x # sync[t]
      BY <1>1, <2>2 DEF StrandInv, FrontierInv, UpTo
    <3>2. <<x, sync[t]>> \in Both => \/ UpTo(Both, x, current[t])
                                     \/ \E c \in Awaited(t) : UpTo(Both, x, current[c])
      BY <1>1, <2>2 DEF StrandInv, SyncInv
    <3>3. \A w \in Task : w <= spawned /\ UpTo(Both, x, current[w]) =>
            <<u, n>> \in before[w] \/ (u = w /\ n = seg[w])
      <4>1. ASSUME NEW w \in Task, w <= spawned, x = current[w]
            PROVE  <<u, n>> \in before[w] \/ (u = w /\ n = seg[w])
        <5>1. u = w /\ (n < seg[w] \/ n = seg[w])
          <6>1. u = w
            BY <2>3, <4>1
          <6>2. n \in Nat /\ seg[w] \in Nat /\ n <= seg[w]
            BY <1>2, <2>2, <6>1
          <6>3. QED
            BY <6>1, <6>2
        <5>2. QED
          BY <1>4, <2>2, <5>1
      <4>2. QED
        BY <2>3, <4>1 DEF UpTo
    <3>4. <<x, sync[t]>> \in Both => <<u, n>> \in before'[t]
      BY <1>1, <1>2, <3>2, <3>3
    <3>5. QED
      BY <1>1, <2>5, <3>1, <3>4
  <2>6. QED
    BY <2>4, <2>5
<1>7. ASSUME NEW u, NEW n, NEW x, Pair(u, n, x)', NEW v \in Task, v <= spawned'
      PROVE  /\ <<x, current'[v]>> \in Both' => <<u, n>> \in before'[v]
             /\ x = current'[v] => u = v
  <2>1. CASE Mark(u, n, x)
    BY <1>6, <1>7, <2>1
  <2>2. CASE u \in Task /\ status'[u] \in {"ready", "running"} /\ x = current'[u]
    BY <1>7, <2>2, NewPairs DEF StrandInv
  <2>3. QED
    BY <1>7, <2>1, <2>2, PairGrows
<1>8. OrderedInv'
  BY <1>7 DEF OrderedInv
<1>9. ASSUME status'[0] = "rootwait"
      PROVE  /\ \A d \in Awaited(0)' : before'[0] \subseteq before'[d]
             /\ \A u, n, x : Pair(u, n, x)' => x # current'[0]
  <2>1. 0 \in Task /\ t # 0
    BY <1>3, <1>9, TaskFacts
  <2>2. /\ Awaited(0)' = Awaited(0) /\ before'[0] = before[0] /\ current'[0] = current[0]
        /\ status[0] = "rootwait"
    BY <1>1, <1>2, <1>3, <1>9, <2>1
  <2>3. \A d \in Awaited(0) : d \in Task
    BY <2>1 DEF TypeInv, TypeOK, ProgramTypeOK, Awaited
  <2>4. \A u \in Task : before[u] \subseteq before'[u]
    BY <1>2
  <2>5. \A d \in Awaited(0)' : before'[0] \subseteq before'[d]
    BY <2>2, <2>3, <2>4 DEF PairInv, SiblingInv
  <2>6. ASSUME NEW u, NEW n, NEW x, Pair(u, n, x)' PROVE x # current'[0]
    <3>1. CASE Mark(u, n, x)
      BY <2>2, <3>1 DEF PairInv, SiblingInv, Pair
    <3>2. CASE u \in Task /\ status'[u] \in {"ready", "running"} /\ x = current'[u]
      <4>1. 0 <= spawned'
        BY <1>9, <2>1 DEF TypeInv, FamilyInv, Births
      <4>2. QED
        BY <1>9, <2>1, <3>2, <4>1, NewPairs DEF StrandInv
    <3>3. QED
      BY <2>6, <3>1, <3>2, PairGrows
  <2>7. QED
    BY <2>5, <2>6
<1>10. SiblingInv'
  <2>1. Awaited(0)' = (tbb_children'[0] \cup tbb_roots'[0])
    BY DEF Awaited
  <2>2. QED
    BY <1>9, <2>1 DEF SiblingInv
<1>11. QED
  BY <1>5, <1>8, <1>10 DEF PairInv

-----------------------------------------------------------------------------
(***************************************************************************)
(* The events that leave the strands alone: a task begins, ends or stops   *)
(* to wait, takes or gives back a lock, or accesses the address.           *)
(***************************************************************************)
Quiet(t) ==
  /\ Moves(t)
  /\ UNCHANGED <<english, hebrew, current, sync>>
  /\ \A u \in Task : u # t => seg'[u] = seg[u] /\ before'[u] = before[u]
  /\ before[t] \subseteq before'[t]
  /\ \/ seg'[t] = seg[t]
     \/ status[t] = "running" /\ seg'[t] = seg[t] + 1 /\ <<t, seg[t]>> \in before'[t]
  /\ status[t] # "running" => before'[t] = before[t]
  /\ ~ LockOrder /\ (\A l \in Locks : lockPast[l] = {}) =>
       UNCHANGED <<seg, before, lockPast>>

LEMMA QuietFacts ==
  ASSUME TypeInv, NEW t \in Task,
         \/ Begins(t) \/ Ends(t) \/ Stops(t)
         \/ \E l \in Locks : LockStep(t, l)
         \/ \E kind \in AccessType : Access(t, kind)
         \/ IdleWait(t)
         \/ UNCHANGED vars
  PROVE  Quiet(t)
<1>1. seg \in [Task -> Nat] /\ before \in [Task -> SUBSET (Task \X Nat)]
  BY DEF TypeInv, TypeOK, ProgramTypeOK
<1>2. ASSUME Moves(t), UNCHANGED <<english, hebrew, current, sync>>,
             UNCHANGED <<seg, before, lockPast>>
      PROVE  Quiet(t)
  BY <1>2 DEF Quiet
<1>3. CASE Begins(t) \/ Ends(t) \/ Stops(t)
  <2>1. Moves(t) /\ UNCHANGED <<lockStateVars, hbVars>>
    BY <1>3, MoveFacts DEF TypeInv
  <2>2. UNCHANGED <<english, hebrew, current, sync>>
    BY <1>3 DEF Begins, Ends, Stops, CRacerExecBegin, cracerVars, strandVars, detectorVars
  <2>3. QED
    BY <1>2, <2>1, <2>2 DEF lockStateVars, hbVars, orderVars
<1>4. ASSUME NEW l \in Locks, LockStep(t, l) PROVE Quiet(t)
  <2>1. /\ Moves(t) /\ UNCHANGED <<english, hebrew, current, sync>>
        /\ Acquire(t, l) \/ Release(t, l)
    BY <1>4, LockFacts DEF cracerVars, strandVars
  <2>2. CASE Acquire(t, l)
    <3>1. /\ status[t] = "running" /\ seg' = seg /\ lockPast' = lockPast
          /\ before' = [before EXCEPT ![t] = @ \cup lockPast[l]]
      BY <2>2 DEF Acquire, Running
    <3>2. lockPast[l] = {} => before' = before
      BY <1>1, <3>1
    <3>3. QED
      BY <1>1, <2>1, <3>1, <3>2 DEF Quiet
  <2>3. CASE Release(t, l)
    <3>1. status[t] = "running"
      BY <2>3 DEF Release, Running
    <3>2. CASE LockOrder
      <4>1. /\ seg' = [seg EXCEPT ![t] = @ + 1]
            /\ before' = [before EXCEPT ![t] = PastOf(t) \cup UNION {PastOf(c) : c \in {}}]
        BY <2>3, <3>2 DEF Release, HBJoin
      <4>2. /\ seg'[t] = seg[t] + 1 /\ <<t, seg[t]>> \in before'[t]
            /\ before[t] \subseteq before'[t]
            /\ \A u \in Task : u # t => seg'[u] = seg[u] /\ before'[u] = before[u]
        BY <1>1, <4>1 DEF PastOf
      <4>3. QED
        BY <2>1, <3>1, <3>2, <4>2 DEF Quiet
    <3>3. CASE ~ LockOrder
      BY <1>2, <2>1, <2>3, <3>3 DEF Release, orderVars
    <3>4. QED
      BY <3>2, <3>3
  <2>4. QED
    BY <2>1, <2>2, <2>3
<1>5. ASSUME NEW kind \in AccessType, Access(t, kind) PROVE Quiet(t)
  <2>1. /\ Moves(t) /\ UNCHANGED <<lockStateVars, orderVars, strandVars>>
    BY <1>5, AccessFacts
  <2>2. QED
    BY <1>2, <2>1 DEF lockStateVars, orderVars, strandVars
<1>6. CASE UNCHANGED vars
  BY <1>2, <1>6 DEF vars, programVars, taskStateVars, lockStateVars, hbVars, orderVars,
                    detectorVars, cracerVars, strandVars, Moves
<1>7. CASE IdleWait(t)
  BY <1>2, <1>7, IdleFacts DEF lockStateVars, hbVars, orderVars, cracerVars, strandVars
<1>8. QED
  BY <1>3, <1>4, <1>5, <1>6, <1>7

LEMMA QuietKeepsStrands ==
  ASSUME TypeInv, TypeInv', StrandInv, Note \/ stamps' = stamps, NEW t \in Task, Quiet(t)
  PROVE  StrandInv'
<1>1. /\ english' = english /\ hebrew' = hebrew /\ current' = current /\ sync' = sync
      /\ tbb_children' = tbb_children /\ tbb_roots' = tbb_roots /\ spawned' = spawned
  BY DEF Quiet, Moves
<1>2. /\ Known' = Known /\ Both' = Both
      /\ \A u \in Task : Awaited(u)' = Awaited(u) /\ Fin(u)' = Fin(u)
  BY <1>1 DEF Known, Both, Awaited, Fin
<1>3. \A x : Visited(x)' => Visited(x)
  <2>1. \A x : Visited(x)' => Visited(x) \/ \E u \in Task : u <= spawned' /\ x = current'[u]
    BY VisitedFacts DEF TypeInv, TypeOK
  <2>2. QED
    BY <1>1, <2>1 DEF Visited
<1>4. \A u \in Task : status[u] = "finished" => status'[u] = "finished"
  BY DEF Quiet, Moves, TypeInv, TypeOK, ProgramTypeOK
<1>5. OrdersInv'
  BY <1>1, <1>2, <1>3 DEF StrandInv, OrdersInv
<1>6. NamesInv'
  BY <1>1 DEF StrandInv, NamesInv, Awaited
<1>7. SyncInv'
  <2>1. ASSUME NEW u \in Task, sync'[u] # NULL, NEW x \in Known'
        PROVE  <<x, sync'[u]>> \in Both' <=> \/ UpTo(Both', x, current'[u])
                                             \/ \E c \in Awaited(u)' : UpTo(Both', x, Fin(c)')
    <3>1. Awaited(u) \subseteq Task
      BY DEF Awaited, TypeInv, TypeOK, ProgramTypeOK
    <3>2. <<x, sync[u]>> \in Both <=> \/ UpTo(Both, x, current[u])
                                      \/ \E c \in Awaited(u) : UpTo(Both, x, Fin(c))
      BY <1>1, <1>2, <2>1 DEF StrandInv, SyncInv
    <3>3. QED
      BY <1>1, <1>2, <3>1, <3>2
  <2>2. QED
    BY <2>1 DEF SyncInv
<1>8. FrontierInv'
  BY <1>1, <1>2, <1>3, <1>4 DEF StrandInv, FrontierInv
<1>9. QED
  BY <1>5, <1>6, <1>7, <1>8 DEF StrandInv

LEMMA QuietKeepsPairs ==
  ASSUME TypeInv, TypeInv', StrandInv, StrandInv', PairInv, Note \/ stamps' = stamps,
         NEW t \in Task, Quiet(t)
  PROVE  PairInv'
<1>1. /\ current' = current /\ Both' = Both /\ spawned' = spawned
      /\ tbb_children' = tbb_children /\ tbb_roots' = tbb_roots
      /\ \A u \in Task : u # t => seg'[u] = seg[u] /\ before'[u] = before[u]
      /\ \A u \in Task : before[u] \subseteq before'[u]
      /\ \/ seg'[t] = seg[t]
         \/ status[t] = "running" /\ seg'[t] = seg[t] + 1 /\ <<t, seg[t]>> \in before'[t]
      /\ status[t] # "running" => before'[t] = before[t]
      /\ \A u \in Task : status'[u] = "rootwait" => status[u] = "rootwait"
      /\ \A u \in Task : seg[u] \in Nat
  BY DEF Quiet, Moves, Both, TypeInv, TypeOK, ProgramTypeOK
<1>2. /\ \A u \in Task : IF u <= spawned THEN seg[u] > 0 ELSE seg[u] = 0
      /\ \A u \in Task, n \in Nat : 0 < n /\ n < seg[u] => <<u, n>> \in before[u]
      /\ \A u, n, x : Mark(u, n, x) => /\ u \in Task /\ u <= spawned
                                       /\ n \in Nat /\ 0 < n /\ n <= seg[u]
  BY DEF PairInv, SegmentsInv
<1>3. status[t] = "running" => t <= spawned
  BY DEF TypeInv, FamilyInv, Births
<1>4. SegmentsInv'
  <2>1. \A u \in Task : IF u <= spawned' THEN seg'[u] > 0 ELSE seg'[u] = 0
    BY <1>1, <1>2, <1>3
  <2>2. ASSUME NEW u \in Task, NEW n \in Nat, 0 < n, n < seg'[u]
        PROVE  <<u, n>> \in before'[u]
    <3>1. CASE u = t /\ seg'[t] = seg[t] + 1 /\ <<t, seg[t]>> \in before'[t]
      <4>1. n < seg[t] \/ n = seg[t]
        BY <1>1, <2>2, <3>1
      <4>2. QED
        BY <1>1, <1>2, <2>2, <3>1, <4>1
    <3>2. CASE seg'[u] = seg[u]
      BY <1>1, <1>2, <2>2, <3>2
    <3>3. QED
      BY <1>1, <3>1, <3>2
  <2>3. ASSUME NEW u, NEW n, NEW x, Mark(u, n, x)'
        PROVE  u \in Task /\ u <= spawned' /\ n \in Nat /\ 0 < n /\ n <= seg'[u]
    <3>1. CASE Mark(u, n, x)
      BY <1>1, <1>2, <3>1
    <3>2. CASE u \in Task /\ status'[u] = "running" /\ n = seg'[u] /\ x = current'[u]
      <4>1. u <= spawned'
        BY <3>2 DEF TypeInv, FamilyInv, Births
      <4>2. QED
        BY <2>1, <3>2, <4>1 DEF TypeInv, TypeOK, ProgramTypeOK
    <3>3. QED
      BY <2>3, <3>1, <3>2, MarkGrows
  <2>4. QED
    BY <2>1, <2>2, <2>3 DEF SegmentsInv
<1>5. ASSUME NEW u, NEW n, NEW x, Pair(u, n, x)', NEW v \in Task, v <= spawned'
      PROVE  /\ <<x, current'[v]>> \in Both' => <<u, n>> \in before'[v]
             /\ x = current'[v] => u = v
  <2>1. CASE Mark(u, n, x)
    BY <1>1, <1>5, <2>1 DEF Pair, PairInv, OrderedInv
  <2>2. CASE u \in Task /\ status'[u] \in {"ready", "running"} /\ x = current'[u]
    BY <1>5, <2>2, NewPairs DEF StrandInv
  <2>3. QED
    BY <1>5, <2>1, <2>2, PairGrows
<1>6. OrderedInv'
  BY <1>5 DEF OrderedInv
<1>7. ASSUME status'[0] = "rootwait"
      PROVE  /\ \A d \in Awaited(0)' : before'[0] \subseteq before'[d]
             /\ \A u, n, x : Pair(u, n, x)' => x # current'[0]
  <2>1. 0 \in Task /\ status[0] = "rootwait" /\ before'[0] = before[0]
    BY <1>1, <1>7, TaskFacts
  <2>2. Awaited(0)' = Awaited(0) /\ \A d \in Awaited(0) : d \in Task
    BY <1>1, <2>1 DEF TypeInv, TypeOK, ProgramTypeOK, Awaited
  <2>3. \A d \in Awaited(0)' : before'[0] \subseteq before'[d]
    BY <1>1, <2>1, <2>2 DEF PairInv, SiblingInv
  <2>4. ASSUME NEW u, NEW n, NEW x, Pair(u, n, x)' PROVE x # current'[0]
    <3>1. CASE Mark(u, n, x)
      BY <1>1, <2>1, <3>1 DEF PairInv, SiblingInv, Pair
    <3>2. CASE u \in Task /\ status'[u] \in {"ready", "running"} /\ x = current'[u]
      <4>1. 0 <= spawned'
        BY <1>7, <2>1 DEF TypeInv, FamilyInv, Births
      <4>2. QED
        BY <1>7, <2>1, <3>2, <4>1, NewPairs DEF StrandInv
    <3>3. QED
      BY <2>4, <3>1, <3>2, PairGrows
  <2>5. QED
    BY <2>3, <2>4
<1>8. SiblingInv'
  <2>1. Awaited(0)' = (tbb_children'[0] \cup tbb_roots'[0])
    BY DEF Awaited
  <2>2. QED
    BY <1>7, <2>1 DEF SiblingInv
<1>9. QED
  BY <1>4, <1>6, <1>8 DEF PairInv

-----------------------------------------------------------------------------
(***************************************************************************)
(* The other direction, in a strict program whose locks order nothing: a   *)
(* segment that happened before the one of a task was run in a strand that *)
(* precedes the strand of that task.                                       *)
(***************************************************************************)
Exact ==
  /\ \A l \in Locks : lockPast[l] = {}
  /\ \A t, u \in Task : \A n : <<u, n>> \in before[t] => n <= seg[u]
  /\ \A t \in Task : \A n, x : Pair(t, n, x) /\ n = seg[t] => x = current[t]
  /\ \A u, n, x : Pair(u, n, x) =>
       \A t \in Task : t <= spawned /\ <<u, n>> \in before[t] => <<x, current[t]>> \in Both

ExactInv == strict /\ ~ LockOrder => Exact

LEMMA ForkKeepsExact ==
  ASSUME TypeInv, TypeInv', StrandInv, StrandInv', PairInv, PairInv', Exact, Note,
         NEW s \in Task, NEW p \in Task, NEW c \in Task, NEW next,
         SpawnEvent(s, p, c, next), strict'
  PROVE  Exact'
<1>1. p = s
  BY DEF SpawnEvent, ForkStep
<1>2. /\ seg'[s] = seg[s] + 1 /\ seg'[c] = 1
      /\ before'[s] = before[s] \cup {<<s, seg[s]>>} /\ before'[c] = before'[s]
      /\ \A t \in Task : t # s /\ t # c => seg'[t] = seg[t] /\ before'[t] = before[t]
      /\ \A t \in Task : seg[t] \in Nat
      /\ lockPast' = lockPast
  BY ForkPast
<1>3. /\ s <= spawned /\ s # c /\ ~ (c <= spawned)
      /\ status[s] = "running"
      /\ \A t \in Task : t # c /\ t # s => status'[t] = status[t]
  BY ForkFacts, ForkVisits DEF SpawnEvent, TypeInv, TypeOK, StrandInv
<1>4. /\ \A t \in Task : t <= spawned' <=> t <= spawned \/ t = c
      /\ current'[s] = NextStrand(c) /\ current'[c] = ChildStrand(c)
      /\ \A t \in Task : t # s /\ t # c => current'[t] = current[t]
  BY <1>1, ForkVisits DEF StrandInv
<1>5. seg[c] = 0
  BY <1>3 DEF PairInv, SegmentsInv
<1>6. /\ \A t, u \in Task : \A n : <<u, n>> \in before[t] => n <= seg[u]
      /\ \A t \in Task : \A n, x : Pair(t, n, x) /\ n = seg[t] => x = current[t]
      /\ \A u, n, x : Pair(u, n, x) =>
           \A t \in Task : t <= spawned /\ <<u, n>> \in before[t] => <<x, current[t]>> \in Both
  BY DEF Exact
<1>7. PICK W : W = NewStrands(s, c)
  OBVIOUS
<1>8. BehindTheOld(s, W)
  BY <1>1, <1>7, ForkPrec, Zenon DEF StrandInv
<1>9. /\ \A x, y \in Known : <<x, y>> \in Both' <=> <<x, y>> \in Both
      /\ \A x \in Known : \A w \in W : <<x, w>> \in Both' <=> UpTo(Both, x, current[s])
  BY <1>8 DEF BehindTheOld
<1>10. current'[s] \in W /\ current'[c] \in W
  BY <1>4, <1>7 DEF NewStrands
<1>11. \A t \in Task : t <= spawned => current[t] \in Known
  BY DEF StrandInv, OrdersInv, Visited
<1>12. ASSUME NEW t \in Task, NEW u \in Task, NEW n, t <= spawned', <<u, n>> \in before'[t]
       PROVE  \E v \in Task : /\ v <= spawned /\ v # c
                              /\ v = t \/ (t = c /\ v = s)
                              /\ <<u, n>> \in before[v] \/ (v = s /\ u = s /\ n = seg[s])
  <2>1. CASE t = s \/ t = c
    BY <1>2, <1>3, <1>12, <2>1
  <2>2. CASE t # s /\ t # c
    BY <1>2, <1>4, <1>12, <2>2
  <2>3. QED
    BY <2>1, <2>2
<1>13. ASSUME NEW t \in Task, NEW u \in Task, NEW n, <<u, n>> \in before'[t]
       PROVE  n <= seg'[u]
  <2>1. n \in Nat /\ seg[u] \in Nat
    BY <1>2, <1>13 DEF TypeInv, TypeOK, ProgramTypeOK
  <2>2. n <= seg[u]
    <3>1. <<u, n>> \in before[t] \/ <<u, n>> \in before[s] \/ (u = s /\ n = seg[s])
      BY <1>2, <1>13
    <3>2. CASE u = s /\ n = seg[s]
      BY <2>1, <3>2
    <3>3. QED
      BY <1>6, <3>1, <3>2
  <2>3. seg'[u] = seg[u] \/ seg'[u] = seg[u] + 1
    BY <1>2, <1>5
  <2>4. QED
    BY <2>1, <2>2, <2>3
<1>14. \A u, n, x : Mark(u, n, x) => u # c /\ n \in Nat /\ u \in Task /\ n <= seg[u]
  BY <1>3 DEF PairInv, SegmentsInv
<1>15. ASSUME NEW t \in Task, NEW n, NEW x, Pair(t, n, x)', n = seg'[t] PROVE x = current'[t]
  <2>1. CASE Mark(t, n, x)
    <3>1. t # s /\ t # c
      <4>1. ~ (seg[s] + 1 <= seg[s])
        BY <1>2
      <4>2. QED
        BY <1>2, <1>14, <1>15, <2>1, <4>1
    <3>2. QED
      BY <1>2, <1>4, <1>6, <1>15, <2>1, <3>1 DEF Pair
  <2>2. QED
    BY <1>15, <2>1, PairGrows
<1>16. ASSUME NEW u, NEW n, NEW x, Pair(u, n, x)', NEW t \in Task, t <= spawned',
              <<u, n>> \in before'[t]
       PROVE  <<x, current'[t]>> \in Both'
  <2>1. \/ Mark(u, n, x)
        \/ u \in Task /\ status'[u] \in {"ready", "running"} /\ n = seg'[u] /\ x = current'[u]
    BY <1>16, PairGrows
  <2>2. u \in Task
    BY <1>14, <2>1
  <2>3. PICK v \in Task : /\ v <= spawned /\ v # c
                          /\ v = t \/ (t = c /\ v = s)
                          /\ <<u, n>> \in before[v] \/ (v = s /\ u = s /\ n = seg[s])
    BY <1>12, <1>16, <2>2
  <2>4. n <= seg[u] /\ n \in Nat
    <3>1. n \in Nat
      BY <1>2, <1>14, <2>1 DEF TypeInv, TypeOK, ProgramTypeOK
    <3>2. CASE u = s /\ n = seg[s]
      BY <3>1, <3>2
    <3>3. QED
      BY <1>6, <2>2, <2>3, <3>1, <3>2
  <2>5. Pair(u, n, x)
    <3>1. CASE Mark(u, n, x)
      BY <3>1 DEF Pair
    <3>2. CASE u \in Task /\ status'[u] \in {"ready", "running"} /\ n = seg'[u] /\ x = current'[u]
      <4>1. u # c
        BY <1>2, <1>5, <2>4, <3>2
      <4>2. u # s
        <5>1. ~ (seg[s] + 1 <= seg[s])
          BY <1>2
        <5>2. QED
          BY <1>2, <2>4, <3>2, <5>1
      <4>3. QED
        BY <1>2, <1>3, <1>4, <3>2, <4>1, <4>2 DEF Pair
    <3>3. QED
      BY <2>1, <3>1, <3>2
  <2>6. x \in Known
    BY <2>5, PairFacts DEF PairInv
  <2>7. \/ <<x, current[v]>> \in Both
        \/ v = s /\ x = current[s]
    BY <1>6, <2>3, <2>5
  <2>8. CASE v = s
    <3>1. UpTo(Both, x, current[s])
      BY <2>7, <2>8 DEF UpTo
    <3>2. current'[t] \in W
      BY <1>10, <2>3, <2>8
    <3>3. QED
      BY <1>9, <2>6, <3>1, <3>2
  <2>9. CASE v # s
    <3>1. t = v /\ current'[t] = current[t] /\ current[t] \in Known
      BY <1>4, <1>11, <2>3, <2>9
    <3>2. QED
      BY <1>9, <2>6, <2>7, <2>9, <3>1
  <2>10. QED
    BY <2>8, <2>9
<1>17. QED
  BY <1>2, <1>13, <1>15, <1>16 DEF Exact

LEMMA JoinKeepsExact ==
  ASSUME TypeInv, TypeInv', StrandInv, StrandInv', PairInv, Exact, Note,
         NEW t \in Task, Returns(t)
  PROVE  Exact'
<1>1. /\ sync[t] # NULL /\ current'[t] = sync[t]
      /\ \A u \in Task : u # t => current'[u] = current[u]
      /\ Both' = Both /\ spawned' = spawned /\ t <= spawned
      /\ \A c \in Awaited(t) : c \in Task /\ c <= spawned /\ Fin(c) = current[c]
  BY JoinFacts DEF StrandInv
<1>2. /\ seg'[t] = seg[t] + 1
      /\ \A u, n : <<u, n>> \in before'[t] <=>
           \/ <<u, n>> \in before[t] \/ (u = t /\ n = seg[t])
           \/ \E c \in Awaited(t) : <<u, n>> \in before[c] \/ (u = c /\ n = seg[c])
      /\ \A u \in Task : u # t => seg'[u] = seg[u] /\ before'[u] = before[u]
      /\ \A u \in Task : seg[u] \in Nat
      /\ lockPast' = lockPast
  BY JoinPast
<1>3. \A u \in Task : u # t => status'[u] = status[u]
  BY ReturnFacts DEF Returns, TypeInv, TypeOK
<1>4. /\ \A v, u \in Task : \A n : <<u, n>> \in before[v] => n <= seg[u]
      /\ \A u \in Task : \A n, x : Pair(u, n, x) /\ n = seg[u] => x = current[u]
      /\ \A u, n, x : Pair(u, n, x) =>
           \A v \in Task : v <= spawned /\ <<u, n>> \in before[v] => <<x, current[v]>> \in Both
  BY DEF Exact
<1>5. \A u, n, x : Mark(u, n, x) => n \in Nat /\ u \in Task /\ n <= seg[u]
  BY DEF PairInv, SegmentsInv
<1>6. ASSUME NEW v \in Task, NEW u \in Task, NEW n, v <= spawned, <<u, n>> \in before'[v]
      PROVE  \/ v # t /\ <<u, n>> \in before[v]
             \/ v = t /\ \E w \in {t} \cup Awaited(t) :
                           <<u, n>> \in before[w] \/ (u = w /\ n = seg[w])
  BY <1>2, <1>6
<1>7. ASSUME NEW v \in Task, NEW u \in Task, NEW n, <<u, n>> \in before'[v]
      PROVE  n \in Nat /\ n <= seg[u]
  <2>1. n \in Nat /\ seg[u] \in Nat
    BY <1>2, <1>7 DEF TypeInv, TypeOK, ProgramTypeOK
  <2>2. \/ \E w \in Task : <<u, n>> \in before[w]
        \/ n = seg[u]
    BY <1>1, <1>2, <1>7
  <2>3. QED
    BY <1>4, <2>1, <2>2
<1>8. ASSUME NEW v \in Task, NEW u \in Task, NEW n, <<u, n>> \in before'[v]
      PROVE  n <= seg'[u]
  <2>1. n \in Nat /\ n <= seg[u] /\ seg[u] \in Nat
    BY <1>2, <1>7, <1>8
  <2>2. seg'[u] = seg[u] \/ seg'[u] = seg[u] + 1
    BY <1>2
  <2>3. QED
    BY <2>1, <2>2
<1>9. ASSUME NEW u \in Task, NEW n, NEW x, Pair(u, n, x)', n = seg'[u] PROVE x = current'[u]
  <2>1. CASE Mark(u, n, x)
    <3>1. u # t
      <4>1. ~ (seg[t] + 1 <= seg[t])
        BY <1>2
      <4>2. QED
        BY <1>2, <1>5, <1>9, <2>1, <4>1
    <3>2. QED
      BY <1>1, <1>2, <1>4, <1>9, <2>1, <3>1 DEF Pair
  <2>2. QED
    BY <1>9, <2>1, PairGrows
<1>10. ASSUME NEW u, NEW n, NEW x, Pair(u, n, x)', NEW v \in Task, v <= spawned',
              <<u, n>> \in before'[v]
       PROVE  <<x, current'[v]>> \in Both'
  <2>1. \/ Mark(u, n, x)
        \/ u \in Task /\ status'[u] \in {"ready", "running"} /\ n = seg'[u] /\ x = current'[u]
    BY <1>10, PairGrows
  <2>2. u \in Task
    BY <1>5, <2>1
  <2>3. n \in Nat /\ n <= seg[u]
    BY <1>7, <1>10, <2>2
  <2>4. Pair(u, n, x)
    <3>1. CASE Mark(u, n, x)
      BY <3>1 DEF Pair
    <3>2. CASE u \in Task /\ status'[u] \in {"ready", "running"} /\ n = seg'[u] /\ x = current'[u]
      <4>1. u # t
        <5>1. ~ (seg[t] + 1 <= seg[t])
          BY <1>2
        <5>2. QED
          BY <1>2, <2>3, <3>2, <5>1
      <4>2. QED
        BY <1>1, <1>2, <1>3, <3>2, <4>1 DEF Pair
    <3>3. QED
      BY <2>1, <3>1, <3>2
  <2>5. CASE v # t
    BY <1>1, <1>2, <1>4, <1>10, <2>4, <2>5
  <2>6. CASE v = t
    <3>1. PICK w \in {t} \cup Awaited(t) : <<u, n>> \in before[w] \/ (u = w /\ n = seg[w])
      BY <1>1, <1>6, <1>10, <2>2, <2>6
    <3>2. w \in Task /\ w <= spawned
      BY <1>1
    <3>3. UpTo(Both, x, current[w])
      BY <1>4, <2>4, <3>1, <3>2 DEF UpTo
    <3>4. x \in Known
      BY <2>4, PairFacts DEF PairInv
    <3>5. <<x, sync[t]>> \in Both <=> \/ UpTo(Both, x, current[t])
                                      \/ \E c \in Awaited(t) : UpTo(Both, x, Fin(c))
      BY <1>1, <3>4 DEF StrandInv, SyncInv
    <3>6. QED
      BY <1>1, <2>6, <3>3, <3>5
  <2>7. QED
    BY <2>5, <2>6
<1>11. QED
  BY <1>2, <1>8, <1>9, <1>10 DEF Exact

LEMMA QuietKeepsExact ==
  ASSUME TypeInv, TypeInv', Exact, ~ LockOrder, Note \/ stamps' = stamps,
         NEW t \in Task, Quiet(t)
  PROVE  Exact'
<1>1. /\ seg' = seg /\ before' = before /\ lockPast' = lockPast
      /\ current' = current /\ Both' = Both /\ spawned' = spawned
  BY DEF Quiet, Moves, Exact, Both
<1>2. \A u \in Task : status'[u] \in {"ready", "running"} => status[u] \in {"ready", "running"}
  BY DEF Quiet, Moves, TypeInv, TypeOK, ProgramTypeOK
<1>3. ASSUME NEW u, NEW n, NEW x, Pair(u, n, x)' PROVE Pair(u, n, x)
  BY <1>1, <1>2, <1>3, PairGrows DEF Pair
<1>4. QED
  BY <1>1, <1>3 DEF Exact

-----------------------------------------------------------------------------
(* All of it, from the start and in every step.                            *)
StrandsInv == TypeInv /\ StrandInv /\ PairInv /\ ExactInv

LEMMA StrandsInit == Init => StrandsInv
<1> SUFFICES ASSUME Init PROVE StrandsInv
  OBVIOUS
<1>1. TypeInv
  BY TypeInit
<1>2. /\ english = {} /\ hebrew = {} /\ stamps = {} /\ spawned = 0
      /\ current = [t \in Task |-> IF t = 0 THEN FirstStrand ELSE NULL]
      /\ sync = [t \in Task |-> NULL]
      /\ status = [t \in Task |-> IF t = 0 THEN "running" ELSE "unborn"]
      /\ seg = [t \in Task |-> IF t = 0 THEN 1 ELSE 0]
      /\ before = [t \in Task |-> {}]
      /\ lockPast = [l \in Locks |-> {}]
      /\ \A t \in Task : Awaited(t) = {}
  BY DEF Init, CRacerInit, ProgramInit, HBInit, FirstStrand, Awaited
<1>3. 0 \in Task /\ \A t \in Task : t <= spawned <=> t = 0
  BY <1>2, TaskFacts
<1>4. FirstStrand \in Strand /\ FirstStrand[2] = 0
  BY <1>3 DEF FirstStrand, Strand
<1>5. Known = {FirstStrand} /\ Both = {}
  BY <1>2, <1>4 DEF Known, Both
<1>6. \A u, n, x : ~ Mark(u, n, x)
  BY <1>2 DEF Mark
<1>7. \A x : Visited(x) => x = FirstStrand
  BY <1>2, <1>3, <1>6 DEF Visited
<1>8. \A u, n, x : Pair(u, n, x) => u = 0 /\ n = 1 /\ x = FirstStrand
  BY <1>2, <1>3, <1>6 DEF Pair
<1>9. StrandInv
  <2>1. OrdersInv
    BY <1>2, <1>4, <1>5, <1>7 DEF OrdersInv, StrictTotal
  <2>2. NamesInv /\ SyncInv
    BY <1>2, <1>3 DEF NamesInv, SyncInv
  <2>3. FrontierInv
    BY <1>2, <1>5 DEF FrontierInv
  <2>4. QED
    BY <2>1, <2>2, <2>3 DEF StrandInv
<1>10. PairInv
  <2>1. SegmentsInv
    BY <1>2, <1>3, <1>6 DEF SegmentsInv
  <2>2. OrderedInv
    BY <1>3, <1>5, <1>8 DEF OrderedInv
  <2>3. SiblingInv
    BY <1>2, <1>3 DEF SiblingInv
  <2>4. QED
    BY <2>1, <2>2, <2>3 DEF PairInv
<1>11. Exact
  BY <1>2, <1>3, <1>8 DEF Exact
<1>12. QED
  BY <1>1, <1>9, <1>10, <1>11 DEF StrandsInv, ExactInv

LEMMA NextStrands == StrandsInv /\ [Next]_vars => StrandsInv'
<1> SUFFICES ASSUME StrandsInv, [Next]_vars PROVE StrandsInv'
  OBVIOUS
<1>1. TypeInv /\ StrandInv /\ PairInv /\ ExactInv /\ ProgramTypeOK /\ FamilyInv
  BY DEF StrandsInv, TypeInv, TypeOK
<1>2. TypeInv'
  BY <1>1, NextType
<1>3. ASSUME NEW s \in Task, NEW p \in Task, NEW c \in Task, NEW next,
             SpawnEvent(s, p, c, next), Note
      PROVE  StrandsInv'
  <2>1. StrandInv'
    <3>1. OrdersInv /\ NamesInv /\ SyncInv /\ FrontierInv
      BY <1>1 DEF StrandInv
    <3>2. OrdersInv' /\ NamesInv'
      BY <1>1, <1>2, <1>3, <3>1, ForkKeepsOrders, Zenon
    <3>3. FrontierInv'
      BY <1>1, <1>2, <1>3, <3>1, ForkKeepsFrontier, Zenon
    <3>4. SyncInv'
      BY <1>1, <1>2, <1>3, <3>1, ForkKeepsSync, Zenon
    <3>5. QED
      BY <3>2, <3>3, <3>4 DEF StrandInv
  <2>2. PairInv'
    BY <1>1, <1>2, <1>3, <2>1, ForkKeepsPairs, Zenon
  <2>3. ExactInv'
    <3>1. strict' => strict
      BY <1>3 DEF SpawnEvent, ForkStep
    <3>2. Exact /\ strict' => Exact'
      BY <1>1, <1>2, <1>3, <2>1, <2>2, ForkKeepsExact, Zenon
    <3>3. QED
      BY <1>1, <3>1, <3>2 DEF ExactInv
  <2>4. QED
    BY <1>2, <2>1, <2>2, <2>3 DEF StrandsInv
<1>4. ASSUME NEW t \in Task, Returns(t), Note PROVE StrandsInv'
  <2>1. StrandInv'
    BY <1>1, <1>2, <1>4, JoinKeepsStrands, Zenon
  <2>2. PairInv'
    BY <1>1, <1>2, <1>4, <2>1, JoinKeepsPairs, Zenon
  <2>3. ExactInv'
    <3>1. strict' = strict
      BY <1>1, <1>4, ReturnFacts DEF Returns
    <3>2. Exact => Exact'
      BY <1>1, <1>2, <1>4, <2>1, JoinKeepsExact, Zenon
    <3>3. QED
      BY <1>1, <3>1, <3>2 DEF ExactInv
  <2>4. QED
    BY <1>2, <2>1, <2>2, <2>3 DEF StrandsInv
<1>5. ASSUME NEW t \in Task, Quiet(t), Note \/ stamps' = stamps PROVE StrandsInv'
  <2>1. StrandInv'
    BY <1>1, <1>2, <1>5, QuietKeepsStrands, Zenon
  <2>2. PairInv'
    BY <1>1, <1>2, <1>5, <2>1, QuietKeepsPairs, Zenon
  <2>3. ExactInv'
    <3>1. strict' = strict
      BY <1>5 DEF Quiet, Moves
    <3>2. Exact /\ ~ LockOrder => Exact'
      BY <1>1, <1>2, <1>5, QuietKeepsExact, Zenon
    <3>3. QED
      BY <1>1, <3>1, <3>2 DEF ExactInv
  <2>4. QED
    BY <1>2, <2>1, <2>2, <2>3 DEF StrandsInv
<1>6. ASSUME NEW t \in Task, MoveStep(t), Note PROVE StrandsInv'
  BY <1>1, <1>4, <1>5, <1>6, MoveIs, QuietFacts
<1>7. CASE UNCHANGED vars
  BY <1>1, <1>5, <1>7, QuietFacts, TaskFacts DEF vars
<1>8. ASSUME NEW t \in Task, NEW l \in Locks, LockStep(t, l), Note PROVE StrandsInv'
  BY <1>1, <1>5, <1>8, QuietFacts
<1>9. ASSUME NEW t \in Task, NEW kind \in AccessType, Access(t, kind), Note PROVE StrandsInv'
  BY <1>1, <1>5, <1>9, QuietFacts
<1>10. ASSUME NEW t \in Task, IdleWait(t) PROVE StrandsInv'
  BY <1>1, <1>5, <1>10, QuietFacts, IdleFacts
<1>11. QED
  BY <1>1, <1>3, <1>6, <1>7, <1>8, <1>9, <1>10, NextIs

(***************************************************************************)
(* C-RACER's two lists are exact, for any number of tasks: in a strict     *)
(* program both put the strand of a segment before the strand a running    *)
(* task is in if and only if the segment happened before what it runs.     *)
(* A release must not order the next acquisition (~ LockOrder): C-RACER    *)
(* has no hook for the locks.                                              *)
(***************************************************************************)
THEOREM StrandsAreExact ==
  ASSUME ~ LockOrder
  PROVE  Spec => []StrandsExact
<1>1. StrandsInv => StrandsExact
  <2>1. SUFFICES ASSUME StrandsInv, strict,
                        NEW t \in Task, NEW s \in stamps, Running(t), s[1] # t
                 PROVE  <<s[1], s[2]>> \in before[t]
                          <=> /\ Precedes(english, s[3], current[t])
                              /\ Precedes(hebrew, s[3], current[t])
    BY DEF StrandsExact
  <2>2. Pair(s[1], s[2], s[3])
    BY DEF Pair, Mark
  <2>3. t <= spawned
    BY <2>1 DEF StrandsInv, TypeInv, FamilyInv, Births, Running
  <2>4. <<s[3], current[t]>> \in Both => <<s[1], s[2]>> \in before[t]
    BY <2>1, <2>2, <2>3 DEF StrandsInv, PairInv, OrderedInv
  <2>5. <<s[1], s[2]>> \in before[t] => <<s[3], current[t]>> \in Both
    BY <2>1, <2>2, <2>3 DEF StrandsInv, ExactInv, Exact
  <2>6. QED
    BY <2>4, <2>5 DEF Both, Precedes
<1>2. QED
  BY <1>1, StrandsInit, NextStrands, PTL DEF Spec

-----------------------------------------------------------------------------
(***************************************************************************)
(* What the three strands recorded for the address stand for: until a race *)
(* is reported every write is in a strand up to the writer, in both lists, *)
(* and every read is in a strand up to the left reader in the Hebrew list  *)
(* and up to the right reader in the English one.                          *)
(***************************************************************************)
AccessedIn(x, kind) == \E a \in history : a.kind = kind /\ Mark(a.task, a.seg, x)

RecordedInv ==
  /\ access.writer # NULL => AccessedIn(access.writer, WRITE)
  /\ access.lreader # NULL => AccessedIn(access.lreader, READ)
  /\ access.rreader # NULL => AccessedIn(access.rreader, READ)

Covered(a, x) ==
  /\ Mark(a.task, a.seg, x)
  /\ a.kind = WRITE => access.writer # NULL /\ UpTo(Both, x, access.writer)
  /\ a.kind # WRITE => /\ access.lreader # NULL /\ UpTo(hebrew, x, access.lreader)
                       /\ access.rreader # NULL /\ UpTo(english, x, access.rreader)

CoveredInv == ~ violation => ~ conflict /\ \A a \in history : \E x : Covered(a, x)

SoundInv == strict /\ ~ LockOrder /\ violation => conflict

RaceInv == RecordedInv /\ CoveredInv /\ SoundInv

LEMMA MarkIsKnown ==
  ASSUME StrandInv
  PROVE  \A u, n, x : Mark(u, n, x) => Visited(x) /\ x \in Known
BY DEF StrandInv, OrdersInv, Visited

LEMMA RecordedKnown ==
  ASSUME StrandInv, RecordedInv
  PROVE  /\ access.writer # NULL => Visited(access.writer) /\ access.writer \in Known
         /\ access.lreader # NULL => Visited(access.lreader) /\ access.lreader \in Known
         /\ access.rreader # NULL => Visited(access.rreader) /\ access.rreader \in Known
BY MarkIsKnown DEF RecordedInv, AccessedIn

LEMMA RaceKept ==
  ASSUME StrandInv, RaceInv,
         UNCHANGED <<access, violation, conflict, history>>,
         strict' => strict,
         \A u, n, x : Mark(u, n, x) => Mark(u, n, x)',
         \A x, y \in Known : /\ <<x, y>> \in english' <=> <<x, y>> \in english
                             /\ <<x, y>> \in hebrew' <=> <<x, y>> \in hebrew
  PROVE  RaceInv'
<1>1. RecordedInv'
  BY DEF RaceInv, RecordedInv, AccessedIn
<1>2. CoveredInv'
  <2>1. SUFFICES ASSUME ~ violation PROVE ~ conflict /\ \A a \in history : \E x : Covered(a, x)'
    BY DEF CoveredInv
  <2>2. ASSUME NEW a \in history PROVE \E x : Covered(a, x)'
    <3>1. PICK x : Covered(a, x)
      BY <2>1, <2>2 DEF RaceInv, CoveredInv
    <3>2. x \in Known
      BY <3>1, MarkIsKnown DEF Covered
    <3>3. /\ access.writer # NULL => access.writer \in Known
          /\ access.lreader # NULL => access.lreader \in Known
          /\ access.rreader # NULL => access.rreader \in Known
      BY RecordedKnown DEF RaceInv
    <3>4. Covered(a, x)'
      <4>1. Mark(a.task, a.seg, x)'
        BY <3>1 DEF Covered
      <4>2. a.kind = WRITE => access.writer # NULL /\ UpTo(Both', x, access.writer)
        BY <3>1, <3>2, <3>3 DEF Covered, UpTo, Both
      <4>3. a.kind # WRITE => /\ access.lreader # NULL /\ UpTo(hebrew', x, access.lreader)
                              /\ access.rreader # NULL /\ UpTo(english', x, access.rreader)
        BY <3>1, <3>2, <3>3 DEF Covered, UpTo
      <4>4. QED
        BY <4>1, <4>2, <4>3 DEF Covered
    <3>5. QED
      BY <3>4
  <2>3. QED
    BY <2>1, <2>2 DEF RaceInv, CoveredInv
<1>3. SoundInv'
  BY DEF RaceInv, SoundInv
<1>4. QED
  BY <1>1, <1>2, <1>3 DEF RaceInv

(* What a running task finds out about a recorded strand.                  *)
LEMMA NoFind ==
  ASSUME StrandInv, NEW t \in Task, t <= spawned, status[t] # "finished",
         NEW w \in Known, Visited(w)
  PROVE  /\ ~ RacesWithStrand(t, w) /\ w # NULL => UpTo(Both, w, current[t])
         /\ <<current[t], w>> \in english => UpTo(hebrew, w, current[t])
         /\ w = current[t] \/ <<w, current[t]>> \in english \/ <<current[t], w>> \in english
         /\ w = current[t] \/ <<w, current[t]>> \in hebrew \/ <<current[t], w>> \in hebrew
<1>1. current[t] \in Known
  BY DEF StrandInv, OrdersInv, Visited
<1>2. /\ w = current[t] \/ <<w, current[t]>> \in english \/ <<current[t], w>> \in english
      /\ w = current[t] \/ <<w, current[t]>> \in hebrew \/ <<current[t], w>> \in hebrew
  BY <1>1 DEF StrandInv, OrdersInv, StrictTotal
<1>3. <<current[t], w>> \notin Both
  BY DEF StrandInv, FrontierInv
<1>4. QED
  BY <1>2, <1>3 DEF RacesWithStrand, Precedes, UpTo, Both

LEMMA UpToTrans ==
  ASSUME NEW R, NEW N, StrictTotal(R, N), NEW x \in N, NEW y \in N, NEW z \in N,
         UpTo(R, x, y), UpTo(R, y, z)
  PROVE  UpTo(R, x, z)
BY DEF UpTo, StrictTotal

LEMMA BothIs == \A x, y : UpTo(Both, x, y) <=> UpTo(english, x, y) /\ UpTo(hebrew, x, y)
BY DEF Both, UpTo

(* An access that C-RACER does not object to happens after all the others  *)
(* it could race with.                                                     *)
LEMMA CoveredIsPast ==
  ASSUME TypeInv, StrandInv, PairInv, RecordedInv,
         NEW t \in Task, status[t] = "running", t <= spawned,
         NEW kind, ~ CRacerFinds(t, kind), NEW a, NEW x, Covered(a, x),
         WRITE \in {a.kind, kind}
  PROVE  UpTo(Both, x, current[t]) /\ ~ Concurrent(t, a)
<1>1. x \in Known /\ Visited(x) /\ current[t] \in Known
  BY MarkIsKnown DEF Covered, StrandInv, OrdersInv, Visited
<1>2. StrictTotal(english, Known) /\ StrictTotal(hebrew, Known)
  BY DEF StrandInv, OrdersInv
<1>3. ASSUME NEW w, w # NULL, w \in Known, Visited(w), ~ RacesWithStrand(t, w)
      PROVE  UpTo(english, w, current[t]) /\ UpTo(hebrew, w, current[t])
  BY <1>3, NoFind, BothIs
<1>4. UpTo(Both, x, current[t])
  <2>1. CASE a.kind = WRITE
    <3>1. access.writer # NULL /\ UpTo(Both, x, access.writer) /\ access.writer \in Known
          /\ UpTo(Both, access.writer, current[t])
      BY <1>3, <2>1, RecordedKnown, BothIs DEF Covered, CRacerFinds
    <3>2. QED
      BY <1>1, <1>2, <3>1, UpToTrans, BothIs
  <2>2. CASE a.kind # WRITE
    <3>1. /\ access.lreader # NULL /\ access.rreader # NULL
          /\ UpTo(hebrew, x, access.lreader) /\ UpTo(english, x, access.rreader)
          /\ access.lreader \in Known /\ access.rreader \in Known
      BY <2>2, RecordedKnown DEF Covered
    <3>2. UpTo(hebrew, access.lreader, current[t]) /\ UpTo(english, access.rreader, current[t])
      <4>1. ~ RacesWithStrand(t, access.lreader) /\ ~ RacesWithStrand(t, access.rreader)
        BY <2>2 DEF CRacerFinds
      <4>2. QED
        BY <1>3, <3>1, <4>1, RecordedKnown
    <3>3. UpTo(hebrew, x, current[t])
      BY <1>1, <1>2, <3>1, <3>2, UpToTrans
    <3>4. UpTo(english, x, current[t])
      BY <1>1, <1>2, <3>1, <3>2, UpToTrans
    <3>5. QED
      BY <3>3, <3>4, BothIs
  <2>3. QED
    BY <2>1, <2>2
<1>5. Pair(a.task, a.seg, x)
  BY DEF Covered, Pair
<1>6. ~ Concurrent(t, a)
  BY <1>4, <1>5 DEF PairInv, OrderedInv, UpTo, Concurrent
<1>7. QED
  BY <1>4, <1>6

(***************************************************************************)
(* The access of task t, before the result is known.                       *)
(***************************************************************************)
LEMMA AccessIs ==
  ASSUME TypeInv, NEW t \in Task, NEW kind \in AccessType, Access(t, kind), Note
  PROVE  /\ status[t] = "running" /\ t <= spawned
         /\ history' = history \cup {AccessOf(t, kind, IF LockOrder THEN {} ELSE held[t])}
         /\ conflict' = (conflict \/ RacesWith(t, kind, {}) # {})
         /\ violation' = (violation \/ CRacerFinds(t, kind))
         /\ english' = english /\ hebrew' = hebrew /\ current' = current /\ Both' = Both
         /\ strict' = strict /\ Known' = Known
         /\ \A n, x : n = seg[t] /\ x = current[t] => Mark(t, n, x)'
         /\ \A u, n, x : Mark(u, n, x) => Mark(u, n, x)'
<1>1. Touch(t, kind) /\ CRacerRecordMem(t, kind)
      /\ conflict' = (conflict \/ RacesWith(t, kind, {}) # {})
  BY DEF Access
<1>2. UNCHANGED <<taskStateVars, lockStateVars, orderVars, frames, strandVars>>
  BY AccessFacts
<1>3. status' = status /\ strict' = strict /\ seg' = seg
      /\ english' = english /\ hebrew' = hebrew /\ current' = current
  BY <1>2 DEF taskStateVars, orderVars, strandVars
<1>4. status[t] = "running" /\ t <= spawned
  BY <1>1 DEF Touch, Running, TypeInv, FamilyInv, Births
<1>5. history' = history \cup {AccessOf(t, kind, IF LockOrder THEN {} ELSE held[t])}
  BY <1>1 DEF Touch, HBAccess
<1>6. \A n, x : n = seg[t] /\ x = current[t] => Mark(t, n, x)'
  BY <1>3, <1>4, NoteFacts
<1>7. \A u, n, x : Mark(u, n, x) => Mark(u, n, x)'
  BY NoteFacts
<1>8. QED
  BY <1>1, <1>3, <1>4, <1>5, <1>6, <1>7 DEF CRacerRecordMem, Both, Known

(* What it leaves recorded.                                                *)
LEMMA AccessLeaves ==
  ASSUME TypeInv, NEW t \in Task, NEW kind \in AccessType, Access(t, kind)
  PROVE  /\ access'.writer = access.writer \/ (kind = WRITE /\ access'.writer = current[t])
         /\ access'.lreader = access.lreader \/ (kind = READ /\ access'.lreader = current[t])
         /\ access'.rreader = access.rreader \/ (kind = READ /\ access'.rreader = current[t])
         /\ ~ violation' =>
              /\ kind = WRITE => /\ access'.writer = current[t]
                                 /\ access'.lreader = access.lreader
                                 /\ access'.rreader = access.rreader
              /\ kind # WRITE =>
                   /\ access'.writer = access.writer
                   /\ access'.lreader = (IF IsLeftmost(t) THEN current[t] ELSE access.lreader)
                   /\ access'.rreader = (IF IsRightmost(t) THEN current[t] ELSE access.rreader)
<1>1. CRacerRecordMem(t, kind)
  BY DEF Access
<1>2. access \in [writer : Strand \cup {NULL}, lreader : Strand \cup {NULL},
                  rreader : Strand \cup {NULL}]
  BY DEF TypeInv, TypeOK, CRacerTypeOK
<1>3. kind = WRITE \/ (kind = READ /\ kind # WRITE)
  BY DEF AccessType, READ, WRITE
<1>4. CASE violation \/ RacesWithStrand(t, access.writer)
  <2>1. access' = access /\ violation'
    BY <1>1, <1>4 DEF CRacerRecordMem, CRacerFinds
  <2>2. QED
    BY <2>1
<1>5. CASE ~ (violation \/ RacesWithStrand(t, access.writer)) /\ kind = WRITE
  <2>1. access' = [access EXCEPT !.writer = current[t]]
    BY <1>1, <1>5 DEF CRacerRecordMem
  <2>2. QED
    BY <1>2, <1>5, <2>1
<1>6. CASE ~ (violation \/ RacesWithStrand(t, access.writer)) /\ kind = READ /\ kind # WRITE
  <2>1. access' = [access EXCEPT !.lreader = IF IsLeftmost(t) THEN current[t] ELSE @,
                                 !.rreader = IF IsRightmost(t) THEN current[t] ELSE @]
    BY <1>1, <1>6 DEF CRacerRecordMem
  <2>2. QED
    BY <1>2, <1>6, <2>1
<1>7. QED
  BY <1>3, <1>4, <1>5, <1>6

LEMMA AccessKeepsRecorded ==
  ASSUME TypeInv, RecordedInv, NEW t \in Task, NEW kind \in AccessType, Access(t, kind), Note
  PROVE  RecordedInv'
<1>1. PICK a : a = AccessOf(t, kind, IF LockOrder THEN {} ELSE held[t])
  OBVIOUS
<1>2. a.task = t /\ a.seg = seg[t] /\ a.kind = kind
  BY <1>1 DEF AccessOf
<1>3. history' = history \cup {a}
  BY <1>1, AccessIs
<1>4. /\ \A n, x : n = seg[t] /\ x = current[t] => Mark(t, n, x)'
      /\ \A u, n, x : Mark(u, n, x) => Mark(u, n, x)'
  BY AccessIs
<1>5. ASSUME NEW y, y = current[t] PROVE AccessedIn(y, kind)'
  BY <1>2, <1>3, <1>4, <1>5 DEF AccessedIn
<1>6. ASSUME NEW y, NEW k, AccessedIn(y, k) PROVE AccessedIn(y, k)'
  BY <1>3, <1>4, <1>6 DEF AccessedIn
<1>7. /\ access'.writer = access.writer \/ (kind = WRITE /\ access'.writer = current[t])
      /\ access'.lreader = access.lreader \/ (kind = READ /\ access'.lreader = current[t])
      /\ access'.rreader = access.rreader \/ (kind = READ /\ access'.rreader = current[t])
  BY AccessLeaves
<1>8. ASSUME NEW w, w = access'.writer, w # NULL PROVE AccessedIn(w, WRITE)'
  BY <1>5, <1>6, <1>7, <1>8 DEF RecordedInv
<1>9. ASSUME NEW w, w = access'.lreader, w # NULL PROVE AccessedIn(w, READ)'
  BY <1>5, <1>6, <1>7, <1>9 DEF RecordedInv
<1>10. ASSUME NEW w, w = access'.rreader, w # NULL PROVE AccessedIn(w, READ)'
  BY <1>5, <1>6, <1>7, <1>10 DEF RecordedInv
<1>11. QED
  BY <1>8, <1>9, <1>10 DEF RecordedInv, AccessedIn

LEMMA AccessKeepsCovered ==
  ASSUME TypeInv, StrandInv, PairInv, RecordedInv, CoveredInv,
         NEW t \in Task, NEW kind \in AccessType, Access(t, kind), Note, ~ violation'
  PROVE  ~ conflict' /\ \A a \in history' : \E x : Covered(a, x)'
<1>1. PICK b : b = AccessOf(t, kind, IF LockOrder THEN {} ELSE held[t])
  OBVIOUS
<1>2. b.task = t /\ b.seg = seg[t] /\ b.kind = kind
  BY <1>1 DEF AccessOf
<1>3. /\ history' = history \cup {b}
      /\ status[t] = "running" /\ t <= spawned
      /\ conflict' = (conflict \/ RacesWith(t, kind, {}) # {})
      /\ violation' = (violation \/ CRacerFinds(t, kind))
      /\ english' = english /\ hebrew' = hebrew /\ Both' = Both
      /\ \A n, x : n = seg[t] /\ x = current[t] => Mark(t, n, x)'
      /\ \A u, n, x : Mark(u, n, x) => Mark(u, n, x)'
  BY <1>1, AccessIs
<1>4. /\ kind = WRITE => /\ access'.writer = current[t]
                         /\ access'.lreader = access.lreader
                         /\ access'.rreader = access.rreader
      /\ kind # WRITE =>
           /\ access'.writer = access.writer
           /\ access'.lreader = (IF IsLeftmost(t) THEN current[t] ELSE access.lreader)
           /\ access'.rreader = (IF IsRightmost(t) THEN current[t] ELSE access.rreader)
  BY AccessLeaves
<1>5. ~ violation /\ ~ CRacerFinds(t, kind)
      /\ ~ conflict /\ \A a \in history : \E x : Covered(a, x)
  BY <1>3 DEF CoveredInv
<1>6. \A a, x : Covered(a, x) /\ WRITE \in {a.kind, kind} =>
        UpTo(Both, x, current[t]) /\ ~ Concurrent(t, a)
  BY <1>3, <1>5, CoveredIsPast
<1>7. ~ conflict'
  <2>1. ASSUME NEW a \in history PROVE ~ (Concurrent(t, a) /\ WRITE \in {a.kind, kind})
    BY <1>5, <1>6
  <2>2. RacesWith(t, kind, {}) = {}
    BY <2>1 DEF RacesWith
  <2>3. QED
    BY <1>3, <1>5, <2>2
<1>8. /\ StrictTotal(english, Known) /\ StrictTotal(hebrew, Known) /\ current[t] \in Known
  BY <1>3 DEF StrandInv, OrdersInv, Visited
<1>9. current[t] # NULL
  BY <1>3 DEF TypeInv, InStrand
<1>10. \A w \in Known : Visited(w) =>
         /\ <<current[t], w>> \in english => UpTo(hebrew, w, current[t])
         /\ w = current[t] \/ <<w, current[t]>> \in english \/ <<current[t], w>> \in english
         /\ w = current[t] \/ <<w, current[t]>> \in hebrew \/ <<current[t], w>> \in hebrew
  BY <1>3, NoFind
(* The readers after the access.                                           *)
<1>11. ASSUME kind # WRITE
       PROVE  /\ access'.lreader # NULL /\ UpTo(hebrew, current[t], access'.lreader)
              /\ access.lreader # NULL => UpTo(hebrew, access.lreader, access'.lreader)
  <2>1. CASE IsLeftmost(t)
    <3>1. access'.lreader = current[t]
      BY <1>4, <1>11, <2>1
    <3>2. access.lreader # NULL => UpTo(hebrew, access.lreader, current[t])
      BY <1>10, <2>1, RecordedKnown DEF IsLeftmost, Precedes, UpTo
    <3>3. QED
      BY <1>9, <3>1, <3>2 DEF UpTo
  <2>2. CASE ~ IsLeftmost(t)
    <3>1. access'.lreader = access.lreader /\ access.lreader # NULL
          /\ <<access.lreader, current[t]>> \notin hebrew
      BY <1>4, <1>11, <2>2 DEF IsLeftmost, Precedes
    <3>2. UpTo(hebrew, current[t], access.lreader)
      BY <1>10, <3>1, RecordedKnown DEF UpTo
    <3>3. QED
      BY <3>1, <3>2 DEF UpTo
  <2>3. QED
    BY <2>1, <2>2
<1>12. ASSUME kind # WRITE
       PROVE  /\ access'.rreader # NULL /\ UpTo(english, current[t], access'.rreader)
              /\ access.rreader # NULL => UpTo(english, access.rreader, access'.rreader)
  <2>1. CASE IsRightmost(t)
    <3>1. access'.rreader = current[t]
      BY <1>4, <1>12, <2>1
    <3>2. access.rreader # NULL => UpTo(english, access.rreader, current[t])
      BY <2>1 DEF IsRightmost, Precedes, UpTo
    <3>3. QED
      BY <1>9, <3>1, <3>2 DEF UpTo
  <2>2. CASE ~ IsRightmost(t)
    <3>1. access'.rreader = access.rreader /\ access.rreader # NULL
          /\ <<access.rreader, current[t]>> \notin english
      BY <1>4, <1>12, <2>2 DEF IsRightmost, Precedes
    <3>2. UpTo(english, current[t], access.rreader)
      BY <1>10, <3>1, RecordedKnown DEF UpTo
    <3>3. QED
      BY <3>1, <3>2 DEF UpTo
  <2>3. QED
    BY <2>1, <2>2
<1>13. ASSUME NEW a \in history PROVE \E x : Covered(a, x)'
  <2>1. PICK x : Covered(a, x)
    BY <1>5, <1>13
  <2>2. x \in Known
    BY <2>1, MarkIsKnown DEF Covered
  <2>3. Mark(a.task, a.seg, x)'
    BY <1>3, <2>1 DEF Covered
  <2>4. a.kind = WRITE => access'.writer # NULL /\ UpTo(Both, x, access'.writer)
    BY <1>4, <1>6, <1>9, <2>1 DEF Covered
  <2>5. a.kind # WRITE => /\ access'.lreader # NULL /\ UpTo(hebrew, x, access'.lreader)
                          /\ access'.rreader # NULL /\ UpTo(english, x, access'.rreader)
    <3>1. CASE kind = WRITE
      BY <1>4, <2>1, <3>1 DEF Covered
    <3>2. CASE kind # WRITE /\ a.kind # WRITE
      <4>1. /\ access.lreader # NULL /\ UpTo(hebrew, x, access.lreader)
            /\ access.rreader # NULL /\ UpTo(english, x, access.rreader)
        BY <2>1, <3>2 DEF Covered
      <4>2. /\ access.lreader \in Known /\ access.rreader \in Known
            /\ access'.lreader \in Known /\ access'.rreader \in Known
        BY <1>4, <1>8, <3>2, <4>1, RecordedKnown
      <4>3. UpTo(hebrew, x, access'.lreader)
        BY <1>8, <1>11, <2>2, <3>2, <4>1, <4>2, UpToTrans
      <4>4. UpTo(english, x, access'.rreader)
        BY <1>8, <1>12, <2>2, <3>2, <4>1, <4>2, UpToTrans
      <4>5. QED
        BY <1>11, <1>12, <3>2, <4>3, <4>4
    <3>3. QED
      BY <3>1, <3>2
  <2>6. Covered(a, x)'
    BY <1>3, <2>3, <2>4, <2>5 DEF Covered
  <2>7. QED
    BY <2>6
<1>14. \E x : Covered(b, x)'
  <2>1. PICK x : x = current[t]
    OBVIOUS
  <2>2. Mark(b.task, b.seg, x)'
    BY <1>2, <1>3, <2>1
  <2>3. b.kind = WRITE => access'.writer # NULL /\ UpTo(Both, x, access'.writer)
    BY <1>2, <1>4, <1>9, <2>1 DEF UpTo
  <2>4. b.kind # WRITE => /\ access'.lreader # NULL /\ UpTo(hebrew, x, access'.lreader)
                          /\ access'.rreader # NULL /\ UpTo(english, x, access'.rreader)
    BY <1>2, <1>11, <1>12, <2>1
  <2>5. Covered(b, x)'
    BY <1>3, <2>2, <2>3, <2>4 DEF Covered
  <2>6. QED
    BY <2>5
<1>15. QED
  BY <1>3, <1>7, <1>13, <1>14

(* A race C-RACER reports in a strict program is one.                      *)
LEMMA FindIsRace ==
  ASSUME TypeInv, StrandInv, PairInv, Exact, RecordedInv,
         NEW t \in Task, status[t] = "running", t <= spawned,
         NEW kind \in AccessType, CRacerFinds(t, kind)
  PROVE  RacesWith(t, kind, {}) # {}
<1>1. PICK w : /\ RacesWithStrand(t, w) /\ w # NULL
               /\ \/ w = access.writer
                  \/ kind = WRITE /\ (w = access.lreader \/ w = access.rreader)
  BY DEF CRacerFinds, RacesWithStrand
<1>2. PICK a \in history : Mark(a.task, a.seg, w) /\ WRITE \in {a.kind, kind}
  BY <1>1 DEF RecordedInv, AccessedIn
<1>3. Pair(a.task, a.seg, w)
  BY <1>2 DEF Pair
<1>4. a.task \in Task /\ a.seg \in Nat /\ 0 < a.seg /\ a.seg <= seg[a.task]
      /\ w \in Known /\ current[t] \in Known
  BY <1>3, PairFacts DEF PairInv, StrandInv, OrdersInv, Visited
<1>5. <<w, current[t]>> \notin Both /\ w # current[t]
  <2>1. <<current[t], current[t]>> \notin english /\ <<current[t], current[t]>> \notin hebrew
    BY <1>4 DEF StrandInv, OrdersInv, StrictTotal
  <2>2. QED
    BY <1>1, <2>1 DEF RacesWithStrand, Precedes, Both
<1>6. <<a.task, a.seg>> \notin before[t]
  BY <1>3, <1>5 DEF Exact
<1>7. a.task # t
  <2>1. SUFFICES ASSUME a.task = t PROVE FALSE
    OBVIOUS
  <2>2. a.seg = seg[t] \/ a.seg < seg[t]
    <3>1. seg[t] \in Nat
      BY DEF TypeInv, TypeOK, ProgramTypeOK
    <3>2. QED
      BY <1>4, <2>1, <3>1
  <2>3. CASE a.seg = seg[t]
    BY <1>3, <1>5, <2>1, <2>3 DEF Exact
  <2>4. CASE a.seg < seg[t]
    BY <1>4, <1>6, <2>1, <2>4 DEF PairInv, SegmentsInv
  <2>5. QED
    BY <2>2, <2>3, <2>4
<1>8. a \in RacesWith(t, kind, {})
  BY <1>2, <1>6, <1>7 DEF RacesWith, Concurrent
<1>9. QED
  BY <1>8

LEMMA AccessKeepsRaces ==
  ASSUME StrandsInv, RaceInv, NEW t \in Task, NEW kind \in AccessType, Access(t, kind), Note
  PROVE  RaceInv'
<1>1. TypeInv /\ StrandInv /\ PairInv /\ ExactInv /\ RecordedInv /\ CoveredInv /\ SoundInv
  BY DEF StrandsInv, RaceInv
<1>2. RecordedInv'
  BY <1>1, AccessKeepsRecorded, Zenon
<1>3. CoveredInv'
  <2>1. ~ violation' => ~ conflict' /\ \A a \in history' : \E x : Covered(a, x)'
    BY <1>1, AccessKeepsCovered, Zenon
  <2>2. QED
    BY <2>1 DEF CoveredInv
<1>4. SoundInv'
  <2>1. SUFFICES ASSUME strict', ~ LockOrder, violation' PROVE conflict'
    BY DEF SoundInv
  <2>2. /\ status[t] = "running" /\ t <= spawned /\ strict' = strict
        /\ conflict' = (conflict \/ RacesWith(t, kind, {}) # {})
        /\ violation' = (violation \/ CRacerFinds(t, kind))
    BY <1>1, AccessIs
  <2>3. Exact
    BY <1>1, <2>1, <2>2 DEF ExactInv
  <2>4. CASE violation
    BY <1>1, <2>1, <2>2, <2>4 DEF SoundInv
  <2>5. CASE CRacerFinds(t, kind)
    <3>1. RacesWith(t, kind, {}) # {}
      BY <1>1, <2>2, <2>3, <2>5, FindIsRace, Zenon
    <3>2. QED
      BY <2>2, <3>1
  <2>6. QED
    BY <2>1, <2>2, <2>4, <2>5
<1>5. QED
  BY <1>2, <1>3, <1>4 DEF RaceInv

LEMMA NextRaces == StrandsInv /\ RaceInv /\ [Next]_vars => RaceInv'
<1> SUFFICES ASSUME StrandsInv, RaceInv, [Next]_vars PROVE RaceInv'
  OBVIOUS
<1>1. TypeInv /\ StrandInv /\ ProgramTypeOK /\ FamilyInv /\ OrdersInv
  BY DEF StrandsInv, TypeInv, TypeOK, StrandInv
<1>2. Note => \A u, n, x : Mark(u, n, x) => Mark(u, n, x)'
  BY NoteFacts
<1>3. ASSUME UNCHANGED <<access, violation, conflict, history, english, hebrew, strict>>, Note
      PROVE  RaceInv'
  BY <1>1, <1>2, <1>3, RaceKept
<1>4. ASSUME NEW s \in Task, NEW p \in Task, NEW c \in Task, NEW next,
             SpawnEvent(s, p, c, next), Note
      PROVE  RaceInv'
  <2>1. UNCHANGED <<access, violation, conflict, history>> /\ (strict' => strict)
    BY <1>4 DEF SpawnEvent, CRacerSpawn, accessVars, OtherVars, ForkStep, Create
  <2>2. PICK W : W = NewStrands(p, c)
    OBVIOUS
  <2>3. /\ GoBehind(english, english', Known, current[p], W)
        /\ GoBehind(hebrew, hebrew', Known, current[p], W)
    BY <1>1, <1>4, <2>2, ForkOrders, Zenon
  <2>4. \A x, y \in Known : /\ <<x, y>> \in english' <=> <<x, y>> \in english
                            /\ <<x, y>> \in hebrew' <=> <<x, y>> \in hebrew
    BY <2>3 DEF GoBehind
  <2>5. QED
    BY <1>1, <1>2, <1>4, <2>1, <2>4, RaceKept
<1>5. ASSUME NEW t \in Task, MoveStep(t), Note PROVE RaceInv'
  <2>1. UNCHANGED <<access, violation, english, hebrew>>
    <3>1. CASE CRacerExecBegin(t) \/ CRacerWait(t)
      BY <3>1 DEF CRacerExecBegin, CRacerWait, accessVars
    <3>2. CASE UNCHANGED cracerVars
      BY <3>2 DEF cracerVars, strandVars, accessVars
    <3>3. QED
      BY <1>5, <3>1, <3>2, MoveIs DEF Returns, Begins, Ends, Stops, detectorVars
  <2>2. UNCHANGED <<conflict, history, strict>>
    <3>1. CASE Returns(t)
      BY <1>1, <3>1, ReturnFacts DEF Returns, OtherVars
    <3>2. CASE Begins(t) \/ Ends(t) \/ Stops(t)
      BY <1>1, <3>2, MoveFacts DEF OtherVars, hbVars, Moves
    <3>3. QED
      BY <1>5, <3>1, <3>2, MoveIs
  <2>3. QED
    BY <1>3, <1>5, <2>1, <2>2
<1>6. CASE UNCHANGED vars \/ \E t \in Task : IdleWait(t)
  <2>1. /\ UNCHANGED <<access, violation, conflict, history, english, hebrew, strict>>
        /\ stamps' = stamps
    BY <1>6, IdleFacts DEF vars, programVars, taskStateVars, hbVars, detectorVars,
                           cracerVars, strandVars, accessVars, OtherVars
  <2>2. \A u, n, x : Mark(u, n, x) => Mark(u, n, x)'
    BY <2>1 DEF Mark
  <2>3. QED
    BY <1>1, <2>1, <2>2, RaceKept
<1>7. ASSUME NEW t \in Task, NEW l \in Locks, LockStep(t, l), Note PROVE RaceInv'
  <2>1. UNCHANGED <<taskStateVars, history, cracerVars, conflict>>
    BY <1>7, LockFacts
  <2>2. QED
    BY <1>3, <1>7, <2>1 DEF taskStateVars, cracerVars, strandVars, accessVars
<1>8. ASSUME NEW t \in Task, NEW kind \in AccessType, Access(t, kind), Note PROVE RaceInv'
  BY <1>8, AccessKeepsRaces
<1>9. QED
  BY <1>1, <1>4, <1>5, <1>6, <1>7, <1>8, NextIs

LEMMA RaceInit == Init => RaceInv
<1> SUFFICES ASSUME Init PROVE RaceInv
  OBVIOUS
<1>1. /\ access = [writer |-> NULL, lreader |-> NULL, rreader |-> NULL]
      /\ violation = FALSE /\ conflict = FALSE /\ history = {}
  BY DEF Init, CRacerInit, ProgramInit, HBInit
<1>2. QED
  BY <1>1 DEF RaceInv, RecordedInv, CoveredInv, SoundInv

(***************************************************************************)
(* C-RACER misses no race, locks left aside: for any number of tasks and   *)
(* accesses, with siblings and without, and also when a release orders the *)
(* next acquisition, one writer and two readers per address are enough.    *)
(***************************************************************************)
THEOREM CRacerMissesNothing == Spec => [](conflict => violation)
<1>1. Init => StrandsInv /\ RaceInv
  BY StrandsInit, RaceInit
<1>2. StrandsInv /\ RaceInv /\ [Next]_vars => StrandsInv' /\ RaceInv'
  BY NextStrands, NextRaces
<1>3. RaceInv => (conflict => violation)
  BY DEF RaceInv, CoveredInv
<1>4. QED
  BY <1>1, <1>2, <1>3, PTL DEF Spec

(***************************************************************************)
(* It reports a race if and only if there is one: in a strict program      *)
(* every report is right.  A release must not order the next acquisition   *)
(* (~ LockOrder), for C-RACER has no hook for the locks.                   *)
(***************************************************************************)
THEOREM CRacerIsExact ==
  ASSUME ~ LockOrder
  PROVE  Spec => []CRacerExact
<1>1. Init => StrandsInv /\ RaceInv
  BY StrandsInit, RaceInit
<1>2. StrandsInv /\ RaceInv /\ [Next]_vars => StrandsInv' /\ RaceInv'
  BY NextStrands, NextRaces
<1>3. RaceInv => CRacerExact
  BY DEF RaceInv, CoveredInv, SoundInv, CRacerExact
<1>4. QED
  BY <1>1, <1>2, <1>3, PTL DEF Spec
=============================================================================
