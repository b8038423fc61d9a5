------------------------------ MODULE FastTrack ------------------------------
(***************************************************************************)
(* FastTrack for tasks: a vector clock per task and per lock, and for one  *)
(* address the epoch of the last write and the epoch, or the map, of the   *)
(* last reads.  A hook runs together with the program event it belongs to. *)
(***************************************************************************)
EXTENDS TaskProgram, FiniteSetsExt

CONSTANTS
  PointerTask,     \* the address of a read map, taken for an epoch: its task
  PointerClock,    \* ... and its clock
  MaxAccesses      \* bound on the accesses of a behaviour

VARIABLES
  vc,              \* TaskState::m_vector_clock
  m_child,         \* TaskState::m_child
  lvc,             \* LockState::m_lvc
  word,            \* VarState; its initial value also stands for none
  detected,        \* has error() been reached?
  stamps           \* history: the clocks of each segment <<task, n>>

clockVars == <<vc, m_child, lvc>>
shadowVars == <<word, detected>>
vars == <<programVars, clockVars, shadowVars, stamps>>

(* The high bits of a heap address are no task number of a small program.  *)
ASSUME PointerAssumption ==
  /\ PointerTask \in Nat \ Task
  /\ PointerClock \in Nat \ {0}
  /\ MaxAccesses \in Nat

Recorded == Task \cup {PointerTask}
NoEpoch == [tid |-> 0, clk |-> 0]
Pointer == [tid |-> PointerTask, clk |-> PointerClock]
NoReads == [u \in Recorded |-> 0]

(* The state of the main program is created by its first hook, with a      *)
(* clock that is 1 when the hook ends.                                     *)
Init ==
  /\ ProgramInit
  /\ vc = [t \in Task |-> [u \in Task |-> 0]]
  /\ m_child = [t \in Task |-> {}]
  /\ lvc = [l \in Locks |-> [u \in Task |-> 0]]
  /\ word = [wr |-> NoEpoch, racy |-> FALSE,
             rd |-> NoEpoch, is_vector |-> FALSE, rd_vc |-> NoReads]
  /\ detected = FALSE
  /\ stamps = {}

-----------------------------------------------------------------------------
(***************************************************************************)
(* The locked section of t_debug_task::spawn: the child starts from the    *)
(* clock of the parent, then each of the two increments its own entry.     *)
(***************************************************************************)
BookSpawn(p, c) ==
  /\ vc' = [vc EXCEPT ![c] = [vc[p] EXCEPT ![c] = @ + 1], ![p][p] = @ + 1]
  /\ m_child' = [m_child EXCEPT ![p] = @ \cup {c}]
  /\ UNCHANGED <<lvc, shadowVars>>

(***************************************************************************)
(* Capturewait_for_all_task joins the children of t, each of which has     *)
(* first joined the children it left behind.                               *)
(***************************************************************************)
Adopts(S, t) == m_child[t] \subseteq S /\ \A c \in S : m_child[c] \subseteq S

LeftBehind(t) ==
  {c \in Task : \A S \in SUBSET Task : Adopts(S, t) => c \in S}

(* Faulty: a wait does not join the clocks of the children.                *)
KeepsOwnClock(t) == vc[t]

JoinedClock(t) ==
  [u \in Task |-> Max({vc[x][u] : x \in {t} \cup LeftBehind(t)})]

Capturewait_for_all(t) ==
  LET joined == LeftBehind(t)
  IN  /\ vc' = [x \in Task |->
                  IF x \in {t} \cup joined THEN JoinedClock(x) ELSE vc[x]]
      /\ m_child' = [x \in Task |->
                       IF x \in {t} \cup joined THEN {} ELSE m_child[x]]
      /\ UNCHANGED <<lvc, shadowVars>>

(* A lock hook finds the task state it looks up: main has one once it has  *)
(* spawned or made an access.                                              *)
CaptureLockAcquire(t, l) ==
  /\ vc[t][t] > 0
  /\ vc' = [vc EXCEPT ![t] = [u \in Task |-> Max({vc[t][u], lvc[l][u]})]]
  /\ UNCHANGED <<m_child, lvc, shadowVars>>

(* Faulty: the clock of the releasing task is not incremented.             *)
ReleasesWithoutTick(t, l) ==
  /\ lvc' = [lvc EXCEPT ![l] = vc[t]]
  /\ UNCHANGED <<vc, m_child, shadowVars>>

CaptureLockRelease(t, l) ==
  /\ lvc' = [lvc EXCEPT ![l] = vc[t]]
  /\ vc' = [vc EXCEPT ![t][t] = @ + 1]
  /\ UNCHANGED <<m_child, shadowVars>>

-----------------------------------------------------------------------------
(* RecordMem creates the state of main with clock 1 if there is none.      *)
Clock(t) == IF vc[t][t] = 0 THEN 1 ELSE vc[t][t]

(* Faulty: tasks are numbered from 1 in an epoch.                          *)
OffsetEpoch(t) == [tid |-> t + 1, clk |-> Clock(t)]

Epoch(t) == [tid |-> t, clk |-> Clock(t)]

element(t, u) == IF u = t THEN Clock(t) ELSE IF u \in Task THEN vc[t][u] ELSE 0

NotBefore(t, e) == e.tid # t /\ e.clk > element(t, e.tid)

(* What a read leaves behind: an epoch while the reads are ordered, else a *)
(* map.  A task that is in the map already keeps its old clock.            *)
ReadWord(t) ==
  IF word.is_vector
  THEN [word EXCEPT !.rd_vc[t] = IF @ = 0 THEN Clock(t) ELSE @]
  ELSE IF word.rd.clk <= element(t, word.rd.tid)
  THEN [word EXCEPT !.rd = Epoch(t)]
  ELSE [word EXCEPT !.rd = Pointer, !.is_vector = TRUE,
                    !.rd_vc = [NoReads EXCEPT ![word.rd.tid] = word.rd.clk,
                                              ![t] = Clock(t)]]

(* Faulty: a write keeps the epoch of an earlier one.                      *)
KeepsFirstWrite(t) ==
  IF word.wr = NoEpoch THEN [word EXCEPT !.wr = Epoch(t)] ELSE word

(* A write replaces the epoch, and with it a mark of a race.  A map is     *)
(* emptied, but its address stays in the place of the read epoch.          *)
WrittenWord(t) ==
  [word EXCEPT !.wr = Epoch(t), !.racy = FALSE, !.is_vector = FALSE,
               !.rd = IF word.is_vector THEN @ ELSE NoEpoch,
               !.rd_vc = NoReads]

(* A write by the last writer is not checked against a read epoch.         *)
ReadsRace(t) ==
  \/ /\ word.is_vector
     /\ \E u \in Recorded : u # t /\ word.rd_vc[u] > element(t, u)
  \/ ~ word.is_vector /\ t # word.wr.tid /\ NotBefore(t, word.rd)

SameEpoch(t, kind) ==
  \/ kind = READ /\ ~ word.is_vector /\ word.rd = Epoch(t)
  \/ kind = WRITE /\ word.wr = Epoch(t)

Reports(t, kind) ==
  /\ ~ word.racy /\ ~ SameEpoch(t, kind)
  /\ \/ NotBefore(t, word.wr)
     \/ kind = WRITE /\ ReadsRace(t)

(***************************************************************************)
(* RecordMem, under the lock of the address: ftread and ftwrite.  A race   *)
(* with the last write ends the call with the word marked racy.            *)
(***************************************************************************)
RecordMem(t, kind) ==
  /\ detected' = (detected \/ Reports(t, kind))
  /\ word' = IF word.racy \/ SameEpoch(t, kind) THEN word
             ELSE IF NotBefore(t, word.wr) THEN [word EXCEPT !.racy = TRUE]
             ELSE IF kind = READ THEN ReadWord(t) ELSE WrittenWord(t)
  /\ vc' = [vc EXCEPT ![t][t] = Clock(t)]
  /\ UNCHANGED <<m_child, lvc>>

Access(t, kind) ==
  /\ AccessOf(t, kind, {}) \notin history => Cardinality(history) < MaxAccesses
  /\ Touch(t, kind)
  /\ RecordMem(t, kind)

-----------------------------------------------------------------------------
NoHook == UNCHANGED <<clockVars, shadowVars>>

TaskStep ==
  \/ \E s, c \in Task :
       \/ /\ Spawn(s, c) \/ SpawnAndWaitForAll(s, c) \/ SpawnRootAndWait(s, c)
          /\ BookSpawn(s, c)
       \/ SpawnSibling(s, c) /\ BookSpawn(parent[s], c)
  \/ \E t \in Task :
       \/ /\ WaitForAllReturn(t) \/ RootWaitReturn(t)
          /\ Capturewait_for_all(t)
       \/ /\ ExecBegin(t) \/ ExecEnd(t) \/ WaitForAll(t)
          /\ NoHook
  \/ MainReturns /\ NoHook
  \/ \E t \in Task, l \in Locks :
       \/ Acquire(t, l) /\ CaptureLockAcquire(t, l)
       \/ Release(t, l) /\ CaptureLockRelease(t, l)
  \/ \E t \in Task, kind \in AccessType : Access(t, kind)

(* The clock of every segment that has one is noted.                       *)
Note ==
  stamps' = stamps \cup
    {<<t, seg'[t], vc'[t][t]>> : t \in {u \in Task : vc'[u][u] > 0}}

Terminated == status[0] = "finished" /\ UNCHANGED vars

Next ==
  \/ status[0] # "finished" /\ TaskStep /\ Note
  \/ Terminated

Spec == Init /\ [][Next]_vars

-----------------------------------------------------------------------------
(* Clocks, epochs and maps have the types of the fields they stand for.    *)
VarState == [wr : [tid : Task, clk : Nat], racy : BOOLEAN,
             rd : [tid : Recorded, clk : Nat], is_vector : BOOLEAN,
             rd_vc : [Recorded -> Nat]]

TypeOK ==
  /\ ProgramTypeOK
  /\ vc \in [Task -> [Task -> Nat]]
  /\ m_child \in [Task -> SUBSET Task]
  /\ lvc \in [Locks -> [Task -> Nat]]
  /\ word \in VarState
  /\ detected \in BOOLEAN
  /\ stamps \subseteq Task \X Nat \X Nat

(***************************************************************************)
(* A vector clock says exactly what happened before: an epoch of another   *)
(* task, whenever it was recorded, is covered by the clock of t if and     *)
(* only if the segment it was recorded in happened before t, by spawns,    *)
(* waits and the order in which locks were held.  In a program that is not *)
(* strict a child can still be booked under its parent's later clock.      *)
(***************************************************************************)
ClocksExact ==
  strict =>
    \A t \in Task, s \in stamps :
      s[1] # t /\ seg[t] > 0
        => (s[3] <= vc[t][s[1]] <=> <<s[1], s[2]>> \in before[t])

(***************************************************************************)
(* A race whose first access is a write is reported by the second access   *)
(* at the latest, although one write epoch is all that is kept and a mark  *)
(* of a race may be overwritten.                                           *)
(***************************************************************************)
WriteRacesFound ==
  \A t \in Task, kind \in AccessType :
    /\ Running(t)
    /\ \E a \in history : a.kind = WRITE /\ Concurrent(t, a)
    => detected \/ Reports(t, kind)

(***************************************************************************)
(* In a strict program an access is reported only if it is in a race with  *)
(* an access made before: unless the word still holds the address of a     *)
(* map that a write has emptied, or an entry made from one.                *)
(***************************************************************************)
StaleRead ==
  \/ ~ word.is_vector /\ word.rd = Pointer
  \/ word.rd_vc[PointerTask] # 0

ReportsAreGenuine ==
  \A t \in Task, kind \in AccessType :
    strict /\ Running(t) /\ Reports(t, kind) /\ ~ StaleRead
      => RacesWith(t, kind, {}) # {}

(***************************************************************************)
(* "Test has a data race but was not reported by tool" never happens.      *)
(***************************************************************************)
NoMissedRace == raced => detected

(***************************************************************************)
(* "Test has no data race but tool reported data race" never happens.      *)
(***************************************************************************)
NoFalseReport == detected => raced
=============================================================================
