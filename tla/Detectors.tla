----------------------------- MODULE Detectors -----------------------------
(***************************************************************************)
(* C-RACER, PTracer and SPD3 watching one execution of one program, side   *)
(* by side: every program event runs the hook of each of them.             *)
(***************************************************************************)
EXTENDS CRacer, PTracer, SPD3

CONSTANT MaxAccesses    \* bound on the accesses of a behaviour

VARIABLES
  conflict,      \* history: raced, if the locks are not looked at
  due,           \* history: 2 for a task that has spawned since its last wait,
                 \* else 1, and 0 for one that has waited without
  stamps         \* history: <<task, segment, strand, step>> of each segment

detectorVars == <<cracerVars, frames, ptracerVars, spd3Vars>>
vars == <<programVars, detectorVars, conflict, due, stamps>>

Init ==
  /\ ProgramInit
  /\ CRacerInit /\ TreeInit /\ PTracerInit /\ SPD3Init
  /\ conflict = FALSE /\ due = [t \in Task |-> 1] /\ stamps = {}

-----------------------------------------------------------------------------
OtherVars == <<ptracerVars, spd3Vars, conflict>>

SpawnStep(s, c) ==
  \/ /\ Spawn(s, c) \/ SpawnAndWaitForAll(s, c)
     /\ CRacerSpawn(s, c) /\ TreeSpawn(s, c)
     /\ due' = [due EXCEPT ![s] = 2]
     /\ UNCHANGED OtherVars
  \/ /\ SpawnSibling(s, c)
     /\ CRacerSpawn(parent[s], c) /\ TreeSpawn(s, c)
     /\ due' = [due EXCEPT ![s] = 2]
     /\ UNCHANGED OtherVars
  \/ /\ SpawnRootAndWait(s, c)
     /\ CRacerSpawn(s, c) /\ TreeSpawnRoot(s, c)
     /\ UNCHANGED <<due, OtherVars>>

(* The node a wait takes off.                                              *)
Settle(t) == due' = [due EXCEPT ![t] = @ - 1]

MoveStep(t) ==
  \/ /\ ExecBegin(t) /\ CRacerExecBegin(t)
     /\ UNCHANGED <<frames, due, OtherVars>>
  \/ /\ ExecEnd(t) /\ TreeReturn(t)
     /\ UNCHANGED <<cracerVars, due, OtherVars>>
  \/ /\ WaitForAll(t) \/ (t = 0 /\ MainReturns)
     /\ UNCHANGED <<detectorVars, conflict, due>>
  \/ /\ WaitForAllReturn(t) /\ CRacerWait(t) /\ TreeWait(t) /\ Settle(t)
     /\ UNCHANGED OtherVars
  \/ /\ RootWaitReturn(t) /\ CRacerWait(t)
     /\ UNCHANGED <<frames, due, OtherVars>>

LockStep(t, l) ==
  /\ \/ Acquire(t, l) /\ LockAcquired(t, l)
     \/ Release(t, l) /\ LockReleased(t)
  /\ UNCHANGED <<cracerVars, frames, spd3Vars, conflict, due>>

Access(t, kind) ==
  /\ AccessOf(t, kind, held[t]) \notin history => Cardinality(history) < MaxAccesses
  /\ Touch(t, kind)
  /\ CRacerRecordMem(t, kind)
  /\ PTracerRecordMem(t, kind)
  /\ SPD3RecordMem(t, kind)
  /\ conflict' = (conflict \/ RacesWith(t, kind, {}) # {})
  /\ UNCHANGED <<frames, due>>

(* The strand and the step of every segment in which a task runs are noted.*)
Note ==
  stamps' = stamps \cup
    {<<t, seg'[t], current'[t], Last(frames'[t]).step>> :
       t \in {u \in Task : status'[u] = "running"}}

(* A wait with no child outstanding ends no segment: nothing is noted.     *)
IdleWait(t) ==
  /\ WaitForNothing(t) /\ TreeWait(t) /\ Settle(t)
  /\ UNCHANGED <<cracerVars, OtherVars, stamps>>

(* No task has waited without having spawned.                              *)
WaitsMatched == \A t \in Task : due[t] > 0

Terminated == status[0] = "finished" /\ UNCHANGED vars

(* PTracer ends at an assertion when the stack of the thread is empty; a   *)
(* behaviour is not followed beyond a wait that took the task's own node.  *)
Next ==
  \/ /\ status[0] # "finished" /\ WaitsMatched
     /\ \/ /\ \/ \E s, c \in Task : SpawnStep(s, c)
              \/ \E t \in Task : MoveStep(t)
              \/ \E t \in Task, l \in Locks : LockStep(t, l)
              \/ \E t \in Task, kind \in AccessType : Access(t, kind)
           /\ Note
        \/ \E t \in Task : IdleWait(t)
  \/ Terminated

Spec == Init /\ [][Next]_vars

-----------------------------------------------------------------------------
(* Every variable has its type.                                            *)
TypeOK ==
  /\ ProgramTypeOK /\ CRacerTypeOK
  /\ thd_lockset \in [Task -> Seq(Locks)]
  /\ due \in [Task -> 0 .. 2]
  /\ conflict \in BOOLEAN /\ ptracerFound \in BOOLEAN /\ spd3Found \in BOOLEAN

(***************************************************************************)
(* In a strict program C-RACER's two lists agree on two strands exactly    *)
(* when one happened before the other.                                     *)
(***************************************************************************)
StrandsExact ==
  strict =>
    \A t \in Task, s \in stamps :
      Running(t) /\ s[1] # t
        => (<<s[1], s[2]>> \in before[t]
             <=> /\ Precedes(english, s[3], current[t])
                 /\ Precedes(hebrew, s[3], current[t]))

(* The programs whose tree PTracer and SPD3 record in full.                *)
Recordable == strict /\ WaitsMatched

(***************************************************************************)
(* In a strict program the tree of PTracer and SPD3 calls two steps        *)
(* parallel exactly when neither happened before the other, although it    *)
(* records nothing when a wait for a root ends: as long as no task has     *)
(* waited without having spawned.                                          *)
(***************************************************************************)
StepsExact ==
  Recordable =>
    \A t \in Task, s \in stamps :
      Running(t) /\ t # 0 /\ s[1] \notin {0, t}
        => (<<s[1], s[2]>> \notin before[t] <=> Parallel(Top(t).step, s[4]))

(***************************************************************************)
(* C-RACER reports a race, at the latest with its second access, if and    *)
(* only if there is one, locks left aside: two readers and one writer are  *)
(* enough.  With siblings it still misses none.                            *)
(***************************************************************************)
CRacerExact ==
  /\ conflict => violation
  /\ strict /\ violation => conflict

(***************************************************************************)
(* PTracer reports a race if and only if there is one between accesses     *)
(* with no lock in common: two readers and two writers per set of locks    *)
(* are enough, and nothing is lost by skipping what main accesses.         *)
(***************************************************************************)
PTracerExact == strict => (ptracerFound <=> raced)

(***************************************************************************)
(* SPD3 reports no race where no two accesses conflict, and misses none    *)
(* whose first access is a write (one whose first access is a read can be  *)
(* missed, see Readers).                                                   *)
(***************************************************************************)
SPD3FindsWrites ==
  /\ strict /\ spd3Found => conflict
  /\ Recordable =>
       \A t \in Task, kind \in AccessType :
         /\ Running(t)
         /\ \E a \in history : a.kind = WRITE /\ Concurrent(t, a)
         => spd3Found \/ SPD3Finds(t, kind)

(***************************************************************************)
(* The nodes a task has on the stack of its thread are its own and, from   *)
(* its first spawn to its next wait, one FINISH node, also when it spawns  *)
(* siblings; at its end none is left.  A wait of a task that has spawned   *)
(* nothing since the last one, and no other step, takes its own node off.  *)
(***************************************************************************)
StackBalanced ==
  \A t \in Task \ {0} :
    Len(frames[t]) = IF status[t] \in {"unborn", "finished"} THEN 0 ELSE due[t]

(***************************************************************************)
(* C-RACER deletes the state of a task once, after the task has ended and  *)
(* when no task that goes on can spawn under it any more.                  *)
(***************************************************************************)
StatesDeletedOnce ==
  /\ \A t \in deleted : status[t] = "finished"
  /\ \A t \in Task \ deleted :
       /\ Adopted(t) \cap deleted = {}
       /\ Running(t) => parent[t] \notin deleted
=============================================================================
