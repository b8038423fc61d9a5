----------------------------- MODULE CRacerCalls -----------------------------
(***************************************************************************)
(* C-RACER with the calls of RecordMem cut where another thread can come   *)
(* between: find on var_map holds nothing when the address is absent, so   *)
(* the insertion that follows may meet an entry made in the meantime.      *)
(* From a find that succeeds to the end of the call the accessor is held.  *)
(***************************************************************************)
EXTENDS CRacer

CONSTANT MaxAccesses    \* bound on the accesses of a behaviour

VARIABLES
  present,       \* is the address in var_map?
  creating       \* the tasks between a find that failed and the insertion

vars == <<programVars, cracerVars, present, creating>>

Init ==
  /\ ProgramInit /\ CRacerInit
  /\ present = FALSE
  /\ creating = [t \in Task |-> "none"]

Idle(t) == creating[t] = "none"

-----------------------------------------------------------------------------
TaskStep ==
  /\ \E t \in Task :
       /\ Idle(t)
       /\ \/ ExecBegin(t) /\ CRacerExecBegin(t)
          \/ ExecEnd(t) /\ UNCHANGED cracerVars
          \/ (WaitForAll(t) \/ (t = 0 /\ MainReturns)) /\ UNCHANGED cracerVars
          \/ (WaitForAllReturn(t) \/ RootWaitReturn(t)) /\ CRacerWait(t)
          \/ \E c \in Task :
               /\ Spawn(t, c) \/ SpawnAndWaitForAll(t, c) \/ SpawnRootAndWait(t, c)
               /\ CRacerSpawn(t, c)
  /\ UNCHANGED <<present, creating>>

(* The whole call, when the address is found or a race was reported.       *)
CheckAccess(t, kind) ==
  /\ present \/ violation
  /\ CRacerRecordMem(t, kind)
  /\ UNCHANGED <<present, creating>>

(* The address is not found: a VarState is made for it.                    *)
FindFails(t, kind) ==
  /\ ~ present /\ ~ violation
  /\ creating' = [creating EXCEPT ![t] = kind]
  /\ UNCHANGED <<cracerVars, present>>

Access(t, kind) ==
  /\ Idle(t)
  /\ Cardinality(history) < MaxAccesses
  /\ Touch(t, kind)
  /\ CheckAccess(t, kind) \/ FindFails(t, kind)

(* The new VarState goes to the address, whatever is there by now.         *)
InsertAccess(t) ==
  /\ ~ Idle(t)
  /\ access' = LET c == current[t]
               IN  IF creating[t] = WRITE
                   THEN [writer |-> c, lreader |-> NULL, rreader |-> NULL]
                   ELSE [writer |-> NULL, lreader |-> c, rreader |-> c]
  /\ present' = TRUE
  /\ creating' = [creating EXCEPT ![t] = "none"]
  /\ UNCHANGED <<programVars, strandVars, violation>>

Terminated == status[0] = "finished" /\ UNCHANGED vars

Next ==
  \/ /\ status[0] # "finished"
     /\ \/ TaskStep
        \/ \E t \in Task, kind \in AccessType : Access(t, kind)
        \/ \E t \in Task : InsertAccess(t)
  \/ Terminated

Spec == Init /\ [][Next]_vars

-----------------------------------------------------------------------------
(***************************************************************************)
(* Completeness: once no call is under way, a race between the accesses    *)
(* made so far has been reported.                                          *)
(***************************************************************************)
NoMissedRace == raced /\ (\A t \in Task : Idle(t)) => violation
=============================================================================
