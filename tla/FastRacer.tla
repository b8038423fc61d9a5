------------------------------ MODULE FastRacer ------------------------------
(***************************************************************************)
(* FastRacer: RecordMem on one shared address, on top of the task          *)
(* bookkeeping of FastRacerTasks.  The shadow word of the address keeps an *)
(* entry per lockset, and in each entry at most two reads and two writes.  *)
(***************************************************************************)
EXTENDS FastRacerTasks

CONSTANT MaxAccesses      \* bound on the accesses of a behaviour

VARIABLES
  v,             \* VarState::v, NUM_FIXED_VAR_ENTRIES entries
  cursize,       \* VarState::cursize
  is_racy,       \* VarState::is_racy
  all_violations \* the first race reported on the address, or <<>>

shadowVars == <<v, cursize, is_racy, all_violations>>
vars == <<allTaskVars, shadowVars>>

NUM_FIXED_VAR_ENTRIES == 3
Entry == 0 .. NUM_FIXED_VAR_ENTRIES - 1

ASSUME MaxAccessesAssumption == MaxAccesses \in Nat

(* A slot is a recorded (task, clock) pair; the empty slot is all zeros.   *)
Empty == [tid |-> 0, clk |-> 0]
NoAccess == [lockset |-> {}, rd |-> <<Empty, Empty>>, wr |-> <<Empty, Empty>>]

ShadowInit ==
  /\ v = [i \in Entry |-> NoAccess]
  /\ cursize = 0
  /\ is_racy = FALSE
  /\ all_violations = <<>>

Init == TasksInit /\ ShadowInit

-----------------------------------------------------------------------------
Slots(e) == {e.rd[1], e.rd[2], e.wr[1], e.wr[2]}
SlotsOf(e, kind) == IF kind = READ THEN e.rd ELSE e.wr
WithSlots(e, kind, pair) ==
  IF kind = READ THEN [e EXCEPT !.rd = pair] ELSE [e EXCEPT !.wr = pair]

HappensBeforeSlot(t, x) == x.clk = 0 \/ OrderedBefore(t, x.tid, x.clk)

(* Faulty: identifiers are stored with the offset of the joinset.          *)
OffsetSlot(t) == [tid |-> t + 1, clk |-> clock[t]]

CurSlot(t) == [tid |-> t, clk |-> clock[t]]

(***************************************************************************)
(* The first access of a variable, or of a new phase of the main program:  *)
(* every slot is empty or dead.  The entries in use are cleared, and the   *)
(* access is recorded in entry 0: a write leaves the lockset there empty.  *)
(***************************************************************************)
FirstAccess ==
  \A i \in 0 .. cursize : \A x \in Slots(v[i]) : check_dead(x.tid, x.clk)

RecordFirst(t, kind) ==
  LET e == WithSlots(NoAccess, kind, <<CurSlot(t), Empty>>)
      first == IF kind = READ THEN [e EXCEPT !.lockset = lockset[t]] ELSE e
  IN  /\ v' = [i \in Entry |-> IF i = 0 THEN first
                               ELSE IF i <= cursize THEN NoAccess ELSE v[i]]
      /\ cursize' = 0
      /\ UNCHANGED <<is_racy, all_violations>>

(* Faulty: a read is checked against the reads too; reads and writes are   *)
(* taken for each other.                                                   *)
AllSlots(e, kind) ==
  LET tag(x, k) == [tid |-> x.tid, clk |-> x.clk, kind |-> k]
  IN  <<tag(e.wr[1], WRITE), tag(e.wr[2], WRITE),
        tag(e.rd[1], READ), tag(e.rd[2], READ)>>

SwappedSlots(e, kind) ==
  LET tag(x, k) == [tid |-> x.tid, clk |-> x.clk, kind |-> k]
  IN  <<tag(e.wr[1], READ), tag(e.wr[2], READ)>>

(***************************************************************************)
(* The slots a new access is checked against, in the order of the code: a  *)
(* read against the writes, a write also against the reads.                *)
(***************************************************************************)
ConflictingSlots(e, kind) ==
  LET tag(x, k) == [tid |-> x.tid, clk |-> x.clk, kind |-> k]
      writes == <<tag(e.wr[1], WRITE), tag(e.wr[2], WRITE)>>
  IN  IF kind = READ
      THEN writes
      ELSE writes \o <<tag(e.rd[1], READ), tag(e.rd[2], READ)>>

RacingSlots(t, e, kind) ==
  {j \in DOMAIN ConflictingSlots(e, kind) :
     ~ HappensBeforeSlot(t, ConflictingSlots(e, kind)[j])}

SameEpoch(t, e, kind) ==
  \E j \in 1 .. 2 : SlotsOf(e, kind)[j] = CurSlot(t)

(***************************************************************************)
(* Entries whose lockset shares a lock with the current one are skipped;   *)
(* the scan stops at the first entry that has the access already or races. *)
(***************************************************************************)
Stops(t, i, kind) ==
  /\ v[i].lockset \cap lockset[t] = {}
  /\ SameEpoch(t, v[i], kind) \/ RacingSlots(t, v[i], kind) # {}

ScanStops(t, kind) == {i \in 0 .. cursize : Stops(t, i, kind)}

StopAt(t, i, kind) ==
  IF SameEpoch(t, v[i], kind)
  THEN UNCHANGED shadowVars
  ELSE LET first == ConflictingSlots(v[i], kind)[Min(RacingSlots(t, v[i], kind))]
       IN  /\ is_racy' = TRUE
           /\ all_violations' = <<first.tid, first.kind, t, kind>>
           /\ UNCHANGED <<v, cursize>>

(***************************************************************************)
(* The replacement rule for two slots that are both concurrent with t:     *)
(* paths are compared up to the first level where they do not all agree,   *)
(* and slot 1 makes way when t leaves the other two there.                 *)
(***************************************************************************)
PathAt(t, i) == IF i < depth(t) THEN m_vc[t][i + 1] ELSE 0

(* Faulty: a third concurrent access is never recorded.                    *)
NeverLeavesHigher(t, a, b) == FALSE

LeavesHigher(t, a, b) ==
  LET min == Min({depth(t), depth(a), depth(b)})
      agree(i) == PathAt(a, i) = PathAt(b, i) /\ PathAt(a, i) = PathAt(t, i)
      i == CHOOSE k \in 0 .. min : /\ k = min \/ ~ agree(k)
                                   /\ \A j \in 0 .. k - 1 : agree(j)
  IN  \/ i = depth(t)
      \/ PathAt(t, i) # PathAt(a, i) /\ PathAt(t, i) # PathAt(b, i)

(* Faulty: the last access replaces the first slot.                        *)
OverwritesFirst(t, pair) == <<CurSlot(t), pair[2]>>

UpdateSlots(t, pair) ==
  IF \/ HappensBeforeSlot(t, pair[1])
     \/ /\ ~ HappensBeforeSlot(t, pair[2])
        /\ LeavesHigher(t, pair[1].tid, pair[2].tid)
  THEN <<CurSlot(t), pair[2]>>
  ELSE IF HappensBeforeSlot(t, pair[2])
  THEN <<pair[1], CurSlot(t)>>
  ELSE pair

(* The entry with the lockset of t, the last one if there are several.     *)
Matching(t) == {i \in 0 .. cursize : v[i].lockset = lockset[t]}

RecordInEntry(t, i, kind) ==
  /\ v' = [v EXCEPT ![i] =
             WithSlots(@, kind, UpdateSlots(t, SlotsOf(@, kind)))]
  /\ UNCHANGED <<cursize, is_racy, all_violations>>

RecordNewEntry(t, kind) ==
  /\ v' = [v EXCEPT ![cursize] =
             WithSlots([NoAccess EXCEPT !.lockset = lockset[t]], kind,
                       <<CurSlot(t), Empty>>)]
  /\ cursize' = cursize + 1
  /\ UNCHANGED <<is_racy, all_violations>>

(***************************************************************************)
(* RecordMem, under the lock of the address.  Once cursize has reached the *)
(* size of v the code reads and writes past the array; the model stops     *)
(* recording there.                                                        *)
(***************************************************************************)
RecordMem(t, kind) ==
  IF is_racy THEN UNCHANGED shadowVars
  ELSE IF FirstAccess THEN RecordFirst(t, kind)
  ELSE LET stops == ScanStops(t, kind)
       IN  IF stops # {} THEN StopAt(t, Min(stops), kind)
           ELSE IF Matching(t) # {} THEN RecordInEntry(t, Max(Matching(t)), kind)
           ELSE RecordNewEntry(t, kind)

Access(t, kind) ==
  /\ Running(t)
  /\ AccessOf(t, kind, held[t]) \notin history
       => Cardinality(history) < MaxAccesses
  /\ cursize < NUM_FIXED_VAR_ENTRIES
  /\ RecordMem(t, kind)
  /\ HBAccess(t, kind, held[t])
  /\ UNCHANGED <<tbbVars, taskVars, lockVars, deadVars>>

Terminated == status[0] = "finished" /\ UNCHANGED vars

Next ==
  \/ /\ status[0] # "finished"
     /\ \/ TaskStep /\ UNCHANGED shadowVars
        \/ \E t \in Task, kind \in AccessType : Access(t, kind)
  \/ Terminated

Spec == Init /\ [][Next]_vars

-----------------------------------------------------------------------------
(* The shadow word has the type of the fields it stands for.               *)
Slot == [tid : Task, clk : Nat]
LockState == [lockset : SUBSET Locks, rd : Slot \X Slot, wr : Slot \X Slot]

TypeOK ==
  /\ TasksTypeOK
  /\ v \in [Entry -> LockState]
  /\ cursize \in 0 .. NUM_FIXED_VAR_ENTRIES
  /\ is_racy \in BOOLEAN
  /\ all_violations \in {<<>>} \cup (Task \X AccessType \X Task \X AccessType)

(***************************************************************************)
(* Soundness: "Test has no data race but tool reported data race" never    *)
(* happens.  Whatever the order of spawns, waits and accesses, a report    *)
(* means that two accesses made so far are a data race.                    *)
(***************************************************************************)
NoFalseReport == is_racy => raced

(***************************************************************************)
(* Completeness: "Test has a data race but was not reported by tool" never *)
(* happens, although two reads and two writes are all that is remembered   *)
(* of an address.  The report comes no later than the second access of the *)
(* first race.                                                             *)
(***************************************************************************)
NoMissedRace == raced => is_racy

(***************************************************************************)
(* FastRacer does what RaceOracle promises: with is_racy in the place of   *)
(* raced, each of its steps is a step of the oracle or changes nothing     *)
(* there, so it reports at the access that completes the first race.       *)
(***************************************************************************)
Oracle == INSTANCE RaceOracle WITH raced <- is_racy
ImplementsOracle == Oracle!Spec
=============================================================================
