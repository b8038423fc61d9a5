-------------------------------- MODULE SPD3 --------------------------------
(***************************************************************************)
(* SPD3: one writer and two readers of the address, compared through the   *)
(* tree; locks are not looked at.  The module gives what RecordMem does;   *)
(* it has no next-state relation.                                          *)
(***************************************************************************)
EXTENDS ProgramTree

VARIABLES
  addr_vec,     \* Dr_Address_Data
  spd3Found     \* is the address in all_violations of SPD3?

spd3Vars == <<addr_vec, spd3Found>>

SPD3Init ==
  /\ addr_vec = [wr |-> Nobody, r1 |-> Nobody, r2 |-> Nobody]
  /\ spd3Found = FALSE

SPD3Finds(t, kind) ==
  /\ ~ Skipped(t)
  /\ \/ AreParallel(t, addr_vec.wr)
     \/ kind = WRITE /\ (AreParallel(t, addr_vec.r1) \/ AreParallel(t, addr_vec.r2))

(* The second reader is the next to come, parallel to the first or not.    *)
Readers(t, r1, r2) ==
  CASE r1 = Nobody -> <<Recorded(t), r2>>
    [] r1 # Nobody /\ r2 = Nobody -> <<r1, Recorded(t)>>
    [] OTHER ->
         IF ~ AreParallel(t, r1) /\ ~ AreParallel(t, r2)
         THEN <<Recorded(t), Nobody>>
         ELSE IF AreParallel(t, r1) /\ AreParallel(t, r2) /\ Widens(t, r1, r2)
         THEN <<Recorded(t), r2>>
         ELSE <<r1, r2>>

(* Faulty: the first write stays.                                          *)
KeepsFirstWriter(t, kind) ==
  /\ spd3Found' = (spd3Found \/ SPD3Finds(t, kind))
  /\ addr_vec' =
       IF Skipped(t) \/ spd3Found THEN addr_vec
       ELSE IF kind = WRITE
       THEN [addr_vec EXCEPT !.wr = IF @ = Nobody THEN Recorded(t) ELSE @]
       ELSE LET r == Readers(t, addr_vec.r1, addr_vec.r2)
            IN  [addr_vec EXCEPT !.r1 = r[1], !.r2 = r[2]]

(* RecordMem of SPD3, under the lock of the address: the word is updated   *)
(* after a race too.                                                       *)
SPD3RecordMem(t, kind) ==
  /\ spd3Found' = (spd3Found \/ SPD3Finds(t, kind))
  /\ addr_vec' =
       IF Skipped(t) \/ spd3Found THEN addr_vec
       ELSE IF kind = WRITE THEN [addr_vec EXCEPT !.wr = Recorded(t)]
       ELSE LET r == Readers(t, addr_vec.r1, addr_vec.r2)
            IN  [addr_vec EXCEPT !.r1 = r[1], !.r2 = r[2]]
=============================================================================
