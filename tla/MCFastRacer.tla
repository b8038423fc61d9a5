----------------------------- MODULE MCFastRacer -----------------------------
(***************************************************************************)
(* Constraints that cut the state space of FastRacer down to the           *)
(* behaviours a run is about.                                              *)
(***************************************************************************)
EXTENDS FastRacer

(* The first report of a third or fourth access is checked but not         *)
(* continued: after it is_racy and raced stay TRUE.                        *)
LateReportEnds == is_racy => Cardinality(history) < 3

(* The program spawns no task while it holds a lock.                       *)
NoSpawnUnderLock == \A t \in Task : lockset[t] = held[t]
=============================================================================
