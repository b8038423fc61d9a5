---------------------------- MODULE MCFastTrack ----------------------------
EXTENDS FastTrack

(* A report is checked but not continued: after it detected stays TRUE.    *)
(* With siblings the last access is not continued either.                  *)
Undecided == ~ detected /\ (strict \/ Cardinality(history) < MaxAccesses)
=============================================================================
