--------------------------- MODULE MCShadowSpace ---------------------------
(***************************************************************************)
(* ShadowSpace with the inputs that differ by more than a renaming of the  *)
(* calls: three calls for one word and one elsewhere, or two words with    *)
(* two calls each, on one page or on two; only calls for one address are   *)
(* in conflict, in any combination.                                        *)
(***************************************************************************)
EXTENDS ShadowSpace, FiniteSets

CONSTANTS c1, c2, c3, c4

MCInit ==
  /\ Init
  /\ addr[c1] = 0 /\ addr[c2] = 0
  /\ addr[c3] <= addr[c4] /\ addr[c4] # 0
  /\ \A P \in conflicts : Cardinality({addr[c] : c \in P}) = 1
  /\ {c1, c3} \in conflicts => {c2, c3} \in conflicts
  /\ {c2, c3} \in conflicts => {c1, c2} \in conflicts

MCSpec == MCInit /\ [][Next]_vars /\ \A c \in Call : WF_vars(Step(c))
=============================================================================
