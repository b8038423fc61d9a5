----------------------------- MODULE RaceOracle -----------------------------
(***************************************************************************)
(* What a precise and complete dynamic race detector promises, whatever    *)
(* data structure it keeps: it says "race" at the very access that         *)
(* completes the first data race on the address, and never otherwise.      *)
(* FastRacer is shown to implement this specification for programs that    *)
(* use strict fork-join and no locks.                                      *)
(***************************************************************************)
EXTENDS HappensBefore

CONSTANT Locks

Started(t) == seg[t] > 0

Fork(s, c) ==
  /\ Started(s) /\ ~ Started(c)
  /\ HBFork(s, c)
  /\ UNCHANGED <<history, raced>>

Join(p) ==
  /\ Started(p)
  /\ seg'[p] # seg[p]
  /\ \E S \in SUBSET {t \in Task : Started(t)} : HBJoin(p, S)
  /\ UNCHANGED <<history, raced>>

Access(t, kind, locks) ==
  /\ Started(t)
  /\ HBAccess(t, kind, locks)

Init == HBInit

Next ==
  \/ \E s, c \in Task : Fork(s, c)
  \/ \E p \in Task : Join(p)
  \/ \E t \in Task, kind \in AccessType, locks \in SUBSET Locks :
       Access(t, kind, locks)

Spec == Init /\ [][Next]_hbVars
=============================================================================
