---------------------------- MODULE ShadowMemory ----------------------------
(***************************************************************************)
(* What RecordMem promises the rest of FastRacer: the accesses to a shadow *)
(* word are recorded one at a time.  An access that conflicts with one     *)
(* recorded before is reported, under its address, and ends the recording  *)
(* on that word; every other access is recorded.                           *)
(***************************************************************************)
CONSTANTS
  Call, Address,
  WordOf           \* the shadow word of each address

VARIABLES
  addr,            \* the address of each access
  conflicts,       \* the pairs {c, d} of concurrent accesses, one a write
  recorded,        \* the accesses that took effect and were recorded
  reported,        \* the accesses that were reported
  ignored,         \* the accesses found on a word known to be racy
  all_violations   \* the race reported on each address, or <<>>

vars == <<addr, conflicts, recorded, reported, ignored, all_violations>>

SameWord(c, d) == WordOf[addr[c]] = WordOf[addr[d]]
Racy(c) == \E d \in reported : SameWord(c, d)
Against(c) == {d \in recorded : SameWord(c, d) /\ {c, d} \in conflicts}

Pairs == {P \in SUBSET Call : \E c, d \in Call : c # d /\ P = {c, d}}

Init ==
  /\ addr \in [Call -> Address]
  /\ conflicts \subseteq Pairs
  /\ recorded = {} /\ reported = {} /\ ignored = {}
  /\ all_violations = [a \in Address |-> <<>>]

Pending(c) == c \notin recorded \cup reported \cup ignored

Record(c) ==
  /\ Pending(c)
  /\ ~ Racy(c) /\ Against(c) = {}
  /\ recorded' = recorded \cup {c}
  /\ UNCHANGED <<addr, conflicts, reported, ignored, all_violations>>

Report(c) ==
  /\ Pending(c)
  /\ ~ Racy(c)
  /\ \E d \in Against(c) :
       all_violations' = [all_violations EXCEPT ![addr[c]] = <<d, c>>]
  /\ reported' = reported \cup {c}
  /\ UNCHANGED <<addr, conflicts, recorded, ignored>>

Ignore(c) ==
  /\ Pending(c)
  /\ Racy(c)
  /\ ignored' = ignored \cup {c}
  /\ UNCHANGED <<addr, conflicts, recorded, reported, all_violations>>

Next == \E c \in Call : Record(c) \/ Report(c) \/ Ignore(c)

Spec == Init /\ [][Next]_vars
=============================================================================
