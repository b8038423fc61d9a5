------------------------- MODULE ShadowSpace_proofs -------------------------
(***************************************************************************)
(* Proofs about RecordMem under concurrency: for any number of calls, any  *)
(* addresses, any size of the tables and any conflicts among the accesses. *)
(***************************************************************************)
EXTENDS ShadowSpace, TLAPS

LEMMA PageInRange == ASSUME NEW a \in Address
                     PROVE  PageOf(a) \in Page /\ OffsetOf(a) \in Offset
<1>1. /\ a \in Nat /\ SS_SEC_TABLE_ENTRIES \in Nat \ {0}
      /\ SS_PRIMARY_TABLE_ENTRIES \in Nat \ {0}
  BY ShadowAssumption
<1>2. a \div SS_SEC_TABLE_ENTRIES \in Nat
  BY <1>1
<1>3. (a \div SS_SEC_TABLE_ENTRIES) % SS_PRIMARY_TABLE_ENTRIES
        \in 0 .. SS_PRIMARY_TABLE_ENTRIES - 1
  BY <1>1, <1>2
<1>4. a % SS_SEC_TABLE_ENTRIES \in 0 .. SS_SEC_TABLE_ENTRIES - 1
  BY <1>1
<1>5. QED
  BY <1>3, <1>4 DEF PageOf, OffsetOf, Page, Offset

-----------------------------------------------------------------------------
(***************************************************************************)
(* Type correctness.                                                       *)
(***************************************************************************)
Violations == [Address -> {<<>>} \cup (Call \X Call)]

LEMMA InitType == Init => TypeOK
<1> SUFFICES ASSUME Init PROVE TypeOK
  OBVIOUS
<1>1. "lock_page" \in PC
  BY DEF PC
<1>2. NoViolation \in Violations
  BY DEF NoViolation, Violations
<1>3. conflicts \in SUBSET SUBSET Call
  BY DEF Init, Pairs
<1>4. /\ pc \in [Call -> PC] /\ addr \in [Call -> Address]
      /\ page_mutex \in [Page -> Call \cup {NULL}]
      /\ second \in [Page -> Call \cup {NULL}]
      /\ primary_entry \in [Call -> Call \cup {NULL}]
      /\ word_mutex \in [Word -> Call \cup {NULL}]
      /\ v \in [Word -> SUBSET Call] /\ is_racy \in [Word -> BOOLEAN]
      /\ viol_lock \in Call \cup {NULL}
      /\ old_v \in [Call -> SUBSET Call]
  BY <1>1 DEF Init
<1>5. all_violations \in Violations /\ old_violations \in [Call -> Violations]
  BY <1>2 DEF Init
<1>6. QED
  BY <1>3, <1>4, <1>5 DEF TypeOK, Violations

(* The word a call works on, once it has loaded the table.                 *)
LEMMA WordInRange ==
  ASSUME TypeOK, OneTablePerPage, NEW c \in Call, pc[c] \notin BeforeLoad
  PROVE  addrpair(c) \in Word
<1>1. primary_entry[c] \in Call
  BY DEF TypeOK, OneTablePerPage
<1>2. OffsetOf(addr[c]) \in Offset
  BY PageInRange DEF TypeOK
<1>3. QED
  BY <1>1, <1>2 DEF addrpair, Word

LEMMA StepType ==
  ASSUME TypeOK, OneTablePerPage, NEW c \in Call, Step(c) PROVE TypeOK'
<1> USE DEF Goto, inputVars, pageVars, wordVars, violVars, localVars
<1>1. ASSUME NEW from, NEW to \in PC, Goto(c, from, to)
      PROVE  pc' \in [Call -> PC]
  BY <1>1 DEF TypeOK
<1>2. page(c) \in Page
  BY PageInRange DEF TypeOK, page
<1>3. CASE LockPage(c)
  BY <1>1, <1>2, <1>3 DEF LockPage, TypeOK, PC
<1>4. CASE TestPage(c)
  BY <1>1, <1>4 DEF TestPage, TypeOK, PC
<1>5. CASE MapPage(c)
  BY <1>1, <1>2, <1>5 DEF MapPage, TypeOK, PC
<1>6. CASE UnlockPage(c)
  BY <1>1, <1>2, <1>6 DEF UnlockPage, TypeOK, PC
<1>7. CASE LoadPage(c)
  BY <1>1, <1>2, <1>7 DEF LoadPage, TypeOK, PC
<1>8. CASE LockWord(c)
  BY <1>1, <1>8 DEF LockWord, TypeOK, PC
<1>9. CASE TestRacy(c)
  BY <1>1, <1>9 DEF TestRacy, TypeOK, PC
<1>10. CASE Scan(c)
  <2>1. addrpair(c) \in Word
    BY <1>10, WordInRange DEF Scan, BeforeLoad
  <2>2. v[addrpair(c)] \in SUBSET Call
    BY <2>1 DEF TypeOK
  <2>3. QED
    BY <1>1, <1>10, <2>2 DEF Scan, TypeOK, PC
<1>11. CASE RecordAccess(c)
  BY <1>1, <1>11 DEF RecordAccess, TypeOK, PC
<1>12. CASE setRacy(c)
  BY <1>1, <1>12 DEF setRacy, TypeOK, PC
<1>13. CASE LockViol(c)
  BY <1>1, <1>13 DEF LockViol, TypeOK, PC
<1>14. CASE Find(c)
  BY <1>1, <1>14 DEF Find, TypeOK, PC
<1>15. CASE Insert(c)
  BY <1>1, <1>15 DEF Insert, Conflicting, TypeOK, PC
<1>16. CASE UnlockViol(c)
  BY <1>1, <1>16 DEF UnlockViol, TypeOK, PC
<1>17. CASE UnlockWord(c)
  BY <1>1, <1>17 DEF UnlockWord, TypeOK, PC
<1>18. QED
  BY <1>3, <1>4, <1>5, <1>6, <1>7, <1>8, <1>9, <1>10, <1>11, <1>12, <1>13,
     <1>14, <1>15, <1>16, <1>17 DEF Step

-----------------------------------------------------------------------------
(***************************************************************************)
(* The second-level tables.  A table is mapped only by the holder of the   *)
(* mutex of its page, who has seen that there is none, so the pointer of a *)
(* page changes once.                                                      *)
(***************************************************************************)
HoldsPage == {"test_page", "map_page", "unlock_page"}

PageLocked == \A c \in Call : pc[c] \in HoldsPage => page_mutex[page(c)] = c
MappedOnce == \A c \in Call : pc[c] = "map_page" => second[page(c)] = NULL
MappedWhenLeft ==
  \A c \in Call : pc[c] \in {"unlock_page", "load_page"} => second[page(c)] # NULL

PageInv == PageLocked /\ MappedOnce /\ MappedWhenLeft /\ OneTablePerPage

LEMMA PageInit == Init => PageInv
BY DEF Init, PageInv, PageLocked, MappedOnce, MappedWhenLeft, OneTablePerPage,
       HoldsPage, BeforeLoad

(* The steps of the second half of RecordMem do not touch the tables.      *)
LEMMA PageStays ==
  ASSUME TypeOK, PageInv, NEW c \in Call, pc[c] \notin BeforeLoad,
         NEW to \in PC \ BeforeLoad, pc' = [pc EXCEPT ![c] = to],
         UNCHANGED <<addr, page_mutex, second, primary_entry>>
  PROVE  PageInv'
<1>1. /\ pc \in [Call -> PC] /\ \A d \in Call : d # c => pc'[d] = pc[d]
      /\ pc'[c] \notin BeforeLoad
  BY DEF TypeOK
<1>2. \A d \in Call : page(d)' = page(d)
  BY DEF page
<1>3. \A s \in HoldsPage \cup {"unlock_page", "load_page", "map_page"} : s \in BeforeLoad
  BY DEF HoldsPage, BeforeLoad
<1>4. PageLocked'
  BY <1>1, <1>2, <1>3 DEF PageInv, PageLocked
<1>5. MappedOnce'
  BY <1>1, <1>2, <1>3 DEF PageInv, MappedOnce
<1>6. MappedWhenLeft'
  BY <1>1, <1>2, <1>3 DEF PageInv, MappedWhenLeft
<1>7. OneTablePerPage'
  BY <1>1, <1>2 DEF PageInv, OneTablePerPage
<1>8. QED
  BY <1>4, <1>5, <1>6, <1>7 DEF PageInv

LEMMA PageStep ==
  ASSUME TypeOK, PageInv, NEW c \in Call, Step(c) PROVE PageInv'
<1> USE DEF Goto, inputVars, pageVars, wordVars, violVars, localVars
<1>1. /\ pc \in [Call -> PC] /\ page_mutex \in [Page -> Call \cup {NULL}]
      /\ second \in [Page -> Call \cup {NULL}]
      /\ primary_entry \in [Call -> Call \cup {NULL}]
      /\ \A d \in Call : page(d) \in Page
  BY PageInRange DEF TypeOK, page
<1>2. \A d \in Call : d # NULL
  BY ShadowAssumption
<1>3. addr' = addr => \A d \in Call : page(d)' = page(d)
  BY DEF page
<1>4. CASE LockPage(c)
  BY <1>1, <1>2, <1>3, <1>4 DEF LockPage, PageInv, PageLocked, MappedOnce,
     MappedWhenLeft, OneTablePerPage, HoldsPage, BeforeLoad
<1>5. CASE TestPage(c)
  BY <1>1, <1>2, <1>3, <1>5 DEF TestPage, PageInv, PageLocked, MappedOnce,
     MappedWhenLeft, OneTablePerPage, HoldsPage, BeforeLoad
<1>6. CASE MapPage(c)
  BY <1>1, <1>2, <1>3, <1>6 DEF MapPage, PageInv, PageLocked, MappedOnce,
     MappedWhenLeft, OneTablePerPage, HoldsPage, BeforeLoad
<1>7. CASE UnlockPage(c)
  BY <1>1, <1>2, <1>3, <1>7 DEF UnlockPage, PageInv, PageLocked, MappedOnce,
     MappedWhenLeft, OneTablePerPage, HoldsPage, BeforeLoad
<1>8. CASE LoadPage(c)
  BY <1>1, <1>2, <1>3, <1>8 DEF LoadPage, PageInv, PageLocked, MappedOnce,
     MappedWhenLeft, OneTablePerPage, HoldsPage, BeforeLoad
<1>9. CASE \/ LockWord(c) \/ TestRacy(c) \/ Scan(c) \/ RecordAccess(c)
           \/ setRacy(c) \/ LockViol(c) \/ Find(c) \/ Insert(c)
           \/ UnlockViol(c) \/ UnlockWord(c)
  <2>1. /\ pc[c] \notin BeforeLoad
        /\ \E to \in PC \ BeforeLoad : pc' = [pc EXCEPT ![c] = to]
        /\ UNCHANGED <<addr, page_mutex, second, primary_entry>>
    BY <1>9 DEF LockWord, TestRacy, Scan, RecordAccess, setRacy, LockViol, Find,
       Insert, UnlockViol, UnlockWord, BeforeLoad, PC
  <2>2. QED
    BY <2>1, PageStays
<1>10. QED
  BY <1>4, <1>5, <1>6, <1>7, <1>8, <1>9 DEF Step

LEMMA TablesInvariant == Spec => [](TypeOK /\ PageInv)
<1>1. Init => TypeOK /\ PageInv
  BY InitType, PageInit
<1>2. ASSUME TypeOK, PageInv, [Next]_vars PROVE TypeOK' /\ PageInv'
  <2>1. CASE \E c \in Call : Step(c)
    BY <1>2, <2>1, StepType, PageStep DEF PageInv
  <2>2. CASE UNCHANGED vars
    BY <1>2, <2>2 DEF vars, inputVars, pageVars, wordVars, violVars, localVars,
       TypeOK, PageInv, PageLocked, MappedOnce, MappedWhenLeft, OneTablePerPage,
       page, addrpair
  <2>3. QED
    BY <1>2, <2>1, <2>2 DEF Next, AllDone
<1>3. QED
  BY <1>1, <1>2, PTL DEF Spec

(* The variables of RecordMem keep their types.                            *)
THEOREM TypeCorrect == Spec => []TypeOK
BY TablesInvariant, PTL

(* Every page has one second-level table, mapped before it is used,        *)
(* although its pointer is read outside of the mutex.                      *)
THEOREM TablesAreUnique == Spec => []OneTablePerPage
BY TablesInvariant, PTL DEF PageInv

-----------------------------------------------------------------------------
(***************************************************************************)
(* The mutex of the shadow word.                                           *)
(***************************************************************************)
WordLocked == \A c \in Call : pc[c] \in InWord => word_mutex[addrpair(c)] = c

(* A step that leaves the tables and the mutexes of the words alone and    *)
(* keeps c on its side of LockWord.                                        *)
LEMMA WordStays ==
  ASSUME TypeOK, WordLocked, NEW c \in Call, NEW to \in PC,
         pc' = [pc EXCEPT ![c] = to], to \in InWord => pc[c] \in InWord,
         UNCHANGED <<addr, primary_entry, word_mutex>>
  PROVE  WordLocked'
<1>1. pc \in [Call -> PC] /\ \A d \in Call : pc'[d] \in InWord => pc[d] \in InWord
  BY DEF TypeOK
<1>2. \A d \in Call : addrpair(d)' = addrpair(d)
  BY DEF addrpair
<1>3. QED
  BY <1>1, <1>2 DEF WordLocked

LEMMA WordStep ==
  ASSUME TypeOK, PageInv, WordLocked, NEW c \in Call, Step(c)
  PROVE  WordLocked'
<1> USE DEF Goto, inputVars, pageVars, wordVars, violVars, localVars
<1>1. /\ pc \in [Call -> PC] /\ word_mutex \in [Word -> Call \cup {NULL}]
      /\ \A d \in Call : d # NULL
      /\ \A s \in InWord : s \notin BeforeLoad /\ s # "lock_word"
  BY ShadowAssumption DEF TypeOK, InWord, BeforeLoad
<1>2. \A d \in Call : pc[d] \in InWord => addrpair(d) \in Word
  BY <1>1, WordInRange DEF PageInv
<1>3. CASE LoadPage(c)
  <2>1. \A d \in Call : pc'[d] \in InWord => d # c /\ pc[d] \in InWord
    BY <1>1, <1>3 DEF LoadPage, InWord
  <2>2. \A d \in Call : d # c => addrpair(d)' = addrpair(d)
    BY <1>3 DEF LoadPage, addrpair, TypeOK
  <2>3. word_mutex' = word_mutex
    BY <1>3 DEF LoadPage
  <2>4. QED
    BY <2>1, <2>2, <2>3 DEF WordLocked
<1>4. CASE LockWord(c)
  <2>1. addrpair(c) \in Word
    BY <1>4, WordInRange DEF LockWord, BeforeLoad, PageInv
  <2>2. \A d \in Call : addrpair(d)' = addrpair(d)
    BY <1>4 DEF LockWord, addrpair
  <2>3. /\ word_mutex' = [word_mutex EXCEPT ![addrpair(c)] = c]
        /\ word_mutex[addrpair(c)] = NULL
        /\ \A d \in Call : d # c => pc'[d] = pc[d]
    BY <1>1, <1>4 DEF LockWord
  <2>4. QED
    BY <1>1, <1>2, <2>1, <2>2, <2>3 DEF WordLocked
<1>5. CASE UnlockWord(c)
  <2>1. \A d \in Call : addrpair(d)' = addrpair(d)
    BY <1>5 DEF UnlockWord, addrpair
  <2>2. /\ word_mutex' = [word_mutex EXCEPT ![addrpair(c)] = NULL]
        /\ \A d \in Call : pc'[d] \in InWord => d # c /\ pc[d] \in InWord
        /\ word_mutex[addrpair(c)] = c
    BY <1>1, <1>5 DEF UnlockWord, InWord, WordLocked
  <2>3. QED
    BY <1>1, <1>2, <2>1, <2>2 DEF WordLocked
<1>6. CASE \/ LockPage(c) \/ TestPage(c) \/ MapPage(c) \/ UnlockPage(c)
           \/ TestRacy(c) \/ Scan(c) \/ RecordAccess(c) \/ setRacy(c)
           \/ LockViol(c) \/ Find(c) \/ Insert(c) \/ UnlockViol(c)
  <2>1. /\ \E to \in PC : /\ pc' = [pc EXCEPT ![c] = to]
                          /\ to \in InWord => pc[c] \in InWord
        /\ UNCHANGED <<addr, primary_entry, word_mutex>>
    BY <1>6 DEF LockPage, TestPage, MapPage, UnlockPage, TestRacy, Scan,
       RecordAccess, setRacy, LockViol, Find, Insert, UnlockViol, InWord, PC
  <2>2. QED
    BY <2>1, WordStays
<1>7. QED
  BY <1>3, <1>4, <1>5, <1>6 DEF Step

LEMMA WordInvariant == Spec => [](TypeOK /\ PageInv /\ WordLocked)
<1>1. Init => WordLocked
  BY DEF Init, WordLocked, InWord
<1>2. ASSUME TypeOK, PageInv, WordLocked, [Next]_vars PROVE WordLocked'
  <2>1. CASE \E c \in Call : Step(c)
    BY <1>2, <2>1, WordStep
  <2>2. CASE UNCHANGED vars
    BY <1>2, <2>2 DEF vars, inputVars, pageVars, wordVars, WordLocked, addrpair
  <2>3. QED
    BY <1>2, <2>1, <2>2 DEF Next, AllDone
<1>3. QED
  BY <1>1, <1>2, TablesInvariant, PTL DEF Spec

(* No two calls are between examination and update of the same word.       *)
THEOREM WordsAreExclusive == Spec => []OneThreadPerWord
<1>1. WordLocked => OneThreadPerWord
  BY DEF WordLocked, OneThreadPerWord
<1>2. QED
  BY <1>1, WordInvariant, PTL

-----------------------------------------------------------------------------
(***************************************************************************)
(* What a word, the map of violations and the local copies of the calls    *)
(* say of each other.                                                      *)
(***************************************************************************)
Settled == {"unlock_word", "done"}
Reporting == {"lock_viol", "find", "insert"}
Scanned == {"record", "set_racy"} \cup Reporting
After == {"unlock_viol"} \cup Settled

(* A table is named by a call for its page, so no two pages share one.     *)
TableOwner == \A p \in Page : second[p] # NULL => page(second[p]) = p

RecordedInWord ==
  \A w \in Word : \A c \in v[w] : pc[c] \in Settled /\ addrpair(c) = w

Compatible == \A w \in Word : \A c, d \in v[w] : c # d => {c, d} \notin conflicts

(* What a call has seen of its word is still true.                         *)
SeenIsCurrent == \A c \in Call : pc[c] \in Scanned => old_v[c] = v[addrpair(c)]
SeenNoConflict == \A c \in Call : pc[c] = "record" => Conflicting(c, old_v[c]) = {}

NotYetRacy ==
  \A c \in Call : pc[c] \in {"scan", "record", "set_racy"} => ~ is_racy[addrpair(c)]

(* A report is made once per word, of a word that is racy by then.         *)
UnderItsAddress ==
  \A a \in Address : all_violations[a] # <<>> => addr[all_violations[a][2]] = a
ReportedRacy == \A c \in Reported : pc[c] \in After /\ is_racy[addrpair(c)]
FirstReport ==
  \A c \in Call : pc[c] \in Reporting =>
    is_racy[addrpair(c)] /\ \A e \in Reported : addrpair(e) # addrpair(c)
JustReported == \A c \in Call : pc[c] = "unlock_viol" => c \in Reported

RacyReported ==
  \A w \in Word : is_racy[w] =>
    \E e \in Call : /\ addrpair(e) = w /\ pc[e] \notin BeforeLoad
                    /\ e \in Reported \/ pc[e] \in Reporting
IgnoredRacy == \A c \in Ignored : \E e \in Reported : addrpair(e) = addrpair(c)

ViolLocked ==
  \A c \in Call : pc[c] \in {"find", "insert", "unlock_viol"} => viol_lock = c
ViolIsCurrent ==
  \A c \in Call : pc[c] = "insert" => old_violations[c] = all_violations

MemInv ==
  /\ TableOwner
  /\ RecordedInWord /\ Compatible
  /\ SeenIsCurrent /\ SeenNoConflict /\ NotYetRacy
  /\ UnderItsAddress /\ ReportedRacy /\ FirstReport /\ JustReported
  /\ RacyReported /\ IgnoredRacy
  /\ ViolLocked /\ ViolIsCurrent

LEMMA SameWordSamePair ==
  ASSUME TypeOK, OneTablePerPage, TableOwner, NEW c \in Call, NEW d \in Call,
         pc[c] \notin BeforeLoad, pc[d] \notin BeforeLoad
  PROVE  addrpair(c) = addrpair(d) <=> Memory!SameWord(c, d)
<1>1. /\ addr[c] \in Address /\ addr[d] \in Address
      /\ page(c) \in Page /\ page(d) \in Page
  BY PageInRange DEF TypeOK, page
<1>2. /\ primary_entry[c] = second[page(c)] /\ second[page(c)] # NULL
      /\ primary_entry[d] = second[page(d)] /\ second[page(d)] # NULL
  BY DEF OneTablePerPage
<1>3. page(second[page(c)]) = page(c) /\ page(second[page(d)]) = page(d)
  BY <1>1, <1>2 DEF TableOwner
<1>4. primary_entry[c] = primary_entry[d] <=> page(c) = page(d)
  BY <1>2, <1>3
<1>5. addrpair(c) = addrpair(d) <=>
        page(c) = page(d) /\ OffsetOf(addr[c]) = OffsetOf(addr[d])
  BY <1>4 DEF addrpair
<1>6. Memory!SameWord(c, d) <=>
        <<PageOf(addr[c]), OffsetOf(addr[c])>> = <<PageOf(addr[d]), OffsetOf(addr[d])>>
  BY <1>1 DEF Memory!SameWord
<1>7. QED
  BY <1>5, <1>6 DEF page

(***************************************************************************)
(* The steps that record nothing and report nothing.                       *)
(***************************************************************************)
Quiet(c) ==
  /\ UNCHANGED <<addr, conflicts, v, is_racy, all_violations>>
  /\ \A d \in Call : pc[d] \notin BeforeLoad => addrpair(d)' = addrpair(d)
  /\ \E to \in PC :
       /\ pc' = [pc EXCEPT ![c] = to]
       /\ pc[c] \notin BeforeLoad => to \notin BeforeLoad
       /\ pc[c] \in Reporting => to \in Reporting
       /\ pc[c] \in After => to \in After
       /\ pc[c] \in Settled => to \in Settled
       /\ to \in Settled => pc[c] \in After

LEMMA QuietSets ==
  ASSUME TypeOK, JustReported, NEW c \in Call, Quiet(c)
  PROVE  Recorded' = Recorded /\ Reported' = Reported /\ Ignored' = Ignored
<1>1. Recorded' = Recorded
  BY DEF Quiet, Recorded
<1>2. Reported' = Reported
  BY DEF Quiet, Reported
<1>3. \A d \in Call : d \notin Reported => (pc'[d] \in Settled <=> pc[d] \in Settled)
  BY DEF Quiet, TypeOK, JustReported, After
<1>4. QED
  BY <1>1, <1>2, <1>3 DEF Ignored, Settled

LEMMA QuietKeeps ==
  ASSUME TypeOK, PageInv, MemInv, NEW c \in Call, Quiet(c)
  PROVE  /\ RecordedInWord' /\ Compatible' /\ UnderItsAddress' /\ ReportedRacy'
         /\ RacyReported' /\ IgnoredRacy'
<1>1. /\ pc \in [Call -> PC] /\ v \in [Word -> SUBSET Call]
      /\ \A s \in After : s \notin BeforeLoad
      /\ Reported \subseteq Call /\ Settled \subseteq After
  BY DEF TypeOK, After, Settled, BeforeLoad, Reported
<1>2. Recorded' = Recorded /\ Reported' = Reported /\ Ignored' = Ignored
  BY QuietSets DEF MemInv
<1>3. /\ v' = v /\ is_racy' = is_racy /\ conflicts' = conflicts /\ addr' = addr
      /\ all_violations' = all_violations
      /\ \A d \in Call : pc[d] \notin BeforeLoad =>
           /\ addrpair(d)' = addrpair(d) /\ pc'[d] \notin BeforeLoad
      /\ \A d \in Call : /\ pc[d] \in Settled => pc'[d] \in Settled
                         /\ pc[d] \in After => pc'[d] \in After
                         /\ pc[d] \in Reporting => pc'[d] \in Reporting
  BY <1>1 DEF Quiet
<1>4. RecordedInWord'
  BY <1>1, <1>3 DEF MemInv, RecordedInWord
<1>5. Compatible'
  BY <1>3 DEF MemInv, Compatible
<1>6. UnderItsAddress'
  BY <1>3 DEF MemInv, UnderItsAddress
<1>7. ReportedRacy'
  BY <1>1, <1>2, <1>3 DEF MemInv, ReportedRacy
<1>8. RacyReported'
  BY <1>1, <1>2, <1>3 DEF MemInv, RacyReported
<1>9. IgnoredRacy'
  <2>1. \A d \in Ignored \cup Reported : d \in Call /\ pc[d] \notin BeforeLoad
    BY <1>1 DEF Ignored, MemInv, ReportedRacy, Settled
  <2>2. QED
    BY <1>1, <1>2, <1>3, <2>1 DEF MemInv, IgnoredRacy
<1>10. QED
  BY <1>4, <1>5, <1>6, <1>7, <1>8, <1>9

(* Up to LockWord a call has no part in the words.                         *)
LEMMA ApproachKeeps ==
  ASSUME TypeOK, PageInv, MemInv, NEW c \in Call,
         \/ LockPage(c) \/ TestPage(c) \/ MapPage(c) \/ UnlockPage(c)
         \/ LoadPage(c) \/ LockWord(c)
  PROVE  Quiet(c) /\ MemInv'
<1> USE DEF Goto, inputVars, pageVars, wordVars, violVars, localVars
<1>1. /\ pc \in [Call -> PC] /\ second \in [Page -> Call \cup {NULL}]
      /\ \A d \in Call : page(d) \in Page /\ d # NULL
  BY PageInRange, ShadowAssumption DEF TypeOK, page
<1>2. /\ UNCHANGED <<addr, conflicts, v, is_racy, violVars, localVars>>
      /\ pc[c] \in BeforeLoad \cup {"lock_word"}
      /\ \E to \in BeforeLoad \cup {"lock_word", "test_racy"} :
           /\ pc' = [pc EXCEPT ![c] = to]
           /\ pc[c] = "lock_word" => to = "test_racy"
  BY DEF LockPage, TestPage, MapPage, UnlockPage, LoadPage, LockWord, BeforeLoad
<1>3. \A d \in Call : pc[d] \notin BeforeLoad => primary_entry'[d] = primary_entry[d]
  BY DEF LockPage, TestPage, MapPage, UnlockPage, LoadPage, LockWord, BeforeLoad,
     TypeOK
<1>4. Quiet(c)
  <2>1. \A d \in Call : pc[d] \notin BeforeLoad => addrpair(d)' = addrpair(d)
    BY <1>2, <1>3 DEF addrpair
  <2>2. QED
    BY <1>2, <2>1 DEF Quiet, BeforeLoad, Reporting, After, Settled, PC
<1>5. TableOwner'
  <2>1. addr' = addr /\ \A d \in Call : page(d)' = page(d)
    BY <1>2 DEF page
  <2>2. CASE second' = second
    BY <1>1, <2>1, <2>2 DEF MemInv, TableOwner
  <2>3. CASE second' = [second EXCEPT ![page(c)] = c]
    BY <1>1, <2>1, <2>3 DEF MemInv, TableOwner
  <2>4. QED
    BY <2>2, <2>3 DEF LockPage, TestPage, MapPage, UnlockPage, LoadPage, LockWord
<1>6. /\ \A d \in Call : pc'[d] \in Scanned \cup {"scan", "unlock_viol"}
                           => pc'[d] = pc[d] /\ addrpair(d)' = addrpair(d)
      /\ v' = v /\ is_racy' = is_racy /\ conflicts' = conflicts
      /\ old_v' = old_v /\ old_violations' = old_violations
      /\ all_violations' = all_violations /\ viol_lock' = viol_lock
  BY <1>1, <1>2, <1>4 DEF Quiet, Scanned, Reporting, BeforeLoad
<1>7. SeenIsCurrent' /\ SeenNoConflict' /\ NotYetRacy'
  BY <1>6 DEF MemInv, SeenIsCurrent, SeenNoConflict, NotYetRacy, Conflicting,
     Scanned
<1>8. Reported' = Reported /\ \A e \in Reported : e \in Call /\ pc[e] \notin BeforeLoad
  BY <1>4, QuietSets DEF MemInv, ReportedRacy, Reported, After, Settled, BeforeLoad
<1>9. FirstReport' /\ JustReported'
  <2>1. \A e \in Reported : addrpair(e)' = addrpair(e)
    BY <1>4, <1>8 DEF Quiet
  <2>2. QED
    BY <1>6, <1>8, <2>1 DEF MemInv, FirstReport, JustReported, Scanned
<1>10. ViolLocked' /\ ViolIsCurrent'
  BY <1>6 DEF MemInv, ViolLocked, ViolIsCurrent, Scanned, Reporting
<1>11. QED
  BY <1>4, <1>5, <1>7, <1>9, <1>10, QuietKeeps DEF MemInv

(* A call that holds the mutex of its word has the word to itself.         *)
LEMMA AloneInWord ==
  ASSUME TypeOK, PageInv, WordLocked, NEW c \in Call, pc[c] \in InWord
  PROVE  /\ addrpair(c) \in Word
         /\ \A d \in Call : d # c /\ pc[d] \in InWord => addrpair(d) # addrpair(c)
<1>1. addrpair(c) \in Word
  BY WordInRange DEF PageInv, InWord, BeforeLoad
<1>2. QED
  BY <1>1 DEF WordLocked

(* The steps in a word that neither record nor report.                     *)
LEMMA InWordKeeps ==
  ASSUME TypeOK, PageInv, WordLocked, MemInv, NEW c \in Call,
         \/ TestRacy(c) /\ ~ is_racy[addrpair(c)]
         \/ Scan(c) \/ LockViol(c) \/ Find(c) \/ UnlockViol(c) \/ UnlockWord(c)
  PROVE  Quiet(c) /\ MemInv'
<1> USE DEF Goto, inputVars, pageVars, wordVars, violVars, localVars
<1>1. /\ pc \in [Call -> PC] /\ old_v \in [Call -> SUBSET Call]
      /\ old_violations \in [Call -> [Address -> {<<>>} \cup (Call \X Call)]]
      /\ \A d \in Call : d # NULL
  BY ShadowAssumption DEF TypeOK
<1>2. /\ UNCHANGED <<addr, conflicts, second, primary_entry, v, is_racy,
                     all_violations>>
      /\ pc[c] \in InWord
      /\ \E to \in InWord \cup {"done"} :
           /\ pc' = [pc EXCEPT ![c] = to]
           /\ pc[c] = "test_racy" => to = "scan"
           /\ pc[c] = "scan" => to \in {"record", "set_racy"}
           /\ pc[c] = "lock_viol" => to = "find"
           /\ pc[c] = "find" => to = "insert"
           /\ pc[c] = "unlock_viol" => to = "unlock_word"
           /\ pc[c] = "unlock_word" => to = "done"
           /\ pc[c] \in {"test_racy", "scan", "lock_viol", "find",
                         "unlock_viol", "unlock_word"}
  BY DEF TestRacy, Scan, LockViol, Find, UnlockViol, UnlockWord, InWord
<1>3. \A d \in Call : addrpair(d)' = addrpair(d) /\ page(d)' = page(d)
  BY <1>2 DEF addrpair, page
<1>4. Quiet(c)
  BY <1>2, <1>3 DEF Quiet, BeforeLoad, Reporting, After, Settled, PC, InWord
<1>5. Reported' = Reported
  BY <1>4, QuietSets DEF MemInv
<1>6. TableOwner'
  BY <1>2, <1>3 DEF MemInv, TableOwner, page
<1>7. SeenIsCurrent' /\ SeenNoConflict'
  <2>1. CASE Scan(c)
    <3>1. /\ old_v' = [old_v EXCEPT ![c] = v[addrpair(c)]]
          /\ old_v'[c] = v[addrpair(c)]
          /\ pc[c] = "scan"
          /\ pc'[c] = "record" => Conflicting(c, v[addrpair(c)]) = {}
          /\ \A d \in Call : d # c => pc'[d] = pc[d] /\ old_v'[d] = old_v[d]
      BY <1>1, <2>1 DEF Scan
    <3>2. QED
      BY <1>2, <1>3, <3>1 DEF MemInv, SeenIsCurrent, SeenNoConflict, Conflicting
  <2>2. CASE ~ Scan(c)
    <3>1. /\ old_v' = old_v
          /\ \A d \in Call : pc'[d] \in Scanned =>
                pc[d] \in Scanned /\ (pc'[d] = "record" => pc[d] = "record")
      BY <1>1, <1>2, <2>2
         DEF TestRacy, LockViol, Find, UnlockViol, UnlockWord, Scanned, Reporting
    <3>2. \A d \in Call : v'[addrpair(d)'] = v[addrpair(d)]
      BY <1>2, <1>3
    <3>3. SeenIsCurrent'
      BY <3>1, <3>2 DEF MemInv, SeenIsCurrent
    <3>4. \A d \in Call : Conflicting(d, old_v[d])' = Conflicting(d, old_v[d])
      BY <1>2, <3>1 DEF Conflicting
    <3>5. SeenNoConflict'
      BY <3>1, <3>4 DEF MemInv, SeenNoConflict, Scanned
    <3>6. QED
      BY <3>3, <3>5
  <2>3. QED
    BY <2>1, <2>2
<1>8. NotYetRacy'
  <2>1. ~ is_racy[addrpair(c)] \/ pc[c] \notin {"test_racy", "scan"}
    BY DEF MemInv, NotYetRacy, TestRacy, Scan, LockViol, Find, UnlockViol,
       UnlockWord
  <2>2. QED
    BY <1>1, <1>2, <1>3, <2>1 DEF MemInv, NotYetRacy
<1>9. FirstReport' /\ JustReported'
  <2>1. \A d \in Call : /\ pc'[d] \in Reporting => pc[d] \in Reporting
                        /\ pc'[d] = "unlock_viol" => pc[d] = "unlock_viol"
    BY <1>1, <1>2 DEF Reporting
  <2>2. Reported \subseteq Call
    BY DEF Reported
  <2>3. QED
    BY <1>2, <1>3, <1>5, <2>1, <2>2 DEF MemInv, FirstReport, JustReported
<1>10. ViolLocked' /\ ViolIsCurrent'
  <2>1. CASE LockViol(c)
    BY <1>1, <2>1 DEF LockViol, MemInv, ViolLocked, ViolIsCurrent
  <2>2. CASE Find(c)
    BY <1>1, <2>2 DEF Find, MemInv, ViolLocked, ViolIsCurrent
  <2>3. CASE UnlockViol(c)
    BY <1>1, <2>3 DEF UnlockViol, MemInv, ViolLocked, ViolIsCurrent
  <2>4. CASE TestRacy(c) \/ Scan(c) \/ UnlockWord(c)
    <3>1. /\ UNCHANGED <<viol_lock, all_violations, old_violations>>
          /\ \A d \in Call : /\ pc'[d] \in {"find", "insert", "unlock_viol"}
                             => pc'[d] = pc[d]
      BY <1>1, <2>4 DEF TestRacy, Scan, UnlockWord
    <3>2. QED
      BY <3>1 DEF MemInv, ViolLocked, ViolIsCurrent
  <2>5. QED
    BY <2>1, <2>2, <2>3, <2>4
<1>11. QED
  BY <1>4, <1>6, <1>7, <1>8, <1>9, <1>10, QuietKeeps DEF MemInv

(***************************************************************************)
(* The steps that take effect, seen from the call and from ShadowMemory.   *)
(***************************************************************************)
LEMMA PendingBefore ==
  ASSUME MemInv, NEW c \in Call, pc[c] \notin After
  PROVE  c \notin Recorded /\ c \notin Reported /\ c \notin Ignored
BY DEF MemInv, RecordedInWord, ReportedRacy, Recorded, Ignored, After, Settled

LEMMA AgainstIsConflicting ==
  ASSUME TypeOK, PageInv, MemInv, NEW c \in Call, pc[c] \notin BeforeLoad
  PROVE  Memory!Against(c) = Conflicting(c, v[addrpair(c)])
<1>1. addrpair(c) \in Word /\ v \in [Word -> SUBSET Call]
  BY WordInRange DEF PageInv, TypeOK
<1>2. ASSUME NEW w \in Word, NEW d \in v[w]
      PROVE  w = addrpair(c) <=> Memory!SameWord(c, d)
  <2>1. d \in Call /\ pc[d] \notin BeforeLoad /\ addrpair(d) = w
    BY <1>1, <1>2 DEF MemInv, RecordedInWord, Settled, BeforeLoad
  <2>2. QED
    BY <2>1, SameWordSamePair DEF PageInv, MemInv
<1>3. Memory!Against(c) =
        {d \in Recorded : Memory!SameWord(c, d) /\ {c, d} \in conflicts}
  BY DEF Memory!Against
<1>4. QED
  BY <1>1, <1>2, <1>3 DEF Recorded, Conflicting

LEMMA RacyIsReported ==
  ASSUME TypeOK, PageInv, MemInv, NEW c \in Call, pc[c] \notin BeforeLoad
  PROVE  Memory!Racy(c) <=> \E e \in Reported : addrpair(e) = addrpair(c)
<1>1. ASSUME NEW e \in Reported
      PROVE  addrpair(e) = addrpair(c) <=> Memory!SameWord(c, e)
  <2>1. e \in Call /\ pc[e] \notin BeforeLoad
    BY <1>1 DEF Reported, MemInv, ReportedRacy, After, Settled, BeforeLoad
  <2>2. QED
    BY <2>1, SameWordSamePair DEF PageInv, MemInv
<1>2. Memory!Racy(c) <=> \E e \in Reported : Memory!SameWord(c, e)
  BY DEF Memory!Racy
<1>3. QED
  BY <1>1, <1>2

(* Recording the access is the step Record.                                *)
LEMMA RecordKeeps ==
  ASSUME TypeOK, PageInv, WordLocked, MemInv, NEW c \in Call, RecordAccess(c)
  PROVE  Memory!Record(c) /\ MemInv'
<1> USE DEF Goto, inputVars, pageVars, wordVars, violVars, localVars
<1>1. /\ pc \in [Call -> PC] /\ v \in [Word -> SUBSET Call]
      /\ pc[c] = "record" /\ pc' = [pc EXCEPT ![c] = "unlock_word"]
      /\ UNCHANGED <<addr, conflicts, second, primary_entry, word_mutex, is_racy,
                     viol_lock, all_violations, old_v, old_violations>>
      /\ v' = [v EXCEPT ![addrpair(c)] = old_v[c] \cup {c}]
  BY DEF RecordAccess, TypeOK
<1>2. addrpair(c) \in Word
  BY <1>1, AloneInWord DEF InWord
<1>3. \A d \in Call : addrpair(d)' = addrpair(d) /\ page(d)' = page(d)
  BY <1>1 DEF addrpair, page
<1>4. /\ v' = [v EXCEPT ![addrpair(c)] = v[addrpair(c)] \cup {c}]
      /\ Conflicting(c, v[addrpair(c)]) = {}
  BY <1>1 DEF MemInv, SeenIsCurrent, SeenNoConflict, Scanned
<1>5. \A d \in Call : /\ d # c => pc'[d] = pc[d]
                      /\ pc'[c] = "unlock_word"
  BY <1>1
<1>6. /\ c \notin Recorded /\ c \notin Reported /\ c \notin Ignored
  BY <1>1, PendingBefore DEF After, Settled
<1>7. Recorded' = Recorded \cup {c} /\ Reported' = Reported /\ Ignored' = Ignored
  <2>1. Recorded' = Recorded \cup {c}
    BY <1>1, <1>2, <1>4 DEF Recorded
  <2>2. Reported' = Reported
    BY <1>1 DEF Reported
  <2>3. QED
    BY <1>5, <1>6, <2>1, <2>2 DEF Ignored
<1>8. ~ is_racy[addrpair(c)] /\ \A e \in Reported : addrpair(e) # addrpair(c)
  BY <1>1 DEF MemInv, NotYetRacy, ReportedRacy
<1>9. Memory!Record(c)
  <2>1. ~ Memory!Racy(c) /\ Memory!Against(c) = {}
    BY <1>1, <1>4, <1>8, RacyIsReported, AgainstIsConflicting DEF BeforeLoad
  <2>2. QED
    BY <1>1, <1>6, <1>7, <2>1 DEF Memory!Record, Memory!Pending
<1>10. RecordedInWord'
  BY <1>1, <1>2, <1>3, <1>4, <1>5 DEF MemInv, RecordedInWord, Settled
<1>11. Compatible'
  <2>1. \A d \in v[addrpair(c)] : {c, d} \notin conflicts /\ {d, c} \notin conflicts
    <3>1. \A d : {d, c} = {c, d}
      OBVIOUS
    <3>2. QED
      BY <1>4, <3>1 DEF Conflicting
  <2>2. QED
    BY <1>1, <1>2, <1>4, <2>1 DEF MemInv, Compatible
<1>12. SeenIsCurrent'
  <2>1. ASSUME NEW d \in Call, pc'[d] \in Scanned PROVE old_v'[d] = v'[addrpair(d)']
    <3>1. d # c /\ pc[d] \in Scanned
      BY <1>5, <2>1 DEF Scanned, Reporting
    <3>2. addrpair(d) # addrpair(c)
      BY <1>1, <3>1, AloneInWord DEF InWord, Scanned, Reporting
    <3>3. QED
      BY <1>1, <1>3, <3>1, <3>2 DEF MemInv, SeenIsCurrent
  <2>2. QED
    BY <2>1 DEF SeenIsCurrent
<1>13. SeenNoConflict' /\ NotYetRacy'
  BY <1>1, <1>3, <1>5 DEF MemInv, SeenNoConflict, NotYetRacy, Conflicting
<1>14. TableOwner' /\ UnderItsAddress'
  BY <1>1, <1>3 DEF MemInv, TableOwner, UnderItsAddress, page
<1>15. ReportedRacy' /\ FirstReport' /\ JustReported'
  <2>1. Reported \subseteq Call
    BY DEF Reported
  <2>2. QED
    BY <1>1, <1>3, <1>5, <1>6, <1>7, <2>1
       DEF MemInv, ReportedRacy, FirstReport, JustReported, Reporting
<1>16. RacyReported' /\ IgnoredRacy'
  <2>1. Reported \subseteq Call /\ Ignored \subseteq Call
    BY DEF Reported, Ignored
  <2>2. QED
    BY <1>1, <1>3, <1>5, <1>7, <2>1
       DEF MemInv, RacyReported, IgnoredRacy, Reporting, BeforeLoad
<1>17. ViolLocked' /\ ViolIsCurrent'
  BY <1>1, <1>5 DEF MemInv, ViolLocked, ViolIsCurrent
<1>18. QED
  BY <1>9, <1>10, <1>11, <1>12, <1>13, <1>14, <1>15, <1>16, <1>17 DEF MemInv

(* A call that finds its word racy takes the step Ignore.                  *)
LEMMA IgnoreKeeps ==
  ASSUME TypeOK, PageInv, WordLocked, MemInv, NEW c \in Call,
         TestRacy(c), is_racy[addrpair(c)]
  PROVE  Memory!Ignore(c) /\ MemInv'
<1> USE DEF Goto, inputVars, pageVars, wordVars, violVars, localVars
<1>1. /\ pc \in [Call -> PC] /\ v \in [Word -> SUBSET Call]
      /\ pc[c] = "test_racy" /\ pc' = [pc EXCEPT ![c] = "unlock_word"]
      /\ UNCHANGED <<addr, conflicts, second, primary_entry, word_mutex, v, is_racy,
                     viol_lock, all_violations, old_v, old_violations>>
  BY DEF TestRacy, TypeOK
<1>2. \A d \in Call : addrpair(d)' = addrpair(d) /\ page(d)' = page(d)
  BY <1>1 DEF addrpair, page
<1>3. \A d \in Call : /\ d # c => pc'[d] = pc[d]
                      /\ pc'[c] = "unlock_word"
  BY <1>1
<1>4. /\ c \notin Recorded /\ c \notin Reported /\ c \notin Ignored
  BY <1>1, PendingBefore DEF After, Settled
<1>5. /\ Recorded' = Recorded /\ Reported' = Reported
      /\ Ignored' = Ignored \cup {c} /\ Reported \subseteq Call
  BY <1>1, <1>3, <1>4 DEF Recorded, Reported, Ignored
<1>6. \E e \in Reported : addrpair(e) = addrpair(c)
  <2>1. addrpair(c) \in Word
    BY <1>1, AloneInWord DEF InWord
  <2>2. PICK e \in Call : /\ addrpair(e) = addrpair(c) /\ pc[e] \notin BeforeLoad
                          /\ e \in Reported \/ pc[e] \in Reporting
    BY <2>1 DEF MemInv, RacyReported
  <2>3. pc[e] \notin Reporting
    BY <1>1, <2>2, AloneInWord DEF InWord, Reporting
  <2>4. QED
    BY <2>2, <2>3
<1>7. Memory!Ignore(c)
  <2>1. Memory!Racy(c)
    BY <1>1, <1>6, RacyIsReported DEF BeforeLoad
  <2>2. QED
    BY <1>1, <1>4, <1>5, <2>1 DEF Memory!Ignore, Memory!Pending
<1>8. RecordedInWord' /\ Compatible'
  BY <1>1, <1>2, <1>3 DEF MemInv, RecordedInWord, Compatible, Settled
<1>9. SeenIsCurrent' /\ SeenNoConflict' /\ NotYetRacy'
  BY <1>1, <1>2, <1>3
     DEF MemInv, SeenIsCurrent, SeenNoConflict, NotYetRacy, Conflicting, Scanned,
         Reporting
<1>10. TableOwner' /\ UnderItsAddress'
  BY <1>1, <1>2 DEF MemInv, TableOwner, UnderItsAddress, page
<1>11. ReportedRacy' /\ FirstReport' /\ JustReported'
  BY <1>1, <1>2, <1>3, <1>5
     DEF MemInv, ReportedRacy, FirstReport, JustReported, Reporting, After, Settled
<1>12. RacyReported'
  BY <1>1, <1>2, <1>3, <1>5 DEF MemInv, RacyReported, Reporting, BeforeLoad
<1>13. IgnoredRacy'
  <2>1. Ignored \subseteq Call
    BY DEF Ignored
  <2>2. QED
    BY <1>2, <1>5, <1>6, <2>1 DEF MemInv, IgnoredRacy
<1>14. ViolLocked' /\ ViolIsCurrent'
  BY <1>1, <1>3 DEF MemInv, ViolLocked, ViolIsCurrent
<1>15. QED
  BY <1>7, <1>8, <1>9, <1>10, <1>11, <1>12, <1>13, <1>14 DEF MemInv

(* Marking the word is not yet a step: the mutex hides it until the report *)
(* is in the map.                                                          *)
LEMMA SetRacyKeeps ==
  ASSUME TypeOK, PageInv, WordLocked, MemInv, NEW c \in Call, setRacy(c)
  PROVE  MemInv' /\ Recorded' = Recorded /\ Reported' = Reported /\ Ignored' = Ignored
<1> USE DEF Goto, inputVars, pageVars, wordVars, violVars, localVars
<1>1. /\ pc \in [Call -> PC] /\ is_racy \in [Word -> BOOLEAN]
      /\ v \in [Word -> SUBSET Call]
      /\ pc[c] = "set_racy" /\ pc' = [pc EXCEPT ![c] = "lock_viol"]
      /\ UNCHANGED <<addr, conflicts, second, primary_entry, word_mutex, v,
                     viol_lock, all_violations, old_v, old_violations>>
      /\ is_racy' = [is_racy EXCEPT ![addrpair(c)] = TRUE]
  BY DEF setRacy, TypeOK
<1>2. \A d \in Call : addrpair(d)' = addrpair(d) /\ page(d)' = page(d)
  BY <1>1 DEF addrpair, page
<1>3. \A d \in Call : /\ d # c => pc'[d] = pc[d]
                      /\ pc'[c] = "lock_viol"
  BY <1>1
<1>4. addrpair(c) \in Word
  BY <1>1, AloneInWord DEF InWord
<1>5. \A w \in Word : is_racy'[w] <=> is_racy[w] \/ w = addrpair(c)
  BY <1>1, <1>4
<1>6. /\ Recorded' = Recorded /\ Reported' = Reported
      /\ Ignored' = Ignored /\ Reported \subseteq Call
  BY <1>1, <1>3 DEF Recorded, Reported, Ignored
<1>7. /\ ~ is_racy[addrpair(c)]
      /\ \A e \in Reported : addrpair(e) # addrpair(c)
  BY <1>1 DEF MemInv, NotYetRacy, ReportedRacy
<1>8. RecordedInWord' /\ Compatible'
  BY <1>1, <1>2, <1>3 DEF MemInv, RecordedInWord, Compatible, Settled
<1>9. SeenIsCurrent' /\ SeenNoConflict'
  BY <1>1, <1>2, <1>3
     DEF MemInv, SeenIsCurrent, SeenNoConflict, Conflicting, Scanned, Reporting
<1>10. \A d \in Call : pc[d] \in InWord => addrpair(d) \in Word
  BY WordInRange DEF PageInv, InWord, BeforeLoad
<1>11. NotYetRacy'
  <2>1. ASSUME NEW d \in Call, pc'[d] \in {"scan", "record", "set_racy"}
        PROVE  ~ is_racy'[addrpair(d)]
    <3>1. d # c /\ pc[d] \in {"scan", "record", "set_racy"} /\ pc[d] \in InWord
      BY <1>3, <2>1 DEF InWord
    <3>2. addrpair(d) # addrpair(c)
      BY <1>1, <3>1, AloneInWord DEF InWord
    <3>3. QED
      BY <1>5, <1>10, <3>1, <3>2 DEF MemInv, NotYetRacy
  <2>2. QED
    BY <1>2, <2>1 DEF NotYetRacy
<1>12. TableOwner' /\ UnderItsAddress'
  BY <1>1, <1>2 DEF MemInv, TableOwner, UnderItsAddress, page
<1>13. ReportedRacy' /\ JustReported'
  <2>1. \A e \in Reported : addrpair(e) \in Word
    BY <1>6, WordInRange DEF MemInv, ReportedRacy, PageInv, After, Settled, BeforeLoad
  <2>2. QED
    BY <1>1, <1>2, <1>3, <1>5, <1>6, <2>1
       DEF MemInv, ReportedRacy, JustReported, After, Settled
<1>14. FirstReport'
  <2>1. ASSUME NEW d \in Call, pc'[d] \in Reporting
        PROVE  /\ is_racy'[addrpair(d)]
               /\ \A e \in Reported : addrpair(e) # addrpair(d)
    <3>1. CASE d = c
      BY <1>4, <1>5, <1>7, <3>1
    <3>2. CASE d # c
      BY <1>3, <1>5, <1>10, <2>1, <3>2 DEF MemInv, FirstReport, Reporting, InWord
    <3>3. QED
      BY <3>1, <3>2
  <2>2. QED
    BY <1>2, <1>6, <2>1 DEF FirstReport
<1>15. RacyReported'
  BY <1>1, <1>2, <1>3, <1>5, <1>6 DEF MemInv, RacyReported, Reporting, BeforeLoad
<1>16. IgnoredRacy'
  <2>1. Ignored \subseteq Call
    BY DEF Ignored
  <2>2. QED
    BY <1>2, <1>6, <2>1 DEF MemInv, IgnoredRacy
<1>17. ViolLocked' /\ ViolIsCurrent'
  BY <1>1, <1>3 DEF MemInv, ViolLocked, ViolIsCurrent
<1>18. QED
  BY <1>6, <1>8, <1>9, <1>11, <1>12, <1>13, <1>14, <1>15, <1>16, <1>17 DEF MemInv

(* The insertion in the map is the step Report.                            *)
LEMMA InsertKeeps ==
  ASSUME TypeOK, PageInv, WordLocked, MemInv, NEW c \in Call, Insert(c)
  PROVE  Memory!Report(c) /\ MemInv'
<1> USE DEF Goto, inputVars, pageVars, wordVars, violVars, localVars
<1>1. /\ pc \in [Call -> PC] /\ v \in [Word -> SUBSET Call]
      /\ addr \in [Call -> Address] /\ all_violations \in Violations
      /\ pc[c] = "insert" /\ pc' = [pc EXCEPT ![c] = "unlock_viol"]
      /\ UNCHANGED <<addr, conflicts, second, primary_entry, word_mutex, v, is_racy,
                     viol_lock, old_v, old_violations>>
  BY DEF Insert, TypeOK, Violations
<1>2. PICK d \in Conflicting(c, old_v[c]) :
        all_violations' =
          [old_violations[c] EXCEPT ![addr[c]] = IF @ = <<>> THEN <<d, c>> ELSE @]
  BY DEF Insert
<1>3. \A b \in Call : addrpair(b)' = addrpair(b) /\ page(b)' = page(b)
  BY <1>1 DEF addrpair, page
<1>4. \A b \in Call : /\ b # c => pc'[b] = pc[b]
                      /\ pc'[c] = "unlock_viol"
  BY <1>1
<1>5. addrpair(c) \in Word /\ pc[c] \notin BeforeLoad
  BY <1>1, AloneInWord DEF InWord, BeforeLoad
<1>6. /\ is_racy[addrpair(c)] /\ Reported \subseteq Call
      /\ \A e \in Reported : addrpair(e) # addrpair(c)
  BY <1>1 DEF MemInv, FirstReport, Reporting, Reported
<1>7. all_violations[addr[c]] = <<>>
  <2>1. SUFFICES ASSUME all_violations[addr[c]] # <<>> PROVE FALSE
    OBVIOUS
  <2>2. all_violations[addr[c]] \in Call \X Call
    BY <1>1, <2>1 DEF Violations
  <2>3. PICK e \in Call : e = all_violations[addr[c]][2]
    BY <2>2
  <2>4. addr[e] = addr[c]
    BY <1>1, <2>1, <2>3 DEF MemInv, UnderItsAddress
  <2>5. e \in Reported /\ pc[e] \notin BeforeLoad
    BY <2>1, <2>3, <2>4
       DEF MemInv, ReportedRacy, Reported, After, Settled, BeforeLoad
  <2>6. Memory!SameWord(c, e)
    BY <2>4 DEF Memory!SameWord
  <2>7. QED
    BY <1>5, <1>6, <2>5, <2>6, SameWordSamePair DEF PageInv, MemInv
<1>8. all_violations' = [all_violations EXCEPT ![addr[c]] = <<d, c>>]
  BY <1>1, <1>2, <1>7 DEF MemInv, ViolIsCurrent, Violations
<1>9. /\ all_violations'[addr[c]] = <<d, c>> /\ <<d, c>> # <<>>
      /\ \A a \in Address : a # addr[c] => all_violations'[a] = all_violations[a]
  BY <1>1, <1>8 DEF Violations
<1>10. /\ c \notin Recorded /\ c \notin Reported /\ c \notin Ignored
  BY <1>1, PendingBefore DEF After, Settled
<1>11. Recorded' = Recorded /\ Reported' = Reported \cup {c} /\ Ignored' = Ignored
  <2>1. Recorded' = Recorded
    BY <1>1 DEF Recorded
  <2>2. ASSUME NEW e \in Call
        PROVE  e \in Reported' <=> e \in Reported \/ e = c
    <3>1. addr'[e] = addr[e] /\ addr[e] \in Address
      BY <1>1
    <3>2. CASE addr[e] = addr[c]
      <4>1. e \notin Reported
        BY <1>7, <3>2 DEF Reported
      <4>2. all_violations'[addr'[e]] = <<d, c>>
        BY <1>9, <3>1, <3>2
      <4>3. e \in Reported' <=> c = e
        BY <1>9, <4>2 DEF Reported
      <4>4. QED
        BY <4>1, <4>3
    <3>3. CASE addr[e] # addr[c]
      <4>1. all_violations'[addr'[e]] = all_violations[addr[e]] /\ e # c
        BY <1>9, <3>1, <3>3
      <4>2. QED
        BY <4>1 DEF Reported
    <3>4. QED
      BY <3>2, <3>3
  <2>3. Reported' = Reported \cup {c}
    BY <2>2 DEF Reported
  <2>4. QED
    BY <1>4, <1>10, <2>1, <2>3 DEF Ignored
<1>12. Memory!Report(c)
  <2>1. d \in Memory!Against(c)
    BY <1>1, <1>2, <1>5, AgainstIsConflicting
       DEF MemInv, SeenIsCurrent, Scanned, Reporting
  <2>2. ~ Memory!Racy(c)
    BY <1>5, <1>6, RacyIsReported
  <2>3. QED
    BY <1>1, <1>8, <1>10, <1>11, <2>1, <2>2 DEF Memory!Report, Memory!Pending
<1>13. RecordedInWord' /\ Compatible'
  BY <1>1, <1>3, <1>4 DEF MemInv, RecordedInWord, Compatible, Settled
<1>14. SeenIsCurrent' /\ SeenNoConflict' /\ NotYetRacy'
  BY <1>1, <1>3, <1>4
     DEF MemInv, SeenIsCurrent, SeenNoConflict, NotYetRacy, Conflicting, Scanned,
         Reporting
<1>15. TableOwner'
  BY <1>1, <1>3 DEF MemInv, TableOwner, page
<1>16. UnderItsAddress'
  BY <1>1, <1>9 DEF MemInv, UnderItsAddress
<1>17. ReportedRacy' /\ JustReported'
  BY <1>1, <1>3, <1>4, <1>6, <1>11
     DEF MemInv, ReportedRacy, JustReported, After, Settled
<1>18. FirstReport'
  <2>1. ASSUME NEW b \in Call, pc'[b] \in Reporting
        PROVE  /\ is_racy[addrpair(b)]
               /\ \A e \in Reported \cup {c} : addrpair(e) # addrpair(b)
    <3>1. b # c /\ pc[b] \in Reporting /\ pc[b] \in InWord
      BY <1>4, <2>1 DEF Reporting, InWord
    <3>2. addrpair(b) # addrpair(c)
      BY <1>1, <3>1, AloneInWord DEF InWord
    <3>3. QED
      BY <3>1, <3>2 DEF MemInv, FirstReport
  <2>2. QED
    BY <1>1, <1>3, <1>6, <1>11, <2>1 DEF FirstReport
<1>19. RacyReported'
  BY <1>1, <1>3, <1>4, <1>5, <1>11
     DEF MemInv, RacyReported, Reporting, BeforeLoad
<1>20. IgnoredRacy'
  <2>1. Ignored \subseteq Call
    BY DEF Ignored
  <2>2. QED
    BY <1>3, <1>6, <1>11, <2>1 DEF MemInv, IgnoredRacy
<1>21. ViolLocked' /\ ViolIsCurrent'
  BY <1>1, <1>4 DEF MemInv, ViolLocked, ViolIsCurrent
<1>22. QED
  BY <1>12, <1>13, <1>14, <1>15, <1>16, <1>17, <1>18, <1>19, <1>20, <1>21
     DEF MemInv

(* Every step of a call is a step of ShadowMemory or changes nothing there.*)
LEMMA MemStep ==
  ASSUME TypeOK, PageInv, WordLocked, MemInv, NEW c \in Call, Step(c)
  PROVE  MemInv' /\ [Memory!Next]_(Memory!vars)
<1>1. CASE RecordAccess(c)
  BY <1>1, RecordKeeps DEF Memory!Next
<1>2. CASE Insert(c)
  BY <1>2, InsertKeeps DEF Memory!Next
<1>3. CASE TestRacy(c) /\ is_racy[addrpair(c)]
  BY <1>3, IgnoreKeeps DEF Memory!Next
<1>4. CASE setRacy(c)
  <2>1. UNCHANGED <<addr, conflicts, all_violations>>
    BY <1>4 DEF setRacy, inputVars, violVars
  <2>2. QED
    BY <1>4, <2>1, SetRacyKeeps DEF Memory!vars
<1>5. CASE ~ (\/ RecordAccess(c) \/ Insert(c) \/ setRacy(c)
              \/ TestRacy(c) /\ is_racy[addrpair(c)])
  <2>1. Quiet(c) /\ MemInv'
    BY <1>5, ApproachKeeps, InWordKeeps DEF Step
  <2>2. UNCHANGED Memory!vars
    BY <2>1, QuietSets DEF MemInv, Quiet, Memory!vars
  <2>3. QED
    BY <2>1, <2>2
<1>6. QED
  BY <1>1, <1>2, <1>3, <1>4, <1>5

LEMMA MemInit == Init => MemInv /\ Memory!Init
<1> SUFFICES ASSUME Init PROVE MemInv /\ Memory!Init
  OBVIOUS
<1>1. /\ \A c \in Call : pc[c] = "lock_page"
      /\ \A w \in Word : v[w] = {} /\ is_racy[w] = FALSE
      /\ \A a \in Address : all_violations[a] = <<>>
      /\ \A p \in Page : second[p] = NULL
      /\ addr \in [Call -> Address]
  BY DEF Init, NoViolation
<1>2. Recorded = {} /\ Reported = {} /\ Ignored = {}
  BY <1>1 DEF Recorded, Reported, Ignored
<1>3. TableOwner /\ RecordedInWord /\ Compatible /\ UnderItsAddress /\ RacyReported
  BY <1>1 DEF TableOwner, RecordedInWord, Compatible, UnderItsAddress, RacyReported
<1>4. /\ SeenIsCurrent /\ SeenNoConflict /\ NotYetRacy /\ ReportedRacy /\ FirstReport
      /\ JustReported /\ IgnoredRacy /\ ViolLocked /\ ViolIsCurrent
  BY <1>1, <1>2 DEF SeenIsCurrent, SeenNoConflict, NotYetRacy, ReportedRacy,
     FirstReport, JustReported, IgnoredRacy, ViolLocked, ViolIsCurrent, Scanned,
     Reporting
<1>5. Memory!Init
  BY <1>2 DEF Init, Pairs, NoViolation, Memory!Init, Memory!Pairs
<1>6. QED
  BY <1>3, <1>4, <1>5 DEF MemInv

LEMMA MemStutter ==
  ASSUME MemInv, UNCHANGED vars
  PROVE  MemInv' /\ UNCHANGED Memory!vars
<1> USE DEF vars, inputVars, pageVars, wordVars, violVars, localVars
<1>1. /\ Recorded' = Recorded /\ Reported' = Reported /\ Ignored' = Ignored
      /\ \A c : addrpair(c)' = addrpair(c) /\ page(c)' = page(c)
  BY DEF Recorded, Reported, Ignored, addrpair, page
<1>2. TableOwner'
  BY <1>1 DEF MemInv, TableOwner, page
<1>3. RecordedInWord' /\ Compatible' /\ UnderItsAddress' /\ RacyReported'
  BY <1>1 DEF MemInv, RecordedInWord, Compatible, UnderItsAddress, RacyReported
<1>4. /\ SeenIsCurrent' /\ SeenNoConflict' /\ NotYetRacy' /\ ReportedRacy'
      /\ FirstReport' /\ JustReported' /\ IgnoredRacy' /\ ViolLocked' /\ ViolIsCurrent'
  BY <1>1 DEF MemInv, SeenIsCurrent, SeenNoConflict, NotYetRacy, ReportedRacy,
     FirstReport, JustReported, IgnoredRacy, ViolLocked, ViolIsCurrent, Conflicting
<1>5. QED
  BY <1>1, <1>2, <1>3, <1>4 DEF MemInv, Memory!vars

LEMMA MemInvariant ==
  Spec => [](TypeOK /\ PageInv /\ WordLocked /\ MemInv) /\ Memory!Spec
<1>1. ASSUME TypeOK, PageInv, WordLocked, MemInv, [Next]_vars
      PROVE  MemInv' /\ [Memory!Next]_(Memory!vars)
  <2>1. CASE \E c \in Call : Step(c)
    BY <1>1, <2>1, MemStep
  <2>2. CASE UNCHANGED vars
    BY <1>1, <2>2, MemStutter
  <2>3. QED
    BY <1>1, <2>1, <2>2 DEF Next, AllDone
<1>2. QED
  BY <1>1, MemInit, WordInvariant, PTL DEF Spec, Memory!Spec

(* RecordMem takes effect at one instant, for any number of calls: that    *)
(* of recording the access, of the report, or of finding the word racy.    *)
THEOREM RecordMemIsAtomic == Spec => ImplementsMemory
BY MemInvariant, PTL DEF ImplementsMemory

(* Of two conflicting accesses to an address that have both been through   *)
(* RecordMem, one was reported or the word had a report already.           *)
THEOREM NoConflictIsLost == Spec => []ConflictsReported
<1>1. ASSUME TypeOK, PageInv, MemInv, NEW c \in Call, NEW d \in Call,
             c # d, addr[c] = addr[d], {c, d} \in conflicts,
             pc[c] = "done", pc[d] = "done"
      PROVE  \E e \in Call : addrpair(e) = addrpair(c) /\ all_violations[addr[e]] # <<>>
  <2>1. addrpair(c) = addrpair(d) /\ addrpair(c) \in Word
    <3>1. Memory!SameWord(c, d)
      BY <1>1 DEF Memory!SameWord
    <3>2. QED
      BY <1>1, <3>1, SameWordSamePair, WordInRange DEF PageInv, MemInv, BeforeLoad
  <2>2. \A e \in Reported : e \in Call /\ all_violations[addr[e]] # <<>>
    BY DEF Reported
  <2>3. CASE c \in Reported \/ d \in Reported
    BY <2>1, <2>2, <2>3
  <2>4. CASE c \in Ignored \/ d \in Ignored
    BY <1>1, <2>1, <2>2, <2>4 DEF MemInv, IgnoredRacy
  <2>5. CASE c \in Recorded /\ d \in Recorded
    <3>1. c \in v[addrpair(c)] /\ d \in v[addrpair(c)]
      BY <1>1, <2>1, <2>5 DEF MemInv, RecordedInWord, Recorded
    <3>2. QED
      BY <1>1, <2>1, <3>1 DEF MemInv, Compatible
  <2>6. QED
    BY <1>1, <2>3, <2>4, <2>5 DEF Ignored
<1>2. TypeOK /\ PageInv /\ MemInv => ConflictsReported
  BY <1>1 DEF ConflictsReported
<1>3. QED
  BY <1>2, MemInvariant, PTL
=============================================================================
