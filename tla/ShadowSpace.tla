---------------------------- MODULE ShadowSpace ----------------------------
(***************************************************************************)
(* RecordMem as the threads of a program run it at the same time: the two  *)
(* level shadow space whose second level is mapped on demand, the mutex of *)
(* each first-level entry, the mutex of each shadow word, and the lock of  *)
(* the map of violations.  Which accesses conflict is decided by the task  *)
(* bookkeeping (FastRacer, VerdictsAreStable) and is given here.           *)
(*                                                                         *)
(* A second-level table is named by the call of RecordMem that mapped it.  *)
(***************************************************************************)
EXTENDS Integers

CONSTANTS
  Call,                       \* the calls of RecordMem
  Address,                    \* the addresses they are about
  SS_PRIMARY_TABLE_ENTRIES,
  SS_SEC_TABLE_ENTRIES,
  NULL

ASSUME ShadowAssumption ==
  /\ Address \subseteq Nat /\ NULL \notin Call
  /\ SS_PRIMARY_TABLE_ENTRIES \in Nat \ {0}
  /\ SS_SEC_TABLE_ENTRIES \in Nat \ {0}

VARIABLES
  pc,              \* the next step of each call
  addr,            \* access_addr of each call
  conflicts,       \* the pairs {c, d} of concurrent accesses, one a write
  page_mutex,      \* PAIR::first, the owner or NULL
  second,          \* PAIR::second, a table or NULL
  primary_entry,   \* the table a call has loaded, or NULL
  word_mutex,      \* subpair::first, the owner or NULL
  v,               \* VarState::v: the accesses recorded in the word
  is_racy,         \* VarState::is_racy
  viol_lock,       \* the owner or NULL
  all_violations,  \* the race reported on each address, or <<>>
  old_v,           \* the content of v a call has examined
  old_violations   \* the map std::map::insert is extending

inputVars == <<addr, conflicts>>
pageVars == <<page_mutex, second, primary_entry>>
wordVars == <<word_mutex, v, is_racy>>
violVars == <<viol_lock, all_violations>>
localVars == <<old_v, old_violations>>
vars == <<pc, inputVars, pageVars, wordVars, violVars, localVars>>

Page == 0 .. SS_PRIMARY_TABLE_ENTRIES - 1
Offset == 0 .. SS_SEC_TABLE_ENTRIES - 1
Word == Call \X Offset        \* a table and an offset in it

PageOf(a) == (a \div SS_SEC_TABLE_ENTRIES) % SS_PRIMARY_TABLE_ENTRIES
OffsetOf(a) == a % SS_SEC_TABLE_ENTRIES

page(c) == PageOf(addr[c])
addrpair(c) == <<primary_entry[c], OffsetOf(addr[c])>>

NoViolation == [a \in Address |-> <<>>]

Pairs == {P \in SUBSET Call : \E c, d \in Call : c # d /\ P = {c, d}}

Init ==
  /\ pc = [c \in Call |-> "lock_page"]
  /\ addr \in [Call -> Address]
  /\ conflicts \in SUBSET Pairs
  /\ page_mutex = [p \in Page |-> NULL]
  /\ second = [p \in Page |-> NULL]
  /\ primary_entry = [c \in Call |-> NULL]
  /\ word_mutex = [w \in Word |-> NULL]
  /\ v = [w \in Word |-> {}]
  /\ is_racy = [w \in Word |-> FALSE]
  /\ viol_lock = NULL
  /\ all_violations = NoViolation
  /\ old_v = [c \in Call |-> {}]
  /\ old_violations = [c \in Call |-> NoViolation]

Goto(c, from, to) == pc[c] = from /\ pc' = [pc EXCEPT ![c] = to]

-----------------------------------------------------------------------------
(***************************************************************************)
(* The second-level table is mapped by the first access to its page.       *)
(***************************************************************************)
LockPage(c) ==
  /\ Goto(c, "lock_page", "test_page")
  /\ page_mutex[page(c)] = NULL
  /\ page_mutex' = [page_mutex EXCEPT ![page(c)] = c]
  /\ UNCHANGED <<inputVars, second, primary_entry, wordVars, violVars, localVars>>

(* Faulty: every access maps a table; every access waits for another one   *)
(* to do so.                                                               *)
AlwaysMaps(c) ==
  /\ Goto(c, "test_page", "map_page")
  /\ UNCHANGED <<inputVars, pageVars, wordVars, violVars, localVars>>

AwaitsPage(c) ==
  /\ pc[c] = "test_page"
  /\ pc' = [pc EXCEPT ![c] = IF second[page(c)] = NULL THEN @ ELSE "unlock_page"]
  /\ UNCHANGED <<inputVars, pageVars, wordVars, violVars, localVars>>

TestPage(c) ==
  /\ Goto(c, "test_page", IF second[page(c)] = NULL THEN "map_page"
                                                    ELSE "unlock_page")
  /\ UNCHANGED <<inputVars, pageVars, wordVars, violVars, localVars>>

MapPage(c) ==
  /\ Goto(c, "map_page", "unlock_page")
  /\ second' = [second EXCEPT ![page(c)] = c]
  /\ UNCHANGED <<inputVars, page_mutex, primary_entry, wordVars, violVars,
                 localVars>>

UnlockPage(c) ==
  /\ Goto(c, "unlock_page", "load_page")
  /\ page_mutex' = [page_mutex EXCEPT ![page(c)] = NULL]
  /\ UNCHANGED <<inputVars, second, primary_entry, wordVars, violVars, localVars>>

(* primary_entry = x->second, after the mutex is released.                 *)
LoadPage(c) ==
  /\ Goto(c, "load_page", "lock_word")
  /\ primary_entry' = [primary_entry EXCEPT ![c] = second[page(c)]]
  /\ UNCHANGED <<inputVars, page_mutex, second, wordVars, violVars, localVars>>

(***************************************************************************)
(* The shadow word: the content is examined and replaced under its mutex.  *)
(***************************************************************************)
(* Faulty: the mutex is not waited for.                                    *)
BreaksIn(c) ==
  /\ Goto(c, "lock_word", "test_racy")
  /\ word_mutex' = [word_mutex EXCEPT ![addrpair(c)] = c]
  /\ UNCHANGED <<inputVars, pageVars, v, is_racy, violVars, localVars>>

LockWord(c) ==
  /\ Goto(c, "lock_word", "test_racy")
  /\ word_mutex[addrpair(c)] = NULL
  /\ word_mutex' = [word_mutex EXCEPT ![addrpair(c)] = c]
  /\ UNCHANGED <<inputVars, pageVars, v, is_racy, violVars, localVars>>

(* Faulty: a word known to be racy is examined again.                      *)
NeverRacy(c) ==
  /\ Goto(c, "test_racy", "scan")
  /\ UNCHANGED <<inputVars, pageVars, wordVars, violVars, localVars>>

TestRacy(c) ==
  /\ Goto(c, "test_racy", IF is_racy[addrpair(c)] THEN "unlock_word" ELSE "scan")
  /\ UNCHANGED <<inputVars, pageVars, wordVars, violVars, localVars>>

Conflicting(c, S) == {d \in S : {c, d} \in conflicts}

Scan(c) ==
  /\ Goto(c, "scan", IF Conflicting(c, v[addrpair(c)]) = {} THEN "record"
                                                            ELSE "set_racy")
  /\ old_v' = [old_v EXCEPT ![c] = v[addrpair(c)]]
  /\ UNCHANGED <<inputVars, pageVars, wordVars, violVars, old_violations>>

RecordAccess(c) ==
  /\ Goto(c, "record", "unlock_word")
  /\ v' = [v EXCEPT ![addrpair(c)] = old_v[c] \cup {c}]
  /\ UNCHANGED <<inputVars, pageVars, word_mutex, is_racy, violVars, localVars>>

setRacy(c) ==
  /\ Goto(c, "set_racy", "lock_viol")
  /\ is_racy' = [is_racy EXCEPT ![addrpair(c)] = TRUE]
  /\ UNCHANGED <<inputVars, pageVars, word_mutex, v, violVars, localVars>>

(***************************************************************************)
(* error(): all_violations.insert under viol_lock; insert looks for the    *)
(* address in the map and links a new node only if it is not there.        *)
(***************************************************************************)
(* Faulty: the lock of the map is not waited for.                          *)
InsertsUnlocked(c) ==
  /\ Goto(c, "lock_viol", "find")
  /\ viol_lock' = c
  /\ UNCHANGED <<inputVars, pageVars, wordVars, all_violations, localVars>>

LockViol(c) ==
  /\ Goto(c, "lock_viol", "find")
  /\ viol_lock = NULL
  /\ viol_lock' = c
  /\ UNCHANGED <<inputVars, pageVars, wordVars, all_violations, localVars>>

Find(c) ==
  /\ Goto(c, "find", "insert")
  /\ old_violations' = [old_violations EXCEPT ![c] = all_violations]
  /\ UNCHANGED <<inputVars, pageVars, wordVars, violVars, old_v>>

(* Faulty: the address is stored in the place of the earlier access.       *)
InsertsAddress(c) ==
  /\ Goto(c, "insert", "unlock_viol")
  /\ all_violations' =
       [old_violations[c] EXCEPT ![addr[c]] = IF @ = <<>> THEN <<addr[c], c>> ELSE @]
  /\ UNCHANGED <<inputVars, pageVars, wordVars, viol_lock, localVars>>

Insert(c) ==
  /\ Goto(c, "insert", "unlock_viol")
  /\ \E d \in Conflicting(c, old_v[c]) :
       all_violations' =
         [old_violations[c] EXCEPT ![addr[c]] = IF @ = <<>> THEN <<d, c>> ELSE @]
  /\ UNCHANGED <<inputVars, pageVars, wordVars, viol_lock, localVars>>

UnlockViol(c) ==
  /\ Goto(c, "unlock_viol", "unlock_word")
  /\ viol_lock' = NULL
  /\ UNCHANGED <<inputVars, pageVars, wordVars, all_violations, localVars>>

UnlockWord(c) ==
  /\ Goto(c, "unlock_word", "done")
  /\ word_mutex' = [word_mutex EXCEPT ![addrpair(c)] = NULL]
  /\ UNCHANGED <<inputVars, pageVars, v, is_racy, violVars, localVars>>

Step(c) ==
  \/ LockPage(c) \/ TestPage(c) \/ MapPage(c) \/ UnlockPage(c) \/ LoadPage(c)
  \/ LockWord(c) \/ TestRacy(c) \/ Scan(c) \/ RecordAccess(c) \/ setRacy(c)
  \/ LockViol(c) \/ Find(c) \/ Insert(c) \/ UnlockViol(c)
  \/ UnlockWord(c)

AllDone == (\A c \in Call : pc[c] = "done") /\ UNCHANGED vars

Next == (\E c \in Call : Step(c)) \/ AllDone

Spec == Init /\ [][Next]_vars

(* The operating system runs every thread that is not blocked.             *)
FairSpec == Spec /\ \A c \in Call : WF_vars(Step(c))

-----------------------------------------------------------------------------
PC == {"lock_page", "test_page", "map_page", "unlock_page", "load_page",
       "lock_word", "test_racy", "scan", "record", "set_racy", "lock_viol",
       "find", "insert", "unlock_viol", "unlock_word", "done"}

(* The steps leave every variable in the range of the field it models.     *)
TypeOK ==
  /\ pc \in [Call -> PC]
  /\ addr \in [Call -> Address]
  /\ conflicts \in SUBSET SUBSET Call
  /\ page_mutex \in [Page -> Call \cup {NULL}]
  /\ second \in [Page -> Call \cup {NULL}]
  /\ primary_entry \in [Call -> Call \cup {NULL}]
  /\ word_mutex \in [Word -> Call \cup {NULL}]
  /\ v \in [Word -> SUBSET Call]
  /\ is_racy \in [Word -> BOOLEAN]
  /\ viol_lock \in Call \cup {NULL}
  /\ all_violations \in [Address -> {<<>>} \cup (Call \X Call)]
  /\ old_v \in [Call -> SUBSET Call]
  /\ old_violations \in [Call -> [Address -> {<<>>} \cup (Call \X Call)]]

(***************************************************************************)
(* The pointer to the second-level table is read again after the mutex is  *)
(* released, while other threads may map tables: it is never NULL then,    *)
(* and all calls for a page work in the same table.                        *)
(***************************************************************************)
BeforeLoad == {"lock_page", "test_page", "map_page", "unlock_page", "load_page"}

OneTablePerPage ==
  \A c \in Call : pc[c] \notin BeforeLoad =>
                    primary_entry[c] = second[page(c)] /\ primary_entry[c] # NULL

(***************************************************************************)
(* No thread examines or changes a shadow word while another one is        *)
(* between the examination and the change.                                 *)
(***************************************************************************)
InWord == {"test_racy", "scan", "record", "set_racy", "lock_viol", "find",
           "insert", "unlock_viol", "unlock_word"}

OneThreadPerWord ==
  \A c, d \in Call :
    pc[c] \in InWord /\ pc[d] \in InWord /\ addrpair(c) = addrpair(d) => c = d

(***************************************************************************)
(* When two conflicting accesses to an address have both been through      *)
(* RecordMem, a race has been reported on the word of that address: none   *)
(* of the calls that ran at the same time was lost, nor its report.        *)
(***************************************************************************)
ConflictsReported ==
  \A c, d \in Call :
    /\ c # d /\ addr[c] = addr[d] /\ {c, d} \in conflicts
    /\ pc[c] = "done" /\ pc[d] = "done"
    => \E e \in Call : /\ addrpair(e) = addrpair(c)
                       /\ all_violations[addr[e]] # <<>>

(***************************************************************************)
(* RecordMem takes effect at one instant: that of recording the access, of *)
(* the report, or of finding the word racy.                                *)
(***************************************************************************)
Reported == {c \in Call : /\ all_violations[addr[c]] # <<>>
                          /\ all_violations[addr[c]][2] = c}
Recorded == {c \in Call : \E w \in Word : c \in v[w]}
Ignored == {c \in Call : pc[c] \in {"unlock_word", "done"}} \ (Recorded \cup Reported)

Memory ==
  INSTANCE ShadowMemory WITH
    WordOf <- [a \in Address |-> <<PageOf(a), OffsetOf(a)>>],
    recorded <- Recorded,
    reported <- Reported,
    ignored <- Ignored

ImplementsMemory == Memory!Spec

(* Every call returns: the locks are taken in the order page, word, map    *)
(* and the first is given back before the second is taken.                 *)
EveryCallReturns == \A c \in Call : <>(pc[c] = "done")
=============================================================================
