----------------------- MODULE OrderMaintenance_proofs -----------------------
(***************************************************************************)
(* Proofs about an order-maintenance structure of C-RACER, for any number  *)
(* of threads and of nodes, any width of a label and any size of a         *)
(* sublist: its locks exclude each other, its labels and its tree stay in  *)
(* shape, and its comparisons are those of the abstract list.              *)
(***************************************************************************)
EXTENDS OrderMaintenance, FiniteSetTheorems, SequenceTheorems, TLAPS

LEMMA NullIsNoThread == NULL \notin Thread
BY ThreadAssumption DEF NULL, Thread

(***************************************************************************)
(* Whoever uses labels holds its own lock, whoever relabels holds them all,*)
(* and the global lock belongs to the one thread that collects or releases *)
(* them.                                                                   *)
(***************************************************************************)
LockTypes ==
  /\ pc \in [Thread -> PC]
  /\ thread_local_lock \in [Thread -> Thread \cup {NULL}]
  /\ global_relable_lock \in Thread \cup {NULL}

HoldsOwn == \A t \in Thread : pc[t] \in UsesLabels => thread_local_lock[t] = t

HoldsAll ==
  \A t, i \in Thread : pc[t] = "relabel" => thread_local_lock[i] = t

HoldsGlobal ==
  \A t \in Thread :
    pc[t] \in {"collect", "relabel", "release"} => global_relable_lock = t

(* A collected lock stays with the thread that collects.                   *)
OwnedByUser ==
  \A t, i \in Thread :
    thread_local_lock[i] = t /\ t # i => pc[t] \in {"collect", "relabel", "release"}

LockInv == LockTypes /\ HoldsOwn /\ HoldsAll /\ HoldsGlobal /\ OwnedByUser

-----------------------------------------------------------------------------
LEMMA InitLockInv == Init => LockInv
BY NullIsNoThread DEF Init, LockInv, LockTypes, HoldsOwn, HoldsAll, HoldsGlobal,
   OwnedByUser, UsesLabels, PC

(* A step of t between control points that need the same locks.            *)
LEMMA MoveKeepsLocks ==
  ASSUME LockInv, NEW t \in Thread, NEW from, NEW to \in PC, Goto(t, from, to),
         to \in UsesLabels => from \in UsesLabels,
         to # "relabel",
         to \in {"collect", "release"} => from \in {"collect", "relabel", "release"},
         from \in {"collect", "relabel", "release"} => to \in {"collect", "release"},
         UNCHANGED <<thread_local_lock, global_relable_lock>>
  PROVE  LockInv'
<1>1. /\ pc \in [Thread -> PC] /\ pc[t] = from /\ pc' = [pc EXCEPT ![t] = to]
      /\ thread_local_lock' = thread_local_lock
      /\ global_relable_lock' = global_relable_lock
  BY DEF Goto, LockInv, LockTypes
<1>2. pc'[t] = to /\ \A u \in Thread \ {t} : pc'[u] = pc[u]
  BY <1>1
<1>3. LockTypes'
  BY <1>1 DEF LockInv, LockTypes
<1>4. HoldsOwn'
  BY <1>1, <1>2 DEF LockInv, HoldsOwn
<1>5. HoldsAll'
  BY <1>1, <1>2 DEF LockInv, HoldsAll
<1>6. HoldsGlobal'
  BY <1>1, <1>2 DEF LockInv, HoldsGlobal
<1>7. OwnedByUser'
  BY <1>1, <1>2 DEF LockInv, OwnedByUser
<1>8. QED
  BY <1>3, <1>4, <1>5, <1>6, <1>7 DEF LockInv

(* A thread takes its own lock and goes on to use labels.                  *)
LEMMA LockOwnKeeps ==
  ASSUME LockInv, NEW t \in Thread, LockOwn(t)
  PROVE  LockInv'
<1>1. /\ pc \in [Thread -> PC] /\ pc[t] \in {"lock", "lock_query"}
      /\ pc' = [pc EXCEPT ![t] = pc'[t]] /\ pc'[t] \in {"label", "asking"}
      /\ thread_local_lock \in [Thread -> Thread \cup {NULL}]
      /\ thread_local_lock[t] = NULL
      /\ thread_local_lock' = [thread_local_lock EXCEPT ![t] = t]
      /\ global_relable_lock' = global_relable_lock
  BY DEF LockOwn, Goto, LockInv, LockTypes
<1>2. \A u \in Thread \ {t} : /\ pc'[u] = pc[u]
                              /\ thread_local_lock'[u] = thread_local_lock[u]
  BY <1>1
<1>3. thread_local_lock'[t] = t
  BY <1>1
<1>4. LockTypes'
  BY <1>1 DEF LockInv, LockTypes, PC
<1>5. HoldsOwn'
  BY <1>2, <1>3 DEF LockInv, HoldsOwn
<1>6. HoldsAll'
  BY <1>1, <1>2, <1>3, NullIsNoThread DEF LockInv, HoldsAll
<1>7. HoldsGlobal'
  BY <1>1, <1>2 DEF LockInv, HoldsGlobal
<1>8. OwnedByUser'
  BY <1>1, <1>2, <1>3 DEF LockInv, OwnedByUser
<1>9. QED
  BY <1>4, <1>5, <1>6, <1>7, <1>8 DEF LockInv

(* A thread gives its own lock up and uses no label any more.              *)
LEMMA UnlockOwnKeeps ==
  ASSUME LockInv, NEW t \in Thread, NEW from \in UsesLabels, NEW to \in {"idle", "join"},
         Goto(t, from, to),
         thread_local_lock' = [thread_local_lock EXCEPT ![t] = NULL],
         UNCHANGED global_relable_lock
  PROVE  LockInv'
<1>1. /\ pc \in [Thread -> PC] /\ pc[t] = from /\ pc' = [pc EXCEPT ![t] = to]
      /\ thread_local_lock \in [Thread -> Thread \cup {NULL}]
      /\ thread_local_lock[t] = t
  BY DEF Goto, LockInv, LockTypes, HoldsOwn
<1>2. pc'[t] = to /\ thread_local_lock'[t] = NULL
  BY <1>1
<1>3. \A u \in Thread \ {t} : /\ pc'[u] = pc[u]
                              /\ thread_local_lock'[u] = thread_local_lock[u]
  BY <1>1
<1>4. LockTypes'
  BY <1>1 DEF LockInv, LockTypes, PC
<1>5. HoldsOwn'
  BY <1>2, <1>3 DEF LockInv, HoldsOwn, UsesLabels
<1>6. HoldsAll'
  BY <1>1, <1>2, <1>3 DEF LockInv, HoldsAll
<1>7. HoldsGlobal'
  BY <1>2, <1>3 DEF LockInv, HoldsGlobal
<1>8. OwnedByUser'
  BY <1>1, <1>2, <1>3, NullIsNoThread DEF LockInv, OwnedByUser, UsesLabels
<1>9. QED
  BY <1>4, <1>5, <1>6, <1>7, <1>8 DEF LockInv

LEMMA LockGlobalKeeps ==
  ASSUME LockInv, NEW t \in Thread, LockGlobal(t)
  PROVE  LockInv'
<1>1. /\ pc \in [Thread -> PC] /\ pc[t] = "global"
      /\ pc' = [pc EXCEPT ![t] = "collect"]
      /\ global_relable_lock = NULL /\ global_relable_lock' = t
      /\ thread_local_lock' = thread_local_lock
  BY DEF LockGlobal, Goto, LockInv, LockTypes
<1>2. pc'[t] = "collect" /\ \A u \in Thread \ {t} : pc'[u] = pc[u]
  BY <1>1
<1>3. LockTypes'
  BY <1>1 DEF LockInv, LockTypes, PC
<1>4. HoldsOwn' /\ HoldsAll'
  BY <1>1, <1>2 DEF LockInv, HoldsOwn, HoldsAll, UsesLabels
<1>5. HoldsGlobal'
  BY <1>1, <1>2, NullIsNoThread DEF LockInv, HoldsGlobal
<1>6. OwnedByUser'
  BY <1>1, <1>2 DEF LockInv, OwnedByUser
<1>7. QED
  BY <1>3, <1>4, <1>5, <1>6 DEF LockInv

(* A free lock is collected: its thread uses no label.                     *)
LEMMA CollectKeeps ==
  ASSUME LockInv, NEW t \in Thread, NEW i \in Thread, Collect(t, i)
  PROVE  LockInv'
<1>1. /\ pc[t] = "collect" /\ pc' = pc
      /\ thread_local_lock \in [Thread -> Thread \cup {NULL}]
      /\ thread_local_lock[i] = NULL
      /\ thread_local_lock' = [thread_local_lock EXCEPT ![i] = t]
      /\ global_relable_lock' = global_relable_lock
  BY DEF Collect, LockInv, LockTypes
<1>2. thread_local_lock'[i] = t
  BY <1>1
<1>3. \A u \in Thread \ {i} : thread_local_lock'[u] = thread_local_lock[u]
  BY <1>1
<1>4. LockTypes'
  BY <1>1 DEF LockInv, LockTypes
<1>5. HoldsOwn'
  BY <1>1, <1>2, <1>3, NullIsNoThread DEF LockInv, HoldsOwn
<1>6. HoldsAll'
  BY <1>1, <1>2, <1>3, NullIsNoThread DEF LockInv, HoldsAll
<1>7. HoldsGlobal'
  BY <1>1 DEF LockInv, HoldsGlobal
<1>8. OwnedByUser'
  BY <1>1, <1>2, <1>3 DEF LockInv, OwnedByUser
<1>9. QED
  BY <1>4, <1>5, <1>6, <1>7, <1>8 DEF LockInv

LEMMA BeginRelabelKeeps ==
  ASSUME LockInv, NEW t \in Thread, BeginRelabel(t)
  PROVE  LockInv'
<1>1. /\ pc \in [Thread -> PC] /\ pc[t] = "collect"
      /\ pc' = [pc EXCEPT ![t] = "relabel"]
      /\ \A i \in Thread : thread_local_lock[i] = t
      /\ thread_local_lock' = thread_local_lock
      /\ global_relable_lock' = global_relable_lock
  BY DEF BeginRelabel, Goto, LockInv, LockTypes
<1>2. pc'[t] = "relabel" /\ \A u \in Thread \ {t} : pc'[u] = pc[u]
  BY <1>1
<1>3. LockTypes'
  BY <1>1 DEF LockInv, LockTypes, PC
<1>4. HoldsOwn'
  BY <1>1, <1>2 DEF LockInv, HoldsOwn, UsesLabels
<1>5. HoldsAll'
  BY <1>1, <1>2 DEF LockInv, HoldsAll
<1>6. HoldsGlobal' /\ OwnedByUser'
  BY <1>1, <1>2 DEF LockInv, HoldsGlobal, OwnedByUser
<1>7. QED
  BY <1>3, <1>4, <1>5, <1>6 DEF LockInv

LEMMA ReleaseKeeps ==
  ASSUME LockInv, NEW t \in Thread, NEW i \in Thread, Release(t, i)
  PROVE  LockInv'
<1>1. /\ pc[t] = "release" /\ pc' = pc
      /\ thread_local_lock \in [Thread -> Thread \cup {NULL}]
      /\ thread_local_lock[i] = t
      /\ thread_local_lock' = [thread_local_lock EXCEPT ![i] = NULL]
      /\ global_relable_lock' = global_relable_lock
  BY DEF Release, LockInv, LockTypes
<1>2. thread_local_lock'[i] = NULL
  BY <1>1
<1>3. \A u \in Thread \ {i} : thread_local_lock'[u] = thread_local_lock[u]
  BY <1>1
<1>4. LockTypes'
  BY <1>1 DEF LockInv, LockTypes
<1>5. HoldsOwn'
  BY <1>1, <1>2, <1>3 DEF LockInv, HoldsOwn, UsesLabels
<1>6. HoldsAll'
  BY <1>1, <1>2, <1>3 DEF LockInv, HoldsAll
<1>7. HoldsGlobal'
  BY <1>1 DEF LockInv, HoldsGlobal
<1>8. OwnedByUser'
  BY <1>1, <1>2, <1>3, NullIsNoThread DEF LockInv, OwnedByUser
<1>9. QED
  BY <1>4, <1>5, <1>6, <1>7, <1>8 DEF LockInv

LEMMA UnlockGlobalKeeps ==
  ASSUME LockInv, NEW t \in Thread, UnlockGlobal(t)
  PROVE  LockInv'
<1>1. /\ pc \in [Thread -> PC] /\ pc[t] = "release"
      /\ pc' = [pc EXCEPT ![t] = "lock"]
      /\ \A i \in Thread : thread_local_lock[i] # t
      /\ global_relable_lock' = NULL
      /\ thread_local_lock' = thread_local_lock
  BY DEF UnlockGlobal, Goto, LockInv, LockTypes
<1>2. pc'[t] = "lock" /\ \A u \in Thread \ {t} : pc'[u] = pc[u]
  BY <1>1
<1>3. LockTypes'
  BY <1>1 DEF LockInv, LockTypes, PC
<1>4. HoldsOwn' /\ HoldsAll'
  BY <1>1, <1>2 DEF LockInv, HoldsOwn, HoldsAll, UsesLabels
<1>5. HoldsGlobal'
  BY <1>1, <1>2 DEF LockInv, HoldsGlobal
<1>6. OwnedByUser'
  BY <1>1, <1>2 DEF LockInv, OwnedByUser
<1>7. QED
  BY <1>3, <1>4, <1>5, <1>6 DEF LockInv

(* The steps inside a relabelling, and stuttering.                         *)
LEMMA StillKeeps ==
  ASSUME LockInv, UNCHANGED <<pc, thread_local_lock, global_relable_lock>>
  PROVE  LockInv'
BY DEF LockInv, LockTypes, HoldsOwn, HoldsAll, HoldsGlobal, OwnedByUser

-----------------------------------------------------------------------------
LEMMA StepKeepsLocks ==
  ASSUME LockInv, NEW t \in Thread, Step(t)
  PROVE  LockInv'
<1>1. CASE LockOwn(t)
  BY <1>1, LockOwnKeeps
<1>2. CASE UnlockQuery(t)
  BY <1>2, UnlockOwnKeeps DEF UnlockQuery, UsesLabels
<1>3. CASE Return(t)
  BY <1>3, UnlockOwnKeeps DEF Return, UsesLabels
<1>4. CASE GiveUp(t)
  BY <1>4, UnlockOwnKeeps DEF GiveUp, UsesLabels
<1>5. CASE GetLabel(t)
  BY <1>5, MoveKeepsLocks DEF GetLabel, lockVars, UsesLabels, PC
<1>6. CASE Link(t)
  BY <1>6, MoveKeepsLocks DEF Link, lockVars, UsesLabels, PC
<1>7. CASE Mark(t)
  BY <1>7, MoveKeepsLocks DEF Mark, lockVars, UsesLabels, PC
<1>8. CASE Add(t)
  BY <1>8, MoveKeepsLocks DEF Add, lockVars, UsesLabels, PC
<1>9. CASE Join(t)
  BY <1>9, MoveKeepsLocks DEF Join, lockVars, UsesLabels, PC
<1>10. CASE LockGlobal(t)
  BY <1>10, LockGlobalKeeps
<1>11. CASE BeginRelabel(t)
  BY <1>11, BeginRelabelKeeps
<1>12. CASE Split(t) \/ Rebalance(t)
  BY <1>12, StillKeeps DEF Split, Rebalance, lockVars
<1>13. CASE EndRelabel(t)
  BY <1>13, MoveKeepsLocks DEF EndRelabel, UsesLabels, PC
<1>14. CASE UnlockGlobal(t)
  BY <1>14, UnlockGlobalKeeps
<1>15. CASE \E i \in Thread : Collect(t, i) \/ Release(t, i)
  BY <1>15, CollectKeeps, ReleaseKeeps
<1>16. QED
  BY <1>1, <1>2, <1>3, <1>4, <1>5, <1>6, <1>7, <1>8, <1>9, <1>10, <1>11, <1>12,
     <1>13, <1>14, <1>15 DEF Step

LEMMA NextKeepsLocks == LockInv /\ [Next]_vars => LockInv'
<1>1. SUFFICES ASSUME LockInv, [Next]_vars PROVE LockInv'
  OBVIOUS
<1>2. ASSUME NEW t \in Thread, Step(t) PROVE LockInv'
  BY <1>1, <1>2, StepKeepsLocks
<1>3. ASSUME NEW t \in Thread, BeginQuery(t) PROVE LockInv'
  BY <1>1, <1>3, MoveKeepsLocks DEF BeginQuery, lockVars, UsesLabels, PC
<1>4. ASSUME NEW t \in Thread, NEW b \in Node, BeginInsert(t, b) PROVE LockInv'
  BY <1>1, <1>4, MoveKeepsLocks DEF BeginInsert, lockVars, UsesLabels, PC
<1>5. CASE Idle \/ UNCHANGED vars
  BY <1>1, <1>5, StillKeeps DEF Idle, vars, lockVars
<1>6. QED
  BY <1>1, <1>2, <1>3, <1>4, <1>5 DEF Next

LEMMA LockInvariant == Spec => []LockInv
BY InitLockInv, NextKeepsLocks, PTL DEF Spec

(***************************************************************************)
(* While one thread relabels, no other thread reads a label, writes one or *)
(* links a node, and no two threads relabel, however many threads there    *)
(* are (tool_om_try_lock_all).                                             *)
(***************************************************************************)
THEOREM RelabellingExcludes == Spec => []RelabelExclusive
<1>1. LockInv => RelabelExclusive
  BY DEF LockInv, HoldsOwn, HoldsAll, RelabelExclusive
<1>2. QED
  BY <1>1, LockInvariant, PTL

(***************************************************************************)
(* A thread collects locks and relabels only as the owner of the global    *)
(* lock, so that no two threads wait for each other's locks.               *)
(***************************************************************************)
OneCollector ==
  \A t, u \in Thread :
    /\ pc[t] \in {"collect", "relabel", "release"}
    /\ pc[u] \in {"collect", "relabel", "release"}
    => t = u

THEOREM CollectorIsAlone == Spec => []OneCollector
<1>1. LockInv => OneCollector
  BY DEF LockInv, HoldsGlobal, OneCollector
<1>2. QED
  BY <1>1, LockInvariant, PTL

(***************************************************************************)
(* Powers of two.  The recursive definition is one: a function that obeys  *)
(* it below n can be continued at n.                                       *)
(***************************************************************************)
LEMMA LeastExists ==
  ASSUME NEW S \in SUBSET Nat, S # {}
  PROVE  \E x \in S : \A y \in S : x <= y
<1>1. PICK x \in S : \A y \in S : <<y, x>> \notin OpToRel(<, Nat)
  BY NatLessThanWellFounded, WFMin, Zenon
<1>2. \A y \in S : ~ (y < x)
  BY <1>1 DEF OpToRel
<1>3. QED
  BY <1>2

DoublesBelow(f, n) ==
  \A m \in 0 .. n - 1 : f[m] = IF m = 0 THEN 1 ELSE 2 * f[m - 1]

LEMMA DoublesExists == \A n \in Nat : \E f : DoublesBelow(f, n)
<1> DEFINE Bad == {n \in Nat : ~ \E f : DoublesBelow(f, n)}
<1>1. SUFFICES ASSUME Bad # {} PROVE FALSE
  OBVIOUS
<1>2. PICK n \in Bad : \A m \in Bad : n <= m
  BY <1>1, LeastExists
<1>3. n \in Nat
  OBVIOUS
<1>4. CASE n = 0
  <2>1. DoublesBelow(<<>>, n)
    BY <1>4 DEF DoublesBelow
  <2>2. QED
    BY <2>1
<1>5. CASE n # 0
  <2>1. n - 1 \in Nat /\ ~ (n <= n - 1)
    BY <1>3, <1>5
  <2>2. PICK f : DoublesBelow(f, n - 1)
    BY <1>2, <2>1
  <2> DEFINE top == IF n - 1 = 0 THEN 1 ELSE 2 * f[n - 1 - 1]
             g == [m \in 0 .. n - 1 |-> IF m = n - 1 THEN top ELSE f[m]]
  <2>3. ASSUME NEW m \in 0 .. n - 1
        PROVE  g[m] = IF m = 0 THEN 1 ELSE 2 * g[m - 1]
    <3>1. CASE m = n - 1
      BY <1>3, <1>5, <3>1
    <3>2. CASE m # n - 1
      <4>1. m \in 0 .. (n - 1) - 1
        BY <1>3, <3>2
      <4>2. f[m] = IF m = 0 THEN 1 ELSE 2 * f[m - 1]
        BY <2>2, <4>1 DEF DoublesBelow
      <4>3. QED
        BY <1>3, <3>2, <4>1, <4>2
    <3>3. QED
      BY <3>1, <3>2
  <2>4. DoublesBelow(g, n)
    BY <2>3 DEF DoublesBelow
  <2>5. QED
    BY <2>4
<1>6. QED
  BY <1>4, <1>5

(* Two such functions agree as far as both go.                             *)
LEMMA DoublesUnique ==
  ASSUME NEW n \in Nat, NEW k \in Nat, NEW f, NEW g,
         DoublesBelow(f, n), DoublesBelow(g, k)
  PROVE  \A m \in Nat : m < n /\ m < k => f[m] = g[m]
<1> DEFINE Bad == {m \in Nat : m < n /\ m < k /\ f[m] # g[m]}
<1>1. SUFFICES ASSUME Bad # {} PROVE FALSE
  OBVIOUS
<1>2. PICK m \in Bad : \A b \in Bad : m <= b
  BY <1>1, LeastExists
<1>3. /\ f[m] = IF m = 0 THEN 1 ELSE 2 * f[m - 1]
      /\ g[m] = IF m = 0 THEN 1 ELSE 2 * g[m - 1]
  BY DEF DoublesBelow
<1>4. m # 0
  BY <1>3
<1>5. m - 1 \notin Bad
  BY <1>2
<1>6. f[m - 1] = g[m - 1]
  BY <1>4, <1>5
<1>7. QED
  BY <1>3, <1>4, <1>6

LEMMA Pow2Is ==
  /\ Pow2[0] = 1
  /\ \A n \in Nat : Pow2[n + 1] = 2 * Pow2[n]
<1> DEFINE F(n) == CHOOSE f : DoublesBelow(f, n + 1)
           g == [n \in Nat |-> F(n)[n]]
<1>1. \A n \in Nat : DoublesBelow(F(n), n + 1)
  BY DoublesExists
<1> HIDE DEF F
<1>2. ASSUME NEW n \in Nat
      PROVE  g[n] = IF n = 0 THEN 1 ELSE 2 * g[n - 1]
  <2>1. F(n)[n] = IF n = 0 THEN 1 ELSE 2 * F(n)[n - 1]
    BY <1>1 DEF DoublesBelow
  <2>2. CASE n # 0
    <3>1. n - 1 \in Nat /\ DoublesBelow(F(n), n + 1) /\ DoublesBelow(F(n - 1), n - 1 + 1)
      BY <1>1, <2>2
    <3>2. F(n)[n - 1] = F(n - 1)[n - 1]
      <4>1. n + 1 \in Nat /\ n - 1 + 1 \in Nat /\ n - 1 < n + 1 /\ n - 1 < n - 1 + 1
        BY <3>1
      <4>2. QED
        BY <3>1, <4>1, DoublesUnique
    <3>3. QED
      BY <2>1, <2>2, <3>1, <3>2
  <2>3. QED
    BY <2>1, <2>2
<1>3. g = [n \in Nat |-> IF n = 0 THEN 1 ELSE 2 * g[n - 1]]
  BY <1>2
<1> HIDE DEF g
<1>4. Pow2 = [n \in Nat |-> IF n = 0 THEN 1 ELSE 2 * Pow2[n - 1]]
  BY <1>3 DEF Pow2
<1>5. ASSUME NEW n \in Nat PROVE Pow2[n + 1] = 2 * Pow2[n]
  <2>1. n + 1 \in Nat /\ n + 1 # 0 /\ n + 1 - 1 = n
    OBVIOUS
  <2>2. Pow2[n + 1] = 2 * Pow2[n + 1 - 1]
    BY <1>4, <2>1
  <2>3. QED
    BY <2>1, <2>2
<1>6. QED
  BY <1>4, <1>5

LEMMA Pow2Pos == \A n \in Nat : Pow2[n] \in Nat /\ Pow2[n] > n
<1> DEFINE Bad == {n \in Nat : ~ (Pow2[n] \in Nat /\ Pow2[n] > n)}
<1>1. SUFFICES ASSUME Bad # {} PROVE FALSE
  OBVIOUS
<1>2. PICK n \in Bad : \A m \in Bad : n <= m
  BY <1>1, LeastExists
<1>3. CASE n = 0
  BY <1>3, Pow2Is
<1>4. CASE n # 0
  <2>1. n - 1 \in Nat /\ n - 1 \notin Bad /\ n = n - 1 + 1
    BY <1>2, <1>4
  <2>2. Pow2[n] = 2 * Pow2[n - 1]
    BY <2>1, Pow2Is
  <2>3. QED
    BY <2>1, <2>2
<1>5. QED
  BY <1>3, <1>4

LEMMA Pow2Sum == \A m, n \in Nat : Pow2[m + n] = Pow2[m] * Pow2[n]
<1> SUFFICES ASSUME NEW m \in Nat PROVE \A n \in Nat : Pow2[m + n] = Pow2[m] * Pow2[n]
  OBVIOUS
<1> DEFINE Bad == {n \in Nat : ~ (Pow2[m + n] = Pow2[m] * Pow2[n])}
<1>1. SUFFICES ASSUME Bad # {} PROVE FALSE
  OBVIOUS
<1>2. PICK n \in Bad : \A k \in Bad : n <= k
  BY <1>1, LeastExists
<1>3. CASE n = 0
  BY <1>3, Pow2Is, Pow2Pos
<1>4. CASE n # 0
  <2>1. PICK k \in Nat : n = k + 1 /\ k \notin Bad
    <3>1. n - 1 \in Nat /\ n - 1 \notin Bad /\ n = n - 1 + 1
      BY <1>2, <1>4
    <3>2. QED
      BY <3>1
  <2>2. Pow2[m + n] = 2 * Pow2[m + k]
    <3>1. m + k \in Nat /\ m + n = (m + k) + 1
      BY <2>1
    <3>2. QED
      BY <3>1, Pow2Is
  <2>3. Pow2[n] = 2 * Pow2[k]
    BY <2>1, Pow2Is
  <2>4. Pow2[m + k] = Pow2[m] * Pow2[k]
    BY <2>1
  <2>5. Pow2[m] \in Nat /\ Pow2[k] \in Nat
    BY Pow2Pos
  <2>6. Pow2[m] * (2 * Pow2[k]) = 2 * (Pow2[m] * Pow2[k])
    BY <2>5
  <2>7. QED
    BY <2>2, <2>3, <2>4, <2>6
<1>5. QED
  BY <1>3, <1>4

LEMMA Pow2Grows == \A m, n \in Nat : m <= n => Pow2[m] <= Pow2[n]
<1> SUFFICES ASSUME NEW m \in Nat, NEW n \in Nat, m <= n PROVE Pow2[m] <= Pow2[n]
  OBVIOUS
<1>1. n - m \in Nat /\ n = m + (n - m)
  OBVIOUS
<1>2. Pow2[n] = Pow2[m] * Pow2[n - m]
  BY <1>1, Pow2Sum, Zenon
<1>3. Pow2[m] \in Nat /\ Pow2[n - m] \in Nat /\ Pow2[n - m] >= 1
  BY <1>1, Pow2Pos
<1>4. \A a, b \in Nat : b >= 1 => a <= a * b
  OBVIOUS
<1>5. QED
  BY <1>2, <1>3, <1>4

LEMMA Log2CeilIs ==
  ASSUME NEW k \in Nat \ {0}
  PROVE  Log2Ceil(k) \in Nat /\ k <= Pow2[Log2Ceil(k)]
<1> DEFINE Good == {e \in Nat : Pow2[e] >= k}
<1>1. k \in Good
  BY Pow2Pos
<1>2. PICK e \in Good : \A f \in Good : e <= f
  BY <1>1, LeastExists
<1>3. e \in 0 .. k
  BY <1>1, <1>2
<1>4. e = 0 \/ Pow2[e - 1] < k
  <2>1. CASE e # 0
    <3>1. e - 1 \in Nat /\ e - 1 \notin Good
      BY <1>2, <2>1
    <3>2. Pow2[e - 1] \in Nat
      BY <3>1, Pow2Pos
    <3>3. QED
      BY <3>1, <3>2
  <2>2. QED
    BY <2>1
<1>5. \E c \in 0 .. k : Pow2[c] >= k /\ (c = 0 \/ Pow2[c - 1] < k)
  BY <1>3, <1>4
<1>6. Log2Ceil(k) \in 0 .. k /\ Pow2[Log2Ceil(k)] >= k
  BY <1>5 DEF Log2Ceil
<1>7. QED
  BY <1>6, Pow2Pos

(***************************************************************************)
(* The leaves of a rebuilt tree.  The recursive definition is one, again.  *)
(***************************************************************************)
Grown(f, r) ==
  IF r.size = 1 THEN <<Leaf(r.depth, r.label)>> ELSE f[LeftHalf(r)] \o f[RightHalf(r)]

GrowsBelow(f, n) == \A r \in Subtrees : r.size < n => f[r] = Grown(f, r)

LEMMA Halves ==
  ASSUME NEW r \in Subtrees, r.size # 1
  PROVE  /\ LeftHalf(r) \in Subtrees /\ LeftHalf(r).size < r.size
         /\ RightHalf(r) \in Subtrees /\ RightHalf(r).size < r.size
<1>1. /\ r.size \in Nat \ {0} /\ r.depth \in Nat /\ r.label \in Nat /\ r.span \in Nat
      /\ r.size \div 2 \in Nat \ {0} /\ r.size \div 2 < r.size
      /\ r.size - r.size \div 2 \in Nat \ {0} /\ r.size - r.size \div 2 < r.size
  BY DEF Subtrees
<1>2. r.depth + 1 \in Nat /\ r.span \div 2 \in Nat /\ r.label + r.span \div 2 \in Nat
  BY <1>1
<1>3. QED
  BY <1>1, <1>2 DEF LeftHalf, RightHalf, Subtree, Subtrees

LEMMA GrownFrom ==
  ASSUME NEW f, NEW g, NEW r \in Subtrees,
         \A u \in Subtrees : u.size < r.size => f[u] = g[u]
  PROVE  Grown(f, r) = Grown(g, r)
<1>1. CASE r.size # 1
  BY <1>1, Halves, Zenon DEF Grown
<1>2. QED
  BY <1>1, Zenon DEF Grown

LEMMA GrowsExists == \A n \in Nat : \E f : GrowsBelow(f, n)
<1> DEFINE Bad == {n \in Nat : ~ \E f : GrowsBelow(f, n)}
<1>1. SUFFICES ASSUME Bad # {} PROVE FALSE
  OBVIOUS
<1>2. PICK n \in Bad : \A m \in Bad : n <= m
  BY <1>1, LeastExists
<1>3. n \in Nat /\ \A r \in Subtrees : r.size \in Nat
  BY DEF Subtrees
<1>4. CASE n = 0
  <2>1. GrowsBelow(<<>>, n)
    BY <1>3, <1>4 DEF GrowsBelow, Subtrees
  <2>2. QED
    BY <2>1
<1>5. CASE n # 0
  <2>1. n - 1 \in Nat /\ ~ (n <= n - 1)
    BY <1>3, <1>5
  <2>2. PICK f : GrowsBelow(f, n - 1)
    BY <1>2, <2>1
  <2> DEFINE g == [r \in Subtrees |-> IF r.size = n - 1 THEN Grown(f, r) ELSE f[r]]
  <2>3. ASSUME NEW r \in Subtrees, r.size < n
        PROVE  g[r] = Grown(g, r)
    <3>1. ASSUME NEW u \in Subtrees, u.size < r.size PROVE f[u] = g[u]
      <4>1. u.size # n - 1
        BY <1>3, <2>3, <3>1
      <4>2. QED
        BY <4>1, Zenon
    <3>2. Grown(f, r) = Grown(g, r)
      BY <3>1, GrownFrom, Zenon
    <3>3. g[r] = IF r.size = n - 1 THEN Grown(f, r) ELSE f[r]
      BY Zenon
    <3>4. CASE r.size = n - 1
      BY <3>2, <3>3, <3>4, Zenon
    <3>5. CASE r.size # n - 1
      <4>1. r.size < n - 1
        BY <1>3, <2>3, <3>5
      <4>2. f[r] = Grown(f, r)
        BY <2>2, <4>1, Zenon DEF GrowsBelow
      <4>3. QED
        BY <3>2, <3>3, <3>5, <4>2, Zenon
    <3>6. QED
      BY <3>4, <3>5, Zenon
  <2> HIDE DEF g
  <2>4. GrowsBelow(g, n)
    BY <2>3, Zenon DEF GrowsBelow
  <2>5. QED
    BY <2>4
<1>6. QED
  BY <1>4, <1>5

LEMMA GrowsUnique ==
  ASSUME NEW n \in Nat, NEW j \in Nat, NEW f, NEW g, GrowsBelow(f, n), GrowsBelow(g, j)
  PROVE  \A r \in Subtrees : r.size < n /\ r.size < j => f[r] = g[r]
<1> DEFINE Fails(k) == \E r \in Subtrees : r.size = k /\ k < n /\ k < j /\ f[r] # g[r]
           Bad == {k \in Nat : Fails(k)}
<1>1. \A r \in Subtrees : r.size \in Nat
  BY DEF Subtrees
<1>2. SUFFICES ASSUME Bad # {} PROVE FALSE
  BY <1>1
<1>3. PICK k \in Bad : \A b \in Bad : k <= b
  BY <1>2, LeastExists
<1>4. PICK r \in Subtrees : r.size = k /\ k < n /\ k < j /\ f[r] # g[r]
  OBVIOUS
<1>5. ASSUME NEW u \in Subtrees, u.size < r.size PROVE f[u] = g[u]
  <2>1. u.size \in Nat /\ u.size < n /\ u.size < j /\ ~ (k <= u.size)
    BY <1>1, <1>4, <1>5
  <2>2. u.size \notin Bad
    BY <1>3, <2>1
  <2>3. ~ Fails(u.size)
    BY <2>1, <2>2
  <2>4. QED
    BY <2>1, <2>3
<1>6. f[r] = Grown(f, r) /\ g[r] = Grown(g, r)
  BY <1>4, Zenon DEF GrowsBelow
<1>7. Grown(f, r) = Grown(g, r)
  BY <1>5, GrownFrom, Zenon
<1>8. QED
  BY <1>4, <1>6, <1>7, Zenon

LEMMA LeavesIs == \A r \in Subtrees : Leaves[r] = Grown(Leaves, r)
<1> DEFINE F(n) == CHOOSE f : GrowsBelow(f, n + 1)
           g == [r \in Subtrees |-> F(r.size)[r]]
<1>1. \A n \in Nat : GrowsBelow(F(n), n + 1)
  BY GrowsExists
<1> HIDE DEF F
<1>2. ASSUME NEW r \in Subtrees PROVE g[r] = Grown(g, r)
  <2>1. r.size \in Nat /\ r.size < r.size + 1 /\ r.size + 1 \in Nat
    BY DEF Subtrees
  <2>2. GrowsBelow(F(r.size), r.size + 1)
    BY <1>1, <2>1
  <2>3. F(r.size)[r] = Grown(F(r.size), r)
    BY <2>1, <2>2, Zenon DEF GrowsBelow
  <2>4. ASSUME NEW u \in Subtrees, u.size < r.size
        PROVE  F(r.size)[u] = g[u]
    <3>1. u.size \in Nat /\ u.size < u.size + 1 /\ u.size < r.size + 1 /\ u.size + 1 \in Nat
      BY <2>1, <2>4 DEF Subtrees
    <3>2. GrowsBelow(F(u.size), u.size + 1)
      BY <1>1, <3>1
    <3>3. \A w \in Subtrees : w.size < r.size + 1 /\ w.size < u.size + 1
            => F(r.size)[w] = F(u.size)[w]
      <4> DEFINE f == F(r.size)
                 h == F(u.size)
                 n == r.size + 1
                 m == u.size + 1
      <4>1. GrowsBelow(f, n) /\ GrowsBelow(h, m) /\ n \in Nat /\ m \in Nat
        BY <2>1, <2>2, <3>1, <3>2
      <4> HIDE DEF f, h, n, m
      <4>2. \A w \in Subtrees : w.size < n /\ w.size < m => f[w] = h[w]
        BY <4>1, GrowsUnique
      <4>3. QED
        BY <4>2 DEF f, h, n, m
    <3>4. F(r.size)[u] = F(u.size)[u]
      BY <3>1, <3>3, Zenon
    <3>5. QED
      BY <3>4, Zenon
  <2>5. Grown(F(r.size), r) = Grown(g, r)
    BY <2>4, GrownFrom, Zenon
  <2>6. g[r] = F(r.size)[r]
    BY Zenon
  <2>7. QED
    BY <2>3, <2>5, <2>6, Zenon
<1>3. g = [r \in Subtrees |-> Grown(g, r)]
  BY <1>2, Zenon
<1> HIDE DEF g
<1>4. Leaves = CHOOSE f : f = [r \in Subtrees |-> Grown(f, r)]
  BY Zenon DEF Leaves, Grown
<1>5. Leaves = [r \in Subtrees |-> Grown(Leaves, r)]
  BY <1>3, <1>4, Zenon
<1>6. QED
  BY <1>5, Zenon

(***************************************************************************)
(* The nodes of the tree.  A node that lies inside another one has part of *)
(* its labels.                                                             *)
(***************************************************************************)
InTree(p) ==
  /\ p \in TreeNode
  /\ \E q \in Nat : p.label = q * Span(p.depth) /\ q < Pow2[p.depth]

Inside(c, p) ==
  /\ c.depth >= p.depth
  /\ p.label <= c.label /\ c.label + Span(c.depth) <= p.label + Span(p.depth)

LeftFrom(c, p) == c.label + Span(c.depth) <= p.label

LEMMA MaxIs ==
  /\ MAX_LEVEL \in Nat \ {0} /\ MAX_LABEL \in Nat /\ MAX_LABEL + 1 = Pow2[MAX_LEVEL]
<1>1. MAX_LEVEL \in Nat \ {0}
  BY LabelAssumption
<1>2. Pow2[MAX_LEVEL] \in Nat /\ Pow2[MAX_LEVEL] > 0
  BY <1>1, Pow2Pos
<1>3. QED
  BY <1>1, <1>2 DEF MAX_LABEL

LEMMA SpanIs ==
  ASSUME NEW d \in 0 .. MAX_LEVEL
  PROVE  /\ Span(d) \in Nat \ {0}
         /\ d # MAX_LEVEL => /\ d + 1 \in 0 .. MAX_LEVEL
                             /\ Span(d) = 2 * Span(d + 1) /\ Span(d) \div 2 = Span(d + 1)
<1>1. MAX_LEVEL \in Nat /\ d \in Nat /\ MAX_LEVEL - d \in Nat
  BY MaxIs
<1>2. Span(d) \in Nat \ {0}
  BY <1>1, Pow2Pos DEF Span
<1>3. ASSUME d # MAX_LEVEL
      PROVE  /\ d + 1 \in 0 .. MAX_LEVEL
             /\ Span(d) = 2 * Span(d + 1) /\ Span(d) \div 2 = Span(d + 1)
  <2>1. d + 1 \in 0 .. MAX_LEVEL /\ MAX_LEVEL - (d + 1) \in Nat
        /\ MAX_LEVEL - d = MAX_LEVEL - (d + 1) + 1
    BY <1>1, <1>3
  <2>2. Pow2[MAX_LEVEL - d] = 2 * Pow2[MAX_LEVEL - (d + 1)]
    BY <2>1, Pow2Is
  <2>3. Pow2[MAX_LEVEL - (d + 1)] \in Nat
    BY <2>1, Pow2Pos
  <2>4. \A n \in Nat : (2 * n) \div 2 = n
    OBVIOUS
  <2>5. QED
    BY <2>1, <2>2, <2>3, <2>4 DEF Span
<1>4. QED
  BY <1>2, <1>3

(* A span is a whole number of the spans further down.                     *)
LEMMA SpanOfSpans ==
  ASSUME NEW d \in 0 .. MAX_LEVEL, NEW e \in d .. MAX_LEVEL
  PROVE  /\ e - d \in Nat /\ Pow2[e - d] \in Nat \ {0}
         /\ Span(d) = Pow2[e - d] * Span(e)
<1>1. /\ MAX_LEVEL \in Nat /\ e - d \in Nat /\ MAX_LEVEL - e \in Nat
      /\ MAX_LEVEL - d = (e - d) + (MAX_LEVEL - e)
  BY MaxIs
<1>2. Pow2[MAX_LEVEL - d] = Pow2[e - d] * Pow2[MAX_LEVEL - e]
  BY <1>1, Pow2Sum, Zenon
<1>3. QED
  BY <1>1, <1>2, Pow2Pos DEF Span

LEMMA SpanIsRoom ==
  ASSUME NEW d \in 0 .. MAX_LEVEL
  PROVE  Pow2[d] * Span(d) = Pow2[MAX_LEVEL]
<1>1. d \in Nat /\ MAX_LEVEL - d \in Nat /\ MAX_LEVEL = d + (MAX_LEVEL - d)
  BY MaxIs
<1>2. Pow2[d + (MAX_LEVEL - d)] = Pow2[d] * Pow2[MAX_LEVEL - d]
  BY <1>1, Pow2Sum, Zenon
<1>3. QED
  BY <1>1, <1>2 DEF Span

LEMMA InTreeIs ==
  ASSUME NEW d \in 0 .. MAX_LEVEL, NEW q \in Nat, q < Pow2[d]
  PROVE  /\ InTree(Leaf(d, q * Span(d)))
         /\ q * Span(d) + Span(d) <= MAX_LABEL + 1
<1>1. Pow2[d] \in Nat /\ Span(d) \in Nat \ {0} /\ MAX_LABEL \in Nat /\ d \in Nat
  BY Pow2Pos, SpanIs, MaxIs
<1>2. \A a, b, s \in Nat : a < b => a * s + s <= b * s
  <2>1. SUFFICES ASSUME NEW a \in Nat, NEW b \in Nat, NEW s \in Nat, a < b
                 PROVE  a * s + s <= b * s
    OBVIOUS
  <2>2. (a + 1) * s <= b * s
    BY <2>1
  <2>3. QED
    BY <2>2
<1>3. q * Span(d) + Span(d) <= Pow2[d] * Span(d)
  BY <1>1, <1>2
<1>4. q * Span(d) + Span(d) <= MAX_LABEL + 1
  BY <1>3, SpanIsRoom, MaxIs
<1>5. q * Span(d) \in Nat
  BY <1>1
<1> DEFINE l == q * Span(d)
<1>6. l = q * Span(d) /\ l \in Nat /\ l + Span(d) <= MAX_LABEL + 1
  BY <1>4, <1>5
<1> HIDE DEF l
<1>7. l \in 0 .. MAX_LABEL
  BY <1>1, <1>6
<1>8. InTree(Leaf(d, l))
  BY <1>6, <1>7 DEF InTree, Leaf, TreeNode
<1>9. QED
  BY <1>4, <1>6, <1>8

LEMMA InTreeFacts ==
  ASSUME NEW p, InTree(p)
  PROVE  /\ p \in TreeNode /\ p = Leaf(p.depth, p.label)
         /\ p.depth \in 0 .. MAX_LEVEL /\ p.label \in 0 .. MAX_LABEL
         /\ Span(p.depth) \in Nat \ {0}
         /\ p.label + Span(p.depth) <= MAX_LABEL + 1
<1>1. PICK q \in Nat : p.label = q * Span(p.depth) /\ q < Pow2[p.depth]
  BY DEF InTree
<1>2. /\ p \in TreeNode /\ p = Leaf(p.depth, p.label)
      /\ p.depth \in 0 .. MAX_LEVEL /\ p.label \in 0 .. MAX_LABEL
  BY DEF InTree, TreeNode, Leaf
<1>3. p.label + Span(p.depth) <= MAX_LABEL + 1
  BY <1>1, <1>2, InTreeIs
<1>4. QED
  BY <1>2, <1>3, SpanIs

LEMMA RootInTree == InTree(Root) /\ Span(0) = MAX_LABEL + 1
<1>1. 0 \in 0 .. MAX_LEVEL /\ 0 < Pow2[0] /\ 0 * Span(0) = 0
  BY MaxIs, Pow2Is, SpanIs
<1>2. InTree(Leaf(0, 0 * Span(0)))
  BY <1>1, InTreeIs
<1>3. MAX_LEVEL - 0 = MAX_LEVEL
  BY MaxIs
<1>4. QED
  BY <1>1, <1>2, <1>3, MaxIs DEF Root, Span

(***************************************************************************)
(* The two halves of a node.                                               *)
(***************************************************************************)
LEMMA HalvesOf ==
  ASSUME NEW p, InTree(p), p.depth # MAX_LEVEL
  PROVE  /\ Left(p) = Leaf(p.depth + 1, p.label)
         /\ Right(p) = Leaf(p.depth + 1, p.label + Span(p.depth + 1))
         /\ InTree(Left(p)) /\ InTree(Right(p))
         /\ Inside(Left(p), p) /\ Inside(Right(p), p) /\ LeftFrom(Left(p), Right(p))
         /\ Span(p.depth) = 2 * Span(p.depth + 1)
<1> DEFINE d == p.depth
           h == Span(p.depth + 1)
<1>1. /\ d \in 0 .. MAX_LEVEL /\ d \in Nat /\ p.label \in Nat /\ d + 1 \in 0 .. MAX_LEVEL
      /\ Span(d) = 2 * h /\ Span(d) \div 2 = h /\ h \in Nat \ {0}
  <2>1. d \in 0 .. MAX_LEVEL /\ p.label \in Nat
    BY InTreeFacts
  <2>2. /\ d + 1 \in 0 .. MAX_LEVEL
        /\ Span(d) = 2 * Span(d + 1) /\ Span(d) \div 2 = Span(d + 1)
    BY <2>1, SpanIs
  <2>3. Span(d + 1) \in Nat \ {0}
    BY <2>2, SpanIs
  <2>4. QED
    BY <2>1, <2>2, <2>3
<1>2. PICK q \in Nat : p.label = q * Span(d) /\ q < Pow2[d]
  BY DEF InTree
<1>3. Pow2[d + 1] = 2 * Pow2[d] /\ Pow2[d] \in Nat
  BY <1>1, Pow2Is, Pow2Pos
<1> HIDE DEF h, d
<1>4. 2 * q \in Nat /\ 2 * q + 1 \in Nat /\ 2 * q < Pow2[d + 1] /\ 2 * q + 1 < Pow2[d + 1]
  BY <1>2, <1>3
<1>5. p.label = (2 * q) * h /\ p.label + h = (2 * q + 1) * h
  BY <1>1, <1>2
<1>6. InTree(Leaf(d + 1, (2 * q) * Span(d + 1))) /\ InTree(Leaf(d + 1, (2 * q + 1) * Span(d + 1)))
  BY <1>1, <1>4, InTreeIs
<1>7. /\ Left(p) = Leaf(d + 1, p.label)
      /\ Right(p) = Leaf(d + 1, p.label + h)
  BY <1>1 DEF Left, Right, d
<1>8. InTree(Left(p)) /\ InTree(Right(p))
  BY <1>5, <1>6, <1>7 DEF h, d
<1>9. Inside(Left(p), p) /\ Inside(Right(p), p) /\ LeftFrom(Left(p), Right(p))
  BY <1>1, <1>7 DEF Inside, LeftFrom, Leaf, d, h
<1>10. QED
  BY <1>1, <1>7, <1>8, <1>9 DEF d, h

LEMMA InsideTrans ==
  ASSUME NEW a, NEW b, NEW c, InTree(a), InTree(b), InTree(c), Inside(a, b), Inside(b, c)
  PROVE  Inside(a, c)
<1>1. \A p \in {a, b, c} : p.depth \in Nat /\ p.label \in Nat /\ Span(p.depth) \in Nat
  BY InTreeFacts, MaxIs
<1>2. QED
  BY <1>1 DEF Inside

LEMMA LeftFromParts ==
  ASSUME NEW a, NEW b, NEW p, NEW q, InTree(a), InTree(b), InTree(p), InTree(q),
         Inside(a, p), Inside(b, q), LeftFrom(p, q)
  PROVE  LeftFrom(a, b)
<1>1. \A c \in {a, b, p, q} : c.depth \in Nat /\ c.label \in Nat /\ Span(c.depth) \in Nat
  BY InTreeFacts, MaxIs
<1>2. QED
  BY <1>1 DEF Inside, LeftFrom

(***************************************************************************)
(* The leaves that are built below p: as many as asked for, each inside p, *)
(* from left to right, and no deeper than their number requires.           *)
(***************************************************************************)
BuiltBelow(s, p, k, e) ==
  /\ s \in Seq(TreeNode) /\ Len(s) = k
  /\ \A i \in 1 .. k : InTree(s[i]) /\ Inside(s[i], p) /\ s[i].depth <= p.depth + e
  /\ \A i, j \in 1 .. k : i < j => LeftFrom(s[i], s[j])

Asked(p, k) == Subtree(p.depth, p.label, Span(p.depth), k)

LEMMA BuiltBoth ==
  ASSUME NEW p, InTree(p), p.depth # MAX_LEVEL, NEW e \in Nat,
         NEW m \in Nat, NEW n \in Nat, NEW s, NEW t,
         BuiltBelow(s, Left(p), m, e), BuiltBelow(t, Right(p), n, e)
  PROVE  BuiltBelow(s \o t, p, m + n, e + 1)
<1>1. /\ InTree(Left(p)) /\ InTree(Right(p)) /\ Inside(Left(p), p) /\ Inside(Right(p), p)
      /\ LeftFrom(Left(p), Right(p))
      /\ Left(p).depth = p.depth + 1 /\ Right(p).depth = p.depth + 1 /\ p.depth \in Nat
  BY HalvesOf, InTreeFacts DEF Leaf
<1>2. /\ s \in Seq(TreeNode) /\ Len(s) = m /\ t \in Seq(TreeNode) /\ Len(t) = n
  BY DEF BuiltBelow
<1>3. /\ s \o t \in Seq(TreeNode) /\ Len(s \o t) = m + n
      /\ \A i \in 1 .. m + n : (s \o t)[i] = IF i <= m THEN s[i] ELSE t[i - m]
  BY <1>2, ConcatProperties, Zenon
<1> DEFINE u == s \o t
<1> HIDE DEF u
<1>4. ASSUME NEW i \in 1 .. m
      PROVE  /\ u[i] = s[i] /\ InTree(u[i]) /\ Inside(u[i], Left(p))
             /\ u[i].depth <= p.depth + 1 + e
  <2>1. u[i] = s[i]
    BY <1>3 DEF u
  <2>2. QED
    BY <1>1, <2>1 DEF BuiltBelow
<1>5. ASSUME NEW i \in m + 1 .. m + n
      PROVE  /\ u[i] = t[i - m] /\ InTree(u[i]) /\ Inside(u[i], Right(p))
             /\ u[i].depth <= p.depth + 1 + e
  <2>1. u[i] = t[i - m] /\ i - m \in 1 .. n
    BY <1>3 DEF u
  <2>2. QED
    BY <1>1, <2>1 DEF BuiltBelow
<1>6. ASSUME NEW i \in 1 .. m + n
      PROVE  InTree(u[i]) /\ Inside(u[i], p) /\ u[i].depth <= p.depth + (e + 1)
  <2>1. i \in 1 .. m \/ i \in m + 1 .. m + n
    OBVIOUS
  <2>2. InTree(u[i]) /\ u[i].depth <= p.depth + 1 + e
    BY <1>4, <1>5, <2>1
  <2>3. Inside(u[i], p)
    BY <1>1, <1>4, <1>5, <2>1, <2>2, InsideTrans
  <2>4. u[i].depth \in Nat
    BY <2>2, InTreeFacts
  <2>5. QED
    BY <1>1, <2>2, <2>3, <2>4
<1>7. ASSUME NEW i \in 1 .. m + n, NEW j \in 1 .. m + n, i < j
      PROVE  LeftFrom(u[i], u[j])
  <2>1. CASE j <= m
    BY <1>4, <1>7, <2>1 DEF BuiltBelow
  <2>2. CASE i > m
    <3>1. i - m \in 1 .. n /\ j - m \in 1 .. n /\ i - m < j - m
          /\ u[i] = t[i - m] /\ u[j] = t[j - m]
      BY <1>5, <1>7, <2>2
    <3>2. QED
      BY <3>1 DEF BuiltBelow
  <2>3. CASE i <= m /\ j > m
    <3>1. InTree(u[i]) /\ Inside(u[i], Left(p)) /\ InTree(u[j]) /\ Inside(u[j], Right(p))
      BY <1>4, <1>5, <2>3
    <3>2. QED
      BY <1>1, <3>1, LeftFromParts
  <2>4. QED
    BY <2>1, <2>2, <2>3
<1>8. QED
  BY <1>3, <1>6, <1>7 DEF BuiltBelow, u

LEMMA LeavesBuilt ==
  ASSUME NEW p, InTree(p), NEW k \in Nat \ {0}, NEW e \in Nat,
         k <= Pow2[e], p.depth + e <= MAX_LEVEL
  PROVE  BuiltBelow(Leaves[Asked(p, k)], p, k, e)
<1> DEFINE Fails(n) == \E q, f : /\ InTree(q) /\ f \in Nat /\ n <= Pow2[f]
                                 /\ q.depth + f <= MAX_LEVEL
                                 /\ ~ BuiltBelow(Leaves[Asked(q, n)], q, n, f)
           Bad == {n \in Nat \ {0} : Fails(n)}
<1>1. SUFFICES ASSUME Bad # {} PROVE FALSE
  OBVIOUS
<1>2. PICK n \in Bad : \A m \in Bad : n <= m
  BY <1>1, LeastExists
<1>3. PICK q, f : /\ InTree(q) /\ f \in Nat /\ n <= Pow2[f] /\ q.depth + f <= MAX_LEVEL
                  /\ ~ BuiltBelow(Leaves[Asked(q, n)], q, n, f)
  OBVIOUS
<1>4. /\ n \in Nat \ {0} /\ q.depth \in Nat /\ q.label \in Nat /\ Span(q.depth) \in Nat
      /\ q \in TreeNode /\ q = Leaf(q.depth, q.label) /\ q.depth \in 0 .. MAX_LEVEL
  BY <1>3, InTreeFacts
<1> DEFINE r == Asked(q, n)
<1>5. /\ r \in Subtrees /\ r.size = n /\ r.depth = q.depth /\ r.label = q.label
      /\ r.span = Span(q.depth)
  BY <1>4 DEF Asked, Subtree, Subtrees
<1>6. Leaves[r] = Grown(Leaves, r)
  BY <1>5, LeavesIs, Zenon
<1>7. CASE n = 1
  <2>1. Leaves[r] = <<q>>
    BY <1>4, <1>5, <1>6, <1>7 DEF Grown
  <2>2. Inside(q, q) /\ q.depth <= q.depth + f
    BY <1>3, <1>4 DEF Inside
  <2> DEFINE s == <<q>>
  <2>3. s \in Seq(TreeNode) /\ Len(s) = 1 /\ \A i \in 1 .. 1 : s[i] = q
    BY <1>4
  <2> HIDE DEF s
  <2>4. BuiltBelow(s, q, n, f)
    BY <1>3, <1>7, <2>2, <2>3 DEF BuiltBelow
  <2>5. QED
    BY <1>3, <2>1, <2>4 DEF s
<1>8. CASE n # 1
  <2> DEFINE a == n - n \div 2
             b == n \div 2
  <2>1. a \in Nat \ {0} /\ b \in Nat \ {0} /\ a < n /\ b < n /\ a + b = n
    BY <1>4, <1>8
  <2>2. f # 0 /\ f - 1 \in Nat
    BY <1>3, <1>4, <1>8, Pow2Is
  <2>3. Pow2[f] = 2 * Pow2[f - 1] /\ Pow2[f - 1] \in Nat
    <3>1. f = f - 1 + 1
      BY <1>3
    <3>2. QED
      BY <2>2, <3>1, Pow2Is, Pow2Pos
  <2>4. a <= Pow2[f - 1] /\ b <= Pow2[f - 1]
    BY <1>3, <1>4, <2>3
  <2> HIDE DEF a, b
  <2>5. q.depth # MAX_LEVEL
    BY <1>3, <1>4, <2>2, MaxIs
  <2>6. /\ Left(q) = Leaf(q.depth + 1, q.label)
        /\ Right(q) = Leaf(q.depth + 1, q.label + Span(q.depth + 1))
        /\ InTree(Left(q)) /\ InTree(Right(q)) /\ Span(q.depth) = 2 * Span(q.depth + 1)
    BY <1>3, <2>5, HalvesOf
  <2>7. Span(q.depth) \div 2 = Span(q.depth + 1)
    BY <1>4, <2>5, SpanIs
  <2>8. LeftHalf(r) = Asked(Left(q), a) /\ RightHalf(r) = Asked(Right(q), b)
    BY <1>5, <2>6, <2>7 DEF LeftHalf, RightHalf, Asked, Leaf, a, b
  <2>9. Leaves[r] = Leaves[Asked(Left(q), a)] \o Leaves[Asked(Right(q), b)]
    BY <1>5, <1>6, <1>8, <2>8 DEF Grown
  <2>10. ~ (n <= a) /\ ~ (n <= b)
    BY <1>4, <2>1
  <2>11. ~ Fails(a) /\ ~ Fails(b)
    BY <1>2, <2>1, <2>10
  <2>12. Left(q).depth + (f - 1) <= MAX_LEVEL /\ Right(q).depth + (f - 1) <= MAX_LEVEL
    BY <1>3, <1>4, <2>6, MaxIs DEF Leaf
  <2>13. /\ BuiltBelow(Leaves[Asked(Left(q), a)], Left(q), a, f - 1)
         /\ BuiltBelow(Leaves[Asked(Right(q), b)], Right(q), b, f - 1)
    BY <2>2, <2>4, <2>6, <2>11, <2>12
  <2>14. BuiltBelow(Leaves[r], q, a + b, f - 1 + 1)
    <3> HIDE DEF r
    <3>1. a \in Nat /\ b \in Nat
      BY <2>1
    <3>2. QED
      BY <1>3, <2>2, <2>5, <2>9, <2>13, <3>1, BuiltBoth
  <2>15. f - 1 + 1 = f
    BY <1>3
  <2>16. QED
    BY <1>3, <2>1, <2>14, <2>15
<1>9. QED
  BY <1>7, <1>8

LEMMA Quotient ==
  ASSUME NEW s \in Nat \ {0}, NEW t \in Nat, NEW n \in Nat, t * s <= n, n < t * s + s
  PROVE  n \div s = t
<1>1. n \div s \in Nat /\ s * (n \div s) <= n /\ n < s * (n \div s) + s
  OBVIOUS
<1>2. \A a, b \in Nat : s * a < s * b + s => a <= b
  <2>1. SUFFICES ASSUME NEW a \in Nat, NEW b \in Nat, s * a < s * b + s, b < a
                 PROVE  FALSE
    OBVIOUS
  <2>2. s * (b + 1) <= s * a
    BY <2>1
  <2>3. QED
    BY <2>1, <2>2
<1> DEFINE k == n \div s
<1>3. k \in Nat /\ s * k <= n /\ n < s * k + s
  BY <1>1
<1> HIDE DEF k
<1>4. s * t = t * s /\ s * t \in Nat /\ s * k \in Nat
  BY <1>3
<1>5. s * k < s * t + s /\ s * t < s * k + s
  BY <1>3, <1>4
<1>6. k <= t /\ t <= k
  BY <1>2, <1>3, <1>5
<1>7. QED
  BY <1>3, <1>6 DEF k

LEMMA QuotientIs ==
  ASSUME NEW n \in Nat, NEW s \in Nat \ {0}
  PROVE  n \div s \in Nat /\ (n \div s) * s <= n /\ n < (n \div s) * s + s
<1>1. n \div s \in Nat /\ s * (n \div s) <= n /\ n < s * (n \div s) + s
  OBVIOUS
<1>2. \A k \in Nat : s * k = k * s
  OBVIOUS
<1>3. QED
  BY <1>1, <1>2

(* Products keep the order.                                                *)
LEMMA TimesGrows ==
  ASSUME NEW a \in Nat, NEW b \in Nat, NEW s \in Nat, a < b
  PROVE  a * s + s <= b * s
<1>1. (a + 1) * s <= b * s
  OBVIOUS
<1>2. QED
  BY <1>1

LEMMA TimesCancel ==
  ASSUME NEW a \in Nat, NEW b \in Nat, NEW s \in Nat \ {0}, a * s < b * s
  PROVE  a < b
<1>1. SUFFICES ASSUME b <= a PROVE FALSE
  OBVIOUS
<1>2. b * s <= a * s
  BY <1>1
<1>3. a * s \in Nat /\ b * s \in Nat
  OBVIOUS
<1>4. QED
  BY <1>2, <1>3

LEMMA AncestorIs ==
  ASSUME NEW p, InTree(p), NEW d \in 0 .. p.depth
  PROVE  /\ InTree(Ancestor(p, d)) /\ Ancestor(p, d).depth = d
         /\ Inside(p, Ancestor(p, d))
<1> DEFINE e == p.depth
           S == Span(p.depth)
           T == Span(d)
           c == Pow2[p.depth - d]
           t == p.label \div Span(d)
<1>1. /\ e \in 0 .. MAX_LEVEL /\ d \in 0 .. MAX_LEVEL /\ e \in d .. MAX_LEVEL
      /\ p.label \in Nat /\ S \in Nat \ {0} /\ T \in Nat \ {0}
      /\ p.label + S <= MAX_LABEL + 1 /\ MAX_LABEL \in Nat
  <2>1. e \in 0 .. MAX_LEVEL /\ p.label \in Nat /\ S \in Nat \ {0}
        /\ p.label + S <= MAX_LABEL + 1
    BY InTreeFacts
  <2>2. d \in 0 .. MAX_LEVEL /\ e \in d .. MAX_LEVEL
    BY <2>1, MaxIs
  <2>3. QED
    BY <2>1, <2>2, SpanIs, MaxIs
<1>2. c \in Nat \ {0} /\ T = c * S
  BY <1>1, SpanOfSpans
<1>3. PICK q \in Nat : p.label = q * S /\ q < Pow2[e]
  BY DEF InTree
<1>4. t \in Nat /\ t * T <= p.label /\ p.label < t * T + T
  BY <1>1, QuotientIs
<1>5. Ancestor(p, d) = Leaf(d, t * T)
  BY DEF Ancestor
<1> HIDE DEF e, S, T, c, t
<1>6. t * T = (t * c) * S /\ t * T + T = (t * c + c) * S
  BY <1>1, <1>2, <1>4
<1>7. t * c \in Nat /\ t * c + c \in Nat
  BY <1>2, <1>4
<1>8. q < t * c + c
  BY <1>1, <1>3, <1>4, <1>6, <1>7, TimesCancel
<1>9. q * S + S <= (t * c + c) * S
  BY <1>1, <1>3, <1>7, <1>8, TimesGrows
<1>10. t * T \in Nat /\ p.label + S <= t * T + T
  BY <1>1, <1>3, <1>6, <1>9, <1>4
<1>11. t < Pow2[d]
  <2>1. Pow2[d] \in Nat /\ Pow2[d] * T = MAX_LABEL + 1
    BY <1>1, Pow2Pos, SpanIsRoom, MaxIs DEF T
  <2>2. t * T < Pow2[d] * T
    BY <1>1, <1>4, <1>10, <2>1
  <2>3. QED
    BY <1>1, <1>4, <2>1, <2>2, TimesCancel
<1>12. InTree(Leaf(d, t * T))
  BY <1>1, <1>4, <1>11, InTreeIs DEF T
<1>13. Inside(p, Leaf(d, t * T))
  BY <1>1, <1>4, <1>10 DEF Inside, Leaf, S, T, e
<1>14. QED
  BY <1>5, <1>12, <1>13 DEF Leaf

LEMMA AncestorOnly ==
  ASSUME NEW p, NEW a, InTree(p), InTree(a), Inside(p, a)
  PROVE  a.depth \in 0 .. p.depth /\ Ancestor(p, a.depth) = a
<1>1. /\ a.depth \in Nat /\ p.depth \in Nat /\ a.label \in Nat /\ p.label \in Nat
      /\ Span(a.depth) \in Nat \ {0} /\ Span(p.depth) \in Nat \ {0}
      /\ a = Leaf(a.depth, a.label)
  BY InTreeFacts
<1>2. PICK t \in Nat : a.label = t * Span(a.depth)
  BY DEF InTree
<1>3. a.label <= p.label /\ p.label < a.label + Span(a.depth)
  BY <1>1 DEF Inside
<1>4. p.label \div Span(a.depth) = t
  BY <1>1, <1>2, <1>3, Quotient
<1>5. QED
  BY <1>1, <1>2, <1>4 DEF Ancestor, Inside

(***************************************************************************)
(* Of two nodes one lies inside the other, or they are apart.              *)
(***************************************************************************)
LEMMA ApartAsym ==
  ASSUME NEW a, NEW b, InTree(a), InTree(b)
  PROVE  /\ ~ (LeftFrom(a, b) /\ LeftFrom(b, a))
         /\ Inside(a, b) => ~ LeftFrom(a, b) /\ ~ LeftFrom(b, a)
<1>1. \A p \in {a, b} : p.depth \in Nat /\ p.label \in Nat /\ Span(p.depth) \in Nat \ {0}
  BY InTreeFacts
<1>2. QED
  BY <1>1 DEF Inside, LeftFrom

LEMMA SameDepthApart ==
  ASSUME NEW a, NEW b, InTree(a), InTree(b), a.depth = b.depth, a # b
  PROVE  LeftFrom(a, b) \/ LeftFrom(b, a)
<1> DEFINE S == Span(a.depth)
<1>1. S \in Nat \ {0} /\ a = Leaf(a.depth, a.label) /\ b = Leaf(b.depth, b.label)
  BY InTreeFacts
<1>2. PICK m \in Nat : a.label = m * S
  BY DEF InTree
<1>3. PICK n \in Nat : b.label = n * S
  BY DEF InTree
<1> HIDE DEF S
<1>4. m # n
  BY <1>1, <1>2, <1>3
<1>5. CASE m < n
  BY <1>1, <1>2, <1>3, <1>5, TimesGrows DEF LeftFrom, S
<1>6. CASE n < m
  BY <1>1, <1>2, <1>3, <1>6, TimesGrows DEF LeftFrom, S
<1>7. QED
  BY <1>4, <1>5, <1>6

LEMMA NestedDeeper ==
  ASSUME NEW c, NEW p, InTree(c), InTree(p), c.depth >= p.depth
  PROVE  Inside(c, p) \/ LeftFrom(c, p) \/ LeftFrom(p, c)
<1>1. p.depth \in 0 .. c.depth
  BY InTreeFacts
<1> DEFINE a == Ancestor(c, p.depth)
<1>2. InTree(a) /\ a.depth = p.depth /\ Inside(c, a)
  BY <1>1, AncestorIs
<1> HIDE DEF a
<1>3. CASE a = p
  BY <1>2, <1>3
<1>4. CASE a # p
  <2>1. LeftFrom(a, p) \/ LeftFrom(p, a)
    BY <1>2, <1>4, SameDepthApart
  <2>2. \A x \in {a, c, p} : x.depth \in Nat /\ x.label \in Nat /\ Span(x.depth) \in Nat \ {0}
    BY <1>2, InTreeFacts
  <2>3. QED
    BY <1>2, <2>1, <2>2 DEF Inside, LeftFrom
<1>5. QED
  BY <1>3, <1>4

LEMMA Nested ==
  ASSUME NEW c, NEW p, InTree(c), InTree(p)
  PROVE  Inside(c, p) \/ Inside(p, c) \/ LeftFrom(c, p) \/ LeftFrom(p, c)
<1>1. c.depth >= p.depth \/ p.depth >= c.depth
  BY InTreeFacts
<1>2. QED
  BY <1>1, NestedDeeper

(* What lies inside p and not as deep as its halves is p; all else lies in *)
(* one of the halves.                                                      *)
LEMMA InsideHalves ==
  ASSUME NEW c, NEW p, InTree(c), InTree(p), Inside(c, p), c # p
  PROVE  p.depth # MAX_LEVEL /\ (Inside(c, Left(p)) \/ Inside(c, Right(p)))
<1>1. /\ p.depth \in Nat /\ c.depth \in Nat /\ c.depth <= MAX_LEVEL /\ p.depth <= MAX_LEVEL
      /\ c = Leaf(c.depth, c.label) /\ p = Leaf(p.depth, p.label) /\ MAX_LEVEL \in Nat
  BY InTreeFacts, MaxIs
<1>2. c.depth # p.depth
  <2>1. SUFFICES ASSUME c.depth = p.depth PROVE FALSE
    OBVIOUS
  <2>2. QED
    BY <2>1, SameDepthApart, ApartAsym
<1>3. c.depth >= p.depth + 1 /\ p.depth # MAX_LEVEL
  BY <1>1, <1>2 DEF Inside
<1>4. /\ Left(p) = Leaf(p.depth + 1, p.label)
      /\ Right(p) = Leaf(p.depth + 1, p.label + Span(p.depth + 1))
      /\ InTree(Left(p)) /\ InTree(Right(p)) /\ Span(p.depth) = 2 * Span(p.depth + 1)
  BY <1>3, HalvesOf
<1>5. Left(p).depth = p.depth + 1 /\ Right(p).depth = p.depth + 1
  BY <1>4 DEF Leaf
<1>6. /\ Inside(c, Left(p)) \/ LeftFrom(c, Left(p)) \/ LeftFrom(Left(p), c)
      /\ Inside(c, Right(p)) \/ LeftFrom(c, Right(p)) \/ LeftFrom(Right(p), c)
  BY <1>3, <1>4, <1>5, NestedDeeper
<1>7. /\ c.label \in Nat /\ Span(c.depth) \in Nat \ {0} /\ p.label \in Nat
      /\ Span(p.depth + 1) \in Nat \ {0}
  <2>1. c.label \in Nat /\ Span(c.depth) \in Nat \ {0} /\ p.label \in Nat
    BY InTreeFacts
  <2>2. Span(Left(p).depth) \in Nat \ {0}
    BY <1>4, InTreeFacts
  <2>3. QED
    BY <1>5, <2>1, <2>2
<1>8. ~ LeftFrom(c, Left(p)) /\ ~ LeftFrom(Right(p), c)
  BY <1>1, <1>4, <1>7 DEF LeftFrom, Leaf, Inside
<1>9. ~ (LeftFrom(Left(p), c) /\ LeftFrom(c, Right(p)))
  BY <1>4, <1>7 DEF LeftFrom, Leaf
<1>10. QED
  BY <1>3, <1>6, <1>8, <1>9

-----------------------------------------------------------------------------
(***************************************************************************)
(* The leaves the sublists hang from: they are nodes of the tree, from     *)
(* left to right; the pieces of a split sublist share one until the tree   *)
(* is rebuilt.  No leaf is below the height, and below the height there is *)
(* room for the pieces.                                                    *)
(***************************************************************************)
AllInTree == \A i \in DOMAIN lists : InTree(lists[i].above)

Ascending ==
  \A i, j \in DOMAIN lists :
    i < j => lists[i].above = lists[j].above \/ LeftFrom(lists[i].above, lists[j].above)

Group(p) == {i \in DOMAIN lists : lists[i].above = p}

WithinHeight ==
  \A i \in DOMAIN lists :
    /\ lists[i].above.depth <= height
    /\ Cardinality(Group(lists[i].above)) <= Pow2[height - lists[i].above.depth]

ShapeInv == TreeTypeOK /\ AllInTree /\ Ascending /\ WithinHeight

LEMMA ListsAre ==
  ASSUME TreeTypeOK
  PROVE  /\ Len(lists) \in Nat /\ DOMAIN lists = 1 .. Len(lists)
         /\ IsFiniteSet(DOMAIN lists)
         /\ \A i \in DOMAIN lists :
              lists[i] \in [nodes : Seq(Node) \ {<<>>}, heavy : BOOLEAN, above : TreeNode]
<1>1. lists \in Seq([nodes : Seq(Node) \ {<<>>}, heavy : BOOLEAN, above : TreeNode])
  BY DEF TreeTypeOK
<1>2. /\ Len(lists) \in Nat /\ DOMAIN lists = 1 .. Len(lists)
      /\ \A i \in DOMAIN lists :
           lists[i] \in [nodes : Seq(Node) \ {<<>>}, heavy : BOOLEAN, above : TreeNode]
  BY <1>1, LenProperties, ElementOfSeq, Zenon
<1>3. IsFiniteSet(DOMAIN lists)
  BY <1>2, FS_Interval
<1>4. QED
  BY <1>2, <1>3

LEMMA Counted ==
  ASSUME TreeTypeOK, NEW S \in SUBSET DOMAIN lists
  PROVE  /\ IsFiniteSet(S) /\ Cardinality(S) \in Nat
         /\ \A T \in SUBSET S : /\ IsFiniteSet(T) /\ Cardinality(T) \in Nat
                                /\ Cardinality(T) <= Cardinality(S)
<1>1. IsFiniteSet(S)
  BY ListsAre, FS_Subset
<1>2. QED
  BY <1>1, FS_Subset, FS_CardinalityType

LEMMA UnderIs ==
  ASSUME AllInTree, NEW p, InTree(p)
  PROVE  Under(p) = {i \in DOMAIN lists : Inside(lists[i].above, p)}
<1>1. ASSUME NEW i \in DOMAIN lists, i \in Under(p) PROVE Inside(lists[i].above, p)
  <2>1. /\ InTree(lists[i].above) /\ lists[i].above.depth >= p.depth
        /\ Ancestor(lists[i].above, p.depth) = p
    BY <1>1 DEF Under, AllInTree
  <2>2. p.depth \in 0 .. lists[i].above.depth
    BY <2>1, InTreeFacts
  <2>3. QED
    BY <2>1, <2>2, AncestorIs
<1>2. ASSUME NEW i \in DOMAIN lists, Inside(lists[i].above, p) PROVE i \in Under(p)
  <2>1. InTree(lists[i].above)
    BY DEF AllInTree
  <2>2. p.depth \in 0 .. lists[i].above.depth /\ Ancestor(lists[i].above, p.depth) = p
    BY <1>2, <2>1, AncestorOnly
  <2>3. lists[i].above.depth \in Nat
    BY <2>1, InTreeFacts
  <2>4. QED
    BY <2>2, <2>3 DEF Under
<1>3. Under(p) \subseteq DOMAIN lists
  BY DEF Under
<1>4. QED
  BY <1>1, <1>2, <1>3

LEMMA LeafIsAlone ==
  ASSUME AllInTree, Ascending, TreeTypeOK, NEW p, InTree(p), is_leaf(p)
  PROVE  Under(p) = Group(p)
<1>1. PICK m \in DOMAIN lists : lists[m].above = p
  BY DEF is_leaf
<1>2. Inside(p, p)
  BY InTreeFacts DEF Inside
<1>3. ASSUME NEW i \in DOMAIN lists, Inside(lists[i].above, p)
      PROVE  lists[i].above = p
  <2>1. SUFFICES ASSUME lists[i].above # p PROVE FALSE
    OBVIOUS
  <2>2. i # m /\ i \in Nat /\ m \in Nat
    BY <1>1, <2>1, ListsAre
  <2>3. LeftFrom(lists[i].above, p) \/ LeftFrom(p, lists[i].above)
    BY <1>1, <2>1, <2>2 DEF Ascending
  <2>4. QED
    BY <1>3, <2>3, ApartAsym DEF AllInTree
<1>4. QED
  BY <1>2, <1>3, UnderIs DEF Group

LEMMA Capacity ==
  ASSUME ShapeInv, NEW p, InTree(p), p.depth <= height
  PROVE  num_leaves(p) <= Pow2[height - p.depth]
<1> DEFINE Fails(n) == \E q : /\ InTree(q) /\ q.depth + n = height
                              /\ ~ (num_leaves(q) <= Pow2[n])
           Bad == {n \in Nat : Fails(n)}
<1>1. /\ TreeTypeOK /\ AllInTree /\ Ascending /\ WithinHeight /\ height \in Nat
  BY DEF ShapeInv, TreeTypeOK
<1>2. SUFFICES ASSUME Bad # {} PROVE FALSE
  <2>1. p.depth \in Nat /\ height - p.depth \in Nat /\ p.depth + (height - p.depth) = height
    BY <1>1, InTreeFacts
  <2>2. QED
    BY <2>1
<1>3. PICK n \in Bad : \A m \in Bad : n <= m
  BY <1>2, LeastExists
<1>4. PICK q : InTree(q) /\ q.depth + n = height /\ ~ (num_leaves(q) <= Pow2[n])
  OBVIOUS
<1>5. n \in Nat /\ q.depth \in Nat /\ height - q.depth = n /\ Pow2[n] \in Nat \ {0}
  BY <1>1, <1>4, InTreeFacts, Pow2Pos
<1>6. Under(q) = {i \in DOMAIN lists : Inside(lists[i].above, q)}
  BY <1>1, <1>4, UnderIs
<1>7. CASE is_leaf(q)
  <2>1. Under(q) = Group(q)
    BY <1>1, <1>4, <1>7, LeafIsAlone
  <2>2. QED
    BY <1>1, <1>4, <1>5, <1>7, <2>1 DEF num_leaves, is_leaf, WithinHeight
<1>8. CASE ~ is_leaf(q) /\ Under(q) = {}
  BY <1>4, <1>5, <1>8, FS_EmptySet DEF num_leaves
<1>9. CASE ~ is_leaf(q) /\ Under(q) # {}
  <2>1. \A i \in Under(q) : /\ q.depth # MAX_LEVEL
                            /\ \/ Inside(lists[i].above, Left(q))
                               \/ Inside(lists[i].above, Right(q))
    BY <1>1, <1>4, <1>6, <1>9, InsideHalves DEF is_leaf, AllInTree
  <2>2. q.depth # MAX_LEVEL
    BY <1>9, <2>1
  <2>3. /\ InTree(Left(q)) /\ InTree(Right(q))
        /\ Left(q).depth = q.depth + 1 /\ Right(q).depth = q.depth + 1
    BY <1>4, <2>2, HalvesOf DEF Leaf
  <2>4. n # 0
    <3>1. PICK i \in Under(q) : TRUE
      BY <1>9
    <3>2. i \in DOMAIN lists /\ lists[i].above.depth >= q.depth + 1
      BY <1>6, <2>1, <2>3 DEF Inside
    <3>3. lists[i].above.depth <= height /\ lists[i].above.depth \in Nat
      BY <1>1, <3>2, InTreeFacts DEF WithinHeight, AllInTree
    <3>4. QED
      BY <1>1, <1>5, <3>2, <3>3
  <2>5. /\ n - 1 \in Nat /\ ~ (n <= n - 1)
        /\ Left(q).depth + (n - 1) = height /\ Right(q).depth + (n - 1) = height
    BY <1>1, <1>4, <1>5, <2>3, <2>4
  <2>6. ~ Fails(n - 1)
    BY <1>3, <2>5
  <2>7. num_leaves(Left(q)) <= Pow2[n - 1] /\ num_leaves(Right(q)) <= Pow2[n - 1]
    BY <2>3, <2>5, <2>6
  <2>8. Pow2[n] = 2 * Pow2[n - 1] /\ Pow2[n - 1] \in Nat
    <3>1. n = n - 1 + 1
      BY <1>5
    <3>2. QED
      BY <2>5, <3>1, Pow2Is, Pow2Pos
  <2>9. /\ Under(Left(q)) = {i \in DOMAIN lists : Inside(lists[i].above, Left(q))}
        /\ Under(Right(q)) = {i \in DOMAIN lists : Inside(lists[i].above, Right(q))}
    BY <1>1, <2>3, UnderIs
  <2> DEFINE A == Under(Left(q))
             B == Under(Right(q))
  <2>10. Under(q) \subseteq A \cup B /\ A \cup B \subseteq DOMAIN lists
         /\ A \subseteq DOMAIN lists /\ B \subseteq DOMAIN lists
    BY <1>6, <2>1, <2>9
  <2> HIDE DEF A, B
  <2>11. Cardinality(Under(q)) <= Cardinality(A \cup B)
    BY <1>1, <2>10, Counted
  <2>12. Cardinality(A \cup B) <= Cardinality(A) + Cardinality(B)
    <3>1. IsFiniteSet(A) /\ IsFiniteSet(B) /\ Cardinality(A) \in Nat /\ Cardinality(B) \in Nat
      BY <1>1, <2>10, Counted
    <3>2. Cardinality(A \cup B) = Cardinality(A) + Cardinality(B) - Cardinality(A \cap B)
      BY <3>1, FS_Union
    <3>3. Cardinality(A \cap B) \in Nat
      BY <3>1, FS_Intersection, FS_CardinalityType
    <3>4. QED
      BY <3>1, <3>2, <3>3
  <2>13. Cardinality(Under(q)) \in Nat /\ Cardinality(A) \in Nat /\ Cardinality(B) \in Nat
         /\ Cardinality(A \cup B) \in Nat
    <3>1. Under(q) \subseteq DOMAIN lists
      BY <1>6
    <3>2. QED
      BY <1>1, <2>10, <3>1, Counted
  <2>14. Cardinality(A) <= Pow2[n - 1] /\ Cardinality(B) <= Pow2[n - 1]
    BY <2>7 DEF num_leaves, A, B
  <2>15. Cardinality(Under(q)) <= Pow2[n]
    BY <2>8, <2>11, <2>12, <2>13, <2>14
  <2>16. QED
    BY <1>4, <2>15 DEF num_leaves
<1>10. QED
  BY <1>7, <1>8, <1>9

-----------------------------------------------------------------------------
(***************************************************************************)
(* The tree has room where it is rebuilt: the way down ends at a node only *)
(* if its parent found it less than full.                                  *)
(***************************************************************************)
WayDown(i, d) ==
  /\ i \in DOMAIN lists /\ d \in 0 .. lists[i].above.depth
  /\ needs_rebalance(Ancestor(lists[i].above, d))
  /\ \A e \in 0 .. d - 1 : ~ rebuilds(Ancestor(lists[i].above, e))

LEMMA ParentOnWay ==
  ASSUME ShapeInv, NEW i, NEW d, WayDown(i, d), d # 0
  PROVE  LET p == Ancestor(lists[i].above, d)
             q == Ancestor(lists[i].above, d - 1)
         IN  ~ is_leaf(q) /\ ~ too_heavy(p)
<1> DEFINE p == Ancestor(lists[i].above, d)
           q == Ancestor(lists[i].above, d - 1)
<1>1. /\ AllInTree /\ i \in DOMAIN lists /\ InTree(lists[i].above)
      /\ lists[i].above.depth \in Nat /\ d \in 0 .. lists[i].above.depth
      /\ d - 1 \in 0 .. lists[i].above.depth /\ d - 1 \in 0 .. d - 1
  <2>1. AllInTree /\ i \in DOMAIN lists /\ d \in 0 .. lists[i].above.depth
    BY DEF ShapeInv, WayDown
  <2>2. InTree(lists[i].above) /\ lists[i].above.depth \in Nat
    BY <2>1, InTreeFacts DEF AllInTree
  <2>3. QED
    BY <2>1, <2>2
<1>2. /\ InTree(p) /\ p.depth = d /\ Inside(lists[i].above, p)
      /\ InTree(q) /\ q.depth = d - 1 /\ Inside(lists[i].above, q)
  BY <1>1, AncestorIs
<1>3. needs_rebalance(p) /\ ~ rebuilds(q)
  BY <1>1 DEF WayDown
<1> HIDE DEF q
<1>4. lists[i].above # q
  BY <1>1, <1>2
<1>5. q.depth # MAX_LEVEL /\ (Inside(lists[i].above, Left(q)) \/ Inside(lists[i].above, Right(q)))
  BY <1>1, <1>2, <1>4, InsideHalves
<1>6. /\ InTree(Left(q)) /\ InTree(Right(q)) /\ Left(q).depth = d /\ Right(q).depth = d
      /\ Inside(Left(q), q) /\ Inside(Right(q), q)
  <2>1. q.depth + 1 = d
    BY <1>1, <1>2
  <2>2. QED
    BY <1>2, <1>5, <2>1, HalvesOf DEF Leaf
<1>7. p = Left(q) \/ p = Right(q)
  BY <1>1, <1>5, <1>6, AncestorOnly
<1> HIDE DEF p
<1>8. Inside(p, q)
  BY <1>6, <1>7
<1>9. Under(p) \subseteq Under(q)
  <2>1. /\ Under(p) = {j \in DOMAIN lists : Inside(lists[j].above, p)}
        /\ Under(q) = {j \in DOMAIN lists : Inside(lists[j].above, q)}
    BY <1>1, <1>2, UnderIs
  <2>2. ASSUME NEW j \in DOMAIN lists, Inside(lists[j].above, p)
        PROVE  Inside(lists[j].above, q)
    BY <1>1, <1>2, <1>8, <2>2, InsideTrans DEF AllInTree
  <2>3. QED
    BY <2>1, <2>2
<1>10. needs_rebalance(q)
  BY <1>3, <1>9 DEF needs_rebalance
<1>11. ~ is_leaf(q) /\ ~ too_heavy(p)
  BY <1>3, <1>7, <1>10 DEF rebuilds
<1>12. QED
  BY <1>11 DEF p, q

LEMMA TwoAreTwo ==
  ASSUME TreeTypeOK, NEW p, needs_rebalance(p)
  PROVE  num_leaves(p) \in Nat /\ num_leaves(p) >= 2
<1>1. PICK i, j \in Under(p) : i # j
  BY DEF needs_rebalance
<1>2. Under(p) \subseteq DOMAIN lists
  BY DEF Under
<1>3. IsFiniteSet({i}) /\ Cardinality({i}) = 1
  BY FS_Singleton
<1>4. Cardinality({i} \cup {j}) = 2
  BY <1>1, <1>3, FS_AddElement
<1>5. {i} \cup {j} \in SUBSET Under(p) /\ Under(p) \in SUBSET DOMAIN lists
  BY <1>1, <1>2
<1>6. Cardinality(Under(p)) \in Nat /\ Cardinality({i} \cup {j}) <= Cardinality(Under(p))
  BY <1>5, Counted
<1>7. QED
  BY <1>4, <1>6 DEF num_leaves

LEMMA UnderRoot ==
  ASSUME AllInTree
  PROVE  Under(Root) = DOMAIN lists
<1>1. ASSUME NEW i \in DOMAIN lists PROVE Inside(lists[i].above, Root)
  <2>1. /\ lists[i].above.depth \in Nat /\ lists[i].above.label \in Nat
        /\ lists[i].above.label + Span(lists[i].above.depth) <= MAX_LABEL + 1
    BY InTreeFacts DEF AllInTree
  <2>2. QED
    BY <2>1, RootInTree, MaxIs DEF Inside, Root, Leaf
<1>2. QED
  BY <1>1, RootInTree, UnderIs

LEMMA AncestorAtTop ==
  ASSUME NEW p, InTree(p)
  PROVE  Ancestor(p, 0) = Root
<1>1. /\ p.depth \in Nat /\ p.label \in Nat
      /\ p.label + Span(p.depth) <= MAX_LABEL + 1
  BY InTreeFacts
<1>2. Inside(p, Root) /\ Root.depth = 0
  BY <1>1, RootInTree, MaxIs DEF Inside, Root, Leaf
<1>3. QED
  BY <1>2, RootInTree, AncestorOnly

LEMMA RoomOnWay ==
  ASSUME ShapeInv, NEW i, NEW d, WayDown(i, d), num_leaves(Root) <= MAX_LABEL + 1
  PROVE  LET p == Ancestor(lists[i].above, d)
         IN  \E e \in Nat : num_leaves(p) <= Pow2[e] /\ d + e <= MAX_LEVEL /\ d + e <= height
<1> DEFINE p == Ancestor(lists[i].above, d)
           n == num_leaves(p)
<1>1. /\ TreeTypeOK /\ AllInTree /\ Ascending /\ WithinHeight /\ height \in Nat
      /\ i \in DOMAIN lists /\ InTree(lists[i].above)
      /\ lists[i].above.depth \in Nat /\ d \in 0 .. lists[i].above.depth /\ d \in Nat
      /\ lists[i].above.depth <= MAX_LEVEL /\ lists[i].above.depth <= height
      /\ MAX_LEVEL \in Nat \ {0}
  <2>1. /\ TreeTypeOK /\ AllInTree /\ Ascending /\ WithinHeight /\ height \in Nat
        /\ i \in DOMAIN lists /\ d \in 0 .. lists[i].above.depth
    BY DEF ShapeInv, WayDown, TreeTypeOK
  <2>2. InTree(lists[i].above) /\ lists[i].above.depth <= height
    BY <2>1 DEF AllInTree, WithinHeight
  <2>3. lists[i].above.depth \in Nat /\ lists[i].above.depth <= MAX_LEVEL
    BY <2>2, InTreeFacts, MaxIs
  <2>4. QED
    BY <2>1, <2>2, <2>3, MaxIs
<1>2. InTree(p) /\ p.depth = d
  BY <1>1, AncestorIs
<1>3. needs_rebalance(p)
  BY DEF WayDown
<1>4. n \in Nat /\ n >= 2
  BY <1>1, <1>3, TwoAreTwo
<1>5. d <= height /\ d <= MAX_LEVEL /\ height - d \in Nat /\ MAX_LEVEL - d \in Nat
      /\ d \in 0 .. MAX_LEVEL
  BY <1>1
<1>6. n <= Pow2[height - d]
  BY <1>2, <1>5, Capacity
<1>7. height <= MAX_LEVEL \/ n <= Pow2[MAX_LEVEL - d]
  <2>1. CASE d = 0
    <3>1. p = Root
      BY <1>1, <2>1, AncestorAtTop
    <3>2. MAX_LEVEL - d = MAX_LEVEL
      BY <1>1, <2>1
    <3>3. n <= Pow2[MAX_LEVEL - d]
      BY <3>1, <3>2, MaxIs
    <3>4. QED
      BY <3>3
  <2>2. CASE d # 0
    <3>1. ~ too_heavy(p)
      BY <2>2, ParentOnWay
    <3>2. ~ (4 * height * n >= capacity(p) * (3 * height + level(p)))
      BY <1>3, <3>1 DEF too_heavy
    <3> HIDE DEF n
    <3>3. CASE is_leaf(p)
      <4>1. level(p) = MAX_LEVEL /\ level(p) # 0
        BY <1>1, <3>3 DEF level
      <4>2. capacity(p) = 1
        <5>1. MAX_LEVEL - MAX_LEVEL = 0
          BY <1>1
        <5>2. QED
          BY <4>1, <5>1, Pow2Is DEF capacity, Span
      <4>3. 4 * height * n < 3 * height + MAX_LEVEL
        BY <1>1, <1>4, <3>2, <4>1, <4>2
      <4>4. \A h, k, m \in Nat : k >= 2 /\ 4 * h * k < 3 * h + m => h <= m
        <5>1. SUFFICES ASSUME NEW h \in Nat, NEW k \in Nat, NEW m \in Nat,
                              k >= 2, 4 * h * k < 3 * h + m
                       PROVE  h <= m
          OBVIOUS
        <5>2. 4 * h * 2 <= 4 * h * k
          BY <5>1
        <5>3. QED
          BY <5>1, <5>2
      <4>5. QED
        BY <1>1, <1>4, <4>3, <4>4
    <3>4. CASE ~ is_leaf(p)
      <4>1. level(p) = d
        BY <1>2, <3>4 DEF level
      <4>2. capacity(p) = Span(d)
        BY <2>2, <4>1 DEF capacity
      <4>3. 4 * height * n < Span(d) * (3 * height + d)
        <5>1. Span(d) \in Nat
          BY <1>5, SpanIs
        <5>2. QED
          BY <1>1, <1>4, <3>2, <4>1, <4>2, <5>1
      <4>4. \A h, k, s, c \in Nat : c <= h /\ 4 * h * k < s * (3 * h + c) => k <= s
        <5>1. SUFFICES ASSUME NEW h \in Nat, NEW k \in Nat, NEW s \in Nat, NEW c \in Nat,
                              c <= h, 4 * h * k < s * (3 * h + c), s < k
                       PROVE  FALSE
          OBVIOUS
        <5>2. s * (3 * h + c) <= s * (4 * h)
          BY <5>1
        <5>3. s * (4 * h) <= k * (4 * h)
          BY <5>1
        <5>4. k * (4 * h) = 4 * h * k
          OBVIOUS
        <5>5. s * (3 * h + c) \in Nat /\ s * (4 * h) \in Nat /\ k * (4 * h) \in Nat
          OBVIOUS
        <5>6. QED
          BY <5>1, <5>2, <5>3, <5>4, <5>5
      <4>5. n <= Span(d)
        BY <1>1, <1>4, <1>5, <4>3, <4>4, SpanIs
      <4>6. QED
        BY <4>5 DEF Span
    <3>5. QED
      BY <3>3, <3>4
  <2>3. QED
    BY <2>1, <2>2
<1> HIDE DEF n
<1>8. CASE height <= MAX_LEVEL
  <2>1. d + (height - d) = height
    BY <1>1
  <2>2. QED
    BY <1>1, <1>5, <1>6, <1>8, <2>1 DEF n
<1>9. CASE ~ (height <= MAX_LEVEL)
  <2>1. d + (MAX_LEVEL - d) = MAX_LEVEL /\ MAX_LEVEL <= height
    BY <1>1, <1>9
  <2>2. QED
    BY <1>1, <1>5, <1>7, <1>9, <2>1 DEF n
<1>10. QED
  BY <1>8, <1>9

(***************************************************************************)
(* rebuild: the sublists below p get new leaves, in their order.           *)
(***************************************************************************)
Rank(S, i) == Cardinality({j \in S : j <= i})

LEMMA Ranks ==
  ASSUME TreeTypeOK, NEW S \in SUBSET DOMAIN lists
  PROVE  /\ \A i \in S : Rank(S, i) \in 1 .. Cardinality(S)
         /\ \A i, j \in S : i < j => Rank(S, i) < Rank(S, j)
<1>1. S \in SUBSET Nat
  BY ListsAre
<1>2. \A i : {j \in S : j <= i} \in SUBSET S
  OBVIOUS
<1>3. /\ Cardinality(S) \in Nat
      /\ \A T \in SUBSET S : /\ IsFiniteSet(T) /\ Cardinality(T) \in Nat
                             /\ Cardinality(T) <= Cardinality(S)
  BY Counted
<1>4. ASSUME NEW i \in S PROVE Rank(S, i) \in 1 .. Cardinality(S)
  <2>1. i \in {j \in S : j <= i}
    BY <1>1
  <2>2. {j \in S : j <= i} # {} /\ IsFiniteSet({j \in S : j <= i})
    BY <1>2, <1>3, <2>1
  <2>3. Cardinality({j \in S : j <= i}) # 0
    BY <2>2, FS_EmptySet
  <2>4. Cardinality({j \in S : j <= i}) \in Nat
        /\ Cardinality({j \in S : j <= i}) <= Cardinality(S)
    BY <1>2, <1>3
  <2>5. QED
    BY <1>3, <2>3, <2>4 DEF Rank
<1>5. ASSUME NEW i \in S, NEW j \in S, i < j PROVE Rank(S, i) < Rank(S, j)
  <2> DEFINE A == {m \in S : m <= i}
             B == {m \in S : m <= j}
  <2>1. A \in SUBSET B
    BY <1>1, <1>5
  <2>2. j \in B /\ j \notin A
    BY <1>1, <1>5
  <2>3. IsFiniteSet(B) /\ Cardinality(A) \in Nat /\ Cardinality(B) \in Nat
    BY <1>3
  <2> HIDE DEF A, B
  <2>4. Cardinality(A) <= Cardinality(B) /\ (Cardinality(B) = Cardinality(A) => B = A)
    BY <2>1, <2>3, FS_Subset
  <2>5. Cardinality(A) < Cardinality(B)
    BY <2>2, <2>3, <2>4
  <2>6. QED
    BY <2>5 DEF Rank, A, B
<1>6. QED
  BY <1>4, <1>5

(* The sublists after a rebuilding of p.                                   *)
Rebuilt(p, e) ==
  /\ DOMAIN lists' = DOMAIN lists
  /\ \A i \in DOMAIN lists : /\ lists'[i].nodes = lists[i].nodes
                             /\ lists'[i].heavy = lists[i].heavy
  /\ \A i \in Under(p) : /\ InTree(lists'[i].above) /\ Inside(lists'[i].above, p)
                         /\ lists'[i].above.depth <= p.depth + e
  /\ \A i, j \in Under(p) : i < j => LeftFrom(lists'[i].above, lists'[j].above)
  /\ \A i \in DOMAIN lists \ Under(p) : lists'[i].above = lists[i].above

LEMMA RebuildIs ==
  ASSUME TreeTypeOK, NEW p, InTree(p), Under(p) # {}, rebuild(p),
         NEW e \in Nat, num_leaves(p) <= Pow2[e], p.depth + e <= MAX_LEVEL
  PROVE  /\ Rebuilt(p, e)
         /\ lists' \in Seq([nodes : Seq(Node) \ {<<>>}, heavy : BOOLEAN, above : TreeNode])
<1> DEFINE S == Under(p)
           leaves == Leaves[Asked(p, num_leaves(p))]
           k == num_leaves(p)
<1>1. S \in SUBSET DOMAIN lists /\ S # {}
  BY DEF Under
<1>2. /\ k \in Nat \ {0} /\ \A i \in S : Rank(S, i) \in 1 .. k
      /\ \A i, j \in S : i < j => Rank(S, i) < Rank(S, j)
  <2>1. k \in Nat /\ IsFiniteSet(S)
    BY <1>1, Counted DEF num_leaves
  <2>2. k # 0
    BY <1>1, <2>1, FS_EmptySet DEF num_leaves
  <2>3. QED
    BY <1>1, <2>1, <2>2, Ranks DEF num_leaves
<1>3. BuiltBelow(leaves, p, k, e)
  BY <1>2, LeavesBuilt
<1>4. lists' = [i \in DOMAIN lists |->
        IF i \in S THEN [lists[i] EXCEPT !.above = leaves[Rank(S, i)]] ELSE lists[i]]
  BY DEF rebuild, Asked, Rank
<1> HIDE DEF S, leaves, k
<1>5. \A i \in DOMAIN lists :
        lists[i] \in [nodes : Seq(Node) \ {<<>>}, heavy : BOOLEAN, above : TreeNode]
  BY ListsAre
<1>6. DOMAIN lists' = DOMAIN lists
  BY <1>4
<1>7. ASSUME NEW i \in S
      PROVE  /\ lists'[i] = [lists[i] EXCEPT !.above = leaves[Rank(S, i)]]
             /\ lists'[i].above = leaves[Rank(S, i)]
             /\ lists'[i].nodes = lists[i].nodes /\ lists'[i].heavy = lists[i].heavy
             /\ InTree(lists'[i].above) /\ Inside(lists'[i].above, p)
             /\ lists'[i].above.depth <= p.depth + e
             /\ lists'[i] \in [nodes : Seq(Node) \ {<<>>}, heavy : BOOLEAN, above : TreeNode]
  <2>1. i \in DOMAIN lists /\ Rank(S, i) \in 1 .. k
    BY <1>1, <1>2
  <2>2. lists'[i] = [lists[i] EXCEPT !.above = leaves[Rank(S, i)]]
    BY <1>4, <2>1
  <2>3. /\ lists'[i].above = leaves[Rank(S, i)]
        /\ lists'[i].nodes = lists[i].nodes /\ lists'[i].heavy = lists[i].heavy
    BY <1>5, <2>1, <2>2
  <2>4. /\ InTree(lists'[i].above) /\ Inside(lists'[i].above, p)
        /\ lists'[i].above.depth <= p.depth + e
    BY <1>3, <2>1, <2>3 DEF BuiltBelow
  <2>5. lists'[i].above \in TreeNode
    BY <2>4 DEF InTree
  <2>6. QED
    BY <1>5, <2>1, <2>2, <2>3, <2>4, <2>5
<1>8. ASSUME NEW i \in DOMAIN lists, i \notin S PROVE lists'[i] = lists[i]
  BY <1>4, <1>8
<1>9. \A i, j \in S : i < j => LeftFrom(lists'[i].above, lists'[j].above)
  <2>1. ASSUME NEW i \in S, NEW j \in S, i < j
        PROVE  LeftFrom(leaves[Rank(S, i)], leaves[Rank(S, j)])
    <3>1. /\ Rank(S, i) \in 1 .. k /\ Rank(S, j) \in 1 .. k
          /\ Rank(S, i) < Rank(S, j)
      BY <1>2, <2>1
    <3>2. QED
      BY <1>3, <3>1 DEF BuiltBelow
  <2>2. QED
    BY <1>7, <2>1
<1>10. Rebuilt(p, e)
  BY <1>6, <1>7, <1>8, <1>9 DEF Rebuilt, S
<1>11. lists' \in Seq([nodes : Seq(Node) \ {<<>>}, heavy : BOOLEAN, above : TreeNode])
  <2>1. \A i \in DOMAIN lists :
          lists'[i] \in [nodes : Seq(Node) \ {<<>>}, heavy : BOOLEAN, above : TreeNode]
    BY <1>5, <1>7, <1>8
  <2>2. DOMAIN lists = 1 .. Len(lists) /\ Len(lists) \in Nat
    BY ListsAre
  <2> DEFINE T == [nodes : Seq(Node) \ {<<>>}, heavy : BOOLEAN, above : TreeNode]
             f == [i \in 1 .. Len(lists) |-> lists'[i]]
  <2>3. lists' = f
    BY <1>4, <2>2
  <2>4. \A i \in 1 .. Len(lists) : lists'[i] \in T
    BY <2>1, <2>2
  <2> HIDE DEF T
  <2>5. f \in Seq(T)
    BY <2>2, <2>4
  <2>6. QED
    BY <2>3, <2>5 DEF T
<1>12. QED
  BY <1>10, <1>11

(* Sublists that are not below p lie to one side of it.                    *)
LEMMA BesideRebuilt ==
  ASSUME ShapeInv, NEW p, InTree(p), NEW i \in Under(p), NEW j \in DOMAIN lists \ Under(p)
  PROVE  /\ i < j => LeftFrom(p, lists[j].above)
         /\ j < i => LeftFrom(lists[j].above, p)
         /\ ~ Inside(lists[j].above, p)
<1>1. /\ AllInTree /\ Ascending /\ TreeTypeOK
      /\ Under(p) = {m \in DOMAIN lists : Inside(lists[m].above, p)}
  BY UnderIs DEF ShapeInv
<1>2. /\ i \in DOMAIN lists /\ j \in DOMAIN lists /\ InTree(lists[i].above) /\ InTree(lists[j].above)
      /\ Inside(lists[i].above, p) /\ ~ Inside(lists[j].above, p)
  BY <1>1 DEF AllInTree
<1> DEFINE a == lists[i].above
           b == lists[j].above
<1>3. a # b
  BY <1>2
<1>4. Inside(p, b) \/ LeftFrom(b, p) \/ LeftFrom(p, b)
  BY <1>2, Nested
<1>5. i < j => LeftFrom(a, b)
  BY <1>1, <1>2, <1>3 DEF Ascending
<1>6. j < i => LeftFrom(b, a)
  BY <1>1, <1>2, <1>3 DEF Ascending
<1> HIDE DEF a, b
<1>7. InTree(a) /\ InTree(b) /\ Inside(a, p) /\ ~ Inside(b, p)
  BY <1>2 DEF a, b
<1>8. Inside(p, b) => Inside(a, b)
  BY <1>7, InsideTrans
<1>9. Inside(b, b) /\ Inside(a, a)
  BY <1>7, InTreeFacts DEF Inside
<1>10. LeftFrom(b, p) => LeftFrom(b, a)
  BY <1>7, <1>9, LeftFromParts
<1>11. LeftFrom(p, b) => LeftFrom(a, b)
  BY <1>7, <1>9, LeftFromParts
<1>12. ~ (LeftFrom(a, b) /\ LeftFrom(b, a)) /\ (Inside(a, b) => ~ LeftFrom(a, b) /\ ~ LeftFrom(b, a))
  BY <1>7, ApartAsym
<1>13. i < j => LeftFrom(p, b)
  BY <1>4, <1>5, <1>8, <1>10, <1>12
<1>14. j < i => LeftFrom(b, p)
  BY <1>4, <1>6, <1>8, <1>11, <1>12
<1>15. QED
  BY <1>7, <1>13, <1>14 DEF b

LEMMA RebuiltApart ==
  ASSUME ShapeInv, NEW p, InTree(p), NEW e \in Nat, Rebuilt(p, e),
         NEW i \in DOMAIN lists, NEW j \in DOMAIN lists, i < j
  PROVE  /\ i \in Under(p) \/ j \in Under(p) => LeftFrom(lists'[i].above, lists'[j].above)
         /\ i \notin Under(p) /\ j \notin Under(p)
              => lists'[i].above = lists[i].above /\ lists'[j].above = lists[j].above
<1>1. \A m \in DOMAIN lists : InTree(lists[m].above)
  BY DEF ShapeInv, AllInTree
<1>2. \A q : InTree(q) => Inside(q, q)
  BY InTreeFacts DEF Inside
<1>3. CASE i \in Under(p) /\ j \in Under(p)
  BY <1>3 DEF Rebuilt
<1>4. CASE i \in Under(p) /\ j \notin Under(p)
  <2>1. LeftFrom(p, lists[j].above) /\ lists'[j].above = lists[j].above
    BY <1>4, BesideRebuilt DEF Rebuilt
  <2>2. InTree(lists'[i].above) /\ Inside(lists'[i].above, p)
    BY <1>4 DEF Rebuilt
  <2>3. QED
    BY <1>1, <1>2, <1>4, <2>1, <2>2, LeftFromParts
<1>5. CASE i \notin Under(p) /\ j \in Under(p)
  <2>1. LeftFrom(lists[i].above, p) /\ lists'[i].above = lists[i].above
    BY <1>5, BesideRebuilt DEF Rebuilt
  <2>2. InTree(lists'[j].above) /\ Inside(lists'[j].above, p)
    BY <1>5 DEF Rebuilt
  <2>3. QED
    BY <1>1, <1>2, <1>5, <2>1, <2>2, LeftFromParts
<1>6. CASE i \notin Under(p) /\ j \notin Under(p)
  BY <1>6 DEF Rebuilt
<1>7. QED
  BY <1>3, <1>4, <1>5, <1>6

(* No leaf below p is shared any more, and the other ones are as before.   *)
LEMMA RebuiltShares ==
  ASSUME ShapeInv, NEW p, InTree(p), NEW e \in Nat, Rebuilt(p, e),
         NEW i \in DOMAIN lists, NEW j \in DOMAIN lists, i # j,
         lists'[i].above = lists'[j].above
  PROVE  /\ i \notin Under(p) /\ j \notin Under(p) /\ lists[i].above = lists[j].above
         /\ lists'[i].above = lists[i].above
<1>1. i \in Nat /\ j \in Nat
  BY ListsAre DEF ShapeInv
<1>2. ~ LeftFrom(lists'[i].above, lists'[i].above)
  <2>1. InTree(lists'[i].above)
    BY DEF Rebuilt, ShapeInv, AllInTree
  <2>2. QED
    BY <2>1, ApartAsym
<1>3. CASE i < j
  BY <1>2, <1>3, RebuiltApart
<1>4. CASE j < i
  BY <1>2, <1>4, RebuiltApart
<1>5. QED
  BY <1>1, <1>3, <1>4

LEMMA RebuiltShape ==
  ASSUME ShapeInv, NEW p, InTree(p), NEW e \in Nat, Rebuilt(p, e),
         p.depth + e <= height, height' = height,
         lists' \in Seq([nodes : Seq(Node) \ {<<>>}, heavy : BOOLEAN, above : TreeNode])
  PROVE  AllInTree' /\ Ascending' /\ WithinHeight'
<1>1. /\ TreeTypeOK /\ AllInTree /\ Ascending /\ WithinHeight /\ height \in Nat
      /\ DOMAIN lists' = DOMAIN lists
  BY DEF ShapeInv, TreeTypeOK, Rebuilt
<1>2. AllInTree'
  BY <1>1 DEF AllInTree, Rebuilt
<1>3. Ascending'
  <2>1. ASSUME NEW i \in DOMAIN lists, NEW j \in DOMAIN lists, i < j
        PROVE  \/ lists'[i].above = lists'[j].above
               \/ LeftFrom(lists'[i].above, lists'[j].above)
    BY <1>1, <2>1, RebuiltApart DEF Ascending
  <2>2. QED
    BY <1>1, <2>1 DEF Ascending
<1>4. ASSUME NEW i \in DOMAIN lists
      PROVE  /\ lists'[i].above.depth <= height
             /\ Cardinality({j \in DOMAIN lists : lists'[j].above = lists'[i].above})
                  <= Pow2[height - lists'[i].above.depth]
  <2> DEFINE G == {j \in DOMAIN lists : lists'[j].above = lists'[i].above}
  <2>1. InTree(lists'[i].above) /\ lists'[i].above.depth \in Nat
    BY <1>1, <1>2, InTreeFacts DEF AllInTree
  <2>2. CASE i \in Under(p)
    <3>1. lists'[i].above.depth <= p.depth + e /\ p.depth \in Nat
      BY <2>2, InTreeFacts DEF Rebuilt
    <3>2. lists'[i].above.depth <= height
      BY <1>1, <2>1, <3>1
    <3>3. G = {i}
      BY <2>2, RebuiltShares
    <3>4. Cardinality(G) = 1
      BY <3>3, FS_Singleton
    <3>5. height - lists'[i].above.depth \in Nat
      BY <1>1, <2>1, <3>2
    <3>6. QED
      BY <3>2, <3>4, <3>5, Pow2Pos
  <2>3. CASE i \notin Under(p)
    <3>1. lists'[i].above = lists[i].above
      BY <2>3 DEF Rebuilt
    <3>2. G \subseteq Group(lists[i].above)
      BY <3>1, RebuiltShares DEF Group
    <3>3. Group(lists[i].above) \in SUBSET DOMAIN lists
      BY DEF Group
    <3> HIDE DEF G
    <3>4. /\ Cardinality(G) <= Cardinality(Group(lists[i].above))
          /\ Cardinality(G) \in Nat /\ Cardinality(Group(lists[i].above)) \in Nat
      BY <1>1, <3>2, <3>3, Counted
    <3>5. /\ lists[i].above.depth <= height
          /\ Cardinality(Group(lists[i].above)) <= Pow2[height - lists[i].above.depth]
      BY <1>1 DEF WithinHeight
    <3>6. Pow2[height - lists[i].above.depth] \in Nat
      <4>1. height - lists[i].above.depth \in Nat
        BY <1>1, <2>1, <3>1, <3>5
      <4>2. QED
        BY <4>1, Pow2Pos
    <3>7. QED
      BY <3>1, <3>4, <3>5, <3>6 DEF G
  <2>4. QED
    BY <2>2, <2>3
<1>5. WithinHeight'
  BY <1>1, <1>4 DEF WithinHeight, Group
<1>6. QED
  BY <1>2, <1>3, <1>5

-----------------------------------------------------------------------------
(***************************************************************************)
(* Where a node is: its sublist and its place there.  Every node has one   *)
(* place, and the labels of a sublist ascend.                              *)
(***************************************************************************)
At(x, i, k) ==
  i \in DOMAIN lists /\ k \in DOMAIN lists[i].nodes /\ lists[i].nodes[k] = x

PlacedOnce ==
  \A x : \A i, j, k, m : At(x, i, k) /\ At(x, j, m) => i = j /\ k = m

Within ==
  \A i \in DOMAIN lists : \A k, m \in DOMAIN lists[i].nodes :
    k < m => label[lists[i].nodes[k]] < label[lists[i].nodes[m]]

Placed(x) ==
  /\ At(x, ListOf(x), Index(x))
  /\ ListOf(x) \in Nat /\ Index(x) \in Nat
  /\ \A i, k : At(x, i, k) => i = ListOf(x) /\ k = Index(x)

LEMMA SublistIs ==
  ASSUME TreeTypeOK, NEW i \in DOMAIN lists
  PROVE  /\ i \in Nat /\ lists[i].nodes \in Seq(Node) /\ Len(lists[i].nodes) \in Nat \ {0}
         /\ DOMAIN lists[i].nodes = 1 .. Len(lists[i].nodes)
         /\ \A k \in DOMAIN lists[i].nodes : k \in Nat /\ lists[i].nodes[k] \in Node
         /\ lists[i].above \in TreeNode /\ lists[i].heavy \in BOOLEAN
<1>1. /\ i \in Nat
      /\ lists[i] \in [nodes : Seq(Node) \ {<<>>}, heavy : BOOLEAN, above : TreeNode]
  BY ListsAre
<1>2. lists[i].nodes \in Seq(Node) /\ lists[i].nodes # <<>>
  BY <1>1
<1>3. lists[i].above \in TreeNode /\ lists[i].heavy \in BOOLEAN
  BY <1>1
<1> DEFINE s == lists[i].nodes
<1> HIDE DEF s
<1>4. s \in Seq(Node) /\ s # <<>>
  BY <1>2 DEF s
<1>5. Len(s) \in Nat \ {0} /\ DOMAIN s = 1 .. Len(s) /\ \A k \in 1 .. Len(s) : s[k] \in Node
  BY <1>4, EmptySeq, LenProperties, ElementOfSeq
<1>6. QED
  BY <1>1, <1>3, <1>4, <1>5 DEF s

LEMMA NodesAre == \A x : x \in Nodes <=> \E i, k : At(x, i, k)
BY DEF Nodes, ToSet, At

LEMMA PlacesAre ==
  TreeTypeOK /\ PlacedOnce => \A x \in Nodes : Placed(x)
<1>1. SUFFICES ASSUME TreeTypeOK, PlacedOnce, NEW x \in Nodes PROVE Placed(x)
  OBVIOUS
<1>2. PICK i, k : At(x, i, k)
  BY NodesAre
<1>3. i \in DOMAIN lists /\ x \in ToSet(lists[i].nodes)
  BY <1>2 DEF At, ToSet
<1>4. ListOf(x) \in DOMAIN lists /\ x \in ToSet(lists[ListOf(x)].nodes)
  BY <1>3 DEF ListOf
<1>5. \E m \in DOMAIN lists[ListOf(x)].nodes : lists[ListOf(x)].nodes[m] = x
  BY <1>4 DEF ToSet
<1>6. Index(x) \in DOMAIN lists[ListOf(x)].nodes /\ lists[ListOf(x)].nodes[Index(x)] = x
  BY <1>5 DEF Index
<1>7. At(x, ListOf(x), Index(x))
  BY <1>4, <1>6 DEF At
<1>8. ListOf(x) \in Nat /\ Index(x) \in Nat
  BY <1>1, <1>4, <1>6, SublistIs
<1>9. \A j, m : At(x, j, m) => j = ListOf(x) /\ m = Index(x)
  BY <1>1, <1>7, Zenon DEF PlacedOnce
<1>10. QED
  BY <1>7, <1>8, <1>9 DEF Placed

LEMMA PlacesAreNext ==
  (TreeTypeOK /\ PlacedOnce)' => (\A x \in Nodes : Placed(x))'
BY PlacesAre, PTL

LEMMA NodesAreNext == (\A x : x \in Nodes <=> \E i, k : At(x, i, k))'
BY NodesAre, PTL

(* The order of the places, which is the order of the list.                *)
PlaceOrder == {e \in Nodes \X Nodes : LeftOf(e[1], e[2])}

OneEach ==
  g_relabel_id = 0 =>
    \A i, j \in DOMAIN lists : lists[i].above = lists[j].above => i = j

LabelInv ==
  /\ ShapeInv /\ PlacedOnce /\ Within /\ OneEach
  /\ g_relabel_id \in {0, 1}

LEMMA PrecedesIsLeft ==
  ASSUME LabelInv, g_relabel_id = 0, NEW x \in Nodes, NEW y \in Nodes
  PROVE  (x # y /\ om_precedes(x, y)) <=> LeftOf(x, y)
<1>1. Placed(x) /\ Placed(y) /\ TreeTypeOK
  BY PlacesAre DEF LabelInv, ShapeInv
<1> DEFINE i == ListOf(x)
           j == ListOf(y)
           k == Index(x)
           m == Index(y)
<1>2. /\ i \in DOMAIN lists /\ k \in DOMAIN lists[i].nodes /\ lists[i].nodes[k] = x
      /\ j \in DOMAIN lists /\ m \in DOMAIN lists[j].nodes /\ lists[j].nodes[m] = y
      /\ i \in Nat /\ j \in Nat /\ k \in Nat /\ m \in Nat
  BY <1>1 DEF Placed, At
<1>3. x \in Node /\ y \in Node /\ label[x] \in Nat /\ label[y] \in Nat
  <2>1. x \in Node /\ y \in Node
    BY <1>1, <1>2, SublistIs
  <2>2. QED
    BY <1>1, <2>1, MaxIs DEF TreeTypeOK
<1> HIDE DEF i, j, k, m
<1>4. LeftOf(x, y) <=> i < j \/ (i = j /\ k < m)
  BY DEF LeftOf, i, j, k, m
<1>5. om_precedes(x, y) <=>
        IF i = j THEN label[x] < label[y] ELSE lists[i].above.label < lists[j].above.label
  BY DEF om_precedes, i, j
<1>6. CASE i = j
  <2>1. k < m => label[x] < label[y]
    BY <1>2, <1>6 DEF LabelInv, Within
  <2>2. m < k => label[y] < label[x]
    BY <1>2, <1>6 DEF LabelInv, Within
  <2>3. x = y <=> k = m
    BY <1>1, <1>2, <1>6 DEF Placed, At, i, j, k, m
  <2>4. QED
    BY <1>2, <1>3, <1>4, <1>5, <1>6, <2>1, <2>2, <2>3
<1>7. CASE i # j
  <2>1. x # y
    BY <1>7 DEF i, j
  <2>2. lists[i].above # lists[j].above
    BY <1>2, <1>7 DEF LabelInv, OneEach
  <2>3. /\ i < j => LeftFrom(lists[i].above, lists[j].above)
        /\ j < i => LeftFrom(lists[j].above, lists[i].above)
    BY <1>2, <2>2 DEF LabelInv, ShapeInv, Ascending
  <2>4. /\ lists[i].above.label \in Nat /\ lists[j].above.label \in Nat
        /\ Span(lists[i].above.depth) \in Nat \ {0}
        /\ Span(lists[j].above.depth) \in Nat \ {0}
    BY <1>2, InTreeFacts DEF LabelInv, ShapeInv, AllInTree
  <2>5. /\ i < j => lists[i].above.label < lists[j].above.label
        /\ j < i => lists[j].above.label < lists[i].above.label
    BY <2>3, <2>4 DEF LeftFrom
  <2>6. QED
    BY <1>2, <1>4, <1>5, <1>7, <2>1, <2>4, <2>5
<1>8. QED
  BY <1>6, <1>7

LEMMA OrderIs == LabelInv => Order = PlaceOrder
<1>1. SUFFICES ASSUME LabelInv PROVE Order = PlaceOrder
  OBVIOUS
<1>2. ASSUME NEW x \in Nodes, NEW y \in Nodes
      PROVE  (IF g_relabel_id = 0 THEN x # y /\ om_precedes(x, y) ELSE LeftOf(x, y))
               <=> LeftOf(x, y)
  BY <1>1, PrecedesIsLeft
<1>3. \A e \in Nodes \X Nodes :
        (IF g_relabel_id = 0 THEN e[1] # e[2] /\ om_precedes(e[1], e[2])
         ELSE LeftOf(e[1], e[2])) <=> LeftOf(e[1], e[2])
  BY <1>2
<1>4. QED
  BY <1>3 DEF Order, PlaceOrder

LEMMA OrderIsNext == LabelInv' => (Order = PlaceOrder)'
BY OrderIs, PTL

-----------------------------------------------------------------------------
(***************************************************************************)
(* Steps that leave every node in its place.                               *)
(***************************************************************************)
SameNodes ==
  DOMAIN lists' = DOMAIN lists /\ \A i \in DOMAIN lists : lists'[i].nodes = lists[i].nodes

LEMMA SamePlaces ==
  ASSUME SameNodes, PlacedOnce, TreeTypeOK, TreeTypeOK'
  PROVE  /\ PlacedOnce' /\ Nodes' = Nodes
         /\ \A x \in Nodes : /\ (ListOf(x))' = ListOf(x) /\ (Index(x))' = Index(x)
         /\ PlaceOrder' = PlaceOrder
<1>1. \A x, i, k : At(x, i, k)' <=> At(x, i, k)
  BY DEF SameNodes, At
<1>2. PlacedOnce'
  BY <1>1, Zenon DEF PlacedOnce
<1>3. Nodes' = Nodes
  BY <1>1, NodesAre, NodesAreNext, Zenon
<1>4. ASSUME NEW x \in Nodes
      PROVE  (ListOf(x))' = ListOf(x) /\ (Index(x))' = Index(x)
  <2>1. At(x, ListOf(x), Index(x))
    BY PlacesAre, Zenon DEF Placed
  <2>2. Placed(x)'
    BY <1>2, <1>3, PlacesAreNext, Zenon
  <2>3. \A i, k : At(x, i, k)' => i = (ListOf(x))' /\ k = (Index(x))'
    BY <2>2, Zenon DEF Placed
  <2>4. QED
    BY <1>1, <2>1, <2>3, Zenon
<1>5. \A x, y \in Nodes : LeftOf(x, y)' <=> LeftOf(x, y)
  BY <1>4 DEF LeftOf
<1>6. PlaceOrder' = PlaceOrder
  BY <1>3, <1>5 DEF PlaceOrder
<1>7. QED
  BY <1>2, <1>3, <1>4, <1>6

-----------------------------------------------------------------------------
(***************************************************************************)
(* Insertion.                                                              *)
(***************************************************************************)
LEMMA EvenWidth == Pow2[MAX_LEVEL] = 2 * Pow2[MAX_LEVEL - 1] /\ Pow2[MAX_LEVEL - 1] \in Nat \ {0}
<1>1. MAX_LEVEL - 1 \in Nat /\ (MAX_LEVEL - 1) + 1 = MAX_LEVEL
  BY MaxIs
<1>2. QED
  BY <1>1, Pow2Is, Pow2Pos

LEMMA HalfAndRest ==
  ASSUME NEW n \in Nat
  PROVE  \E h \in Nat, r \in {0, 1} : n = 2 * h + r
<1>1. n \div 2 \in Nat
  OBVIOUS
<1>2. 2 * (n \div 2) =< n /\ n =< 2 * (n \div 2) + 1
  OBVIOUS
<1>3. \E r \in {0, 1} : n = 2 * (n \div 2) + r
  BY <1>1, <1>2
<1>4. QED
  BY <1>1, <1>3

(***************************************************************************)
(* get_new_label between two labels: the half of the two, rounded down,    *)
(* lies strictly between them, unless they are neighbours: then it is the  *)
(* label of the base, and the answer is that there is no room.             *)
(***************************************************************************)
THEOREM NewLabelBetween ==
  ASSUME NEW b \in 0 .. MAX_LABEL, NEW next \in 0 .. MAX_LABEL, b < next
  PROVE  /\ Halfway(b, next, FALSE) \in b .. next - 1
         /\ (Halfway(b, next, FALSE) = b <=> next = b + 1)
<1> DEFINE K == Pow2[MAX_LEVEL - 1]
<1>0. K \in Nat \ {0} /\ Pow2[MAX_LEVEL] = 2 * K
  BY EvenWidth
<1> HIDE DEF K
<1>1. b \in Nat /\ next \in Nat /\ next < 2 * K
  BY <1>0 DEF MAX_LABEL
<1>2. PICK p \in Nat, r \in {0, 1} : b = 2 * p + r
  BY <1>1, HalfAndRest
<1>3. PICK q \in Nat, s \in {0, 1} : next = 2 * q + s
  BY <1>1, HalfAndRest
<1>4. /\ b \div 2 = p /\ b % 2 = r
      /\ next \div 2 = q /\ next % 2 = s
  BY <1>2, <1>3
<1>5. DEFINE half == p + q + (IF r = 1 /\ s = 1 THEN 1 ELSE 0)
<1>6. half \in b .. next - 1 /\ (half = b <=> next = b + 1)
  BY <1>1, <1>2, <1>3
<1>7. half \in Nat /\ half < 2 * K
  BY <1>0, <1>1, <1>6
<1>8. half % (2 * K) = half
  BY <1>0, <1>7
<1>9. Halfway(b, next, FALSE) = half
  BY <1>0, <1>4, <1>8 DEF Halfway
<1>10. QED
  BY <1>6, <1>9

(***************************************************************************)
(* ... and after the last node: the label is above the base and within the *)
(* width of a label, or 0 when the base has the greatest label.            *)
(***************************************************************************)
THEOREM NewLastLabelFits ==
  ASSUME NEW b \in 0 .. MAX_LABEL
  PROVE  /\ b < MAX_LABEL => Halfway(b, MAX_LABEL, TRUE) \in b + 1 .. MAX_LABEL
         /\ b = MAX_LABEL => Halfway(b, MAX_LABEL, TRUE) = 0
<1> DEFINE K == Pow2[MAX_LEVEL - 1]
<1>1. K \in Nat \ {0} /\ Pow2[MAX_LEVEL] = 2 * K
  BY EvenWidth
<1> HIDE DEF K
<1>2. QED
  BY <1>1 DEF Halfway, MAX_LABEL

(* t is s with e after the first k elements.                               *)
OneMore(t, s, k, e) ==
  /\ Len(t) = Len(s) + 1
  /\ \A m \in 1 .. k : t[m] = s[m]
  /\ t[k + 1] = e
  /\ \A m \in k + 1 .. Len(s) : t[m + 1] = s[m]

LEMMA InsertedIs ==
  ASSUME NEW S, NEW s \in Seq(S), NEW k \in 1 .. Len(s), NEW e \in S
  PROVE  /\ InsertAt(s, k + 1, e) \in Seq(S)
         /\ OneMore(InsertAt(s, k + 1, e), s, k, e)
<1> DEFINE u == SubSeq(s, 1, k)
           v == SubSeq(s, k + 1, Len(s))
           w == u \o <<e>>
<1>1. Len(s) \in Nat
  OBVIOUS
<1>2. u \in Seq(S) /\ Len(u) = k /\ \A m \in 1 .. k : u[m] = s[m]
  BY <1>1
<1>3. v \in Seq(S) /\ Len(v) = Len(s) - k /\ \A m \in 1 .. Len(s) - k : v[m] = s[k + m]
  BY <1>1
<1>4. InsertAt(s, k + 1, e) = w \o v
  <2>1. (k + 1) - 1 = k
    BY <1>1
  <2>2. QED
    BY <2>1 DEF InsertAt
<1> HIDE DEF u, v
<1>5. w \in Seq(S) /\ Len(w) = k + 1 /\ (\A m \in 1 .. k : w[m] = s[m]) /\ w[k + 1] = e
  BY <1>1, <1>2
<1> HIDE DEF w
<1>6. /\ w \o v \in Seq(S) /\ Len(w \o v) = Len(s) + 1
      /\ \A m \in 1 .. k + 1 : (w \o v)[m] = w[m]
      /\ \A m \in k + 1 .. Len(s) : (w \o v)[m + 1] = v[m - k]
  <2>1. /\ w \o v \in Seq(S) /\ Len(w \o v) = Len(w) + Len(v)
        /\ \A m \in 1 .. Len(w) + Len(v) :
             (w \o v)[m] = IF m <= Len(w) THEN w[m] ELSE v[m - Len(w)]
    BY <1>3, <1>5, ConcatProperties
  <2>2. k \in Nat /\ k <= Len(s)
    BY <1>1
  <2>3. Len(w) + Len(v) = Len(s) + 1 /\ Len(w) = k + 1
    BY <1>1, <1>3, <1>5, <2>2
  <2>4. \A m \in 1 .. k + 1 : (w \o v)[m] = w[m]
    BY <1>1, <2>1, <2>2, <2>3
  <2>5. ASSUME NEW m \in k + 1 .. Len(s) PROVE (w \o v)[m + 1] = v[m - k]
    <3>1. m + 1 \in 1 .. Len(w) + Len(v) /\ ~ (m + 1 <= Len(w)) /\ (m + 1) - Len(w) = m - k
      BY <1>1, <2>2, <2>3
    <3>2. QED
      BY <2>1, <3>1
  <2>6. QED
    BY <2>1, <2>3, <2>4, <2>5
<1>7. \A m \in k + 1 .. Len(s) : v[m - k] = s[m]
  BY <1>1, <1>3
<1>8. \A m \in 1 .. k : m \in 1 .. k + 1
  BY <1>1
<1>9. k + 1 \in 1 .. k + 1
  BY <1>1
<1> HIDE DEF v
<1>10. QED
  BY <1>4, <1>5, <1>6, <1>7, <1>8, <1>9 DEF OneMore

LEMMA NodesInNode == TreeTypeOK => Nodes \subseteq Node
BY NodesAre, SublistIs DEF At

(* Where a node that was there is after an insertion behind b.             *)
Moved(b, i, k) == IF i = ListOf(b) /\ k > Index(b) THEN k + 1 ELSE k

AtNext(x, i, k) ==
  i \in DOMAIN lists' /\ k \in DOMAIN lists'[i].nodes /\ lists'[i].nodes[k] = x

LEMMA InsertedPlaces ==
  ASSUME TreeTypeOK, NEW b, Placed(b), NEW n \in Node, NEW l, insert_internal(b, n, l)
  PROVE  /\ DOMAIN lists' = DOMAIN lists
         /\ \A i \in DOMAIN lists : /\ lists'[i].heavy = lists[i].heavy
                                    /\ lists'[i].above = lists[i].above
         /\ lists' \in Seq([nodes : Seq(Node) \ {<<>>}, heavy : BOOLEAN, above : TreeNode])
         /\ AtNext(n, ListOf(b), Index(b) + 1)
         /\ \A x, i, k : At(x, i, k) => AtNext(x, i, Moved(b, i, k))
         /\ \A x, i, k : AtNext(x, i, k) =>
              \/ x = n /\ i = ListOf(b) /\ k = Index(b) + 1
              \/ \E m : At(x, i, m) /\ k = Moved(b, i, m)
<1> DEFINE T == [nodes : Seq(Node) \ {<<>>}, heavy : BOOLEAN, above : TreeNode]
           i0 == ListOf(b)
           k0 == Index(b)
           s == lists[i0].nodes
           t == InsertAt(s, k0 + 1, n)
<1>1. /\ lists \in Seq(T) /\ i0 \in DOMAIN lists /\ k0 \in DOMAIN s
  BY DEF Placed, At, TreeTypeOK
<1>2. /\ s \in Seq(Node) /\ Len(s) \in Nat /\ DOMAIN s = 1 .. Len(s) /\ i0 \in Nat
      /\ k0 \in 1 .. Len(s)
  BY <1>1, SublistIs
<1>3. lists' = [lists EXCEPT ![i0].nodes = t]
  BY DEF insert_internal
<1> HIDE DEF s, i0, k0
<1>4. /\ t \in Seq(Node) /\ Len(t) = Len(s) + 1
      /\ \A m \in 1 .. k0 : t[m] = s[m]
      /\ t[k0 + 1] = n
      /\ \A m \in k0 + 1 .. Len(s) : t[m + 1] = s[m]
  <2>1. t \in Seq(Node) /\ OneMore(t, s, k0, n)
    BY <1>2, InsertedIs, Zenon
  <2>2. QED
    BY <2>1 DEF OneMore
<1>5. t # <<>> /\ DOMAIN t = 1 .. Len(s) + 1
  BY <1>2, <1>4
<1> HIDE DEF t
<1>6. /\ DOMAIN lists' = DOMAIN lists
      /\ \A i \in DOMAIN lists : i # i0 => lists'[i] = lists[i]
      /\ lists'[i0] = [lists[i0] EXCEPT !.nodes = t]
  BY <1>1, <1>3
<1>7. lists[i0] \in T
  BY <1>1, ListsAre
<1>8. /\ lists'[i0].nodes = t /\ lists'[i0].heavy = lists[i0].heavy
      /\ lists'[i0].above = lists[i0].above /\ lists'[i0] \in T
  BY <1>4, <1>5, <1>6, <1>7
<1>9. lists' \in Seq(T)
  <2>1. \A i \in DOMAIN lists : lists'[i] \in T
    BY <1>6, <1>8, ListsAre
  <2>2. DOMAIN lists = 1 .. Len(lists) /\ Len(lists) \in Nat
    BY ListsAre
  <2> DEFINE f == [i \in 1 .. Len(lists) |-> lists'[i]]
  <2>3. lists' = f
    BY <1>3, <2>2
  <2> HIDE DEF T
  <2>4. f \in Seq(T)
    BY <2>1, <2>2
  <2>5. QED
    BY <2>3, <2>4
<1>10. \A i \in DOMAIN lists : i # i0 => \A x, k : AtNext(x, i, k) <=> At(x, i, k)
  BY <1>6 DEF At, AtNext
<1>11. \A x, k : AtNext(x, i0, k) <=> k \in 1 .. Len(s) + 1 /\ t[k] = x
  BY <1>1, <1>5, <1>6, <1>8 DEF At, AtNext
<1>12. \A x, k : At(x, i0, k) <=> k \in 1 .. Len(s) /\ s[k] = x
  BY <1>1, <1>2 DEF At, s
<1>13. AtNext(n, i0, k0 + 1)
  BY <1>2, <1>4, <1>11
<1>14. ASSUME NEW x, NEW i, NEW k, At(x, i, k)
       PROVE  AtNext(x, i, Moved(b, i, k))
  <2>1. i \in DOMAIN lists
    BY <1>14 DEF At, AtNext
  <2>2. CASE i # i0
    <3>1. Moved(b, i, k) = k
      BY <2>2 DEF Moved, i0
    <3>2. QED
      BY <1>10, <1>14, <2>1, <2>2, <3>1
  <2>3. CASE i = i0 /\ k > k0
    <3>1. Moved(b, i, k) = k + 1
      BY <2>3 DEF Moved, i0, k0
    <3>2. k \in 1 .. Len(s) /\ s[k] = x
      BY <1>12, <1>14, <2>3
    <3>3. k \in k0 + 1 .. Len(s) /\ k + 1 \in 1 .. Len(s) + 1
      BY <1>2, <2>3, <3>2
    <3>4. t[k + 1] = x
      BY <1>4, <3>2, <3>3
    <3>5. QED
      BY <1>11, <2>3, <3>1, <3>3, <3>4
  <2>4. CASE i = i0 /\ ~ (k > k0)
    <3>1. Moved(b, i, k) = k
      BY <2>4 DEF Moved, i0, k0
    <3>2. k \in 1 .. Len(s) /\ s[k] = x
      BY <1>12, <1>14, <2>4
    <3>3. k \in 1 .. k0 /\ k \in 1 .. Len(s) + 1
      BY <1>2, <2>4, <3>2
    <3>4. QED
      BY <1>4, <1>11, <2>4, <3>1, <3>2, <3>3
  <2>5. QED
    BY <2>2, <2>3, <2>4
<1>15. ASSUME NEW x, NEW i, NEW k, AtNext(x, i, k)
       PROVE  \/ x = n /\ i = i0 /\ k = k0 + 1
              \/ \E m : At(x, i, m) /\ k = Moved(b, i, m)
  <2>1. i \in DOMAIN lists
    BY <1>6, <1>15 DEF At, AtNext
  <2>2. CASE i # i0
    <3>1. Moved(b, i, k) = k
      BY <2>2 DEF Moved, i0
    <3>2. QED
      BY <1>10, <1>15, <2>1, <2>2, <3>1
  <2>3. CASE i = i0
    <3>1. k \in 1 .. Len(s) + 1 /\ t[k] = x
      BY <1>11, <1>15, <2>3
    <3>2. CASE k <= k0
      <4>1. k \in 1 .. Len(s) /\ s[k] = x
        BY <1>2, <1>4, <3>1, <3>2
      <4>2. Moved(b, i, k) = k
        BY <1>2, <3>1, <3>2 DEF Moved, k0
      <4>3. QED
        BY <1>12, <2>3, <4>1, <4>2
    <3>3. CASE k = k0 + 1
      BY <1>4, <2>3, <3>1, <3>3
    <3>4. CASE k > k0 + 1
      <4>1. k - 1 \in k0 + 1 .. Len(s) /\ k - 1 \in 1 .. Len(s) /\ (k - 1) + 1 = k /\ k - 1 > k0
        BY <1>2, <3>1, <3>4
      <4>2. s[k - 1] = x
        BY <1>4, <3>1, <4>1
      <4>3. Moved(b, i, k - 1) = k
        BY <2>3, <4>1 DEF Moved, i0, k0
      <4>4. QED
        BY <1>12, <2>3, <4>1, <4>2, <4>3
    <3>5. QED
      BY <1>2, <3>1, <3>2, <3>3, <3>4
  <2>4. QED
    BY <2>2, <2>3
<1>16. QED
  BY <1>6, <1>8, <1>9, <1>13, <1>14, <1>15 DEF i0, k0

LEMMA AtIs == \A x, i, k : At(x, i, k)' <=> AtNext(x, i, k)
BY DEF At, AtNext

LEMMA MovedApart ==
  ASSUME NEW b, Index(b) \in Nat, NEW i, NEW k \in Nat, NEW m \in Nat
  PROVE  /\ Moved(b, i, k) \in Nat
         /\ Moved(b, i, k) < Moved(b, i, m) <=> k < m
         /\ i = ListOf(b) => /\ Moved(b, i, k) # Index(b) + 1
                             /\ Moved(b, i, k) < Index(b) + 1 <=> k <= Index(b)
BY DEF Moved

LEMMA AtTypes == ASSUME TreeTypeOK, NEW x, NEW i, NEW k, At(x, i, k)
  PROVE i \in Nat /\ k \in Nat /\ i \in DOMAIN lists
<1>1. i \in DOMAIN lists /\ k \in DOMAIN lists[i].nodes
  BY DEF At
<1>2. QED
  BY <1>1, SublistIs

LEMMA InsertMoves ==
  ASSUME TreeTypeOK, TreeTypeOK', PlacedOnce, NEW b \in Nodes, NEW n \in Node \ Nodes,
         NEW l, insert_internal(b, n, l)
  PROVE  /\ PlacedOnce' /\ Nodes' = Nodes \cup {n}
         /\ \A x \in Nodes : /\ (ListOf(x))' = ListOf(x)
                             /\ (Index(x))' = Moved(b, ListOf(x), Index(x))
         /\ (ListOf(n))' = ListOf(b) /\ (Index(n))' = Index(b) + 1
<1>1. Placed(b) /\ ListOf(b) \in Nat /\ Index(b) \in Nat
  BY PlacesAre DEF Placed
<1>2. /\ AtNext(n, ListOf(b), Index(b) + 1)
      /\ \A x, i, k : At(x, i, k) => AtNext(x, i, Moved(b, i, k))
      /\ \A x, i, k : AtNext(x, i, k) =>
           \/ x = n /\ i = ListOf(b) /\ k = Index(b) + 1
           \/ \E m : At(x, i, m) /\ k = Moved(b, i, m)
  BY <1>1, InsertedPlaces
<1>3. \A i, k : ~ At(n, i, k)
  BY NodesAre
<1>4. ASSUME NEW x, NEW i, NEW j, NEW k, NEW m, AtNext(x, i, k), AtNext(x, j, m)
      PROVE  i = j /\ k = m
  <2>1. CASE x = n
    BY <1>2, <1>3, <1>4, <2>1
  <2>2. CASE x # n
    <3>1. PICK k1 : At(x, i, k1) /\ k = Moved(b, i, k1)
      BY <1>2, <1>4, <2>2
    <3>2. PICK m1 : At(x, j, m1) /\ m = Moved(b, j, m1)
      BY <1>2, <1>4, <2>2
    <3>3. i = j /\ k1 = m1
      BY <3>1, <3>2 DEF PlacedOnce
    <3>4. QED
      BY <3>1, <3>2, <3>3
  <2>3. QED
    BY <2>1, <2>2
<1>5. PlacedOnce'
  <2>1. \A x : \A i, j, k, m : At(x, i, k)' /\ At(x, j, m)' => i = j /\ k = m
    BY <1>4, AtIs
  <2>2. QED
    BY <2>1, Zenon DEF PlacedOnce
<1>6. \A x : x \in Nodes' <=> \E i, k : AtNext(x, i, k)
  BY NodesAreNext, AtIs, Zenon
<1>7. Nodes' = Nodes \cup {n}
  <2>1. ASSUME NEW x \in Nodes' PROVE x \in Nodes \cup {n}
    BY <1>2, <1>6, NodesAre
  <2>2. ASSUME NEW x \in Nodes PROVE x \in Nodes'
    BY <1>2, <1>6, NodesAre
  <2>3. n \in Nodes'
    BY <1>2, <1>6
  <2>4. QED
    BY <2>1, <2>2, <2>3
<1>8. \A x \in Nodes' : \A i, k : AtNext(x, i, k) => i = (ListOf(x))' /\ k = (Index(x))'
  <2>1. (\A x \in Nodes : Placed(x))'
    BY <1>5, PlacesAreNext
  <2>2. QED
    BY <2>1, AtIs, Zenon DEF Placed
<1>9. ASSUME NEW x \in Nodes
      PROVE  (ListOf(x))' = ListOf(x) /\ (Index(x))' = Moved(b, ListOf(x), Index(x))
  <2>1. At(x, ListOf(x), Index(x))
    BY PlacesAre DEF Placed
  <2>2. AtNext(x, ListOf(x), Moved(b, ListOf(x), Index(x)))
    BY <1>2, <2>1
  <2>3. QED
    BY <1>7, <1>8, <2>2
<1>10. (ListOf(n))' = ListOf(b) /\ (Index(n))' = Index(b) + 1
  BY <1>2, <1>7, <1>8
<1>11. QED
  BY <1>5, <1>7, <1>9, <1>10

(* In the order of the places, n comes right after b.                      *)
LEMMA InsertOrders ==
  ASSUME TreeTypeOK, TreeTypeOK', PlacedOnce, NEW b \in Nodes, NEW n \in Node \ Nodes,
         NEW l, insert_internal(b, n, l)
  PROVE  PlaceOrder' = List!InsertedAfter(PlaceOrder, b, n)
<1>1. /\ Nodes' = Nodes \cup {n}
      /\ \A x \in Nodes : /\ (ListOf(x))' = ListOf(x)
                          /\ (Index(x))' = Moved(b, ListOf(x), Index(x))
      /\ (ListOf(n))' = ListOf(b) /\ (Index(n))' = Index(b) + 1
  BY InsertMoves
<1>2. \A x \in Nodes : ListOf(x) \in Nat /\ Index(x) \in Nat
  BY PlacesAre DEF Placed
<1>3. \A x \in Nodes : ListOf(x) = ListOf(b) /\ Index(x) = Index(b) => x = b
  BY PlacesAre DEF Placed, At
<1>4. \A x, y : LeftOf(x, y)' <=>
        \/ (ListOf(x))' < (ListOf(y))'
        \/ (ListOf(x))' = (ListOf(y))' /\ (Index(x))' < (Index(y))'
  BY DEF LeftOf
<1>5. ASSUME NEW x \in Nodes, NEW y \in Nodes PROVE LeftOf(x, y)' <=> LeftOf(x, y)
  <2>1. Moved(b, ListOf(x), Index(x)) < Moved(b, ListOf(x), Index(y)) <=> Index(x) < Index(y)
    BY <1>2, MovedApart
  <2>2. QED
    BY <1>1, <1>4, <2>1 DEF LeftOf
<1>6. ASSUME NEW x \in Nodes PROVE LeftOf(x, n)' <=> x = b \/ LeftOf(x, b)
  <2>1. ListOf(x) = ListOf(b) =>
          (Moved(b, ListOf(x), Index(x)) < Index(b) + 1 <=> Index(x) <= Index(b))
    BY <1>2, MovedApart
  <2>2. QED
    BY <1>1, <1>2, <1>3, <1>4, <2>1 DEF LeftOf
<1>7. ASSUME NEW y \in Nodes PROVE LeftOf(n, y)' <=> LeftOf(b, y)
  <2>1. ListOf(y) = ListOf(b) =>
          /\ Moved(b, ListOf(y), Index(y)) # Index(b) + 1
          /\ (Moved(b, ListOf(y), Index(y)) < Index(b) + 1 <=> Index(y) <= Index(b))
          /\ Moved(b, ListOf(y), Index(y)) \in Nat
    BY <1>2, MovedApart
  <2>2. QED
    BY <1>1, <1>2, <1>4, <2>1 DEF LeftOf
<1>8. ~ LeftOf(n, n)'
  BY <1>1, <1>2, <1>4
<1>9. Nodes \subseteq Node
  BY NodesInNode
<1>10. \A x, y : <<x, y>> \in PlaceOrder <=> x \in Nodes /\ y \in Nodes /\ LeftOf(x, y)
  BY DEF PlaceOrder
<1>11. \A x, y : <<x, y>> \in PlaceOrder' <=> x \in Nodes' /\ y \in Nodes' /\ LeftOf(x, y)'
  BY DEF PlaceOrder
<1>12. \A x, y : <<x, y>> \in List!InsertedAfter(PlaceOrder, b, n) <=>
         \/ <<x, y>> \in PlaceOrder
         \/ y = n /\ (x = b \/ <<x, b>> \in PlaceOrder)
         \/ x = n /\ <<b, y>> \in PlaceOrder
  <2>1. \A x : x \in List!Before(PlaceOrder, b) <=> <<x, b>> \in PlaceOrder
    BY <1>9, <1>10 DEF List!Before
  <2>2. \A y : y \in List!After(PlaceOrder, b) <=> <<b, y>> \in PlaceOrder
    BY <1>9, <1>10 DEF List!After
  <2>3. QED
    BY <2>1, <2>2 DEF List!InsertedAfter
<1>13. \A x, y : <<x, y>> \in PlaceOrder' <=> <<x, y>> \in List!InsertedAfter(PlaceOrder, b, n)
  BY <1>1, <1>5, <1>6, <1>7, <1>8, <1>10, <1>11, <1>12
<1>14. /\ \A e \in PlaceOrder' : e = <<e[1], e[2]>>
       /\ \A e \in List!InsertedAfter(PlaceOrder, b, n) : e = <<e[1], e[2]>>
  BY DEF PlaceOrder, List!InsertedAfter
<1>15. QED
  BY <1>13, <1>14

(* The node after x, and its label.                                        *)
Follows(x) ==
  /\ \A y : At(y, ListOf(x), Index(x) + 1) => IsTail(x) = FALSE /\ NextLabel(x) = label[y]
  /\ (\A y : ~ At(y, ListOf(x), Index(x) + 1)) => IsTail(x) = TRUE /\ NextLabel(x) = MAX_LABEL

LEMMA NextIs == TreeTypeOK /\ PlacedOnce => \A x \in Nodes : Follows(x)
<1> SUFFICES ASSUME TreeTypeOK, PlacedOnce, NEW x \in Nodes PROVE Follows(x)
  OBVIOUS
<1> DEFINE i == ListOf(x)
           k == Index(x)
           s == lists[i].nodes
<1>1. i \in DOMAIN lists /\ k \in DOMAIN s /\ i \in Nat /\ k \in Nat
  BY PlacesAre DEF Placed, At
<1>2. Len(s) \in Nat /\ DOMAIN s = 1 .. Len(s)
  BY <1>1, SublistIs
<1>3. IsTail(x) = (k = Len(s))
  BY DEF IsTail
<1>4. NextLabel(x) = IF IsTail(x) THEN MAX_LABEL ELSE label[s[k + 1]]
  BY DEF NextLabel
<1>5. \A y : At(y, i, k + 1) <=> k + 1 \in DOMAIN s /\ s[k + 1] = y
  BY <1>1 DEF At
<1> HIDE DEF s, k, i
<1>6. IsTail(x) = (k + 1 \notin DOMAIN s)
  BY <1>1, <1>2, <1>3
<1>7. /\ \A y : At(y, i, k + 1) => IsTail(x) = FALSE /\ NextLabel(x) = label[y]
      /\ (\A y : ~ At(y, i, k + 1)) => IsTail(x) = TRUE /\ NextLabel(x) = MAX_LABEL
  BY <1>4, <1>5, <1>6
<1>8. QED
  BY <1>7 DEF i, k, Follows

LEMMA NextIsNext ==
  (TreeTypeOK /\ PlacedOnce)' => (\A x \in Nodes : Follows(x))'
BY NextIs, PTL

LEMMA NewNextIs ==
  ASSUME TreeTypeOK', PlacedOnce', NEW x \in Nodes'
  PROVE  /\ \A y : AtNext(y, (ListOf(x))', (Index(x))' + 1) =>
              (IsTail(x))' = FALSE /\ (NextLabel(x))' = label'[y]
         /\ (\A y : ~ AtNext(y, (ListOf(x))', (Index(x))' + 1)) =>
              (IsTail(x))' = TRUE /\ (NextLabel(x))' = MAX_LABEL
<1>1. Follows(x)'
  BY NextIsNext
<1>2. \A y : At(y, ListOf(x), Index(x) + 1)' <=> AtNext(y, (ListOf(x))', (Index(x))' + 1)
  BY DEF At, AtNext
<1>3. QED
  BY <1>1, <1>2, Zenon DEF Follows

LEMMA LabelsAre ==
  ASSUME TreeTypeOK, PlacedOnce
  PROVE  /\ \A x \in Nodes : x \in Node /\ label[x] \in 0 .. MAX_LABEL
         /\ \A x, i, k : At(x, i, k) => x \in Nodes
         /\ MAX_LABEL \in Nat
<1>1. label \in [Node -> 0 .. MAX_LABEL]
  BY DEF TreeTypeOK
<1>2. QED
  BY <1>1, NodesInNode, NodesAre, MaxIs

(***************************************************************************)
(* A new label lies strictly between that of the base and the next one.    *)
(***************************************************************************)
LEMMA NewLabelIs ==
  ASSUME TreeTypeOK, PlacedOnce, Within, NEW b \in Nodes
  PROVE  /\ get_new_label(b) \in 0 .. MAX_LABEL
         /\ get_new_label(b) > 0 =>
              /\ label[b] < get_new_label(b)
              /\ \A y : At(y, ListOf(b), Index(b) + 1) => get_new_label(b) < label[y]
<1>1. label[b] \in 0 .. MAX_LABEL /\ MAX_LABEL \in Nat
  BY LabelsAre
<1>2. get_new_label(b) =
        IF Halfway(label[b], NextLabel(b), IsTail(b)) = label[b] THEN 0
        ELSE Halfway(label[b], NextLabel(b), IsTail(b))
  BY DEF get_new_label
<1>3. CASE \A y : ~ At(y, ListOf(b), Index(b) + 1)
  <2>1. IsTail(b) = TRUE /\ NextLabel(b) = MAX_LABEL
    BY <1>3, NextIs DEF Follows
  <2>2. /\ label[b] < MAX_LABEL => Halfway(label[b], MAX_LABEL, TRUE) \in label[b] + 1 .. MAX_LABEL
        /\ label[b] = MAX_LABEL => Halfway(label[b], MAX_LABEL, TRUE) = 0
    BY <1>1, NewLastLabelFits
  <2>3. get_new_label(b) = IF Halfway(label[b], MAX_LABEL, TRUE) = label[b] THEN 0
                           ELSE Halfway(label[b], MAX_LABEL, TRUE)
    BY <1>2, <2>1
  <2> DEFINE h == Halfway(label[b], MAX_LABEL, TRUE)
  <2> HIDE DEF h
  <2>4. /\ label[b] < MAX_LABEL => h \in label[b] + 1 .. MAX_LABEL
        /\ label[b] = MAX_LABEL => h = 0
        /\ get_new_label(b) = IF h = label[b] THEN 0 ELSE h
    BY <2>2, <2>3 DEF h
  <2>5. label[b] < MAX_LABEL \/ label[b] = MAX_LABEL
    BY <1>1
  <2>6. /\ get_new_label(b) \in 0 .. MAX_LABEL
        /\ get_new_label(b) > 0 => label[b] < get_new_label(b)
    BY <1>1, <2>4, <2>5
  <2>7. QED
    BY <1>3, <2>6
<1>4. CASE \E y : At(y, ListOf(b), Index(b) + 1)
  <2>1. PICK y : At(y, ListOf(b), Index(b) + 1)
    BY <1>4
  <2>2. IsTail(b) = FALSE /\ NextLabel(b) = label[y]
    BY <2>1, NextIs DEF Follows
  <2>3. label[y] \in 0 .. MAX_LABEL
    BY <2>1, LabelsAre
  <2>4. label[b] < label[y]
    <3>1. At(b, ListOf(b), Index(b)) /\ Index(b) \in Nat
      BY PlacesAre DEF Placed
    <3>2. Index(b) < Index(b) + 1
      BY <3>1
    <3>3. QED
      BY <2>1, <3>1, <3>2 DEF Within, At
  <2>5. /\ Halfway(label[b], label[y], FALSE) \in label[b] .. label[y] - 1
        /\ Halfway(label[b], label[y], FALSE) = label[b] <=> label[y] = label[b] + 1
    BY <1>1, <2>3, <2>4, NewLabelBetween
  <2>6. get_new_label(b) = IF Halfway(label[b], label[y], FALSE) = label[b] THEN 0
                           ELSE Halfway(label[b], label[y], FALSE)
    BY <1>2, <2>2
  <2>7. \A z : At(z, ListOf(b), Index(b) + 1) => z = y
    BY <2>1 DEF At
  <2> DEFINE h == Halfway(label[b], label[y], FALSE)
  <2> HIDE DEF h
  <2>8. /\ h \in label[b] .. label[y] - 1
        /\ get_new_label(b) = IF h = label[b] THEN 0 ELSE h
    BY <2>5, <2>6 DEF h
  <2>9. /\ get_new_label(b) \in 0 .. MAX_LABEL
        /\ get_new_label(b) > 0 => label[b] < get_new_label(b) /\ get_new_label(b) < label[y]
    BY <1>1, <2>3, <2>8
  <2>10. QED
    BY <2>7, <2>9
<1>5. QED
  BY <1>3, <1>4

LEMMA InsertAscends ==
  ASSUME TreeTypeOK, PlacedOnce, Within, NEW b \in Nodes, NEW n \in Node \ Nodes,
         get_new_label(b) > 0, insert_internal(b, n, get_new_label(b))
  PROVE  /\ TreeTypeOK' /\ Within'
         /\ \A x \in Nodes : label'[x] = label[x]
<1> DEFINE l == get_new_label(b)
           i0 == ListOf(b)
           k0 == Index(b)
<1>1. /\ l \in 0 .. MAX_LABEL /\ label[b] < l
      /\ \A y : At(y, i0, k0 + 1) => l < label[y]
  BY NewLabelIs
<1> HIDE DEF l
<1>2. /\ label' = [label EXCEPT ![n] = l] /\ UNCHANGED <<m_heavy_nodes, height>>
      /\ label \in [Node -> 0 .. MAX_LABEL]
  BY DEF insert_internal, TreeTypeOK, l
<1>3. label'[n] = l /\ \A x \in Nodes : label'[x] = label[x]
  BY <1>2, LabelsAre
<1>4. Placed(b) /\ i0 \in Nat /\ k0 \in Nat /\ At(b, i0, k0)
  BY PlacesAre DEF Placed
<1>5. /\ DOMAIN lists' = DOMAIN lists
      /\ lists' \in Seq([nodes : Seq(Node) \ {<<>>}, heavy : BOOLEAN, above : TreeNode])
      /\ \A x, i, k : AtNext(x, i, k) =>
           \/ x = n /\ i = i0 /\ k = k0 + 1
           \/ \E m : At(x, i, m) /\ k = Moved(b, i, m)
  BY <1>4, InsertedPlaces DEF l
<1>6. TreeTypeOK'
  <2>1. label' \in [Node -> 0 .. MAX_LABEL]
    BY <1>1, <1>2
  <2>2. m_heavy_nodes' = m_heavy_nodes /\ height' = height
    BY <1>2
  <2>3. QED
    BY <1>5, <2>1, <2>2 DEF TreeTypeOK
<1>7. \A x, y, i, k, m : At(x, i, k) /\ At(y, i, m) /\ k < m => label[x] < label[y]
  BY DEF Within, At
<1>8. ASSUME NEW x, NEW y, NEW i, NEW k, NEW m, AtNext(x, i, k), AtNext(y, i, m), k < m
      PROVE  label'[x] < label'[y]
  <2>1. \A z, j : At(z, i, j) => /\ z \in Nodes /\ label[z] \in Nat /\ label'[z] = label[z]
                                 /\ j \in Nat
    BY <1>3, LabelsAre, AtTypes
  <2>2. \A j \in Nat, h \in Nat :
          /\ Moved(b, i, j) < Moved(b, i, h) <=> j < h
          /\ i = i0 => /\ Moved(b, i, j) # k0 + 1
                       /\ Moved(b, i, j) < k0 + 1 <=> j <= k0
                       /\ Moved(b, i, j) \in Nat
    BY <1>4, MovedApart
  <2>3. CASE x = n /\ i = i0 /\ k = k0 + 1
    <3>1. PICK m1 : At(y, i, m1) /\ m = Moved(b, i, m1)
      BY <1>4, <1>5, <1>8, <2>3
    <3>2. m1 \in Nat /\ k0 < m1
      BY <1>4, <1>8, <2>1, <2>2, <2>3, <3>1
    <3>3. l < label[y]
      <4>1. CASE m1 = k0 + 1
        BY <1>1, <2>3, <3>1, <4>1
      <4>2. CASE m1 # k0 + 1
        <5>1. k0 + 1 < m1
          BY <1>4, <3>2, <4>2
        <5>2. PICK z : At(z, i0, k0 + 1)
          <6>1. i0 \in DOMAIN lists /\ m1 \in DOMAIN lists[i0].nodes
            BY <2>3, <3>1 DEF At
          <6>2. k0 + 1 \in DOMAIN lists[i0].nodes
            BY <1>4, <3>2, <5>1, <6>1, SublistIs
          <6>3. At(lists[i0].nodes[k0 + 1], i0, k0 + 1)
            BY <6>1, <6>2 DEF At
          <6>4. QED
            BY <6>3
        <5>3. l < label[z] /\ label[z] < label[y]
          BY <1>1, <1>7, <2>3, <3>1, <5>1, <5>2
        <5>4. QED
          BY <1>1, <2>1, <2>3, <3>1, <5>2, <5>3
      <4>3. QED
        BY <4>1, <4>2
    <3>4. QED
      BY <1>3, <2>1, <2>3, <3>1, <3>3
  <2>4. CASE \E k1 : At(x, i, k1) /\ k = Moved(b, i, k1)
    <3>1. PICK k1 : At(x, i, k1) /\ k = Moved(b, i, k1)
      BY <2>4
    <3>2. CASE y = n /\ i = i0 /\ m = k0 + 1
      <4>1. k1 \in Nat /\ k1 <= k0
        BY <1>8, <2>1, <2>2, <3>1, <3>2
      <4>2. label[x] <= label[b]
        <5>1. k1 = k0 => x = b
          BY <1>4, <3>1, <3>2 DEF At
        <5>2. k1 < k0 => label[x] < label[b]
          BY <1>4, <1>7, <3>1, <3>2
        <5>3. QED
          BY <1>4, <2>1, <3>1, <3>2, <4>1, <5>1, <5>2
      <4>3. label[b] \in Nat /\ l \in Nat
        BY <1>1, LabelsAre
      <4>4. QED
        BY <1>1, <1>3, <2>1, <3>1, <3>2, <4>2, <4>3
    <3>3. CASE \E m1 : At(y, i, m1) /\ m = Moved(b, i, m1)
      <4>1. PICK m1 : At(y, i, m1) /\ m = Moved(b, i, m1)
        BY <3>3
      <4>2. k1 < m1
        BY <1>8, <2>1, <2>2, <3>1, <4>1
      <4>3. QED
        BY <1>7, <2>1, <3>1, <4>1, <4>2
    <3>4. QED
      BY <1>5, <1>8, <3>2, <3>3
  <2>5. QED
    BY <1>5, <1>8, <2>3, <2>4
<1>9. Within'
  <2>1. \A i \in DOMAIN lists' : \A k, m \in DOMAIN lists'[i].nodes :
          k < m => label'[lists'[i].nodes[k]] < label'[lists'[i].nodes[m]]
    BY <1>8 DEF AtNext
  <2>2. QED
    BY <2>1 DEF Within
<1>10. QED
  BY <1>3, <1>6, <1>9

(* The tree over the sublists is the same.                                 *)
SameTree ==
  /\ DOMAIN lists' = DOMAIN lists /\ \A i \in DOMAIN lists : lists'[i].above = lists[i].above
  /\ height' = height

LEMMA SameShape ==
  ASSUME ShapeInv, TreeTypeOK', SameTree
  PROVE  ShapeInv'
<1>1. AllInTree'
  BY DEF SameTree, ShapeInv, AllInTree
<1>2. Ascending'
  BY DEF SameTree, ShapeInv, Ascending
<1>3. \A i \in DOMAIN lists :
        {j \in DOMAIN lists : lists'[j].above = lists'[i].above} = Group(lists[i].above)
  BY DEF SameTree, Group
<1>4. \A p : Group(p)' = {j \in DOMAIN lists : lists'[j].above = p}
  BY DEF SameTree, Group
<1>5. WithinHeight'
  BY <1>3, <1>4 DEF SameTree, ShapeInv, WithinHeight
<1>6. QED
  BY <1>1, <1>2, <1>5 DEF ShapeInv

LEMMA InsertKeepsLabels ==
  ASSUME LabelInv, NEW b \in Nodes, NEW n \in Node \ Nodes, get_new_label(b) > 0,
         insert_internal(b, n, get_new_label(b)), g_relabel_id' = g_relabel_id
  PROVE  /\ LabelInv' /\ SameTree /\ \A i \in DOMAIN lists : lists'[i].heavy = lists[i].heavy
<1>1. TreeTypeOK /\ PlacedOnce /\ Within /\ ShapeInv
  BY DEF LabelInv, ShapeInv
<1>2. TreeTypeOK' /\ Within'
  BY <1>1, InsertAscends
<1>3. PlacedOnce'
  BY <1>1, <1>2, InsertMoves
<1>4. Placed(b)
  BY <1>1, PlacesAre
<1>5. SameTree /\ \A i \in DOMAIN lists : lists'[i].heavy = lists[i].heavy
  BY <1>1, <1>4, InsertedPlaces DEF SameTree, insert_internal
<1>6. ShapeInv'
  BY <1>1, <1>2, <1>5, SameShape
<1>7. OneEach'
  BY <1>5 DEF LabelInv, OneEach, SameTree
<1>8. QED
  BY <1>2, <1>3, <1>5, <1>6, <1>7 DEF LabelInv

(* The label computed for another base stays the one to give.              *)
LEMMA OtherLabelStays ==
  ASSUME TreeTypeOK, PlacedOnce, Within, NEW b \in Nodes, NEW n \in Node \ Nodes,
         get_new_label(b) > 0, insert_internal(b, n, get_new_label(b)),
         NEW x \in Nodes, x # b
  PROVE  (get_new_label(x))' = get_new_label(x)
<1>1. /\ TreeTypeOK' /\ Within' /\ PlacedOnce' /\ Nodes' = Nodes \cup {n}
      /\ \A y \in Nodes : label'[y] = label[y]
      /\ (ListOf(x))' = ListOf(x) /\ (Index(x))' = Moved(b, ListOf(x), Index(x))
  BY InsertAscends, InsertMoves
<1> DEFINE i == ListOf(x)
           k == Index(x)
<1>2. /\ Placed(x) /\ Placed(b) /\ i \in Nat /\ k \in Nat /\ Index(b) \in Nat
      /\ At(x, i, k) /\ At(b, ListOf(b), Index(b))
  BY PlacesAre DEF Placed
<1>3. ~ (i = ListOf(b) /\ k = Index(b))
  BY <1>2 DEF At
<1>4. Moved(b, i, k) + 1 = Moved(b, i, k + 1)
  BY <1>2, <1>3 DEF Moved
<1>5. i = ListOf(b) => Moved(b, i, k + 1) # Index(b) + 1
  BY <1>2, MovedApart
<1>6. /\ \A y : At(y, i, k + 1) => AtNext(y, i, Moved(b, i, k + 1))
      /\ \A y : AtNext(y, i, Moved(b, i, k + 1)) =>
           \E m : At(y, i, m) /\ Moved(b, i, k + 1) = Moved(b, i, m)
  BY <1>2, <1>5, InsertedPlaces
<1>7. \A y : AtNext(y, i, Moved(b, i, k + 1)) <=> At(y, i, k + 1)
  <2>1. ASSUME NEW y, NEW m, At(y, i, m), Moved(b, i, k + 1) = Moved(b, i, m)
        PROVE  m = k + 1
    <3>1. m \in Nat /\ k + 1 \in Nat
      BY <1>2, <2>1, AtTypes
    <3>2. /\ Moved(b, i, m) \in Nat
          /\ Moved(b, i, m) < Moved(b, i, k + 1) <=> m < k + 1
          /\ Moved(b, i, k + 1) < Moved(b, i, m) <=> k + 1 < m
      BY <1>2, <3>1, MovedApart
    <3>3. QED
      BY <2>1, <3>1, <3>2
  <2>2. QED
    BY <1>6, <2>1
<1>8. (NextLabel(x))' = NextLabel(x) /\ (IsTail(x))' = IsTail(x)
  <2>1. CASE \E y : At(y, i, k + 1)
    <3>1. PICK y : At(y, i, k + 1)
      BY <2>1
    <3>2. IsTail(x) = FALSE /\ NextLabel(x) = label[y]
      BY <3>1, NextIs DEF Follows
    <3>3. (IsTail(x))' = FALSE /\ (NextLabel(x))' = label'[y]
      BY <1>1, <1>4, <1>7, <3>1, NewNextIs
    <3>4. y \in Nodes
      BY <3>1, NodesAre
    <3>5. QED
      BY <1>1, <3>2, <3>3, <3>4
  <2>2. CASE \A y : ~ At(y, i, k + 1)
    <3>2. IsTail(x) = TRUE /\ NextLabel(x) = MAX_LABEL
      BY <2>2, NextIs DEF Follows
    <3>3. (IsTail(x))' = TRUE /\ (NextLabel(x))' = MAX_LABEL
      BY <1>1, <1>4, <1>7, <2>2, NewNextIs
    <3>5. QED
      BY <3>2, <3>3
  <2>3. QED
    BY <2>1, <2>2
<1>9. (get_new_label(x))' =
        IF Halfway(label'[x], (NextLabel(x))', (IsTail(x))') = label'[x] THEN 0
        ELSE Halfway(label'[x], (NextLabel(x))', (IsTail(x))')
  BY DEF get_new_label, Halfway
<1>10. QED
  BY <1>1, <1>8, <1>9 DEF get_new_label

-----------------------------------------------------------------------------
(***************************************************************************)
(* split: the pieces of a sublist.                                         *)
(***************************************************************************)
(* Place k of the sublist is place m of piece c.                           *)
Dealt(k, c, m) == m \in 1 .. SUBLIST_SIZE /\ k = (c - 1) * SUBLIST_SIZE + m

LEMMA PiecesIs ==
  ASSUME NEW s, Len(s) \in Nat \ {0}
  PROVE  /\ Pieces(s) \in Nat \ {0}
         /\ (Pieces(s) - 1) * SUBLIST_SIZE < Len(s)
         /\ Len(s) <= Pieces(s) * SUBLIST_SIZE
<1> DEFINE S == SUBLIST_SIZE
           L == Len(s)
           P == Pieces(s)
<1>1. S \in Nat \ {0}
  BY LabelAssumption
<1>2. P = (L + S - 1) \div S
  BY DEF Pieces
<1> HIDE DEF S, L, P
<1>3. L \in Nat \ {0}
  BY DEF L
<1>4. P \in Nat /\ P * S <= L + S - 1 /\ L + S - 1 < P * S + S
  BY <1>1, <1>2, <1>3, QuotientIs
<1>5. P # 0
  BY <1>1, <1>3, <1>4
<1>6. (P - 1) * S = P * S - S
  BY <1>1, <1>4
<1>7. P * S \in Nat
  BY <1>1, <1>4
<1>8. (P - 1) * S < L /\ L <= P * S
  BY <1>1, <1>3, <1>4, <1>6, <1>7
<1>9. QED
  BY <1>4, <1>5, <1>8 DEF S, L, P

LEMMA DealtIs ==
  ASSUME NEW c \in Nat \ {0}, NEW m \in 1 .. SUBLIST_SIZE
  PROVE  /\ (c - 1) * SUBLIST_SIZE \in Nat
         /\ c * SUBLIST_SIZE = (c - 1) * SUBLIST_SIZE + SUBLIST_SIZE
         /\ Dealt((c - 1) * SUBLIST_SIZE + m, c, m)
<1>1. SUBLIST_SIZE \in Nat \ {0}
  BY LabelAssumption
<1>2. QED
  BY <1>1 DEF Dealt

LEMMA DealtOrder ==
  ASSUME NEW k, NEW c \in Nat \ {0}, NEW m, Dealt(k, c, m),
         NEW k1, NEW c1 \in Nat \ {0}, NEW m1, Dealt(k1, c1, m1)
  PROVE  k < k1 <=> c < c1 \/ (c = c1 /\ m < m1)
<1> DEFINE S == SUBLIST_SIZE
           a == (c - 1) * S
           b == (c1 - 1) * S
<1>1. S \in Nat \ {0}
  BY LabelAssumption
<1>2. /\ m \in 1 .. S /\ k = a + m /\ m1 \in 1 .. S /\ k1 = b + m1
  BY DEF Dealt
<1>3. c < c1 => a + S <= b
  BY <1>1, TimesGrows
<1>4. c1 < c => b + S <= a
  BY <1>1, TimesGrows
<1>5. a \in Nat /\ b \in Nat
  BY <1>1
<1>6. c = c1 => a = b
  OBVIOUS
<1> HIDE DEF a, b, S
<1>7. QED
  BY <1>1, <1>2, <1>3, <1>4, <1>5, <1>6

LEMMA EveryPlaceIsDealt ==
  ASSUME NEW s, Len(s) \in Nat \ {0}, NEW k \in 1 .. Len(s)
  PROVE  \E c \in 1 .. Pieces(s) : \E m : Dealt(k, c, m)
<1> DEFINE S == SUBLIST_SIZE
           P == Pieces(s)
           q == (k - 1) \div S
<1>1. S \in Nat \ {0}
  BY LabelAssumption
<1>2. P \in Nat \ {0} /\ Len(s) <= P * S
  BY PiecesIs
<1>3. k - 1 \in Nat /\ k - 1 < Len(s)
  OBVIOUS
<1>4. q \in Nat /\ q * S <= k - 1 /\ k - 1 < q * S + S
  BY <1>1, <1>3, QuotientIs
<1> HIDE DEF q, P
<1>5. q < P
  <2>1. q * S < P * S
    BY <1>1, <1>2, <1>3, <1>4
  <2>2. QED
    BY <1>1, <1>2, <1>4, <2>1, TimesCancel
<1>6. (q + 1) - 1 = q /\ q + 1 \in 1 .. P
  BY <1>2, <1>4, <1>5
<1>7. Dealt(k, q + 1, k - q * S)
  <2>1. q * S \in Nat
    BY <1>1, <1>4
  <2>2. k - q * S \in 1 .. S /\ k = q * S + (k - q * S)
    BY <1>1, <1>3, <1>4, <2>1
  <2>3. QED
    BY <1>6, <2>2 DEF Dealt
<1>8. QED
  BY <1>6, <1>7 DEF P

LEMMA PieceIs ==
  ASSUME NEW s \in Seq(Node), Len(s) \in Nat \ {0}, NEW c \in 1 .. Pieces(s)
  PROVE  /\ Piece(s, c) \in Seq(Node) \ {<<>>}
         /\ \A m : m \in DOMAIN Piece(s, c) <=>
              m \in 1 .. SUBLIST_SIZE /\ (c - 1) * SUBLIST_SIZE + m \in 1 .. Len(s)
         /\ \A m \in DOMAIN Piece(s, c) : Piece(s, c)[m] = s[(c - 1) * SUBLIST_SIZE + m]
<1> DEFINE S == SUBLIST_SIZE
           L == Len(s)
           P == Pieces(s)
           a == (c - 1) * S
           hi == IF c = P THEN L ELSE c * S
           p == Piece(s, c)
<1>1. S \in Nat \ {0} /\ L \in Nat \ {0}
  BY LabelAssumption
<1>2. P \in Nat \ {0} /\ (P - 1) * S < L /\ L <= P * S
  BY PiecesIs
<1>3. c \in Nat \ {0} /\ c <= P
  BY <1>2
<1>4. a \in Nat /\ c * S = a + S
  BY <1>1, <1>3
<1>5. c # P => a + S < L
  <2>1. SUFFICES ASSUME c # P PROVE a + S < L
    OBVIOUS
  <2>2. c - 1 < P - 1 /\ c - 1 \in Nat /\ P - 1 \in Nat
    BY <1>2, <1>3, <2>1
  <2>3. a + S <= (P - 1) * S
    BY <1>1, <2>2, TimesGrows
  <2>4. (P - 1) * S \in Nat
    BY <1>1, <2>2
  <2>5. QED
    BY <1>1, <1>2, <1>4, <2>3, <2>4
<1>6. c = P => a < L /\ L <= a + S
  BY <1>2, <1>4
<1>7. p = SubSeq(s, a + 1, hi)
  BY DEF Piece
<1>8. hi \in Nat /\ a < hi /\ hi <= L /\ hi <= a + S /\ (hi < L => hi = a + S)
  BY <1>1, <1>4, <1>5, <1>6
<1> HIDE DEF a, hi, p, S, L, P
<1>9. \A i \in a + 1 .. hi : s[i] \in Node
  <2>1. \A i \in a + 1 .. hi : i \in 1 .. L
    BY <1>1, <1>4, <1>8
  <2>2. QED
    BY <2>1, ElementOfSeq DEF L
<1>10. a + 1 \in Int /\ hi \in Int
  BY <1>4, <1>8
<1>11. /\ p \in Seq(Node) /\ Len(p) = hi - a
       /\ \A i \in 1 .. hi - a : p[i] = s[a + i]
  <2>1. /\ p \in Seq(Node) /\ Len(p) = IF a + 1 <= hi THEN hi - (a + 1) + 1 ELSE 0
        /\ \A i \in 1 .. hi - (a + 1) + 1 : p[i] = s[(a + 1) + i - 1]
    <3>1. /\ SubSeq(s, a + 1, hi) \in Seq(Node)
          /\ Len(SubSeq(s, a + 1, hi)) = IF a + 1 <= hi THEN hi - (a + 1) + 1 ELSE 0
          /\ \A i \in 1 .. hi - (a + 1) + 1 : SubSeq(s, a + 1, hi)[i] = s[(a + 1) + i - 1]
      BY <1>9, <1>10, SubSeqProperties
    <3>2. QED
      BY <1>7, <3>1
  <2>2. a + 1 <= hi /\ hi - (a + 1) + 1 = hi - a /\ \A i \in Int : (a + 1) + i - 1 = a + i
    BY <1>4, <1>8
  <2>3. \A i \in 1 .. hi - a : i \in Int
    OBVIOUS
  <2>4. QED
    BY <2>1, <2>2, <2>3
<1>12. DOMAIN p = 1 .. hi - a /\ p # <<>>
  BY <1>4, <1>8, <1>11
<1>13. \A m : m \in 1 .. hi - a <=> m \in 1 .. S /\ a + m \in 1 .. L
  BY <1>1, <1>4, <1>8
<1>14. QED
  BY <1>11, <1>12, <1>13 DEF a, p, S, L

ListType == [nodes : Seq(Node) \ {<<>>}, heavy : BOOLEAN, above : TreeNode]

(* The sublists after the one at i was split.                              *)
PiecesAt(i) == Pieces(lists[i].nodes)

Cut(i) ==
  /\ Len(lists') = Len(lists) + PiecesAt(i) - 1
  /\ \A j \in 1 .. i - 1 : lists'[j] = lists[j]
  /\ \A c \in 1 .. PiecesAt(i) :
       lists'[i + c - 1] = Sublist(Piece(lists[i].nodes, c), lists[i].above)
  /\ \A j \in i + 1 .. Len(lists) : lists'[j + PiecesAt(i) - 1] = lists[j]

LEMMA PiecesAtIs ==
  ASSUME TreeTypeOK, NEW i \in DOMAIN lists
  PROVE  /\ PiecesAt(i) \in Nat \ {0} /\ i \in 1 .. Len(lists) /\ Len(lists) \in Nat
         /\ DOMAIN lists = 1 .. Len(lists)
BY ListsAre, SublistIs, PiecesIs DEF PiecesAt

LEMMA PiecesHaveType ==
  ASSUME TreeTypeOK, NEW i \in DOMAIN lists, NEW c \in 1 .. PiecesAt(i)
  PROVE  Sublist(Piece(lists[i].nodes, c), lists[i].above) \in ListType
<1>1. Piece(lists[i].nodes, c) \in Seq(Node) \ {<<>>} /\ lists[i].above \in TreeNode
  BY SublistIs, PieceIs DEF PiecesAt
<1>2. QED
  BY <1>1 DEF Sublist, ListType

(* The leaf of i is the leaf of no other sublist.                          *)
Alone(i) == \A j \in DOMAIN lists : lists[j].above = lists[i].above => j = i

LEMMA SplitIs ==
  ASSUME TreeTypeOK, NEW i \in DOMAIN lists, Alone(i), split(lists[i].above)
  PROVE  /\ Cut(i) /\ lists' \in Seq(ListType)
         /\ label' = [n \in Node |->
                        IF n \in ToSet(lists[i].nodes)
                        THEN ((Index(n) - 1) % SUBLIST_SIZE) * NODE_INTERVAL
                        ELSE label[n]]
         /\ height' = IF PiecesAt(i) > 1
                           /\ Log2Ceil(PiecesAt(i)) + lists[i].above.depth > height
                      THEN Log2Ceil(PiecesAt(i)) + lists[i].above.depth ELSE height
<1> DEFINE leaf == lists[i].above
           s == lists[i].nodes
           P == PiecesAt(i)
           L == Len(lists)
           dealt == [k \in 1 .. P |-> Sublist(Piece(s, k), leaf)]
           u == SubSeq(lists, 1, i - 1)
           v == SubSeq(lists, i + 1, L)
           w == u \o dealt
<1>1. (CHOOSE j \in DOMAIN lists : lists[j].above = leaf) = i
  BY DEF Alone
<1>2. /\ lists' = w \o v
      /\ label' = [n \in Node |->
                     IF n \in ToSet(s)
                     THEN ((Index(n) - 1) % SUBLIST_SIZE) * NODE_INTERVAL
                     ELSE label[n]]
      /\ height' = IF P > 1 /\ Log2Ceil(P) + leaf.depth > height
                   THEN Log2Ceil(P) + leaf.depth ELSE height
  <2> DEFINE h == CHOOSE j \in DOMAIN lists : lists[j].above = leaf
             t == lists[h].nodes
  <2>1. /\ lists' = SubSeq(lists, 1, h - 1)
                     \o [k \in 1 .. Pieces(t) |-> Sublist(Piece(t, k), leaf)]
                     \o SubSeq(lists, h + 1, Len(lists))
        /\ label' = [n \in Node |->
                       IF n \in ToSet(t)
                       THEN ((Index(n) - 1) % SUBLIST_SIZE) * NODE_INTERVAL
                       ELSE label[n]]
        /\ height' = IF Pieces(t) > 1 /\ Log2Ceil(Pieces(t)) + leaf.depth > height
                     THEN Log2Ceil(Pieces(t)) + leaf.depth ELSE height
    BY DEF split
  <2>2. h = i /\ t = s
    BY <1>1
  <2> HIDE DEF h, t
  <2>3. QED
    BY <2>1, <2>2 DEF PiecesAt
<1>3. P \in Nat \ {0} /\ i \in 1 .. L /\ L \in Nat
  BY PiecesAtIs
<1>4. \A j \in 1 .. L : lists[j] \in ListType
  BY ListsAre DEF ListType
<1>5. dealt \in Seq(ListType) /\ Len(dealt) = P /\ \A c \in 1 .. P : dealt[c] = Sublist(Piece(s, c), leaf)
  <2>1. \A k \in 1 .. P : Sublist(Piece(s, k), leaf) \in ListType
    BY PiecesHaveType
  <2> HIDE DEF s, P, leaf
  <2>2. QED
    BY <1>3, <2>1
<1> HIDE DEF dealt, P, s, leaf, L
<1>6. u \in Seq(ListType) /\ Len(u) = i - 1 /\ \A j \in 1 .. i - 1 : u[j] = lists[j]
  <2>1. 1 \in Int /\ i - 1 \in Int
    BY <1>3
  <2>2. \A j \in 1 .. i - 1 : lists[j] \in ListType
    BY <1>3, <1>4
  <2>3. /\ u \in Seq(ListType) /\ Len(u) = IF 1 <= i - 1 THEN (i - 1) - 1 + 1 ELSE 0
        /\ \A j \in 1 .. (i - 1) - 1 + 1 : u[j] = lists[1 + j - 1]
    BY <2>1, <2>2, SubSeqProperties
  <2>4. (IF 1 <= i - 1 THEN (i - 1) - 1 + 1 ELSE 0) = i - 1 /\ (i - 1) - 1 + 1 = i - 1
    BY <1>3
  <2>5. \A j \in 1 .. i - 1 : 1 + j - 1 = j
    OBVIOUS
  <2> HIDE DEF u
  <2>6. QED
    BY <2>3, <2>4, <2>5
<1>7. v \in Seq(ListType) /\ Len(v) = L - i /\ \A j \in 1 .. L - i : v[j] = lists[i + j]
  <2>1. i + 1 \in Int /\ L \in Int
    BY <1>3
  <2>2. \A j \in i + 1 .. L : lists[j] \in ListType
    BY <1>3, <1>4
  <2>3. /\ v \in Seq(ListType) /\ Len(v) = IF i + 1 <= L THEN L - (i + 1) + 1 ELSE 0
        /\ \A j \in 1 .. L - (i + 1) + 1 : v[j] = lists[(i + 1) + j - 1]
    BY <2>1, <2>2, SubSeqProperties
  <2>4. (IF i + 1 <= L THEN L - (i + 1) + 1 ELSE 0) = L - i /\ L - (i + 1) + 1 = L - i
    BY <1>3
  <2>5. \A j \in 1 .. L - i : (i + 1) + j - 1 = i + j
    BY <1>3
  <2> HIDE DEF v
  <2>6. QED
    BY <2>3, <2>4, <2>5
<1> HIDE DEF u, v
<1>8. /\ w \in Seq(ListType) /\ Len(w) = i - 1 + P
      /\ \A j \in 1 .. i - 1 : w[j] = lists[j]
      /\ \A c \in 1 .. P : w[i + c - 1] = dealt[c]
  <2>1. /\ w \in Seq(ListType) /\ Len(w) = Len(u) + Len(dealt)
        /\ \A j \in 1 .. Len(u) + Len(dealt) : w[j] = IF j <= Len(u) THEN u[j] ELSE dealt[j - Len(u)]
    BY <1>5, <1>6, ConcatProperties
  <2>2. Len(u) = i - 1 /\ Len(dealt) = P
    BY <1>5, <1>6
  <2> HIDE DEF w
  <2>3. ASSUME NEW j \in 1 .. i - 1 PROVE w[j] = lists[j]
    <3>1. j \in 1 .. Len(u) + Len(dealt) /\ j <= Len(u)
      BY <1>3, <2>2
    <3>2. QED
      BY <1>6, <2>1, <3>1
  <2>4. ASSUME NEW c \in 1 .. P PROVE w[i + c - 1] = dealt[c]
    <3>1. i + c - 1 \in 1 .. Len(u) + Len(dealt) /\ ~ (i + c - 1 <= Len(u)) /\ (i + c - 1) - Len(u) = c
      BY <1>3, <2>2
    <3>2. QED
      BY <2>1, <3>1
  <2>5. QED
    BY <1>3, <2>1, <2>2, <2>3, <2>4
<1> HIDE DEF w
<1>9. /\ lists' \in Seq(ListType) /\ Len(lists') = Len(w) + Len(v)
      /\ \A j \in 1 .. Len(w) + Len(v) : lists'[j] = IF j <= Len(w) THEN w[j] ELSE v[j - Len(w)]
  <2>1. /\ w \o v \in Seq(ListType) /\ Len(w \o v) = Len(w) + Len(v)
        /\ \A j \in 1 .. Len(w) + Len(v) : (w \o v)[j] = IF j <= Len(w) THEN w[j] ELSE v[j - Len(w)]
    BY <1>7, <1>8, ConcatProperties
  <2>2. QED
    BY <1>2, <2>1
<1>10. Len(w) = i - 1 + P /\ Len(v) = L - i
  BY <1>7, <1>8
<1>11. Len(lists') = L + P - 1
  BY <1>3, <1>9, <1>10
<1>12. ASSUME NEW j \in 1 .. i - 1 PROVE lists'[j] = lists[j]
  <2>1. j \in 1 .. Len(w) + Len(v) /\ j <= Len(w)
    BY <1>3, <1>10
  <2>2. QED
    BY <1>8, <1>9, <2>1
<1>13. ASSUME NEW c \in 1 .. P PROVE lists'[i + c - 1] = Sublist(Piece(s, c), leaf)
  <2>1. i + c - 1 \in 1 .. Len(w) + Len(v) /\ i + c - 1 <= Len(w)
    BY <1>3, <1>10
  <2>2. QED
    BY <1>5, <1>8, <1>9, <2>1
<1>14. ASSUME NEW j \in i + 1 .. L PROVE lists'[j + P - 1] = lists[j]
  <2>1. /\ j + P - 1 \in 1 .. Len(w) + Len(v) /\ ~ (j + P - 1 <= Len(w))
        /\ (j + P - 1) - Len(w) = j - i /\ j - i \in 1 .. L - i /\ i + (j - i) = j
    BY <1>3, <1>10
  <2>2. QED
    BY <1>7, <1>9, <2>1
<1>15. Cut(i)
  BY <1>11, <1>12, <1>13, <1>14 DEF Cut, s, P, L, leaf
<1>16. QED
  BY <1>2, <1>9, <1>15 DEF s, P, leaf

(* A split of the sublist at h sends place k of sublist i to place m of j. *)
Sent(h, i, k, j, m) ==
  \/ i < h /\ j = i /\ m = k
  \/ i = h /\ \E c \in 1 .. PiecesAt(h) : j = h + c - 1 /\ Dealt(k, c, m)
  \/ i > h /\ j = i + PiecesAt(h) - 1 /\ m = k

LEMMA SentTypes ==
  ASSUME TreeTypeOK, NEW h \in DOMAIN lists, NEW i \in Nat, NEW k \in Nat,
         NEW j, NEW m, Sent(h, i, k, j, m)
  PROVE  j \in Nat /\ m \in Nat
<1>1. PiecesAt(h) \in Nat \ {0} /\ h \in Nat /\ h >= 1
  BY PiecesAtIs
<1>2. CASE i = h
  BY <1>1, <1>2 DEF Sent, Dealt
<1>3. CASE i # h
  BY <1>1, <1>3 DEF Sent
<1>4. QED
  BY <1>2, <1>3

LEMMA SentOrder ==
  ASSUME TreeTypeOK, NEW h \in DOMAIN lists,
         NEW i \in Nat, NEW k \in Nat, NEW j, NEW m, Sent(h, i, k, j, m),
         NEW i1 \in Nat, NEW k1 \in Nat, NEW j1, NEW m1, Sent(h, i1, k1, j1, m1)
  PROVE  i < i1 \/ (i = i1 /\ k < k1) <=> j < j1 \/ (j = j1 /\ m < m1)
<1> DEFINE P == PiecesAt(h)
<1>1. P \in Nat \ {0} /\ h \in Nat /\ h >= 1
  BY PiecesAtIs
<1>2. j \in Nat /\ m \in Nat /\ j1 \in Nat /\ m1 \in Nat
  BY SentTypes
<1>3. /\ i < h => j = i /\ m = k
      /\ i > h => j = i + P - 1 /\ m = k
      /\ i1 < h => j1 = i1 /\ m1 = k1
      /\ i1 > h => j1 = i1 + P - 1 /\ m1 = k1
  BY <1>1 DEF Sent
<1>4. i = h => \E c \in 1 .. P : j = h + c - 1 /\ Dealt(k, c, m)
  BY <1>1 DEF Sent
<1>5. i1 = h => \E c \in 1 .. P : j1 = h + c - 1 /\ Dealt(k1, c, m1)
  BY <1>1 DEF Sent
<1> HIDE DEF P
<1>6. CASE i = h /\ i1 = h
  <2>1. PICK c \in 1 .. P : j = h + c - 1 /\ Dealt(k, c, m)
    BY <1>4, <1>6
  <2>2. PICK c1 \in 1 .. P : j1 = h + c1 - 1 /\ Dealt(k1, c1, m1)
    BY <1>5, <1>6
  <2>3. k < k1 <=> c < c1 \/ (c = c1 /\ m < m1)
    BY <1>1, <2>1, <2>2, DealtOrder
  <2>4. (j < j1 <=> c < c1) /\ (j = j1 <=> c = c1)
    BY <1>1, <2>1, <2>2
  <2>5. QED
    BY <1>6, <2>3, <2>4
<1>7. CASE i = h /\ i1 # h
  <2>1. PICK c \in 1 .. P : j = h + c - 1
    BY <1>4, <1>7
  <2>2. QED
    BY <1>1, <1>2, <1>3, <1>7, <2>1
<1>8. CASE i # h /\ i1 = h
  <2>1. PICK c \in 1 .. P : j1 = h + c - 1
    BY <1>5, <1>8
  <2>2. QED
    BY <1>1, <1>2, <1>3, <1>8, <2>1
<1>9. CASE i # h /\ i1 # h
  BY <1>1, <1>2, <1>3, <1>9
<1>10. QED
  BY <1>6, <1>7, <1>8, <1>9

LEMMA SplitPlaces ==
  ASSUME TreeTypeOK, NEW h \in DOMAIN lists, Cut(h), lists' \in Seq(ListType)
  PROVE  /\ \A x, i, k : At(x, i, k) => \E j, m : Sent(h, i, k, j, m) /\ AtNext(x, j, m)
         /\ \A x, j, m : AtNext(x, j, m) => \E i, k : At(x, i, k) /\ Sent(h, i, k, j, m)
<1> DEFINE P == PiecesAt(h)
           s == lists[h].nodes
           L == Len(lists)
<1>1. /\ P \in Nat \ {0} /\ h \in 1 .. L /\ L \in Nat /\ DOMAIN lists = 1 .. L
      /\ P = Pieces(s) /\ s \in Seq(Node) /\ Len(s) \in Nat \ {0} /\ DOMAIN s = 1 .. Len(s)
  BY PiecesAtIs, SublistIs DEF PiecesAt
<1>2. /\ \A j \in 1 .. h - 1 : lists'[j] = lists[j]
      /\ \A c \in 1 .. P : lists'[h + c - 1] = Sublist(Piece(s, c), lists[h].above)
      /\ \A j \in h + 1 .. L : lists'[j + P - 1] = lists[j]
  BY DEF Cut
<1>3. DOMAIN lists' = 1 .. L + P - 1
  BY <1>1 DEF Cut
<1>4. ASSUME NEW c \in 1 .. P, NEW x, NEW m
      PROVE  AtNext(x, h + c - 1, m) <=>
               /\ m \in 1 .. SUBLIST_SIZE /\ (c - 1) * SUBLIST_SIZE + m \in 1 .. Len(s)
               /\ s[(c - 1) * SUBLIST_SIZE + m] = x
  <2>1. lists'[h + c - 1].nodes = Piece(s, c)
    <3>1. lists'[h + c - 1] = Sublist(Piece(s, c), lists[h].above)
      BY <1>2, Zenon
    <3>2. QED
      BY <3>1 DEF Sublist
  <2>2. h + c - 1 \in DOMAIN lists'
    BY <1>1, <1>3
  <2>3. /\ m \in DOMAIN Piece(s, c) <=>
             m \in 1 .. SUBLIST_SIZE /\ (c - 1) * SUBLIST_SIZE + m \in 1 .. Len(s)
        /\ m \in DOMAIN Piece(s, c) => Piece(s, c)[m] = s[(c - 1) * SUBLIST_SIZE + m]
    BY <1>1, PieceIs
  <2> HIDE DEF s
  <2>4. QED
    BY <2>1, <2>2, <2>3 DEF AtNext
<1>5. \A x, k : At(x, h, k) <=> k \in 1 .. Len(s) /\ s[k] = x
  BY <1>1 DEF At
<1>6. ASSUME NEW x, NEW i, NEW k, At(x, i, k)
      PROVE  \E j, m : Sent(h, i, k, j, m) /\ AtNext(x, j, m)
  <2>1. i \in 1 .. L /\ k \in Nat
    BY <1>1, <1>6, AtTypes
  <2>2. CASE i < h
    <3>1. i \in 1 .. h - 1 /\ i \in DOMAIN lists'
      BY <1>1, <1>3, <2>1, <2>2
    <3>2. AtNext(x, i, k)
      BY <1>2, <1>6, <3>1 DEF At, AtNext
    <3>3. QED
      BY <2>2, <3>2 DEF Sent
  <2>3. CASE i = h
    <3>1. k \in 1 .. Len(s) /\ s[k] = x
      BY <1>5, <1>6, <2>3
    <3>2. PICK c, m : c \in 1 .. P /\ Dealt(k, c, m)
      BY <1>1, <3>1, EveryPlaceIsDealt
    <3>3. m \in 1 .. SUBLIST_SIZE /\ (c - 1) * SUBLIST_SIZE + m = k
      BY <3>2 DEF Dealt
    <3> HIDE DEF s
    <3>4. AtNext(x, h + c - 1, m)
      BY <1>4, <3>1, <3>2, <3>3
    <3>5. Sent(h, i, k, h + c - 1, m)
      BY <2>3, <3>2 DEF Sent
    <3>6. QED
      BY <3>4, <3>5
  <2>4. CASE i > h
    <3>1. i \in h + 1 .. L /\ i + P - 1 \in DOMAIN lists'
      BY <1>1, <1>3, <2>1, <2>4
    <3>2. AtNext(x, i + P - 1, k)
      BY <1>2, <1>6, <3>1 DEF At, AtNext
    <3>3. QED
      BY <2>4, <3>2 DEF Sent
  <2>5. QED
    BY <1>1, <2>1, <2>2, <2>3, <2>4
<1>7. ASSUME NEW x, NEW j, NEW m, AtNext(x, j, m)
      PROVE  \E i, k : At(x, i, k) /\ Sent(h, i, k, j, m)
  <2>1. j \in 1 .. L + P - 1
    BY <1>3, <1>7 DEF AtNext
  <2>2. CASE j < h
    <3>1. j \in 1 .. h - 1 /\ j \in DOMAIN lists
      BY <1>1, <2>1, <2>2
    <3>2. At(x, j, m)
      BY <1>2, <1>7, <3>1 DEF At, AtNext
    <3>3. QED
      BY <2>2, <3>2 DEF Sent
  <2>3. CASE j \in h .. h + P - 1
    <3>1. j - h + 1 \in 1 .. P /\ h + (j - h + 1) - 1 = j
      BY <1>1, <2>1, <2>3
    <3>2. PICK c \in 1 .. P : h + c - 1 = j
      BY <3>1
    <3> HIDE DEF s
    <3>3. /\ m \in 1 .. SUBLIST_SIZE /\ (c - 1) * SUBLIST_SIZE + m \in 1 .. Len(s)
          /\ s[(c - 1) * SUBLIST_SIZE + m] = x
      BY <1>4, <1>7, <3>2
    <3>4. At(x, h, (c - 1) * SUBLIST_SIZE + m)
      BY <1>5, <3>3
    <3>5. Sent(h, h, (c - 1) * SUBLIST_SIZE + m, j, m)
      BY <3>2, <3>3 DEF Sent, Dealt
    <3>6. QED
      BY <3>4, <3>5
  <2>4. CASE j > h + P - 1
    <3> HIDE DEF P, L, s
    <3>1. j - P + 1 \in h + 1 .. L /\ (j - P + 1) + P - 1 = j /\ j - P + 1 \in DOMAIN lists
      BY <1>1, <2>1, <2>4
    <3>2. At(x, j - P + 1, m)
      <4>1. lists'[j] = lists[j - P + 1]
        BY <1>2, <3>1
      <4>2. QED
        BY <1>7, <3>1, <4>1 DEF At, AtNext
    <3>3. Sent(h, j - P + 1, m, j, m)
      BY <1>1, <3>1 DEF Sent, P
    <3>4. QED
      BY <3>2, <3>3
  <2>5. QED
    BY <1>1, <2>1, <2>2, <2>3, <2>4
<1>8. QED
  BY <1>6, <1>7

LEMMA SplitMoves ==
  ASSUME TreeTypeOK, TreeTypeOK', PlacedOnce, NEW h \in DOMAIN lists, Cut(h),
         lists' \in Seq(ListType)
  PROVE  /\ PlacedOnce' /\ Nodes' = Nodes /\ PlaceOrder' = PlaceOrder
         /\ \A x \in Nodes : Sent(h, ListOf(x), Index(x), (ListOf(x))', (Index(x))')
<1>1. /\ \A x, i, k : At(x, i, k) => \E j, m : Sent(h, i, k, j, m) /\ AtNext(x, j, m)
      /\ \A x, j, m : AtNext(x, j, m) => \E i, k : At(x, i, k) /\ Sent(h, i, k, j, m)
  BY SplitPlaces
<1>2. ASSUME NEW x, NEW i, NEW j, NEW k, NEW m, AtNext(x, i, k), AtNext(x, j, m)
      PROVE  i = j /\ k = m
  <2>1. PICK i1, k1 : At(x, i1, k1) /\ Sent(h, i1, k1, i, k)
    BY <1>1, <1>2
  <2>2. PICK j1, m1 : At(x, j1, m1) /\ Sent(h, j1, m1, j, m)
    BY <1>1, <1>2
  <2>3. i1 = j1 /\ k1 = m1
    BY <2>1, <2>2, Zenon DEF PlacedOnce
  <2>4. i1 \in Nat /\ k1 \in Nat
    BY <2>1, AtTypes
  <2>5. Sent(h, i1, k1, j, m)
    BY <2>2, <2>3
  <2>6. i \in Nat /\ k \in Nat /\ j \in Nat /\ m \in Nat
    BY <2>1, <2>4, <2>5, SentTypes
  <2>7. /\ i1 < i1 \/ (i1 = i1 /\ k1 < k1) <=> i < j \/ (i = j /\ k < m)
        /\ i1 < i1 \/ (i1 = i1 /\ k1 < k1) <=> j < i \/ (j = i /\ m < k)
    BY <2>1, <2>4, <2>5, SentOrder
  <2>8. QED
    BY <2>4, <2>6, <2>7
<1>3. PlacedOnce'
  <2>1. \A x : \A i, j, k, m : At(x, i, k)' /\ At(x, j, m)' => i = j /\ k = m
    BY <1>2, AtIs
  <2>2. QED
    BY <2>1, Zenon DEF PlacedOnce
<1>4. \A x : x \in Nodes' <=> \E i, k : AtNext(x, i, k)
  BY NodesAreNext, AtIs, Zenon
<1>5. Nodes' = Nodes
  BY <1>1, <1>4, NodesAre
<1>6. \A x \in Nodes' : \A i, k : AtNext(x, i, k) => i = (ListOf(x))' /\ k = (Index(x))'
  <2>1. (\A x \in Nodes : Placed(x))'
    BY <1>3, PlacesAreNext
  <2>2. QED
    BY <2>1, AtIs, Zenon DEF Placed
<1>7. ASSUME NEW x \in Nodes
      PROVE  Sent(h, ListOf(x), Index(x), (ListOf(x))', (Index(x))')
  <2>1. At(x, ListOf(x), Index(x))
    BY PlacesAre DEF Placed
  <2>2. PICK j, m : Sent(h, ListOf(x), Index(x), j, m) /\ AtNext(x, j, m)
    BY <1>1, <2>1
  <2>3. j = (ListOf(x))' /\ m = (Index(x))'
    BY <1>5, <1>6, <2>2
  <2>4. QED
    BY <2>2, <2>3
<1>8. ASSUME NEW x \in Nodes, NEW y \in Nodes PROVE LeftOf(x, y)' <=> LeftOf(x, y)
  <2>1. /\ ListOf(x) \in Nat /\ Index(x) \in Nat /\ ListOf(y) \in Nat /\ Index(y) \in Nat
    BY PlacesAre DEF Placed
  <2> DEFINE i == ListOf(x)
             k == Index(x)
             i1 == ListOf(y)
             k1 == Index(y)
             j == (ListOf(x))'
             m == (Index(x))'
             j1 == (ListOf(y))'
             m1 == (Index(y))'
  <2>2. Sent(h, i, k, j, m) /\ Sent(h, i1, k1, j1, m1)
    BY <1>7
  <2>3. i \in Nat /\ k \in Nat /\ i1 \in Nat /\ k1 \in Nat
    BY <2>1
  <2> HIDE DEF i, k, i1, k1, j, m, j1, m1
  <2>4. i < i1 \/ (i = i1 /\ k < k1) <=> j < j1 \/ (j = j1 /\ m < m1)
    BY <2>2, <2>3, SentOrder
  <2>5. QED
    BY <2>4 DEF LeftOf, i, k, i1, k1, j, m, j1, m1
<1>9. PlaceOrder' = PlaceOrder
  BY <1>5, <1>8 DEF PlaceOrder
<1>10. QED
  BY <1>3, <1>5, <1>7, <1>9

LEMMA RemainderIs ==
  ASSUME NEW n \in Nat, NEW s \in Nat \ {0}
  PROVE  n % s \in 0 .. s - 1 /\ n = (n \div s) * s + (n % s)
<1>1. n % s \in 0 .. s - 1
  OBVIOUS
<1>2. n = s * (n \div s) + (n % s)
  OBVIOUS
<1>3. n \div s \in Nat
  OBVIOUS
<1>4. \A k \in Nat : s * k = k * s
  OBVIOUS
<1>5. QED
  BY <1>1, <1>2, <1>3, <1>4

LEMMA Remainder ==
  ASSUME NEW s \in Nat \ {0}, NEW t \in Nat, NEW r \in 0 .. s - 1
  PROVE  (t * s + r) % s = r
<1> DEFINE n == t * s + r
<1>1. n \in Nat /\ t * s \in Nat
  OBVIOUS
<1>2. t * s <= n /\ n < t * s + s
  BY <1>1
<1>3. n = t * s + r
  OBVIOUS
<1> HIDE DEF n
<1>4. n \div s = t
  BY <1>1, <1>2, Quotient
<1>5. n = (n \div s) * s + (n % s) /\ n % s \in 0 .. s - 1
  BY <1>1, RemainderIs
<1>6. n = t * s + (n % s)
  BY <1>4, <1>5
<1>7. n % s = r
  BY <1>1, <1>3, <1>5, <1>6
<1>8. QED
  BY <1>7 DEF n

(***************************************************************************)
(* split: the labels of the pieces.                                        *)
(***************************************************************************)
Spaced(m) == (m - 1) * NODE_INTERVAL

LEMMA SpacedIs ==
  /\ \A m \in 1 .. SUBLIST_SIZE : Spaced(m) \in 0 .. MAX_LABEL
  /\ \A k, m \in 1 .. SUBLIST_SIZE : k < m => Spaced(k) < Spaced(m)
<1>1. /\ SUBLIST_SIZE \in Nat \ {0} /\ NODE_INTERVAL \in Nat \ {0}
      /\ (SUBLIST_SIZE - 1) * NODE_INTERVAL <= MAX_LABEL /\ MAX_LABEL \in Nat
  <2>1. (SUBLIST_SIZE - 1) * NODE_INTERVAL \in Nat
    BY LabelAssumption
  <2>2. QED
    BY <2>1, LabelAssumption, MaxIs
<1>2. ASSUME NEW k \in 1 .. SUBLIST_SIZE, NEW m \in 1 .. SUBLIST_SIZE, k < m
      PROVE  Spaced(k) + NODE_INTERVAL <= Spaced(m)
  <2>1. k - 1 \in Nat /\ m - 1 \in Nat /\ k - 1 < m - 1
    BY <1>1, <1>2
  <2>2. (k - 1) * NODE_INTERVAL + NODE_INTERVAL <= (m - 1) * NODE_INTERVAL
    BY <1>1, <2>1, TimesGrows
  <2>3. QED
    BY <2>2 DEF Spaced
<1>3. \A m \in 1 .. SUBLIST_SIZE : Spaced(m) \in Nat
  BY <1>1 DEF Spaced
<1>4. Spaced(SUBLIST_SIZE) <= MAX_LABEL
  BY <1>1 DEF Spaced
<1>5. ASSUME NEW m \in 1 .. SUBLIST_SIZE PROVE Spaced(m) \in 0 .. MAX_LABEL
  <2>1. CASE m = SUBLIST_SIZE
    BY <1>1, <1>3, <1>4, <2>1
  <2>2. CASE m # SUBLIST_SIZE
    <3>1. m < SUBLIST_SIZE /\ SUBLIST_SIZE \in 1 .. SUBLIST_SIZE
      BY <1>1, <2>2
    <3>2. Spaced(m) + NODE_INTERVAL <= Spaced(SUBLIST_SIZE)
      BY <1>2, <3>1
    <3>3. QED
      BY <1>1, <1>3, <1>4, <3>1, <3>2
  <2>3. QED
    BY <2>1, <2>2
<1>6. ASSUME NEW k \in 1 .. SUBLIST_SIZE, NEW m \in 1 .. SUBLIST_SIZE, k < m
      PROVE  Spaced(k) < Spaced(m)
  BY <1>1, <1>2, <1>3, <1>6
<1>7. QED
  BY <1>5, <1>6

LEMMA DealtLabel ==
  ASSUME NEW k \in Nat, NEW c \in Nat \ {0}, NEW m, Dealt(k, c, m)
  PROVE  ((k - 1) % SUBLIST_SIZE) * NODE_INTERVAL = Spaced(m)
<1>1. /\ SUBLIST_SIZE \in Nat \ {0} /\ c - 1 \in Nat
      /\ m \in 1 .. SUBLIST_SIZE /\ k = (c - 1) * SUBLIST_SIZE + m
  BY LabelAssumption DEF Dealt
<1>2. m - 1 \in 0 .. SUBLIST_SIZE - 1
  BY <1>1
<1>3. ((c - 1) * SUBLIST_SIZE + (m - 1)) % SUBLIST_SIZE = m - 1
  BY <1>1, <1>2, Remainder
<1>4. k - 1 = (c - 1) * SUBLIST_SIZE + (m - 1)
  <2>1. (c - 1) * SUBLIST_SIZE \in Nat
    BY <1>1
  <2>2. QED
    BY <1>1, <2>1
<1>5. QED
  BY <1>3, <1>4 DEF Spaced

(* The labels after the sublist at h was split.                            *)
Relabelled(h) ==
  label' = [n \in Node |->
              IF n \in ToSet(lists[h].nodes)
              THEN ((Index(n) - 1) % SUBLIST_SIZE) * NODE_INTERVAL
              ELSE label[n]]

LEMMA RelabelledIs ==
  ASSUME TreeTypeOK, PlacedOnce, NEW h \in DOMAIN lists, Relabelled(h)
  PROVE  /\ label' \in [Node -> 0 .. MAX_LABEL]
         /\ \A x, k, c, m :
              At(x, h, k) /\ c \in Nat \ {0} /\ Dealt(k, c, m) => label'[x] = Spaced(m)
         /\ \A x, i, k : At(x, i, k) /\ i # h => label'[x] = label[x]
<1>1. \A x : x \in ToSet(lists[h].nodes) <=> \E k : At(x, h, k)
  BY DEF ToSet, At
<1>2. \A x, i, k : At(x, i, k) => x \in Node /\ x \in Nodes /\ i = ListOf(x) /\ k = Index(x)
  BY NodesAre, NodesInNode, PlacesAre DEF Placed
<1>3. \A x, k : At(x, h, k) => label'[x] = ((k - 1) % SUBLIST_SIZE) * NODE_INTERVAL
  BY <1>1, <1>2 DEF Relabelled
<1>4. \A x, i, k : At(x, i, k) /\ i # h => label'[x] = label[x]
  <2>1. ASSUME NEW x, NEW i, NEW k, At(x, i, k), i # h
        PROVE  x \in Node /\ x \notin ToSet(lists[h].nodes)
    BY <1>1, <1>2, <2>1
  <2>2. QED
    BY <2>1 DEF Relabelled
<1>5. \A x, k, c, m : At(x, h, k) /\ c \in Nat \ {0} /\ Dealt(k, c, m) => label'[x] = Spaced(m)
  BY <1>3, AtTypes, DealtLabel
<1>6. ASSUME NEW x \in Node PROVE label'[x] \in 0 .. MAX_LABEL
  <2>1. CASE x \in ToSet(lists[h].nodes)
    <3>1. PICK k : At(x, h, k)
      BY <1>1, <2>1
    <3>2. k \in 1 .. Len(lists[h].nodes) /\ Len(lists[h].nodes) \in Nat \ {0}
      BY <3>1, SublistIs DEF At
    <3>3. PICK c, m : c \in 1 .. Pieces(lists[h].nodes) /\ Dealt(k, c, m)
      BY <3>2, EveryPlaceIsDealt
    <3>4. c \in Nat \ {0} /\ m \in 1 .. SUBLIST_SIZE
      BY <3>2, <3>3, PiecesIs DEF Dealt
    <3>5. QED
      BY <1>5, <3>1, <3>3, <3>4, SpacedIs
  <2>2. CASE x \notin ToSet(lists[h].nodes)
    <3>1. label'[x] = label[x]
      BY <2>2 DEF Relabelled
    <3>2. QED
      BY <3>1 DEF TreeTypeOK
  <2>3. QED
    BY <2>1, <2>2
<1>7. label' \in [Node -> 0 .. MAX_LABEL]
  BY <1>6 DEF Relabelled
<1>8. QED
  BY <1>4, <1>5, <1>7

LEMMA SplitAscends ==
  ASSUME TreeTypeOK, PlacedOnce, Within, NEW h \in DOMAIN lists, Cut(h),
         lists' \in Seq(ListType), Relabelled(h)
  PROVE  Within'
<1>1. /\ PiecesAt(h) \in Nat \ {0} /\ h \in Nat /\ h >= 1
  BY PiecesAtIs
<1>2. ASSUME NEW x, NEW y, NEW j, NEW m, NEW m1, AtNext(x, j, m), AtNext(y, j, m1), m < m1
      PROVE  label'[x] < label'[y]
  <2>1. PICK i, k : At(x, i, k) /\ Sent(h, i, k, j, m)
    BY <1>2, SplitPlaces
  <2>2. PICK i1, k1 : At(y, i1, k1) /\ Sent(h, i1, k1, j, m1)
    BY <1>2, SplitPlaces
  <2>3. i \in Nat /\ k \in Nat /\ i1 \in Nat /\ k1 \in Nat
    BY <2>1, <2>2, AtTypes
  <2>4. i = i1
    BY <1>1, <2>1, <2>2, <2>3 DEF Sent
  <2>5. CASE i = h
    <3>1. PICK c \in 1 .. PiecesAt(h) : Dealt(k, c, m)
      BY <2>1, <2>5, <1>1 DEF Sent
    <3>2. PICK c1 \in 1 .. PiecesAt(h) : Dealt(k1, c1, m1)
      BY <2>2, <2>4, <2>5, <1>1 DEF Sent
    <3>3. label'[x] = Spaced(m) /\ label'[y] = Spaced(m1)
      BY <1>1, <2>1, <2>2, <2>4, <2>5, <3>1, <3>2, RelabelledIs
    <3>4. m \in 1 .. SUBLIST_SIZE /\ m1 \in 1 .. SUBLIST_SIZE
      BY <3>1, <3>2 DEF Dealt
    <3>5. QED
      BY <1>2, <3>3, <3>4, SpacedIs
  <2>6. CASE i # h
    <3>1. m = k /\ m1 = k1
      BY <1>1, <2>1, <2>2, <2>3, <2>4, <2>6 DEF Sent
    <3>2. label'[x] = label[x] /\ label'[y] = label[y]
      BY <2>1, <2>2, <2>4, <2>6, RelabelledIs
    <3>3. label[x] < label[y]
      BY <1>2, <2>1, <2>2, <2>4, <3>1 DEF Within, At
    <3>4. QED
      BY <3>2, <3>3
  <2>7. QED
    BY <2>5, <2>6
<1>3. \A i \in DOMAIN lists' : \A k, m \in DOMAIN lists'[i].nodes :
          k < m => label'[lists'[i].nodes[k]] < label'[lists'[i].nodes[m]]
  BY <1>2 DEF AtNext
<1>4. QED
  BY <1>3 DEF Within

(***************************************************************************)
(* split: the tree over the sublists.                                      *)
(***************************************************************************)
(* The sublist that sublist j comes from.                                  *)
Source(h, j) ==
  IF j < h THEN j ELSE IF j <= h + PiecesAt(h) - 1 THEN h ELSE j - PiecesAt(h) + 1

LEMMA SourceIs ==
  ASSUME TreeTypeOK, NEW h \in DOMAIN lists, Cut(h), lists' \in Seq(ListType)
  PROVE  /\ DOMAIN lists' = 1 .. Len(lists) + PiecesAt(h) - 1
         /\ \A j \in DOMAIN lists' :
              /\ Source(h, j) \in DOMAIN lists
              /\ lists'[j].above = lists[Source(h, j)].above
              /\ lists'[j].heavy = (Source(h, j) # h /\ lists[Source(h, j)].heavy)
              /\ Source(h, j) = h => j \in h .. h + PiecesAt(h) - 1
         /\ \A j, m \in DOMAIN lists' :
              /\ j < m => Source(h, j) <= Source(h, m)
              /\ Source(h, j) = Source(h, m) /\ Source(h, j) # h => j = m
         /\ \A i \in DOMAIN lists : \E j \in DOMAIN lists' : Source(h, j) = i
<1> DEFINE P == PiecesAt(h)
           L == Len(lists)
<1>1. /\ P \in Nat \ {0} /\ h \in 1 .. L /\ L \in Nat /\ DOMAIN lists = 1 .. L
  BY PiecesAtIs
<1>2. DOMAIN lists' = 1 .. L + P - 1
  BY <1>1 DEF Cut
<1>3. /\ \A j \in 1 .. h - 1 : lists'[j] = lists[j]
      /\ \A c \in 1 .. P :
           lists'[h + c - 1] = Sublist(Piece(lists[h].nodes, c), lists[h].above)
      /\ \A j \in h + 1 .. L : lists'[j + P - 1] = lists[j]
  BY DEF Cut
<1>4. \A j : Source(h, j) = IF j < h THEN j ELSE IF j <= h + P - 1 THEN h ELSE j - P + 1
  BY DEF Source
<1>5. \A c \in 1 .. P : lists'[h + c - 1].above = lists[h].above /\ ~ lists'[h + c - 1].heavy
  <2>1. ASSUME NEW c \in 1 .. P
        PROVE  lists'[h + c - 1].above = lists[h].above /\ lists'[h + c - 1].heavy = FALSE
    <3>1. lists'[h + c - 1] = Sublist(Piece(lists[h].nodes, c), lists[h].above)
      BY <1>3, Zenon
    <3>2. QED
      BY <3>1 DEF Sublist
  <2>2. QED
    BY <2>1
<1>6. \A j \in 1 .. L + P - 1 : lists'[j].heavy \in BOOLEAN
  <2>1. lists' \in Seq(ListType) /\ Len(lists') = L + P - 1
    BY DEF Cut
  <2>2. \A j \in 1 .. L + P - 1 : lists'[j] \in ListType
    BY <2>1, ElementOfSeq, Zenon
  <2>3. \A r \in ListType : r.heavy \in BOOLEAN
    BY DEF ListType
  <2>4. QED
    BY <2>2, <2>3
<1> HIDE DEF P, L
<1>7. ASSUME NEW j \in 1 .. L + P - 1
      PROVE  /\ Source(h, j) \in 1 .. L
             /\ lists'[j].above = lists[Source(h, j)].above
             /\ lists'[j].heavy = (Source(h, j) # h /\ lists[Source(h, j)].heavy)
             /\ Source(h, j) = h => j \in h .. h + P - 1
  <2>1. CASE j < h
    <3>1. j \in 1 .. h - 1 /\ Source(h, j) = j
      BY <1>1, <1>4, <2>1
    <3>2. lists'[j] = lists[j]
      BY <1>3, <3>1
    <3>3. j \in 1 .. L /\ j # h
      BY <1>1, <3>1
    <3>4. QED
      BY <1>6, <2>1, <3>1, <3>2, <3>3
  <2>2. CASE j \in h .. h + P - 1
    <3>1. Source(h, j) = h
      BY <1>1, <1>4, <2>2
    <3>2. j - h + 1 \in 1 .. P /\ h + (j - h + 1) - 1 = j
      BY <1>1, <2>2
    <3>3. lists'[j].above = lists[h].above /\ ~ lists'[j].heavy
      BY <1>5, <3>2
    <3>4. QED
      BY <1>1, <1>6, <2>2, <3>1, <3>3
  <2>3. CASE j > h + P - 1
    <3>1. Source(h, j) = j - P + 1 /\ j - P + 1 \in h + 1 .. L /\ (j - P + 1) + P - 1 = j
      BY <1>1, <1>4, <2>3
    <3>2. lists'[j] = lists[j - P + 1]
      BY <1>3, <3>1
    <3>3. j - P + 1 \in 1 .. L /\ j - P + 1 # h
      BY <1>1, <3>1
    <3>4. QED
      BY <1>6, <3>1, <3>2, <3>3
  <2>4. QED
    BY <1>1, <2>1, <2>2, <2>3
<1>8. \A j, m \in 1 .. L + P - 1 :
        /\ j < m => Source(h, j) <= Source(h, m)
        /\ Source(h, j) = Source(h, m) /\ Source(h, j) # h => j = m
  BY <1>1, <1>4
<1>9. ASSUME NEW i \in 1 .. L PROVE \E j \in 1 .. L + P - 1 : Source(h, j) = i
  <2>1. CASE i < h
    <3>1. i \in 1 .. L + P - 1 /\ Source(h, i) = i
      BY <1>1, <1>4, <2>1
    <3>2. QED
      BY <3>1
  <2>2. CASE i = h
    <3>1. h \in 1 .. L + P - 1 /\ Source(h, h) = h
      BY <1>1, <1>4
    <3>2. QED
      BY <2>2, <3>1
  <2>3. CASE i > h
    <3>1. i + P - 1 \in 1 .. L + P - 1 /\ Source(h, i + P - 1) = i
      BY <1>1, <1>4, <2>3
    <3>2. QED
      BY <3>1
  <2>4. QED
    BY <1>1, <2>1, <2>2, <2>3
<1>10. QED
  BY <1>1, <1>2, <1>7, <1>8, <1>9 DEF P, L

Raised(h) ==
  height' = IF PiecesAt(h) > 1 /\ Log2Ceil(PiecesAt(h)) + lists[h].above.depth > height
            THEN Log2Ceil(PiecesAt(h)) + lists[h].above.depth ELSE height

LEMMA RaisedIs ==
  ASSUME ShapeInv, NEW h \in DOMAIN lists, Raised(h)
  PROVE  /\ height \in Nat /\ height' \in Nat /\ height <= height'
         /\ lists[h].above.depth \in Nat /\ lists[h].above.depth <= height
         /\ PiecesAt(h) <= Pow2[height' - lists[h].above.depth]
<1> DEFINE P == PiecesAt(h)
           d == lists[h].above.depth
<1>1. P \in Nat \ {0} /\ height \in Nat /\ TreeTypeOK
  BY PiecesAtIs DEF ShapeInv, TreeTypeOK
<1>2. d \in Nat /\ d <= height
  BY InTreeFacts DEF ShapeInv, AllInTree, WithinHeight
<1>3. Log2Ceil(P) \in Nat /\ P <= Pow2[Log2Ceil(P)]
  BY <1>1, Log2CeilIs
<1>4. height' = IF P > 1 /\ Log2Ceil(P) + d > height THEN Log2Ceil(P) + d ELSE height
  BY DEF Raised
<1> HIDE DEF P, d
<1>5. height' \in Nat /\ height <= height' /\ height' - d \in Nat
  BY <1>1, <1>2, <1>3, <1>4
<1>6. CASE P > 1
  <2>1. Log2Ceil(P) <= height' - d
    BY <1>1, <1>2, <1>3, <1>4, <1>6
  <2>2. Pow2[Log2Ceil(P)] <= Pow2[height' - d]
    BY <1>3, <1>5, <2>1, Pow2Grows
  <2>3. Pow2[Log2Ceil(P)] \in Nat /\ Pow2[height' - d] \in Nat
    BY <1>3, <1>5, Pow2Pos
  <2>4. QED
    BY <1>1, <1>2, <1>3, <1>5, <2>2, <2>3 DEF P, d
<1>7. CASE ~ (P > 1)
  <2>1. P = 1 /\ Pow2[height' - d] \in Nat /\ Pow2[height' - d] > height' - d
    BY <1>1, <1>5, <1>7, Pow2Pos
  <2>2. P <= Pow2[height' - d]
    BY <1>5, <2>1
  <2>3. QED
    BY <1>1, <1>2, <1>5, <2>2 DEF P, d
<1>8. QED
  BY <1>6, <1>7

LEMMA SplitShape ==
  ASSUME ShapeInv, TreeTypeOK', NEW h \in DOMAIN lists, Alone(h), Cut(h),
         lists' \in Seq(ListType), Raised(h)
  PROVE  ShapeInv'
<1> DEFINE P == PiecesAt(h)
           S(j) == Source(h, j)
           NewGroup(p) == {j \in DOMAIN lists' : lists'[j].above = p}
<1>1. /\ DOMAIN lists' = 1 .. Len(lists) + P - 1
      /\ \A j \in DOMAIN lists' :
           /\ S(j) \in DOMAIN lists /\ lists'[j].above = lists[S(j)].above
           /\ S(j) = h => j \in h .. h + P - 1
      /\ \A j, m \in DOMAIN lists' :
           /\ j < m => S(j) <= S(m)
           /\ S(j) = S(m) /\ S(j) # h => j = m
  BY SourceIs DEF ShapeInv
<1>2. /\ TreeTypeOK /\ AllInTree /\ Ascending /\ WithinHeight
      /\ P \in Nat \ {0} /\ h \in 1 .. Len(lists) /\ Len(lists) \in Nat
      /\ DOMAIN lists = 1 .. Len(lists)
  BY PiecesAtIs DEF ShapeInv
<1>3. /\ height \in Nat /\ height' \in Nat /\ height <= height'
      /\ lists[h].above.depth \in Nat /\ lists[h].above.depth <= height
      /\ P <= Pow2[height' - lists[h].above.depth]
  BY RaisedIs
<1> HIDE DEF S, P
<1>4. AllInTree'
  BY <1>1, <1>2 DEF AllInTree
<1>5. Ascending'
  <2>1. ASSUME NEW j \in DOMAIN lists', NEW m \in DOMAIN lists', j < m
        PROVE  lists'[j].above = lists'[m].above \/ LeftFrom(lists'[j].above, lists'[m].above)
    <3>1. /\ S(j) \in DOMAIN lists /\ S(m) \in DOMAIN lists /\ S(j) <= S(m)
          /\ lists'[j].above = lists[S(j)].above /\ lists'[m].above = lists[S(m)].above
      BY <1>1, <2>1
    <3>2. CASE S(j) < S(m)
      BY <1>2, <3>1, <3>2 DEF Ascending
    <3>3. CASE ~ (S(j) < S(m))
      <4>1. S(j) = S(m)
        BY <1>2, <3>1, <3>3
      <4>2. QED
        BY <3>1, <4>1
    <3>4. QED
      BY <3>2, <3>3
  <2>2. QED
    BY <2>1 DEF Ascending, LeftFrom, Span
<1>6. ASSUME NEW j \in DOMAIN lists'
      PROVE  /\ lists'[j].above.depth <= height'
             /\ Cardinality(NewGroup(lists'[j].above)) <= Pow2[height' - lists'[j].above.depth]
  <2> DEFINE p == lists'[j].above
             G == NewGroup(p)
  <2>1. S(j) \in DOMAIN lists /\ p = lists[S(j)].above
    BY <1>1
  <2>2. /\ p.depth \in Nat /\ p.depth <= height
        /\ Cardinality(Group(p)) <= Pow2[height - p.depth]
    BY <1>2, <2>1, InTreeFacts DEF AllInTree, WithinHeight
  <2>3. p.depth <= height' /\ height' - p.depth \in Nat /\ height - p.depth \in Nat
        /\ height - p.depth <= height' - p.depth
    BY <1>3, <2>2
  <2>4. CASE S(j) = h
    <3>1. G \subseteq h .. h + P - 1
      <4>1. ASSUME NEW m \in DOMAIN lists', lists'[m].above = p PROVE m \in h .. h + P - 1
        <5>1. lists[S(m)].above = lists[h].above /\ S(m) \in DOMAIN lists
          BY <1>1, <2>1, <2>4, <4>1
        <5>2. S(m) = h
          BY <5>1 DEF Alone
        <5>3. QED
          BY <1>1, <4>1, <5>2
      <4>2. QED
        BY <4>1
    <3>2. IsFiniteSet(h .. h + P - 1) /\ Cardinality(h .. h + P - 1) = P
      <4>1. h \in Int /\ h + P - 1 \in Int /\ ~ (h > h + P - 1) /\ (h + P - 1) - h + 1 = P
        BY <1>2
      <4>2. QED
        BY <4>1, FS_Interval
    <3> HIDE DEF G, p
    <3>3. IsFiniteSet(G) /\ Cardinality(G) <= P
      BY <3>1, <3>2, FS_Subset
    <3>4. Cardinality(G) \in Nat
      BY <3>3, FS_CardinalityType
    <3>5. P <= Pow2[height' - p.depth] /\ Pow2[height' - p.depth] \in Nat
      BY <1>3, <2>1, <2>3, <2>4, Pow2Pos
    <3>6. Cardinality(G) <= Pow2[height' - p.depth]
      BY <1>2, <3>3, <3>4, <3>5
    <3>7. QED
      BY <2>3, <3>6 DEF G, p
  <2>5. CASE S(j) # h
    <3>1. \A m \in G : S(m) \in Group(p) /\ S(m) # h
      <4>1. ASSUME NEW m \in DOMAIN lists', lists'[m].above = p
            PROVE  S(m) \in Group(p) /\ S(m) # h
        <5>1. S(m) \in DOMAIN lists /\ lists[S(m)].above = p
          BY <1>1, <4>1
        <5>2. S(m) # h
          BY <2>1, <2>5, <5>1 DEF Alone
        <5>3. QED
          BY <5>1, <5>2 DEF Group
      <4>2. QED
        BY <4>1
    <3>2. \A m, n \in G : S(m) = S(n) => m = n
      BY <1>1, <3>1
    <3> DEFINE f == [m \in G |-> S(m)]
    <3>3. f \in Injection(G, Group(p))
      <4>1. f \in [G -> Group(p)]
        BY <3>1
      <4>2. \A m, n \in G : f[m] = f[n] => m = n
        BY <3>2
      <4> HIDE DEF f, G, p
      <4>3. QED
        BY <4>1, <4>2 DEF Injection, IsInjective
    <3>4. IsFiniteSet(Group(p)) /\ Cardinality(Group(p)) \in Nat
      BY <1>2, Counted DEF Group
    <3> HIDE DEF f, G, p
    <3>5. IsFiniteSet(G) /\ Cardinality(G) <= Cardinality(Group(p))
      BY <3>3, <3>4, FS_Injection
    <3>6. Cardinality(G) \in Nat
      BY <3>5, FS_CardinalityType
    <3>7. /\ Pow2[height - p.depth] <= Pow2[height' - p.depth]
          /\ Pow2[height - p.depth] \in Nat /\ Pow2[height' - p.depth] \in Nat
      BY <2>3, Pow2Grows, Pow2Pos
    <3>8. Cardinality(G) <= Pow2[height' - p.depth]
      BY <2>2, <3>4, <3>5, <3>6, <3>7
    <3>9. QED
      BY <2>3, <3>8 DEF G, p
  <2>6. QED
    BY <2>4, <2>5
<1>7. WithinHeight'
  BY <1>6 DEF WithinHeight, Group
<1>8. QED
  BY <1>4, <1>5, <1>7 DEF ShapeInv

-----------------------------------------------------------------------------
(***************************************************************************)
(* The calls of the threads.                                               *)
(***************************************************************************)
Pending == {t \in Thread : base[t] # NoNode /\ new[t] = NoNode}

(* Nodes are numbered in the order of their insertion, and there is a      *)
(* number for every call that has still to link its node.                  *)
Numbered ==
  \E n \in 1 .. MaxNodes : Nodes = 1 .. n /\ n + Cardinality(Pending) <= MaxNodes

CallTypes ==
  /\ base \in [Thread -> Node \cup {NoNode}]
  /\ lab \in [Thread -> 0 .. MAX_LABEL]
  /\ new \in [Thread -> Node \cup {NoNode}]
  /\ todo \in [Thread -> Nat]

NoCall == {"idle", "lock_query", "asking"}
Linked == {"mark", "add", "unlock"}

(* Between GetLabel and Link the label stays the one to give.              *)
Call(t) ==
  /\ pc[t] \in NoCall => base[t] = NoNode /\ new[t] = NoNode
  /\ pc[t] \notin NoCall => base[t] \in Nodes
  /\ pc[t] \notin NoCall \cup Linked => new[t] = NoNode
  /\ pc[t] \in Linked /\ lab[t] = 0 => new[t] = NoNode
  /\ pc[t] = "link" =>
       lab[t] > 0 /\ \E b \in Nodes : b = base[t] /\ lab[t] = get_new_label(b)

OneBase == \A t, u \in Thread : t # u /\ base[t] = base[u] => base[t] = NoNode

CallInv == CallTypes /\ Numbered /\ OneBase /\ \A t \in Thread : Call(t)

-----------------------------------------------------------------------------
LEMMA PendingIs ==
  /\ IsFiniteSet(Thread) /\ IsFiniteSet(Pending) /\ Cardinality(Pending) \in Nat
  /\ \A S \in SUBSET Thread : IsFiniteSet(S) /\ Cardinality(S) \in Nat
<1>1. IsFiniteSet(Thread)
  <2>1. 1 \in Int /\ NUM_THREADS \in Int
    BY ThreadAssumption
  <2>2. QED
    BY <2>1, FS_Interval DEF Thread
<1>2. \A S \in SUBSET Thread : IsFiniteSet(S) /\ Cardinality(S) \in Nat
  BY <1>1, FS_Subset, FS_CardinalityType
<1>3. Pending \in SUBSET Thread
  BY DEF Pending
<1>4. QED
  BY <1>1, <1>2, <1>3

LEMMA NumberedIs ==
  ASSUME Numbered
  PROVE  /\ Cardinality(Nodes) \in 1 .. MaxNodes /\ Nodes = 1 .. Cardinality(Nodes)
         /\ Cardinality(Nodes) + Cardinality(Pending) <= MaxNodes
<1>1. PICK n \in 1 .. MaxNodes : Nodes = 1 .. n /\ n + Cardinality(Pending) <= MaxNodes
  BY DEF Numbered
<1>2. n \in Int /\ 1 \in Int /\ ~ (1 > n) /\ n - 1 + 1 = n
  BY LabelAssumption
<1>3. Cardinality(Nodes) = n
  BY <1>1, <1>2, FS_Interval
<1>4. QED
  BY <1>1, <1>3

(* The structure is as it was.                                             *)
Same == UNCHANGED <<treeVars, g_relabel_id>>

LEMMA SameLabels ==
  ASSUME LabelInv, Same
  PROVE  LabelInv' /\ Nodes' = Nodes /\ PlaceOrder' = PlaceOrder
<1>1. /\ lists' = lists /\ label' = label /\ m_heavy_nodes' = m_heavy_nodes
      /\ height' = height /\ g_relabel_id' = g_relabel_id
  BY DEF Same, treeVars
<1>2. TreeTypeOK /\ TreeTypeOK'
  BY <1>1 DEF LabelInv, ShapeInv, TreeTypeOK
<1>3. SameTree /\ SameNodes
  BY <1>1 DEF SameTree, SameNodes
<1>4. ShapeInv'
  BY <1>2, <1>3, SameShape DEF LabelInv
<1>5. PlacedOnce' /\ Nodes' = Nodes /\ PlaceOrder' = PlaceOrder
  BY <1>2, <1>3, SamePlaces DEF LabelInv
<1>6. Within'
  BY <1>1 DEF LabelInv, Within
<1>7. OneEach'
  BY <1>1 DEF LabelInv, OneEach
<1>8. QED
  BY <1>1, <1>4, <1>5, <1>6, <1>7 DEF LabelInv

LEMMA SamePlacesSameLabel ==
  ASSUME SameNodes, PlacedOnce, TreeTypeOK, TreeTypeOK', label' = label, NEW x \in Nodes
  PROVE  (get_new_label(x))' = get_new_label(x)
<1>1. /\ PlacedOnce' /\ Nodes' = Nodes
      /\ (ListOf(x))' = ListOf(x) /\ (Index(x))' = Index(x)
  BY SamePlaces
<1>2. \A y, i, k : AtNext(y, i, k) <=> At(y, i, k)
  BY DEF SameNodes, At, AtNext
<1>3. Follows(x)
  BY NextIs
<1>4. /\ \A y : At(y, ListOf(x), Index(x) + 1) =>
              (IsTail(x))' = FALSE /\ (NextLabel(x))' = label[y]
      /\ (\A y : ~ At(y, ListOf(x), Index(x) + 1)) =>
              (IsTail(x))' = TRUE /\ (NextLabel(x))' = MAX_LABEL
  BY <1>1, <1>2, NewNextIs
<1>5. (IsTail(x))' = IsTail(x) /\ (NextLabel(x))' = NextLabel(x)
  BY <1>3, <1>4 DEF Follows
<1>6. (get_new_label(x))' =
        IF Halfway(label'[x], (NextLabel(x))', (IsTail(x))') = label'[x] THEN 0
        ELSE Halfway(label'[x], (NextLabel(x))', (IsTail(x))')
  BY DEF get_new_label, Halfway
<1>7. QED
  BY <1>5, <1>6 DEF get_new_label

LEMMA SameGivesSameLabel ==
  ASSUME LabelInv, Same, NEW x \in Nodes
  PROVE  (get_new_label(x))' = get_new_label(x)
<1>1. lists' = lists /\ label' = label
  BY DEF Same, treeVars
<1>2. SameNodes /\ TreeTypeOK /\ TreeTypeOK' /\ PlacedOnce
  BY <1>1, SameLabels DEF SameNodes, LabelInv, ShapeInv
<1>3. QED
  BY <1>1, <1>2, SamePlacesSameLabel

(* A thread that does nothing keeps its call.                              *)
StillCall(u) ==
  pc'[u] = pc[u] /\ base'[u] = base[u] /\ new'[u] = new[u] /\ lab'[u] = lab[u]

LEMMA CallStays ==
  ASSUME NEW u \in Thread, Call(u), StillCall(u), Nodes \subseteq Nodes',
         pc[u] = "link" => \A x : x = base[u] => (get_new_label(x))' = get_new_label(x)
  PROVE  Call(u)'
BY DEF Call, StillCall

(* Steps between two points of a call, or between calls.                   *)
LEMMA CallsMove ==
  ASSUME CallInv, LockTypes, NEW t \in Thread, NEW from, NEW to \in PC, Goto(t, from, to),
         UNCHANGED <<base, lab, new>>, todo' \in [Thread -> Nat], Nodes' = Nodes,
         \A x \in Nodes : (get_new_label(x))' = get_new_label(x),
         from \in NoCall <=> to \in NoCall,
         to \notin NoCall \cup Linked => from \notin NoCall \cup Linked \/ lab[t] = 0,
         to \in Linked => from \in Linked,
         to # "link"
  PROVE  CallInv'
<1>1. /\ pc[t] = from /\ pc'[t] = to /\ \A u \in Thread \ {t} : pc'[u] = pc[u]
  BY DEF Goto, LockTypes
<1>2. base' = base /\ lab' = lab /\ new' = new
  OBVIOUS
<1>3. CallTypes' /\ OneBase'
  BY <1>2 DEF CallInv, CallTypes, OneBase
<1>4. Numbered'
  BY <1>2 DEF CallInv, Numbered, Pending
<1>5. ASSUME NEW u \in Thread PROVE Call(u)'
  <2>1. CASE u = t
    BY <1>1, <1>2, <2>1 DEF CallInv, Call, NoCall, Linked
  <2>2. CASE u # t
    <3>1. StillCall(u) /\ Call(u)
      BY <1>1, <1>2, <2>2 DEF StillCall, CallInv
    <3>2. pc[u] = "link" => base[u] \in Nodes
      BY <3>1 DEF Call, NoCall
    <3>3. QED
      BY <3>1, <3>2, CallStays
  <2>3. QED
    BY <2>1, <2>2
<1>6. QED
  BY <1>3, <1>4, <1>5 DEF CallInv

(* Steps at which no thread moves.                                         *)
LEMMA CallsStay ==
  ASSUME CallInv, LockTypes, UNCHANGED <<pc, localVars>>, Nodes' = Nodes,
         \A u \in Thread : pc[u] = "link" =>
           \A x \in Nodes : (get_new_label(x))' = get_new_label(x)
  PROVE  CallInv'
<1>1. pc' = pc /\ base' = base /\ lab' = lab /\ new' = new /\ todo' = todo
  BY DEF localVars
<1>2. CallTypes' /\ OneBase' /\ Numbered'
  BY <1>1 DEF CallInv, CallTypes, OneBase, Numbered, Pending
<1>3. ASSUME NEW u \in Thread PROVE Call(u)'
  <2>1. StillCall(u) /\ Call(u)
    BY <1>1 DEF StillCall, CallInv
  <2>2. pc[u] = "link" => base[u] \in Nodes
    BY <2>1 DEF Call, NoCall
  <2>3. QED
    BY <2>1, <2>2, CallStays
<1>4. QED
  BY <1>2, <1>3 DEF CallInv

LEMMA OthersStill ==
  ASSUME CallInv, LockTypes, NEW t \in Thread, NEW from, NEW to, Goto(t, from, to)
  PROVE  pc[t] = from /\ pc'[t] = to /\ \A u \in Thread \ {t} : pc'[u] = pc[u]
BY DEF Goto, LockTypes

LEMMA BeginInsertCalls ==
  ASSUME LabelInv, CallInv, LockTypes, NEW t \in Thread, NEW b \in Node, BeginInsert(t, b)
  PROVE  CallInv'
<1>1. /\ pc[t] = "idle" /\ pc'[t] = "lock" /\ \A u \in Thread \ {t} : pc'[u] = pc[u]
      /\ todo[t] > 0 /\ b \in Nodes
      /\ \A u \in Thread : b # base[u] /\ b # new[u]
      /\ Cardinality(Nodes) + Cardinality(Pending) < MaxNodes
      /\ base' = [base EXCEPT ![t] = b]
      /\ todo' = [todo EXCEPT ![t] = @ - 1]
      /\ lab' = lab /\ new' = new /\ Same
  BY DEF BeginInsert, Goto, LockTypes, Pending, Same, lockVars
<1>2. LabelInv' /\ Nodes' = Nodes
  BY <1>1, SameLabels
<1>3. /\ base \in [Thread -> Node \cup {NoNode}] /\ todo \in [Thread -> Nat]
      /\ Call(t) /\ base[t] = NoNode /\ new[t] = NoNode
  BY <1>1 DEF CallInv, CallTypes, Call, NoCall
<1>4. base'[t] = b /\ \A u \in Thread \ {t} : base'[u] = base[u]
  BY <1>1, <1>3
<1>5. CallTypes'
  <2>1. base' \in [Thread -> Node \cup {NoNode}]
    BY <1>1, <1>3
  <2>2. todo' \in [Thread -> Nat]
    BY <1>1, <1>3
  <2>3. QED
    BY <1>1, <2>1, <2>2 DEF CallInv, CallTypes
<1>6. OneBase'
  BY <1>1, <1>4 DEF CallInv, OneBase
<1>7. Numbered'
  <2>1. b # NoNode
    BY DEF Node, NoNode
  <2>2. Pending' = Pending \cup {t} /\ t \notin Pending
    BY <1>1, <1>3, <1>4, <2>1 DEF Pending
  <2>3. Cardinality(Pending \cup {t}) = Cardinality(Pending) + 1
    BY <2>2, PendingIs, FS_AddElement
  <2>4. Cardinality(Nodes) \in 1 .. MaxNodes /\ Nodes = 1 .. Cardinality(Nodes)
    BY NumberedIs DEF CallInv
  <2>5. Cardinality(Nodes) + (Cardinality(Pending) + 1) <= MaxNodes
    BY <1>1, <2>4, PendingIs, LabelAssumption
  <2>6. QED
    BY <1>2, <2>2, <2>3, <2>4, <2>5 DEF Numbered
<1>8. ASSUME NEW u \in Thread PROVE Call(u)'
  <2>1. CASE u = t
    BY <1>1, <1>2, <1>3, <1>4, <2>1 DEF Call, NoCall, Linked
  <2>2. CASE u # t
    <3>1. StillCall(u) /\ Call(u)
      BY <1>1, <1>4, <2>2 DEF StillCall, CallInv
    <3>2. \A x \in Nodes : (get_new_label(x))' = get_new_label(x)
      BY <1>1, SameGivesSameLabel
    <3>3. pc[u] = "link" => base[u] \in Nodes
      BY <3>1 DEF Call, NoCall
    <3>4. QED
      BY <1>2, <3>1, <3>2, <3>3, CallStays
  <2>3. QED
    BY <2>1, <2>2
<1>9. QED
  BY <1>5, <1>6, <1>7, <1>8 DEF CallInv

LEMMA GetLabelCalls ==
  ASSUME LabelInv, CallInv, LockTypes, NEW t \in Thread, GetLabel(t)
  PROVE  CallInv'
<1> DEFINE l == get_new_label(base[t])
<1>1. /\ pc[t] = "label" /\ pc'[t] = IF l > 0 THEN "link" ELSE "mark"
      /\ \A u \in Thread \ {t} : pc'[u] = pc[u]
      /\ lab' = [lab EXCEPT ![t] = l]
      /\ base' = base /\ todo' = todo /\ new' = new /\ Same
  BY DEF GetLabel, Goto, LockTypes, Same, lockVars
<1>2. LabelInv' /\ Nodes' = Nodes /\ \A x \in Nodes : (get_new_label(x))' = get_new_label(x)
  BY <1>1, SameLabels, SameGivesSameLabel
<1>3. base[t] \in Nodes /\ new[t] = NoNode
  BY <1>1 DEF CallInv, Call, NoCall, Linked
<1>4. l \in 0 .. MAX_LABEL /\ MAX_LABEL \in Nat
  BY <1>3, NewLabelIs, MaxIs DEF LabelInv, ShapeInv
<1>5. lab \in [Thread -> 0 .. MAX_LABEL]
  BY DEF CallInv, CallTypes
<1>6. l = get_new_label(base[t])
  OBVIOUS
<1> HIDE DEF l
<1>7. lab'[t] = l /\ \A u \in Thread \ {t} : lab'[u] = lab[u]
  BY <1>1, <1>5
<1>8. CallTypes' /\ OneBase'
  <2>1. lab' \in [Thread -> 0 .. MAX_LABEL]
    BY <1>1, <1>4, <1>5
  <2>2. QED
    BY <1>1, <2>1 DEF CallInv, CallTypes, OneBase
<1>9. Numbered'
  BY <1>1, <1>2 DEF CallInv, Numbered, Pending
<1>10. ASSUME NEW u \in Thread PROVE Call(u)'
  <2>1. CASE u = t
    <3>1. base'[t] \in Nodes' /\ new'[t] = NoNode
      BY <1>1, <1>2, <1>3
    <3>2. pc'[t] \in {"link", "mark"} /\ (pc'[t] = "link" => lab'[t] > 0)
      BY <1>1, <1>7
    <3>3. \E b \in Nodes : b = base'[t] /\ lab'[t] = (get_new_label(b))'
      BY <1>1, <1>2, <1>3, <1>6, <1>7
    <3>4. QED
      BY <1>2, <2>1, <3>1, <3>2, <3>3 DEF Call, NoCall, Linked
  <2>2. CASE u # t
    <3>1. StillCall(u) /\ Call(u)
      BY <1>1, <1>7, <2>2 DEF StillCall, CallInv
    <3>2. pc[u] = "link" => base[u] \in Nodes
      BY <3>1 DEF Call, NoCall
    <3>3. QED
      BY <1>2, <3>1, <3>2, CallStays
  <2>3. QED
    BY <2>1, <2>2
<1>11. QED
  BY <1>8, <1>9, <1>10 DEF CallInv

(* Link puts in a node that was not there, with a label that fits.         *)
LEMMA LinkIs ==
  ASSUME LabelInv, CallInv, NEW t \in Thread, Link(t)
  PROVE  /\ base[t] \in Nodes /\ Cardinality(Nodes) + 1 \in Node \ Nodes
         /\ get_new_label(base[t]) > 0
         /\ insert_internal(base[t], Cardinality(Nodes) + 1, get_new_label(base[t]))
         /\ g_relabel_id' = g_relabel_id
         /\ t \in Pending /\ pc[t] = "link"
         /\ Nodes = 1 .. Cardinality(Nodes) /\ Cardinality(Nodes) \in Nat \ {0}
         /\ Cardinality(Nodes) + Cardinality(Pending) <= MaxNodes
<1>1. pc[t] = "link" /\ insert_internal(base[t], Cardinality(Nodes) + 1, lab[t])
      /\ g_relabel_id' = g_relabel_id
  BY DEF Link, Goto, lockVars
<1>2. base[t] \in Nodes /\ lab[t] = get_new_label(base[t]) /\ lab[t] > 0 /\ new[t] = NoNode
  BY <1>1 DEF CallInv, Call, NoCall, Linked
<1>3. t \in Pending
  <2>1. base[t] \in Node
    BY <1>2, NodesInNode DEF LabelInv, ShapeInv
  <2>2. QED
    BY <1>2, <2>1 DEF Pending, Node, NoNode
<1>4. /\ Cardinality(Nodes) \in 1 .. MaxNodes /\ Nodes = 1 .. Cardinality(Nodes)
      /\ Cardinality(Nodes) + Cardinality(Pending) <= MaxNodes
  BY NumberedIs DEF CallInv
<1>5. Cardinality(Pending) # 0 /\ Cardinality(Pending) \in Nat
  BY <1>3, PendingIs, FS_EmptySet
<1>6. Cardinality(Nodes) + 1 \in Node \ Nodes
  <2> DEFINE n == Cardinality(Nodes)
  <2>1. n \in 1 .. MaxNodes /\ n + Cardinality(Pending) <= MaxNodes /\ MaxNodes \in Nat
    BY <1>4, LabelAssumption
  <2>2. n + 1 \in 1 .. MaxNodes /\ n + 1 \notin 1 .. n
    BY <1>5, <2>1
  <2>3. Nodes = 1 .. n
    BY <1>4
  <2> HIDE DEF n
  <2>4. n + 1 \in Node \ Nodes
    BY <2>2, <2>3 DEF Node
  <2>5. QED
    BY <2>4 DEF n
<1>7. Cardinality(Nodes) \in Nat \ {0}
  BY <1>4, LabelAssumption
<1>8. QED
  BY <1>1, <1>2, <1>3, <1>4, <1>6, <1>7

LEMMA LinkCalls ==
  ASSUME LabelInv, CallInv, LockTypes, NEW t \in Thread, Link(t)
  PROVE  CallInv'
<1> DEFINE n == Cardinality(Nodes) + 1
           b == base[t]
<1>1. /\ b \in Nodes /\ n \in Node \ Nodes /\ get_new_label(b) > 0
      /\ insert_internal(b, n, get_new_label(b)) /\ g_relabel_id' = g_relabel_id
      /\ t \in Pending /\ Nodes = 1 .. Cardinality(Nodes)
      /\ Cardinality(Nodes) \in Nat \ {0}
      /\ Cardinality(Nodes) + Cardinality(Pending) <= MaxNodes
  BY LinkIs
<1>2. /\ pc[t] = "link" /\ pc'[t] = "mark" /\ \A u \in Thread \ {t} : pc'[u] = pc[u]
      /\ new' = [new EXCEPT ![t] = n] /\ base' = base /\ lab' = lab /\ todo' = todo
  BY DEF Link, Goto, LockTypes
<1>3. TreeTypeOK /\ PlacedOnce /\ Within
  BY DEF LabelInv, ShapeInv
<1>4. /\ TreeTypeOK' /\ Nodes' = Nodes \cup {n}
  BY <1>1, <1>3, InsertAscends, InsertMoves
<1>5. \A x \in Nodes : x # b => (get_new_label(x))' = get_new_label(x)
  BY <1>1, <1>3, OtherLabelStays
<1>6. lab[t] > 0 /\ b # NoNode /\ n # NoNode /\ n \in Node
  BY <1>1, <1>2 DEF CallInv, Call, Pending, Node, NoNode
<1>7. new \in [Thread -> Node \cup {NoNode}]
  BY DEF CallInv, CallTypes
<1>8. base[t] = b
  OBVIOUS
<1>9. Numbered'
  <2> DEFINE c == Cardinality(Nodes)
  <2>1. /\ c \in Nat \ {0} /\ n = c + 1 /\ n \in Node /\ Nodes = 1 .. c
        /\ c + Cardinality(Pending) <= MaxNodes
    BY <1>1, <1>6
  <2>2. Nodes' = 1 .. n
    <3> HIDE DEF c, n
    <3>1. 1 .. n = 1 .. c \cup {n}
      BY <2>1
    <3>2. QED
      BY <1>4, <2>1, <3>1
  <2> HIDE DEF n, b, c
  <2>3. Pending' = Pending \ {t}
    BY <1>2, <1>6, <1>7 DEF Pending
  <2>4. Cardinality(Pending \ {t}) = Cardinality(Pending) - 1 /\ Cardinality(Pending) \in Nat
    BY <1>1, PendingIs, FS_RemoveElement
  <2>5. n + Cardinality(Pending') <= MaxNodes
    BY <2>1, <2>3, <2>4, LabelAssumption
  <2>6. n \in 1 .. MaxNodes
    BY <2>1 DEF Node
  <2>7. QED
    BY <2>2, <2>5, <2>6 DEF Numbered
<1> HIDE DEF n, b
<1>10. CallTypes' /\ OneBase'
  <2>1. new' \in [Thread -> Node \cup {NoNode}]
    BY <1>2, <1>6, <1>7
  <2>2. QED
    BY <1>2, <2>1 DEF CallInv, CallTypes, OneBase
<1>11. ASSUME NEW u \in Thread PROVE Call(u)'
  <2>1. CASE u = t
    BY <1>1, <1>2, <1>4, <1>6, <1>8, <2>1 DEF Call, NoCall, Linked
  <2>2. CASE u # t
    <3>1. StillCall(u) /\ Call(u)
      BY <1>2, <1>7, <2>2 DEF StillCall, CallInv
    <3>2. pc[u] = "link" => base[u] \in Nodes /\ base[u] # b
      <4>1. SUFFICES ASSUME pc[u] = "link" PROVE base[u] \in Nodes /\ base[u] # b
        OBVIOUS
      <4>2. base[u] \in Nodes
        BY <3>1, <4>1 DEF Call, NoCall
      <4>3. QED
        BY <1>6, <1>8, <2>2, <4>2 DEF CallInv, OneBase
    <3>3. Nodes \subseteq Nodes'
      BY <1>4
    <3>4. QED
      BY <1>5, <3>1, <3>2, <3>3, CallStays
  <2>3. QED
    BY <2>1, <2>2
<1>12. QED
  BY <1>9, <1>10, <1>11 DEF CallInv

LEMMA ReturnCalls ==
  ASSUME LabelInv, CallInv, LockTypes, NEW t \in Thread, Return(t)
  PROVE  CallInv'
<1>1. /\ pc[t] = "unlock" /\ pc'[t] = "idle" /\ \A u \in Thread \ {t} : pc'[u] = pc[u]
      /\ base' = [base EXCEPT ![t] = NoNode] /\ new' = [new EXCEPT ![t] = NoNode]
      /\ lab' = lab /\ todo' = todo /\ Same
  BY DEF Return, Goto, LockTypes, Same
<1>2. Nodes' = Nodes /\ \A x \in Nodes : (get_new_label(x))' = get_new_label(x)
  BY <1>1, SameLabels, SameGivesSameLabel
<1>3. base \in [Thread -> Node \cup {NoNode}] /\ new \in [Thread -> Node \cup {NoNode}]
  BY DEF CallInv, CallTypes
<1>4. /\ base'[t] = NoNode /\ new'[t] = NoNode
      /\ \A u \in Thread \ {t} : base'[u] = base[u] /\ new'[u] = new[u]
  BY <1>1, <1>3
<1>5. CallTypes'
  <2>1. base' \in [Thread -> Node \cup {NoNode}] /\ new' \in [Thread -> Node \cup {NoNode}]
    BY <1>1, <1>3
  <2>2. QED
    BY <1>1, <2>1 DEF CallInv, CallTypes
<1>6. OneBase'
  BY <1>4 DEF CallInv, OneBase
<1>7. Numbered'
  <2>1. Pending' \in SUBSET Pending
    BY <1>4 DEF Pending
  <2>2. Cardinality(Pending') <= Cardinality(Pending) /\ IsFiniteSet(Pending')
    BY <2>1, PendingIs, FS_Subset
  <2>3. Cardinality(Pending') \in Nat
    BY <2>2, FS_CardinalityType
  <2>4. /\ Cardinality(Nodes) \in 1 .. MaxNodes /\ Nodes = 1 .. Cardinality(Nodes)
        /\ Cardinality(Nodes) + Cardinality(Pending) <= MaxNodes
    BY NumberedIs DEF CallInv
  <2>5. Cardinality(Nodes) + Cardinality(Pending') <= MaxNodes
    BY <2>2, <2>3, <2>4, PendingIs, LabelAssumption
  <2>6. QED
    BY <1>2, <2>4, <2>5 DEF Numbered
<1>8. ASSUME NEW u \in Thread PROVE Call(u)'
  <2>1. CASE u = t
    BY <1>1, <1>4, <2>1 DEF Call, NoCall, Linked
  <2>2. CASE u # t
    <3>1. StillCall(u) /\ Call(u)
      BY <1>1, <1>4, <2>2 DEF StillCall, CallInv
    <3>2. pc[u] = "link" => base[u] \in Nodes
      BY <3>1 DEF Call, NoCall
    <3>3. QED
      BY <1>2, <3>1, <3>2, CallStays
  <2>3. QED
    BY <2>1, <2>2
<1>9. QED
  BY <1>5, <1>6, <1>7, <1>8 DEF CallInv

-----------------------------------------------------------------------------
(***************************************************************************)
(* The heavy sublists: one that is marked shares its leaf with no other    *)
(* one, and its leaf is queued once, or its thread is about to queue it.   *)
(***************************************************************************)
HeavyAlone ==
  \A i, j \in DOMAIN lists : lists[i].heavy /\ lists[i].above = lists[j].above => i = j

Queued ==
  /\ \A k \in DOMAIN m_heavy_nodes :
       \E i \in DOMAIN lists : lists[i].heavy /\ lists[i].above = m_heavy_nodes[k]
  /\ \A k, m \in DOMAIN m_heavy_nodes : m_heavy_nodes[k] = m_heavy_nodes[m] => k = m

(* Sublist i is that of the base of t, which is about to queue its leaf.   *)
Adds(t, i) == pc[t] = "add" /\ \E k : At(base[t], i, k)

Adders ==
  /\ \A t \in Thread, i \in DOMAIN lists : Adds(t, i) =>
       lists[i].heavy /\ \A k \in DOMAIN m_heavy_nodes : m_heavy_nodes[k] # lists[i].above
  /\ \A t, u \in Thread, i \in DOMAIN lists : Adds(t, i) /\ Adds(u, i) => t = u

QueueInv == HeavyAlone /\ Queued /\ Adders

Flag == g_relabel_id = 1 <=> \E t \in Thread : pc[t] = "relabel"

StructureInv == LabelInv /\ CallInv /\ QueueInv /\ Flag

-----------------------------------------------------------------------------
LEMMA QueueMove ==
  ASSUME QueueInv, SameTree, \A i \in DOMAIN lists : lists'[i].heavy = lists[i].heavy,
         m_heavy_nodes' = m_heavy_nodes,
         \A u \in Thread : \A i, k :
           pc'[u] = "add" /\ AtNext(base'[u], i, k) => Adds(u, i)
  PROVE  QueueInv'
<1>1. DOMAIN lists' = DOMAIN lists
  BY DEF SameTree
<1>2. HeavyAlone'
  BY <1>1 DEF SameTree, QueueInv, HeavyAlone
<1>3. Queued'
  BY <1>1 DEF SameTree, QueueInv, Queued
<1>4. \A u \in Thread, i \in DOMAIN lists : Adds(u, i)' => Adds(u, i)
  BY DEF Adds, At, AtNext
<1>5. Adders'
  BY <1>1, <1>4 DEF SameTree, QueueInv, Adders
<1>6. QED
  BY <1>2, <1>3, <1>5 DEF QueueInv

(* No step to "add": the bases of the threads stay where they are.         *)
LEMMA SameQueue ==
  ASSUME QueueInv, Same,
         \A u \in Thread : pc'[u] = "add" => pc[u] = "add" /\ base'[u] = base[u]
  PROVE  QueueInv'
<1>1. lists' = lists /\ m_heavy_nodes' = m_heavy_nodes /\ height' = height
  BY DEF Same, treeVars
<1>2. SameTree /\ \A i \in DOMAIN lists : lists'[i].heavy = lists[i].heavy
  BY <1>1 DEF SameTree
<1>3. ASSUME NEW u \in Thread, NEW i, NEW k, pc'[u] = "add", AtNext(base'[u], i, k)
      PROVE  Adds(u, i)
  BY <1>1, <1>3 DEF Adds, At, AtNext
<1>4. QED
  BY <1>1, <1>2, <1>3, QueueMove

LEMMA SameFlag ==
  ASSUME Flag, g_relabel_id' = g_relabel_id,
         \A u \in Thread : pc'[u] = "relabel" <=> pc[u] = "relabel"
  PROVE  Flag'
BY DEF Flag

(* While a thread uses labels, no two sublists have the same leaf.         *)
LEMMA Calm ==
  ASSUME LockInv, StructureInv, NEW t \in Thread, pc[t] \in UsesLabels
  PROVE  /\ g_relabel_id = 0
         /\ \A i, j \in DOMAIN lists : lists[i].above = lists[j].above => i = j
         /\ \A u \in Thread : pc[u] # "relabel"
<1>1. \A u \in Thread : pc[u] # "relabel"
  BY DEF LockInv, HoldsOwn, HoldsAll, UsesLabels
<1>2. g_relabel_id = 0
  BY <1>1 DEF StructureInv, Flag, LabelInv
<1>3. QED
  BY <1>1, <1>2 DEF StructureInv, LabelInv, OneEach

LEMMA Busy ==
  ASSUME LockInv, StructureInv, NEW t \in Thread, pc[t] = "relabel"
  PROVE  /\ g_relabel_id = 1
         /\ \A u \in Thread : u # t => pc[u] \notin UsesLabels \cup {"relabel"}
         /\ \A u \in Thread : pc[u] # "add" /\ pc[u] # "link"
<1>1. \A u \in Thread : u # t => pc[u] \notin UsesLabels \cup {"relabel"}
  BY DEF LockInv, HoldsOwn, HoldsAll, UsesLabels
<1>2. g_relabel_id = 1
  BY DEF StructureInv, Flag
<1>3. QED
  BY <1>1, <1>2 DEF UsesLabels

(* What every step but Link does.                                          *)
Quiet == StructureInv' /\ Nodes' = Nodes /\ PlaceOrder' = PlaceOrder

LEMMA SameQuiet ==
  ASSUME StructureInv, Same, CallInv',
         \A u \in Thread : pc'[u] = "add" => pc[u] = "add" /\ base'[u] = base[u],
         \A u \in Thread : pc'[u] = "relabel" <=> pc[u] = "relabel"
  PROVE  Quiet
<1>1. LabelInv' /\ Nodes' = Nodes /\ PlaceOrder' = PlaceOrder
  BY SameLabels DEF StructureInv
<1>2. QueueInv'
  BY SameQueue DEF StructureInv
<1>3. g_relabel_id' = g_relabel_id
  BY DEF Same
<1>4. Flag'
  BY <1>3, SameFlag DEF StructureInv
<1>5. QED
  BY <1>1, <1>2, <1>4 DEF Quiet, StructureInv

(* Steps of the locks and the calls, which leave the structure alone.      *)
LEMMA MoveQuiet ==
  ASSUME StructureInv, LockTypes, Same, NEW t \in Thread, NEW from, NEW to \in PC, Goto(t, from, to),
         UNCHANGED <<base, lab, new>>, todo' \in [Thread -> Nat],
         from \in NoCall <=> to \in NoCall,
         to \notin NoCall \cup Linked => from \notin NoCall \cup Linked \/ lab[t] = 0,
         to \in Linked => from \in Linked,
         to \notin {"link", "add", "relabel"}, from # "relabel"
  PROVE  Quiet
<1>1. LabelInv /\ CallInv
  BY DEF StructureInv
<1>2. Nodes' = Nodes /\ \A x \in Nodes : (get_new_label(x))' = get_new_label(x)
  BY <1>1, SameLabels, SameGivesSameLabel
<1>3. CallInv'
  BY <1>1, <1>2, CallsMove
<1>4. pc[t] = from /\ pc'[t] = to /\ \A u \in Thread \ {t} : pc'[u] = pc[u]
  BY <1>1, OthersStill
<1>5. QED
  BY <1>3, <1>4, SameQuiet

LEMMA StayQuiet ==
  ASSUME StructureInv, LockTypes, Same, UNCHANGED <<pc, localVars>>
  PROVE  Quiet
<1>1. LabelInv /\ CallInv
  BY DEF StructureInv
<1>2. Nodes' = Nodes /\ \A x \in Nodes : (get_new_label(x))' = get_new_label(x)
  BY <1>1, SameLabels, SameGivesSameLabel
<1>3. CallInv'
  BY <1>1, <1>2, CallsStay
<1>4. QED
  BY <1>3, SameQuiet DEF localVars

LEMMA CallStepsQuiet ==
  ASSUME StructureInv, LockTypes, NEW t \in Thread,
         GetLabel(t) \/ Return(t) \/ \E b \in Node : BeginInsert(t, b)
  PROVE  Quiet
<1>1. LabelInv /\ CallInv
  BY DEF StructureInv
<1>2. CASE GetLabel(t)
  <2>1. CallInv' /\ Same
    BY <1>1, <1>2, GetLabelCalls DEF GetLabel, Same, lockVars
  <2>2. /\ pc'[t] \in {"link", "mark"} /\ pc[t] = "label" /\ \A u \in Thread \ {t} : pc'[u] = pc[u]
        /\ base' = base
    BY <1>1, <1>2, OthersStill DEF GetLabel
  <2>3. QED
    BY <2>1, <2>2, SameQuiet
<1>3. CASE Return(t)
  <2>1. CallInv' /\ Same
    BY <1>1, <1>3, ReturnCalls DEF Return, Same
  <2>2. /\ pc'[t] = "idle" /\ pc[t] = "unlock" /\ \A u \in Thread \ {t} : pc'[u] = pc[u]
        /\ base' = [base EXCEPT ![t] = NoNode]
        /\ base \in [Thread -> Node \cup {NoNode}]
    BY <1>1, <1>3, OthersStill DEF Return, CallInv, CallTypes
  <2>3. \A u \in Thread \ {t} : base'[u] = base[u]
    BY <2>2
  <2>4. QED
    BY <2>1, <2>2, <2>3, SameQuiet
<1>4. CASE \E b \in Node : BeginInsert(t, b)
  <2>0. PICK b \in Node : BeginInsert(t, b)
    BY <1>4
  <2>1. CallInv' /\ Same
    BY <1>1, <2>0, BeginInsertCalls DEF BeginInsert, Same, lockVars
  <2>2. /\ pc'[t] = "lock" /\ pc[t] = "idle" /\ \A u \in Thread \ {t} : pc'[u] = pc[u]
        /\ base' = [base EXCEPT ![t] = b]
        /\ base \in [Thread -> Node \cup {NoNode}]
    BY <1>1, <2>0, OthersStill DEF BeginInsert, CallInv, CallTypes
  <2>3. \A u \in Thread \ {t} : base'[u] = base[u]
    BY <2>2
  <2>4. QED
    BY <2>1, <2>2, <2>3, SameQuiet
<1>5. QED
  BY <1>2, <1>3, <1>4

LEMMA LockStepsQuiet ==
  ASSUME StructureInv, LockTypes, NEW t \in Thread,
         \/ BeginQuery(t) \/ LockOwn(t) \/ UnlockQuery(t) \/ GiveUp(t)
         \/ Join(t) \/ LockGlobal(t) \/ UnlockGlobal(t)
         \/ \E i \in Thread : Collect(t, i) \/ Release(t, i)
  PROVE  Quiet
<1>1. todo \in [Thread -> Nat]
  BY DEF StructureInv, CallInv, CallTypes
<1>2. CASE BeginQuery(t)
  <2>1. /\ Goto(t, "idle", "lock_query") /\ todo[t] > 0 /\ todo' = [todo EXCEPT ![t] = @ - 1]
        /\ UNCHANGED <<base, lab, new>> /\ Same
    BY <1>2 DEF BeginQuery, Same, lockVars
  <2>2. todo' \in [Thread -> Nat]
    BY <1>1, <2>1
  <2>3. QED
    BY <2>1, <2>2, MoveQuiet DEF NoCall, Linked, PC
<1>3. CASE LockOwn(t)
  <2>1. /\ Goto(t, "lock", "label") \/ Goto(t, "lock_query", "asking")
        /\ UNCHANGED <<base, lab, new>> /\ Same /\ todo' \in [Thread -> Nat]
    BY <1>1, <1>3 DEF LockOwn, Same, localVars
  <2>2. QED
    BY <2>1, MoveQuiet DEF NoCall, Linked, PC
<1>4. CASE UnlockQuery(t)
  <2>1. /\ Goto(t, "asking", "idle")
        /\ UNCHANGED <<base, lab, new>> /\ Same /\ todo' \in [Thread -> Nat]
    BY <1>1, <1>4 DEF UnlockQuery, Same, localVars
  <2>2. QED
    BY <2>1, MoveQuiet DEF NoCall, Linked, PC
<1>5. CASE GiveUp(t)
  <2>1. /\ Goto(t, "unlock", "join") /\ lab[t] = 0
        /\ UNCHANGED <<base, lab, new>> /\ Same /\ todo' \in [Thread -> Nat]
    BY <1>1, <1>5 DEF GiveUp, Same, localVars
  <2>2. QED
    BY <2>1, MoveQuiet DEF NoCall, Linked, PC
<1>6. CASE Join(t)
  <2>1. /\ Goto(t, "join", "lock") \/ Goto(t, "join", "global")
        /\ UNCHANGED <<base, lab, new>> /\ Same /\ todo' \in [Thread -> Nat]
    BY <1>1, <1>6 DEF Join, Same, localVars, lockVars
  <2>2. QED
    BY <2>1, MoveQuiet DEF NoCall, Linked, PC
<1>7. CASE LockGlobal(t)
  <2>1. /\ Goto(t, "global", "collect")
        /\ UNCHANGED <<base, lab, new>> /\ Same /\ todo' \in [Thread -> Nat]
    BY <1>1, <1>7 DEF LockGlobal, Same, localVars
  <2>2. QED
    BY <2>1, MoveQuiet DEF NoCall, Linked, PC
<1>8. CASE UnlockGlobal(t)
  <2>1. /\ Goto(t, "release", "lock")
        /\ UNCHANGED <<base, lab, new>> /\ Same /\ todo' \in [Thread -> Nat]
    BY <1>1, <1>8 DEF UnlockGlobal, Same, localVars
  <2>2. QED
    BY <2>1, MoveQuiet DEF NoCall, Linked, PC
<1>9. CASE \E i \in Thread : Collect(t, i) \/ Release(t, i)
  <2>1. Same /\ UNCHANGED <<pc, localVars>>
    BY <1>9 DEF Collect, Release, Same
  <2>2. QED
    BY <2>1, StayQuiet
<1>10. QED
  BY <1>2, <1>3, <1>4, <1>5, <1>6, <1>7, <1>8, <1>9

(* The structure stays, and its labels are given out or not any more.      *)
LEMMA TurnFlag ==
  ASSUME LabelInv, UNCHANGED treeVars, g_relabel_id' \in {0, 1}, OneEach'
  PROVE  /\ LabelInv' /\ Nodes' = Nodes /\ PlaceOrder' = PlaceOrder
         /\ \A x \in Nodes : (get_new_label(x))' = get_new_label(x)
<1>1. /\ lists' = lists /\ label' = label /\ m_heavy_nodes' = m_heavy_nodes
      /\ height' = height
  BY DEF treeVars
<1>2. TreeTypeOK /\ TreeTypeOK' /\ PlacedOnce
  BY <1>1 DEF LabelInv, ShapeInv, TreeTypeOK
<1>3. SameTree /\ SameNodes
  BY <1>1 DEF SameTree, SameNodes
<1>4. ShapeInv'
  BY <1>2, <1>3, SameShape DEF LabelInv
<1>5. PlacedOnce' /\ Nodes' = Nodes /\ PlaceOrder' = PlaceOrder
  BY <1>2, <1>3, SamePlaces
<1>6. Within'
  BY <1>1 DEF LabelInv, Within
<1>7. \A x \in Nodes : (get_new_label(x))' = get_new_label(x)
  BY <1>1, <1>2, <1>3, SamePlacesSameLabel
<1>8. QED
  BY <1>4, <1>5, <1>6, <1>7 DEF LabelInv

LEMMA TurnQueue ==
  ASSUME QueueInv, UNCHANGED treeVars,
         \A u \in Thread : pc'[u] = "add" => pc[u] = "add" /\ base'[u] = base[u]
  PROVE  QueueInv'
<1>1. lists' = lists /\ m_heavy_nodes' = m_heavy_nodes /\ height' = height
  BY DEF treeVars
<1>2. SameTree /\ \A i \in DOMAIN lists : lists'[i].heavy = lists[i].heavy
  BY <1>1 DEF SameTree
<1>3. ASSUME NEW u \in Thread, NEW i, NEW k, pc'[u] = "add", AtNext(base'[u], i, k)
      PROVE  Adds(u, i)
  BY <1>1, <1>3 DEF Adds, At, AtNext
<1>4. QED
  BY <1>1, <1>2, <1>3, QueueMove

LEMMA BeginRelabelQuiet ==
  ASSUME StructureInv, LockTypes, NEW t \in Thread, BeginRelabel(t)
  PROVE  Quiet
<1>1. /\ Goto(t, "collect", "relabel") /\ g_relabel_id' = 1
      /\ UNCHANGED treeVars /\ UNCHANGED <<base, lab, new>> /\ todo' = todo
  BY DEF BeginRelabel, localVars
<1>2. pc[t] = "collect" /\ pc'[t] = "relabel" /\ \A u \in Thread \ {t} : pc'[u] = pc[u]
  BY <1>1, OthersStill DEF StructureInv
<1>3. OneEach'
  BY <1>1 DEF OneEach
<1>4. /\ LabelInv' /\ Nodes' = Nodes /\ PlaceOrder' = PlaceOrder
      /\ \A x \in Nodes : (get_new_label(x))' = get_new_label(x)
  BY <1>1, <1>3, TurnFlag DEF StructureInv
<1>5. todo' \in [Thread -> Nat]
  BY <1>1 DEF StructureInv, CallInv, CallTypes
<1>6. CallInv'
  BY <1>1, <1>4, <1>5, CallsMove DEF StructureInv, NoCall, Linked, PC
<1>7. QueueInv'
  BY <1>1, <1>2, TurnQueue DEF StructureInv
<1>8. Flag'
  BY <1>1, <1>2 DEF Flag
<1>9. QED
  BY <1>4, <1>6, <1>7, <1>8 DEF Quiet, StructureInv

LEMMA EndRelabelQuiet ==
  ASSUME LockInv, StructureInv, NEW t \in Thread, EndRelabel(t)
  PROVE  Quiet
<1>1. /\ Goto(t, "relabel", "release") /\ ~ needs_rebalance(Root) /\ g_relabel_id' = 0
      /\ UNCHANGED treeVars /\ UNCHANGED <<base, lab, new>> /\ todo' = todo
  BY DEF EndRelabel, localVars
<1>2. pc[t] = "relabel" /\ pc'[t] = "release" /\ \A u \in Thread \ {t} : pc'[u] = pc[u]
  BY <1>1, OthersStill DEF StructureInv, LockInv
<1>3. OneEach'
  <2>1. Under(Root) = DOMAIN lists
    BY UnderRoot DEF StructureInv, LabelInv, ShapeInv
  <2>2. \A i, j \in DOMAIN lists : lists[i].above = lists[j].above => i = j
    BY <1>1, <2>1 DEF needs_rebalance
  <2>3. lists' = lists
    BY <1>1 DEF treeVars
  <2>4. QED
    BY <2>2, <2>3 DEF OneEach
<1>4. /\ LabelInv' /\ Nodes' = Nodes /\ PlaceOrder' = PlaceOrder
      /\ \A x \in Nodes : (get_new_label(x))' = get_new_label(x)
  BY <1>1, <1>3, TurnFlag DEF StructureInv
<1>5. todo' \in [Thread -> Nat]
  BY <1>1 DEF StructureInv, CallInv, CallTypes
<1>6. CallInv'
  BY <1>1, <1>4, <1>5, CallsMove DEF StructureInv, LockInv, NoCall, Linked, PC
<1>7. QueueInv'
  BY <1>1, <1>2, TurnQueue DEF StructureInv
<1>8. Flag'
  <2>1. \A u \in Thread : u # t => pc[u] # "relabel"
    BY <1>2, Busy
  <2>2. QED
    BY <1>1, <1>2, <2>1 DEF Flag
<1>9. QED
  BY <1>4, <1>6, <1>7, <1>8 DEF Quiet, StructureInv

-----------------------------------------------------------------------------
LEMMA MarkQuiet ==
  ASSUME LockInv, StructureInv, NEW t \in Thread, Mark(t)
  PROVE  Quiet
<1> DEFINE i == ListOf(base[t])
           mark == (lab[t] = 0 \/ is_heavy(new[t])) /\ ~ lists[i].heavy
<1>1. /\ Goto(t, "mark", IF mark THEN "add" ELSE "unlock")
      /\ lists' = [lists EXCEPT ![i].heavy = @ \/ mark]
      /\ label' = label /\ m_heavy_nodes' = m_heavy_nodes /\ height' = height
      /\ UNCHANGED <<base, lab, new>> /\ todo' = todo /\ g_relabel_id' = g_relabel_id
  BY DEF Mark, localVars, lockVars
<1>2. /\ pc[t] = "mark" /\ pc'[t] = (IF mark THEN "add" ELSE "unlock")
      /\ \A u \in Thread \ {t} : pc'[u] = pc[u]
  BY <1>1, OthersStill DEF StructureInv, LockInv
<1>3. /\ LabelInv /\ CallInv /\ QueueInv /\ TreeTypeOK /\ PlacedOnce
      /\ HeavyAlone /\ Queued /\ Adders
  BY DEF StructureInv, LabelInv, ShapeInv, QueueInv
<1>4. base[t] \in Nodes
  BY <1>2, <1>3 DEF CallInv, Call, NoCall
<1>5. Placed(base[t]) /\ i \in DOMAIN lists
  BY <1>3, <1>4, PlacesAre DEF Placed, At
<1>6. /\ g_relabel_id = 0
      /\ \A j, m \in DOMAIN lists : lists[j].above = lists[m].above => j = m
      /\ \A u \in Thread : pc[u] # "relabel"
  BY <1>2, Calm DEF UsesLabels
<1>7. \A j \in DOMAIN lists : lists[j] \in ListType
  BY <1>3, ListsAre DEF ListType
<1>8. \A k, j : At(base[t], j, k) => j = i
  BY <1>5 DEF Placed
<1>9. mark => ~ lists[i].heavy
  OBVIOUS
<1>10. mark \in BOOLEAN
  OBVIOUS
<1> HIDE DEF i, mark
<1>11. /\ DOMAIN lists' = DOMAIN lists
       /\ \A j \in DOMAIN lists :
            /\ lists'[j] \in ListType
            /\ lists'[j].nodes = lists[j].nodes /\ lists'[j].above = lists[j].above
            /\ lists'[j].heavy <=> lists[j].heavy \/ (j = i /\ mark)
  <2>1. /\ DOMAIN lists' = DOMAIN lists
        /\ \A j \in DOMAIN lists : j # i => lists'[j] = lists[j]
        /\ lists'[i] = [lists[i] EXCEPT !.heavy = @ \/ mark]
    BY <1>1, <1>5
  <2>2. lists[i] \in ListType
    BY <1>5, <1>7
  <2>3. /\ lists'[i] \in ListType /\ lists'[i].nodes = lists[i].nodes
        /\ lists'[i].above = lists[i].above
        /\ lists'[i].heavy = (lists[i].heavy \/ mark)
    BY <2>1, <2>2 DEF ListType
  <2>4. QED
    BY <1>7, <2>1, <2>3
<1>12. TreeTypeOK'
  <2>1. DOMAIN lists = 1 .. Len(lists) /\ Len(lists) \in Nat
    BY <1>3, ListsAre
  <2> DEFINE f == [j \in 1 .. Len(lists) |-> lists'[j]]
  <2>2. lists' = f
    BY <1>1, <2>1
  <2>3. f \in Seq(ListType)
    BY <1>11, <2>1
  <2>4. lists' \in Seq(ListType)
    BY <2>2, <2>3
  <2>5. QED
    BY <1>1, <1>3, <2>4 DEF TreeTypeOK, ListType
<1>13. SameNodes /\ SameTree
  BY <1>1, <1>11 DEF SameNodes, SameTree
<1>14. /\ PlacedOnce' /\ Nodes' = Nodes /\ PlaceOrder' = PlaceOrder
       /\ \A x \in Nodes : (get_new_label(x))' = get_new_label(x)
  BY <1>1, <1>3, <1>12, <1>13, SamePlaces, SamePlacesSameLabel
<1>15. LabelInv'
  <2>1. ShapeInv'
    BY <1>3, <1>12, <1>13, SameShape DEF LabelInv
  <2>2. Within'
    BY <1>1, <1>3, <1>11 DEF LabelInv, Within
  <2>3. OneEach'
    BY <1>6, <1>11 DEF OneEach
  <2>4. QED
    BY <1>1, <1>3, <1>14, <2>1, <2>2, <2>3 DEF LabelInv
<1>16. CallInv'
  <2>1. todo' \in [Thread -> Nat]
    BY <1>1, <1>3 DEF CallInv, CallTypes
  <2>2. LockTypes
    BY DEF LockInv
  <2>3. CASE mark
    <3>1. Goto(t, "mark", "add")
      BY <1>1, <2>3
    <3>2. QED
      BY <1>1, <1>3, <1>14, <2>1, <2>2, <3>1, CallsMove DEF NoCall, Linked, PC
  <2>4. CASE ~ mark
    <3>1. Goto(t, "mark", "unlock")
      BY <1>1, <2>4
    <3>2. QED
      BY <1>1, <1>3, <1>14, <2>1, <2>2, <3>1, CallsMove DEF NoCall, Linked, PC
  <2>5. QED
    BY <2>3, <2>4
<1>17. HeavyAlone'
  BY <1>6, <1>11 DEF HeavyAlone
<1>18. Queued'
  BY <1>1, <1>3, <1>11 DEF Queued
<1>19. Adders'
  <2>1. \A u \in Thread, j \in DOMAIN lists : u # t /\ Adds(u, j)' => Adds(u, j)
    BY <1>1, <1>2, <1>11 DEF Adds, At
  <2>2. \A j \in DOMAIN lists : Adds(t, j)' => j = i /\ mark
    BY <1>1, <1>2, <1>8, <1>11 DEF Adds, At
  <2>3. mark => \A k \in DOMAIN m_heavy_nodes : m_heavy_nodes[k] # lists[i].above
    BY <1>3, <1>5, <1>6, <1>9 DEF Queued
  <2>4. ASSUME NEW u \in Thread, NEW j \in DOMAIN lists, Adds(u, j)'
        PROVE  /\ lists'[j].heavy
               /\ \A k \in DOMAIN m_heavy_nodes : m_heavy_nodes[k] # lists[j].above
    <3>1. CASE u = t
      BY <1>11, <2>2, <2>3, <2>4, <3>1
    <3>2. CASE u # t
      BY <1>3, <1>11, <2>1, <2>4, <3>2 DEF Adders
    <3>3. QED
      BY <3>1, <3>2
  <2>5. ASSUME NEW u \in Thread, NEW v \in Thread, NEW j \in DOMAIN lists, Adds(u, j)', Adds(v, j)'
        PROVE  u = v
    <3>1. CASE u = t /\ v # t
      <4>1. j = i /\ mark /\ Adds(v, i)
        BY <2>1, <2>2, <2>5, <3>1
      <4>2. lists[i].heavy
        BY <1>3, <1>5, <4>1 DEF Adders
      <4>3. QED
        BY <1>9, <4>1, <4>2
    <3>2. CASE u # t /\ v = t
      <4>1. j = i /\ mark /\ Adds(u, i)
        BY <2>1, <2>2, <2>5, <3>2
      <4>2. lists[i].heavy
        BY <1>3, <1>5, <4>1 DEF Adders
      <4>3. QED
        BY <1>9, <4>1, <4>2
    <3>3. CASE u # t /\ v # t
      BY <1>3, <2>1, <2>5, <3>3 DEF Adders
    <3>4. QED
      BY <3>1, <3>2, <3>3
  <2>6. QED
    BY <1>1, <1>11, <2>4, <2>5 DEF Adders
<1>20. Flag'
  <2>1. \A u \in Thread : pc'[u] # "relabel"
    BY <1>2, <1>6
  <2>2. QED
    BY <1>1, <1>6, <2>1 DEF Flag
<1>21. QED
  BY <1>14, <1>15, <1>16, <1>17, <1>18, <1>19, <1>20 DEF Quiet, StructureInv, QueueInv

LEMMA AddQuiet ==
  ASSUME LockInv, StructureInv, NEW t \in Thread, Add(t)
  PROVE  Quiet
<1> DEFINE i == ListOf(base[t])
<1>1. /\ Goto(t, "add", "unlock") /\ m_heavy_nodes' = Append(m_heavy_nodes, lists[i].above)
      /\ lists' = lists /\ label' = label /\ height' = height
      /\ UNCHANGED <<base, lab, new>> /\ todo' = todo /\ g_relabel_id' = g_relabel_id
  BY DEF Add, add_heavy, localVars, lockVars
<1>2. /\ pc[t] = "add" /\ pc'[t] = "unlock" /\ \A u \in Thread \ {t} : pc'[u] = pc[u]
  BY <1>1, OthersStill DEF StructureInv, LockInv
<1>3. /\ LabelInv /\ CallInv /\ QueueInv /\ TreeTypeOK /\ PlacedOnce
      /\ HeavyAlone /\ Queued /\ Adders
  BY DEF StructureInv, LabelInv, ShapeInv, QueueInv
<1>4. base[t] \in Nodes
  BY <1>2, <1>3 DEF CallInv, Call, NoCall
<1>5. Placed(base[t]) /\ i \in DOMAIN lists /\ At(base[t], i, Index(base[t]))
  BY <1>3, <1>4, PlacesAre DEF Placed, At
<1>6. /\ g_relabel_id = 0
      /\ \A j, m \in DOMAIN lists : lists[j].above = lists[m].above => j = m
      /\ \A u \in Thread : pc[u] # "relabel"
  BY <1>2, Calm DEF UsesLabels
<1>7. Adds(t, i)
  BY <1>2, <1>5 DEF Adds
<1>8. lists[i].heavy /\ \A k \in DOMAIN m_heavy_nodes : m_heavy_nodes[k] # lists[i].above
  BY <1>3, <1>5, <1>7 DEF Adders
<1>9. lists[i].above \in TreeNode /\ m_heavy_nodes \in Seq(TreeNode)
  BY <1>3, <1>5, SublistIs DEF TreeTypeOK
<1> HIDE DEF i
<1> DEFINE n == Len(m_heavy_nodes)
<1>10. /\ m_heavy_nodes' \in Seq(TreeNode)
       /\ n \in Nat /\ DOMAIN m_heavy_nodes = 1 .. n /\ DOMAIN m_heavy_nodes' = 1 .. n + 1
       /\ \A k \in 1 .. n : m_heavy_nodes'[k] = m_heavy_nodes[k]
       /\ m_heavy_nodes'[n + 1] = lists[i].above
  BY <1>1, <1>9
<1> HIDE DEF n
<1>11. TreeTypeOK' /\ SameNodes /\ SameTree
  BY <1>1, <1>3, <1>10 DEF TreeTypeOK, SameNodes, SameTree
<1>12. /\ PlacedOnce' /\ Nodes' = Nodes /\ PlaceOrder' = PlaceOrder
       /\ \A x \in Nodes : (get_new_label(x))' = get_new_label(x)
  BY <1>1, <1>3, <1>11, SamePlaces, SamePlacesSameLabel
<1>13. LabelInv'
  <2>1. ShapeInv'
    BY <1>3, <1>11, SameShape DEF LabelInv
  <2>2. Within' /\ OneEach'
    BY <1>1, <1>3 DEF LabelInv, Within, OneEach
  <2>3. QED
    BY <1>1, <1>3, <1>12, <2>1, <2>2 DEF LabelInv
<1>14. CallInv'
  <2>1. todo' \in [Thread -> Nat] /\ LockTypes
    BY <1>1, <1>3 DEF CallInv, CallTypes, LockInv
  <2>2. QED
    BY <1>1, <1>3, <1>12, <2>1, CallsMove DEF NoCall, Linked, PC
<1>15. HeavyAlone'
  BY <1>1, <1>3 DEF HeavyAlone
<1>16. Queued'
  <2>1. ASSUME NEW k \in 1 .. n + 1
        PROVE  \E j \in DOMAIN lists : lists[j].heavy /\ lists[j].above = m_heavy_nodes'[k]
    <3>1. CASE k \in 1 .. n
      BY <1>3, <1>10, <3>1 DEF Queued
    <3>2. CASE k = n + 1
      BY <1>5, <1>8, <1>10, <3>2
    <3>3. QED
      BY <1>10, <3>1, <3>2
  <2>2. ASSUME NEW k \in 1 .. n + 1, NEW m \in 1 .. n + 1, m_heavy_nodes'[k] = m_heavy_nodes'[m]
        PROVE  k = m
    <3>1. k \in 1 .. n \/ k = n + 1
      BY <1>10
    <3>2. m \in 1 .. n \/ m = n + 1
      BY <1>10
    <3>3. QED
      BY <1>3, <1>8, <1>10, <2>2, <3>1, <3>2 DEF Queued
  <2>3. QED
    BY <1>1, <1>10, <2>1, <2>2 DEF Queued
<1>17. Adders'
  <2>1. \A u \in Thread, j \in DOMAIN lists : Adds(u, j)' => u # t /\ Adds(u, j)
    BY <1>1, <1>2 DEF Adds, At
  <2>2. ASSUME NEW u \in Thread, NEW j \in DOMAIN lists, Adds(u, j)', NEW k \in 1 .. n + 1
        PROVE  m_heavy_nodes'[k] # lists[j].above
    <3>1. u # t /\ Adds(u, j)
      BY <2>1, <2>2
    <3>2. CASE k \in 1 .. n
      BY <1>3, <1>10, <3>1, <3>2 DEF Adders
    <3>3. CASE k = n + 1
      <4>1. j # i
        BY <1>3, <1>5, <1>7, <3>1 DEF Adders
      <4>2. QED
        BY <1>5, <1>6, <1>10, <3>3, <4>1
    <3>4. QED
      BY <1>10, <3>2, <3>3
  <2>3. QED
    BY <1>1, <1>3, <1>10, <2>1, <2>2 DEF Adders
<1>18. Flag'
  <2>1. \A u \in Thread : pc'[u] # "relabel"
    BY <1>2, <1>6
  <2>2. QED
    BY <1>1, <1>6, <2>1 DEF Flag
<1>19. QED
  BY <1>12, <1>13, <1>14, <1>15, <1>16, <1>17, <1>18 DEF Quiet, StructureInv, QueueInv

LEMMA SplitQuiet ==
  ASSUME LockInv, StructureInv, NEW t \in Thread, Split(t)
  PROVE  Quiet
<1> DEFINE leaf == Head(m_heavy_nodes)
<1>1. /\ pc[t] = "relabel" /\ m_heavy_nodes # <<>> /\ split(leaf)
      /\ m_heavy_nodes' = Tail(m_heavy_nodes)
      /\ UNCHANGED <<pc, localVars>> /\ g_relabel_id' = g_relabel_id
  BY DEF Split, lockVars
<1>2. /\ LabelInv /\ ShapeInv /\ CallInv /\ QueueInv /\ TreeTypeOK /\ PlacedOnce /\ Within
      /\ HeavyAlone /\ Queued /\ Adders
  BY DEF StructureInv, LabelInv, ShapeInv, QueueInv
<1>3. /\ g_relabel_id = 1 /\ \A u \in Thread : pc[u] # "add" /\ pc[u] # "link"
  BY <1>1, Busy
<1>4. m_heavy_nodes \in Seq(TreeNode)
  BY <1>2 DEF TreeTypeOK
<1>5. /\ leaf = m_heavy_nodes[1] /\ Len(m_heavy_nodes) \in Nat \ {0}
      /\ DOMAIN m_heavy_nodes = 1 .. Len(m_heavy_nodes)
      /\ m_heavy_nodes' \in Seq(TreeNode)
      /\ DOMAIN m_heavy_nodes' = 1 .. Len(m_heavy_nodes) - 1
      /\ \A k \in 1 .. Len(m_heavy_nodes) - 1 : m_heavy_nodes'[k] = m_heavy_nodes[k + 1]
  <2>1. /\ leaf = m_heavy_nodes[1] /\ Len(m_heavy_nodes) \in Nat \ {0}
        /\ DOMAIN m_heavy_nodes = 1 .. Len(m_heavy_nodes)
    BY <1>1, <1>4, EmptySeq
  <2>2. /\ Tail(m_heavy_nodes) \in Seq(TreeNode)
        /\ Len(Tail(m_heavy_nodes)) = Len(m_heavy_nodes) - 1
        /\ \A k \in 1 .. Len(m_heavy_nodes) - 1 : Tail(m_heavy_nodes)[k] = m_heavy_nodes[k + 1]
    BY <1>1, <1>4, <2>1, HeadTailProperties
  <2>3. QED
    BY <1>1, <2>1, <2>2
<1>6. PICK h \in DOMAIN lists : lists[h].heavy /\ lists[h].above = leaf
  <2>1. 1 \in DOMAIN m_heavy_nodes
    BY <1>5
  <2>2. QED
    BY <1>2, <1>5, <2>1 DEF Queued
<1> HIDE DEF leaf
<1>7. Alone(h) /\ split(lists[h].above)
  BY <1>1, <1>2, <1>6 DEF HeavyAlone, Alone
<1>8. Cut(h) /\ lists' \in Seq(ListType) /\ Relabelled(h) /\ Raised(h)
  BY <1>2, <1>7, SplitIs DEF Relabelled, Raised
<1>9. TreeTypeOK'
  <2>1. label' \in [Node -> 0 .. MAX_LABEL]
    BY <1>2, <1>8, RelabelledIs
  <2>2. height' \in Nat
    BY <1>2, <1>8, RaisedIs
  <2>3. QED
    BY <1>5, <1>8, <2>1, <2>2 DEF TreeTypeOK, ListType
<1>10. PlacedOnce' /\ Nodes' = Nodes /\ PlaceOrder' = PlaceOrder
  BY <1>2, <1>8, <1>9, SplitMoves
<1>11. LabelInv'
  <2>1. Within'
    BY <1>2, <1>8, SplitAscends
  <2>2. ShapeInv'
    BY <1>2, <1>7, <1>8, <1>9, SplitShape
  <2>3. OneEach' /\ g_relabel_id' \in {0, 1}
    BY <1>1, <1>3 DEF OneEach
  <2>4. QED
    BY <1>10, <2>1, <2>2, <2>3 DEF LabelInv
<1>12. CallInv'
  BY <1>1, <1>2, <1>3, <1>10, CallsStay DEF LockInv
<1>13. /\ \A j \in DOMAIN lists' :
            /\ Source(h, j) \in DOMAIN lists
            /\ lists'[j].above = lists[Source(h, j)].above
            /\ lists'[j].heavy = (Source(h, j) # h /\ lists[Source(h, j)].heavy)
       /\ \A j, m \in DOMAIN lists' :
            Source(h, j) = Source(h, m) /\ Source(h, j) # h => j = m
       /\ \A i \in DOMAIN lists : \E j \in DOMAIN lists' : Source(h, j) = i
  BY <1>2, <1>8, SourceIs
<1>14. HeavyAlone'
  <2>1. ASSUME NEW j \in DOMAIN lists', NEW m \in DOMAIN lists', lists'[j].heavy,
               lists'[j].above = lists'[m].above
        PROVE  j = m
    <3>1. /\ Source(h, j) \in DOMAIN lists /\ Source(h, m) \in DOMAIN lists
          /\ Source(h, j) # h /\ lists[Source(h, j)].heavy
          /\ lists[Source(h, j)].above = lists[Source(h, m)].above
      BY <1>13, <2>1
    <3>2. Source(h, j) = Source(h, m)
      BY <1>2, <3>1 DEF HeavyAlone
    <3>3. QED
      BY <1>13, <3>1, <3>2
  <2>2. QED
    BY <2>1 DEF HeavyAlone
<1>15. Queued'
  <2> DEFINE n == Len(m_heavy_nodes)
  <2>1. ASSUME NEW k \in 1 .. n - 1
        PROVE  \E j \in DOMAIN lists' : lists'[j].heavy /\ lists'[j].above = m_heavy_nodes'[k]
    <3>1. /\ k + 1 \in DOMAIN m_heavy_nodes /\ 1 \in DOMAIN m_heavy_nodes /\ k + 1 # 1
          /\ m_heavy_nodes'[k] = m_heavy_nodes[k + 1]
      BY <1>5
    <3>2. PICK i \in DOMAIN lists : lists[i].heavy /\ lists[i].above = m_heavy_nodes[k + 1]
      BY <1>2, <3>1 DEF Queued
    <3>3. i # h
      BY <1>2, <1>5, <1>6, <3>1, <3>2 DEF Queued
    <3>4. PICK j \in DOMAIN lists' : Source(h, j) = i
      BY <1>13
    <3>5. lists'[j].heavy = (i # h /\ lists[i].heavy) /\ lists'[j].above = lists[i].above
      BY <1>13, <3>4
    <3>6. QED
      BY <3>1, <3>2, <3>3, <3>5
  <2>2. ASSUME NEW k \in 1 .. n - 1, NEW m \in 1 .. n - 1, m_heavy_nodes'[k] = m_heavy_nodes'[m]
        PROVE  k = m
    <3>1. k + 1 \in DOMAIN m_heavy_nodes /\ m + 1 \in DOMAIN m_heavy_nodes
      BY <1>5
    <3>2. k + 1 = m + 1
      BY <1>2, <1>5, <2>2, <3>1 DEF Queued
    <3>3. QED
      BY <1>5, <3>2
  <2>3. QED
    BY <1>5, <2>1, <2>2 DEF Queued
<1>16. \A u \in Thread : pc'[u] # "add"
  BY <1>1, <1>3
<1>17. Adders'
  BY <1>16 DEF Adders, Adds
<1>18. Flag'
  BY <1>1, SameFlag DEF StructureInv
<1>19. QED
  BY <1>10, <1>11, <1>12, <1>14, <1>15, <1>17, <1>18 DEF Quiet, StructureInv, QueueInv

LEMMA RebalanceQuiet ==
  ASSUME LockInv, StructureInv, NEW t \in Thread, Rebalance(t)
  PROVE  Quiet
<1>1. /\ pc[t] = "relabel" /\ m_heavy_nodes = <<>> /\ num_leaves(Root) <= MAX_LABEL + 1
      /\ om_rebalance /\ label' = label /\ m_heavy_nodes' = m_heavy_nodes
      /\ height' = height /\ UNCHANGED <<pc, localVars>> /\ g_relabel_id' = g_relabel_id
  BY DEF Rebalance, lockVars
<1>2. /\ LabelInv /\ ShapeInv /\ CallInv /\ QueueInv /\ TreeTypeOK /\ PlacedOnce /\ Within
      /\ AllInTree /\ HeavyAlone /\ Queued /\ Adders
  BY DEF StructureInv, LabelInv, ShapeInv, QueueInv
<1>3. /\ g_relabel_id = 1 /\ \A u \in Thread : pc[u] # "add" /\ pc[u] # "link"
  BY <1>1, Busy
<1>4. PICK i \in DOMAIN lists : \E d \in 0 .. lists[i].above.depth :
        /\ rebuilds(Ancestor(lists[i].above, d))
        /\ \A c \in 0 .. d - 1 : ~ rebuilds(Ancestor(lists[i].above, c))
        /\ rebuild(Ancestor(lists[i].above, d))
  BY <1>1 DEF om_rebalance
<1>5. PICK d \in 0 .. lists[i].above.depth :
        /\ rebuilds(Ancestor(lists[i].above, d))
        /\ \A c \in 0 .. d - 1 : ~ rebuilds(Ancestor(lists[i].above, c))
        /\ rebuild(Ancestor(lists[i].above, d))
  BY <1>4
<1> DEFINE p == Ancestor(lists[i].above, d)
<1>6. WayDown(i, d)
  BY <1>5 DEF WayDown, rebuilds
<1>7. PICK e \in Nat : num_leaves(p) <= Pow2[e] /\ d + e <= MAX_LEVEL /\ d + e <= height
  BY <1>1, <1>2, <1>6, RoomOnWay
<1>8. InTree(p) /\ p.depth = d /\ Inside(lists[i].above, p)
  BY <1>2, AncestorIs DEF AllInTree
<1>9. i \in Under(p)
  BY <1>2, <1>8, UnderIs
<1>10. rebuild(p)
  BY <1>5
<1> HIDE DEF p
<1>11. Rebuilt(p, e) /\ lists' \in Seq(ListType)
  BY <1>2, <1>7, <1>8, <1>9, <1>10, RebuildIs DEF ListType
<1>12. TreeTypeOK'
  BY <1>1, <1>2, <1>11 DEF TreeTypeOK, ListType
<1>13. ShapeInv'
  <2>1. AllInTree' /\ Ascending' /\ WithinHeight'
    BY <1>1, <1>2, <1>7, <1>8, <1>11, RebuiltShape DEF ListType
  <2>2. QED
    BY <1>12, <2>1 DEF ShapeInv
<1>14. SameNodes
  BY <1>11 DEF Rebuilt, SameNodes
<1>15. PlacedOnce' /\ Nodes' = Nodes /\ PlaceOrder' = PlaceOrder
  BY <1>2, <1>12, <1>14, SamePlaces
<1>16. LabelInv'
  <2>1. Within'
    BY <1>1, <1>2, <1>14 DEF Within, SameNodes
  <2>2. OneEach' /\ g_relabel_id' \in {0, 1}
    BY <1>1, <1>3 DEF OneEach
  <2>3. QED
    BY <1>13, <1>15, <2>1, <2>2 DEF LabelInv
<1>17. CallInv'
  BY <1>1, <1>2, <1>3, <1>15, CallsStay DEF LockInv
<1>18. HeavyAlone'
  <2>1. /\ DOMAIN lists' = DOMAIN lists
        /\ \A j \in DOMAIN lists : lists'[j].heavy = lists[j].heavy
    BY <1>11 DEF Rebuilt
  <2>2. \A j, m \in DOMAIN lists : j # m /\ lists'[j].above = lists'[m].above
          => lists[j].above = lists[m].above
    BY <1>2, <1>8, <1>11, RebuiltShares
  <2>3. QED
    BY <1>2, <2>1, <2>2 DEF HeavyAlone
<1>19. Queued'
  <2>1. DOMAIN m_heavy_nodes' = {}
    BY <1>1
  <2>2. QED
    BY <2>1 DEF Queued
<1>20. \A u \in Thread : pc'[u] # "add"
  BY <1>1, <1>3
<1>21. Adders'
  BY <1>20 DEF Adders, Adds
<1>22. Flag'
  BY <1>1, SameFlag DEF StructureInv
<1>23. QED
  BY <1>15, <1>16, <1>17, <1>18, <1>19, <1>21, <1>22 DEF Quiet, StructureInv, QueueInv

-----------------------------------------------------------------------------
LEMMA LinkKeeps ==
  ASSUME LockInv, StructureInv, NEW t \in Thread, Link(t)
  PROVE  /\ StructureInv' /\ base[t] \in Nodes /\ Cardinality(Nodes) + 1 \in Node \ Nodes
         /\ Nodes' = Nodes \cup {Cardinality(Nodes) + 1}
         /\ PlaceOrder' = List!InsertedAfter(PlaceOrder, base[t], Cardinality(Nodes) + 1)
<1> DEFINE n == Cardinality(Nodes) + 1
           b == base[t]
<1>1. /\ LabelInv /\ ShapeInv /\ CallInv /\ QueueInv /\ TreeTypeOK /\ PlacedOnce /\ Within
  BY DEF StructureInv, LabelInv, ShapeInv
<1>2. /\ b \in Nodes /\ n \in Node \ Nodes /\ get_new_label(b) > 0
      /\ insert_internal(b, n, get_new_label(b)) /\ g_relabel_id' = g_relabel_id
  BY <1>1, LinkIs
<1>3. CallInv'
  BY <1>1, LinkCalls DEF LockInv
<1>4. /\ pc[t] = "link" /\ pc'[t] = "mark" /\ \A u \in Thread \ {t} : pc'[u] = pc[u]
      /\ base' = base
  BY DEF Link, Goto, LockInv, LockTypes
<1> HIDE DEF n, b
<1>5. LabelInv' /\ SameTree /\ \A i \in DOMAIN lists : lists'[i].heavy = lists[i].heavy
  BY <1>1, <1>2, InsertKeepsLabels
<1>6. TreeTypeOK'
  BY <1>5 DEF LabelInv, ShapeInv
<1>7. Nodes' = Nodes \cup {n}
  BY <1>1, <1>2, <1>6, InsertMoves
<1>8. PlaceOrder' = List!InsertedAfter(PlaceOrder, b, n)
  BY <1>1, <1>2, <1>6, InsertOrders
<1>9. QueueInv'
  <2>1. ASSUME NEW u \in Thread, NEW i, NEW k, pc'[u] = "add", AtNext(base'[u], i, k)
        PROVE  Adds(u, i)
    <3>1. u # t /\ pc[u] = "add" /\ base'[u] = base[u]
      BY <1>4, <2>1
    <3>2. base[u] \in Nodes
      BY <1>1, <3>1 DEF CallInv, Call, NoCall
    <3>3. base[u] # n
      BY <1>2, <3>2
    <3>4. Placed(b)
      BY <1>1, <1>2, PlacesAre
    <3>5. \E m : At(base[u], i, m)
      BY <1>1, <1>2, <2>1, <3>1, <3>3, <3>4, InsertedPlaces
    <3>6. QED
      BY <3>1, <3>5 DEF Adds
  <2>2. m_heavy_nodes' = m_heavy_nodes
    BY <1>2 DEF insert_internal
  <2>3. QED
    BY <1>1, <1>5, <2>1, <2>2, QueueMove
<1>10. Flag'
  BY <1>2, <1>4, SameFlag DEF StructureInv
<1>11. StructureInv'
  BY <1>3, <1>5, <1>9, <1>10 DEF StructureInv
<1>12. QED
  BY <1>2, <1>7, <1>8, <1>11 DEF n, b

-----------------------------------------------------------------------------
LEMMA InitStructure == Init => StructureInv /\ Nodes = {1} /\ Order = {}
<1>1. SUFFICES ASSUME Init PROVE StructureInv /\ Nodes = {1} /\ Order = {}
  OBVIOUS
<1>2. /\ lists = <<[nodes |-> <<1>>, heavy |-> FALSE, above |-> Root]>>
      /\ label = [n \in Node |-> 0] /\ m_heavy_nodes = <<>> /\ height = 0
      /\ g_relabel_id = 0
  BY <1>1 DEF Init, TreeInit, Sublist
<1>3. DOMAIN lists = {1} /\ lists[1].nodes = <<1>> /\ lists[1].above = Root /\ ~ lists[1].heavy
  BY <1>2
<1>4. InTree(Root) /\ MAX_LABEL \in Nat /\ 1 \in Node /\ Root.depth = 0
  BY RootInTree, MaxIs, LabelAssumption DEF Node, Root, Leaf
<1>5. TreeTypeOK
  <2>1. Root \in TreeNode
    BY <1>4 DEF InTree
  <2>2. <<1>> \in Seq(Node) \ {<<>>}
    BY <1>4
  <2>3. [nodes |-> <<1>>, heavy |-> FALSE, above |-> Root] \in ListType
    BY <2>1, <2>2 DEF ListType
  <2>4. lists \in Seq(ListType)
    BY <1>2, <2>3
  <2>5. label \in [Node -> 0 .. MAX_LABEL]
    BY <1>2, <1>4
  <2>6. QED
    BY <1>2, <2>4, <2>5 DEF TreeTypeOK, ListType
<1>6. AllInTree /\ Ascending /\ Within /\ OneEach
  BY <1>3, <1>4 DEF AllInTree, Ascending, Within, OneEach
<1>7. WithinHeight
  <2>1. Group(Root) = {1}
    BY <1>3 DEF Group
  <2>2. Cardinality(Group(Root)) = 1
    BY <2>1, FS_Singleton
  <2>3. Pow2[0 - 0] = 1
    BY Pow2Is
  <2>4. QED
    BY <1>2, <1>3, <1>4, <2>2, <2>3 DEF WithinHeight
<1>8. \A x, i, k : At(x, i, k) <=> i = 1 /\ k = 1 /\ x = 1
  BY <1>3 DEF At
<1>9. PlacedOnce /\ Nodes = {1}
  <2>1. PlacedOnce
    BY <1>8 DEF PlacedOnce
  <2>2. QED
    BY <1>8, <2>1, NodesAre
<1>10. LabelInv
  BY <1>2, <1>5, <1>6, <1>7, <1>9 DEF LabelInv, ShapeInv
<1>11. Order = {}
  <2>1. Placed(1)
    BY <1>5, <1>9, PlacesAre
  <2>2. ~ LeftOf(1, 1)
    BY <2>1 DEF LeftOf, Placed
  <2>3. PlaceOrder = {}
    BY <1>9, <2>2 DEF PlaceOrder
  <2>4. QED
    BY <1>10, <2>3, OrderIs
<1>12. /\ pc = [t \in Thread |-> "idle"] /\ base = [t \in Thread |-> NoNode]
       /\ lab = [t \in Thread |-> 0] /\ new = [t \in Thread |-> NoNode]
       /\ todo \in [Thread -> 0 .. MaxCalls]
  BY <1>1 DEF Init
<1>13. CallInv
  <2>1. CallTypes
    BY <1>4, <1>12, ThreadAssumption DEF CallTypes
  <2>2. Pending = {}
    BY <1>12 DEF Pending
  <2>3. Cardinality({}) = 0
    BY FS_EmptySet
  <2>4. 1 \in 1 .. MaxNodes /\ 1 .. 1 = {1} /\ 1 + 0 <= MaxNodes
    BY LabelAssumption
  <2>5. Numbered
    BY <1>9, <2>2, <2>3, <2>4 DEF Numbered
  <2>6. OneBase
    BY <1>12 DEF OneBase
  <2>7. \A t \in Thread : Call(t)
    BY <1>12 DEF Call, NoCall, Linked
  <2>8. QED
    BY <2>1, <2>5, <2>6, <2>7 DEF CallInv
<1>14. QueueInv
  <2>1. HeavyAlone
    BY <1>3 DEF HeavyAlone
  <2>2. Queued
    BY <1>2 DEF Queued
  <2>3. Adders
    BY <1>12 DEF Adders, Adds
  <2>4. QED
    BY <2>1, <2>2, <2>3 DEF QueueInv
<1>15. Flag
  BY <1>2, <1>12 DEF Flag
<1>16. QED
  BY <1>9, <1>10, <1>11, <1>13, <1>14, <1>15 DEF StructureInv

-----------------------------------------------------------------------------
(***************************************************************************)
(* Every step keeps the structure in shape.  A step that links a node      *)
(* inserts it in the abstract list, every other one leaves the list alone. *)
(***************************************************************************)
LEMMA QuietSteps ==
  ASSUME LockInv, StructureInv, [Next]_vars, ~ \E t \in Thread : Link(t)
  PROVE  Quiet
<1>1. LockTypes
  BY DEF LockInv
<1>2. ASSUME NEW t \in Thread, Step(t) PROVE Quiet
  <2>1. CASE GetLabel(t) \/ Return(t)
    BY <1>1, <2>1, CallStepsQuiet
  <2>2. CASE \/ LockOwn(t) \/ UnlockQuery(t) \/ GiveUp(t)
             \/ Join(t) \/ LockGlobal(t) \/ UnlockGlobal(t)
             \/ \E i \in Thread : Collect(t, i) \/ Release(t, i)
    BY <1>1, <2>2, LockStepsQuiet
  <2>3. CASE Mark(t)
    BY <2>3, MarkQuiet
  <2>4. CASE Add(t)
    BY <2>4, AddQuiet
  <2>5. CASE BeginRelabel(t)
    BY <1>1, <2>5, BeginRelabelQuiet
  <2>6. CASE Split(t)
    BY <2>6, SplitQuiet
  <2>7. CASE Rebalance(t)
    BY <2>7, RebalanceQuiet
  <2>8. CASE EndRelabel(t)
    BY <2>8, EndRelabelQuiet
  <2>9. QED
    BY <1>2, <2>1, <2>2, <2>3, <2>4, <2>5, <2>6, <2>7, <2>8 DEF Step
<1>3. ASSUME NEW t \in Thread, BeginQuery(t) \/ \E b \in Node : BeginInsert(t, b)
      PROVE  Quiet
  BY <1>1, <1>3, LockStepsQuiet, CallStepsQuiet
<1>4. CASE UNCHANGED vars
  <2>1. Same /\ UNCHANGED <<pc, localVars>>
    BY <1>4 DEF vars, Same, lockVars
  <2>2. QED
    BY <1>1, <2>1, StayQuiet
<1>5. QED
  BY <1>2, <1>3, <1>4 DEF Next, Idle

LEMMA NextKeepsStructure ==
  ASSUME LockInv, StructureInv, [Next]_vars
  PROVE  StructureInv' /\ (List!Next \/ UNCHANGED <<Nodes, Order>>)
<1>1. Order = PlaceOrder
  BY OrderIs DEF StructureInv
<1>2. StructureInv' => Order' = PlaceOrder'
  BY OrderIsNext DEF StructureInv
<1>3. CASE \E t \in Thread : Link(t)
  <2>1. PICK t \in Thread : Link(t)
    BY <1>3
  <2> DEFINE b == base[t]
             n == Cardinality(Nodes) + 1
  <2>2. /\ StructureInv' /\ b \in Nodes /\ n \in Node \ Nodes
        /\ Nodes' = Nodes \cup {n} /\ PlaceOrder' = List!InsertedAfter(PlaceOrder, b, n)
    BY <2>1, LinkKeeps
  <2>3. Order' = List!InsertedAfter(Order, b, n)
    BY <1>1, <1>2, <2>2
  <2> HIDE DEF b, n
  <2>4. List!Insert(b, n)
    BY <2>2, <2>3 DEF List!Insert
  <2>5. QED
    BY <2>2, <2>4 DEF List!Next
<1>4. CASE ~ \E t \in Thread : Link(t)
  <2>1. Quiet
    BY <1>4, QuietSteps
  <2>2. StructureInv' /\ Nodes' = Nodes /\ PlaceOrder' = PlaceOrder
    BY <2>1 DEF Quiet
  <2>3. QED
    BY <1>1, <1>2, <2>2
<1>5. QED
  BY <1>3, <1>4

LEMMA StructureInvariant == Spec => []StructureInv
<1>1. Init => StructureInv
  BY InitStructure
<1>2. LockInv /\ StructureInv /\ [Next]_vars => StructureInv'
  BY NextKeepsStructure
<1>3. QED
  BY <1>1, <1>2, LockInvariant, PTL DEF Spec

(***************************************************************************)
(* Labels stay within their width, a tree never has more levels than a     *)
(* label has bits, sublists are never empty and every variable has its     *)
(* type, whatever the calls of the threads.                                *)
(***************************************************************************)
THEOREM TypesHold == Spec => []TypeOK
<1>1. LockInv /\ StructureInv => TypeOK
  BY DEF LockInv, LockTypes, StructureInv, LabelInv, ShapeInv, CallInv, CallTypes, TypeOK
<1>2. QED
  BY <1>1, LockInvariant, StructureInvariant, PTL

(***************************************************************************)
(* The structure implements the abstract list: no comparison tells the     *)
(* labels, however often the sublists are split and the tree is rebuilt,   *)
(* from a total order in which each node was put right after its base.     *)
(***************************************************************************)
THEOREM LabelsImplementTheList == Spec => ImplementsOrderList
<1>1. Init => List!Init
  BY InitStructure DEF List!Init
<1>2. LockInv /\ StructureInv /\ [Next]_vars => [List!Next]_<<Nodes, Order>>
  BY NextKeepsStructure
<1>3. QED
  BY <1>1, <1>2, LockInvariant, StructureInvariant, PTL
     DEF Spec, ImplementsOrderList, List!Spec

(***************************************************************************)
(* The way down of a relabelling never comes to a node with more leaves    *)
(* than it has labels, if there are no more sublists than labels: it stops *)
(* at the node above one that would be too full.  This is the assertion    *)
(* of rebalance that the node it visits cannot be out of room; for the     *)
(* root, capacity counts one label less.                                   *)
(***************************************************************************)
VisitedNodesHaveRoom ==
  num_leaves(Root) <= MAX_LABEL + 1 =>
    \A i \in DOMAIN lists : \A d \in 0 .. lists[i].above.depth :
      /\ needs_rebalance(Ancestor(lists[i].above, d))
      /\ \A e \in 0 .. d - 1 : ~ rebuilds(Ancestor(lists[i].above, e))
      => num_leaves(Ancestor(lists[i].above, d)) <= Span(d)

THEOREM NodesHaveRoom == Spec => []VisitedNodesHaveRoom
<1>1. ASSUME StructureInv, num_leaves(Root) <= MAX_LABEL + 1,
             NEW i \in DOMAIN lists, NEW d \in 0 .. lists[i].above.depth,
             needs_rebalance(Ancestor(lists[i].above, d)),
             \A e \in 0 .. d - 1 : ~ rebuilds(Ancestor(lists[i].above, e))
      PROVE  num_leaves(Ancestor(lists[i].above, d)) <= Span(d)
  <2> DEFINE p == Ancestor(lists[i].above, d)
  <2>1. WayDown(i, d) /\ ShapeInv /\ TreeTypeOK
    BY <1>1 DEF WayDown, StructureInv, LabelInv, ShapeInv
  <2>2. PICK e \in Nat : num_leaves(p) <= Pow2[e] /\ d + e <= MAX_LEVEL
    BY <1>1, <2>1, RoomOnWay
  <2>3. d \in Nat /\ MAX_LEVEL - d \in Nat /\ e <= MAX_LEVEL - d
    BY <1>1, <2>1, <2>2, ListsAre, LabelAssumption DEF TreeNode
  <2>4. Pow2[e] <= Span(d) /\ Pow2[e] \in Nat /\ Span(d) \in Nat
    BY <2>2, <2>3, Pow2Pos, Pow2Grows DEF Span
  <2>5. num_leaves(p) \in Nat
    BY <1>1, <2>1, TwoAreTwo
  <2>6. QED
    BY <2>2, <2>4, <2>5
<1>2. StructureInv => VisitedNodesHaveRoom
  BY <1>1, Zenon DEF VisitedNodesHaveRoom
<1>3. QED
  BY <1>2, StructureInvariant, PTL

-----------------------------------------------------------------------------
(***************************************************************************)
(* The structure as its users see it: the nodes, and the answers to their  *)
(* comparisons.                                                            *)
(***************************************************************************)
answers == <<Nodes, Order>>

(* What an insertion after b does to the answers, new node and old ones.   *)
LEMMA InsertedPairs ==
  ASSUME Nodes \subseteq Node, List!TotalOrder,
         NEW b \in Nodes, NEW n \in Node \ Nodes, List!Insert(b, n)
  PROVE  /\ Order' \subseteq Nodes' \X Nodes'
         /\ \A x, y \in Nodes : <<x, y>> \in Order' <=> <<x, y>> \in Order
         /\ \A x \in Nodes : <<x, n>> \in Order' <=> x = b \/ <<x, b>> \in Order
         /\ \A y \in Nodes : <<n, y>> \in Order' <=> <<b, y>> \in Order
         /\ <<n, n>> \notin Order'
<1>1. Nodes' = Nodes \cup {n} /\ Order' = List!InsertedAfter(Order, b, n)
  BY DEF List!Insert
<1>2. Order \subseteq Nodes \X Nodes
  BY DEF List!TotalOrder
<1>3. List!Before(Order, b) \subseteq Nodes /\ List!After(Order, b) \subseteq Nodes
  BY <1>2 DEF List!Before, List!After
<1>4. \A x, y : <<x, y>> \in Order' <=>
        \/ <<x, y>> \in Order
        \/ y = n /\ (x = b \/ x \in List!Before(Order, b))
        \/ x = n /\ y \in List!After(Order, b)
  BY <1>1 DEF List!InsertedAfter
<1>5. \A x \in Nodes : x # n /\ x \in Node
  OBVIOUS
<1>6. Order' \subseteq Nodes' \X Nodes'
  BY <1>1, <1>2, <1>3 DEF List!InsertedAfter
<1>7. \A x, y \in Nodes : <<x, y>> \in Order' <=> <<x, y>> \in Order
  BY <1>4, <1>5
<1>8. \A x \in Nodes : <<x, n>> \in Order' <=> x = b \/ <<x, b>> \in Order
  BY <1>2, <1>4, <1>5 DEF List!Before
<1>9. \A y \in Nodes : <<n, y>> \in Order' <=> <<b, y>> \in Order
  BY <1>2, <1>4, <1>5 DEF List!After
<1>10. <<n, n>> \notin Order'
  BY <1>2, <1>3, <1>4
<1>11. QED
  BY <1>6, <1>7, <1>8, <1>9, <1>10

LEMMA InsertKeepsOrder ==
  ASSUME Nodes \subseteq Node, List!TotalOrder,
         NEW b \in Nodes, NEW n \in Node \ Nodes, List!Insert(b, n)
  PROVE  Nodes' \subseteq Node /\ List!TotalOrder'
<1>1. Nodes' = Nodes \cup {n}
  BY DEF List!Insert
<1>2. /\ Order' \subseteq Nodes' \X Nodes'
      /\ \A x, y \in Nodes : <<x, y>> \in Order' <=> <<x, y>> \in Order
      /\ \A x \in Nodes : <<x, n>> \in Order' <=> x = b \/ <<x, b>> \in Order
      /\ \A y \in Nodes : <<n, y>> \in Order' <=> <<b, y>> \in Order
      /\ <<n, n>> \notin Order'
  BY InsertedPairs
<1>3. /\ \A x, y \in Nodes : x # y <=> <<x, y>> \in Order \/ <<y, x>> \in Order
      /\ \A x, y, z \in Nodes :
           <<x, y>> \in Order /\ <<y, z>> \in Order => <<x, z>> \in Order
      /\ \A x, y \in Nodes : ~ (<<x, y>> \in Order /\ <<y, x>> \in Order)
  BY DEF List!TotalOrder
<1>4. \A x, y \in Nodes' : x # y <=> <<x, y>> \in Order' \/ <<y, x>> \in Order'
  <2>1. \A x \in Nodes : <<x, n>> \in Order' \/ <<n, x>> \in Order'
    BY <1>2, <1>3
  <2>2. QED
    BY <1>1, <1>2, <1>3, <2>1
<1>5. \A x, y \in Nodes' : ~ (<<x, y>> \in Order' /\ <<y, x>> \in Order')
  BY <1>1, <1>2, <1>3
<1>6. ASSUME NEW x \in Nodes', NEW y \in Nodes', NEW z \in Nodes',
             <<x, y>> \in Order', <<y, z>> \in Order'
      PROVE  <<x, z>> \in Order'
  <2>1. CASE x \in Nodes /\ y \in Nodes /\ z \in Nodes
    BY <1>2, <1>3, <1>6, <2>1
  <2>2. CASE x = n
    BY <1>1, <1>2, <1>3, <1>6, <2>2
  <2>3. CASE y = n
    BY <1>1, <1>2, <1>3, <1>6, <2>3
  <2>4. CASE z = n
    BY <1>1, <1>2, <1>3, <1>6, <2>4
  <2>5. QED
    BY <1>1, <2>1, <2>2, <2>3, <2>4
<1>7. Nodes' \subseteq Node
  BY <1>1
<1>8. \A x, y, z \in Nodes' :
        <<x, y>> \in Order' /\ <<y, z>> \in Order' => <<x, z>> \in Order'
  BY <1>6
<1>9. List!TotalOrder'
  BY <1>2, <1>4, <1>5, <1>8 DEF List!TotalOrder
<1>10. QED
  BY <1>7, <1>9

LEMMA ListInvariant ==
  ImplementsOrderList => [](Nodes \subseteq Node /\ List!TotalOrder)
<1>1. List!Init => Nodes \subseteq Node /\ List!TotalOrder
  <2>1. 1 \in Node
    BY LabelAssumption DEF Node
  <2>2. QED
    BY <2>1 DEF List!Init, List!TotalOrder
<1>2. Nodes \subseteq Node /\ List!TotalOrder /\ [List!Next]_answers
        => (Nodes \subseteq Node /\ List!TotalOrder)'
  <2>1. SUFFICES ASSUME Nodes \subseteq Node, List!TotalOrder, [List!Next]_answers
                 PROVE  (Nodes \subseteq Node /\ List!TotalOrder)'
    OBVIOUS
  <2>2. CASE List!Next
    BY <2>1, <2>2, InsertKeepsOrder DEF List!Next
  <2>3. CASE UNCHANGED answers
    <3>1. Nodes' = Nodes /\ Order' = Order
      BY <2>3 DEF answers
    <3>2. Nodes' \subseteq Node
      BY <2>1, <3>1
    <3>3. List!TotalOrder'
      <4>1. /\ Order \subseteq Nodes \X Nodes
            /\ \A x, y \in Nodes : x # y <=> <<x, y>> \in Order \/ <<y, x>> \in Order
            /\ \A x, y, z \in Nodes :
                 <<x, y>> \in Order /\ <<y, z>> \in Order => <<x, z>> \in Order
            /\ \A x, y \in Nodes : ~ (<<x, y>> \in Order /\ <<y, x>> \in Order)
        BY <2>1 DEF List!TotalOrder
      <4>2. QED
        BY <3>1, <4>1, Zenon DEF List!TotalOrder
    <3>4. QED
      BY <3>2, <3>3
  <2>4. QED
    BY <2>1, <2>2, <2>3
<1>3. QED
  BY <1>1, <1>2, PTL DEF ImplementsOrderList, List!Spec, answers

(***************************************************************************)
(* The order om_precedes compares nodes in is a strict total order on the  *)
(* nodes inserted so far, however many there are and whoever relabels.     *)
(***************************************************************************)
THEOREM OrderIsTotal == Spec => []List!TotalOrder
BY ListInvariant, LabelsImplementTheList, PTL

(***************************************************************************)
(* No step changes an answer, be it an insertion or a relabelling: two     *)
(* nodes that are in the structure are compared as they were before.       *)
(***************************************************************************)
AnswersKept ==
  \A x, y \in Nodes : <<x, y>> \in Order' <=> <<x, y>> \in Order

THEOREM AnswersAreStable == Spec => [][AnswersKept]_answers
<1>1. Nodes \subseteq Node /\ List!TotalOrder /\ [List!Next]_answers => [AnswersKept]_answers
  BY InsertedPairs DEF List!Next, AnswersKept
<1>2. QED
  BY <1>1, ListInvariant, LabelsImplementTheList, PTL
     DEF ImplementsOrderList, List!Spec, answers

(***************************************************************************)
(* A new node comes right after the node it was inserted behind: no other  *)
(* node lies between the two.                                              *)
(***************************************************************************)
RightAfter(b, n) ==
  /\ <<b, n>> \in Order'
  /\ \A x \in Nodes : ~ (<<b, x>> \in Order' /\ <<x, n>> \in Order')

THEOREM NothingInBetween ==
  Spec =>
    [][\A b \in Nodes, n \in Node \ Nodes :
         List!Insert(b, n) => RightAfter(b, n)]_answers
<1>1. ASSUME Nodes \subseteq Node, List!TotalOrder,
             NEW b \in Nodes, NEW n \in Node \ Nodes, List!Insert(b, n)
      PROVE  RightAfter(b, n)
  <2>1. /\ \A x, y \in Nodes : <<x, y>> \in Order' <=> <<x, y>> \in Order
        /\ \A x \in Nodes : <<x, n>> \in Order' <=> x = b \/ <<x, b>> \in Order
    BY <1>1, InsertedPairs
  <2>2. QED
    BY <1>1, <2>1 DEF RightAfter, List!TotalOrder
<1>2. Nodes \subseteq Node /\ List!TotalOrder /\ [List!Next]_answers
        => [\A b \in Nodes, n \in Node \ Nodes : List!Insert(b, n) => RightAfter(b, n)]_answers
  BY <1>1
<1>3. QED
  BY <1>2, ListInvariant, LabelsImplementTheList, PTL
     DEF ImplementsOrderList, List!Spec, answers
=============================================================================
