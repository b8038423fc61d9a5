-------------------------- MODULE SpawnSteps_proofs --------------------------
(***************************************************************************)
(* Proofs about SpawnSteps, for any set of children: the lock excludes,    *)
(* the bookkeeping it protects is consistent, and the whole of it is one   *)
(* atomic booking.                                                         *)
(***************************************************************************)
EXTENDS SpawnSteps, TLAPS

-----------------------------------------------------------------------------
(* Every variable of SpawnSteps stays in the range of the field it models. *)
THEOREM TypeCorrect == Spec => []TypeOK
<1>1. Init => TypeOK
  <2>1. <<>> \in Seq(Child)
    OBVIOUS
  <2>2. "spin" \in PC /\ 0 \in Nat /\ 1 \in Nat \ {0}
    BY DEF PC
  <2>3. QED
    BY <2>1, <2>2, Zenon DEF Init, TypeOK
<1>2. TypeOK /\ [Next]_vars => TypeOK'
  <2> SUFFICES ASSUME TypeOK, [Next]_vars PROVE TypeOK'
    OBVIOUS
  <2> USE DEF TypeOK, PC, Locked, Goto, parentVars, childVars, localVars
  <2>1. ASSUME NEW c \in Child, Spin(c) PROVE TypeOK'
    BY <2>1 DEF Spin
  <2>2. ASSUME NEW c \in Child, CompareAndSwap(c) PROVE TypeOK'
    BY <2>2 DEF CompareAndSwap
  <2>3. ASSUME NEW c \in Child, RecordClock(c) PROVE TypeOK'
    BY <2>3 DEF RecordClock
  <2>4. ASSUME NEW c \in Child, LoadClock(c) PROVE TypeOK'
    BY <2>4 DEF LoadClock
  <2>5. ASSUME NEW c \in Child, StoreClock(c) PROVE TypeOK'
    BY <2>5 DEF StoreClock
  <2>6. ASSUME NEW c \in Child, RecordPath(c) PROVE TypeOK'
    BY <2>6 DEF RecordPath
  <2>7. ASSUME NEW c \in Child, TestList(c) PROVE TypeOK'
    BY <2>7 DEF TestList
  <2>8. ASSUME NEW c \in Child, AllocateList(c) PROVE TypeOK'
    BY <2>8 DEF AllocateList
  <2>9. ASSUME NEW c \in Child, ReadList(c) PROVE TypeOK'
    BY <2>9 DEF ReadList
  <2>10. ASSUME NEW c \in Child, PushBack(c) PROVE TypeOK'
    <3>1. old_list[c] \in Seq(Child)
      OBVIOUS
    <3>2. Append(old_list[c], c) \in Seq(Child)
      BY <3>1
    <3>3. QED
      BY <2>10, <3>2 DEF PushBack
  <2>11. ASSUME NEW c \in Child, Release(c) PROVE TypeOK'
    BY <2>11 DEF Release
  <2>12. CASE UNCHANGED vars
    BY <2>12 DEF vars
  <2>13. QED
    BY <2>1, <2>2, <2>3, <2>4, <2>5, <2>6, <2>7, <2>8, <2>9, <2>10, <2>11,
       <2>12 DEF Next, Step, AllDone
<1>3. QED
  BY <1>1, <1>2, PTL DEF Spec

-----------------------------------------------------------------------------
(***************************************************************************)
(* The lock is taken while any call is between its compare_and_swap and    *)
(* its release.  This strengthens MutualExclusion to an inductive          *)
(* invariant: a successful compare_and_swap finds the lock free, so it     *)
(* finds nobody inside.                                                    *)
(***************************************************************************)
Exclusion ==
  /\ MutualExclusion
  /\ \A c \in Child : pc[c] \in Locked => tlock = 1

LEMMA ExclusionStep == TypeOK /\ Exclusion /\ [Next]_vars => Exclusion'
<1> SUFFICES ASSUME TypeOK, Exclusion, [Next]_vars PROVE Exclusion'
  OBVIOUS
<1> USE DEF TypeOK, PC, Locked, Exclusion, MutualExclusion, Goto
<1>1. ASSUME NEW c \in Child, Spin(c) PROVE Exclusion'
  BY <1>1 DEF Spin
<1>2. ASSUME NEW c \in Child, CompareAndSwap(c) PROVE Exclusion'
  <2>1. CASE tlock = 0
    BY <1>2, <2>1 DEF CompareAndSwap
  <2>2. CASE tlock # 0
    BY <1>2, <2>2 DEF CompareAndSwap
  <2>3. QED
    BY <2>1, <2>2
<1>3. ASSUME NEW c \in Child, Release(c) PROVE Exclusion'
  BY <1>3 DEF Release
<1>4. ASSUME NEW c \in Child, Step(c), pc[c] \notin {"spin", "cas", "release"}
      PROVE  Exclusion'
  <2>1. pc[c] \in Locked /\ UNCHANGED tlock
    BY <1>4 DEF Step, Spin, CompareAndSwap, RecordClock, LoadClock, StoreClock,
                RecordPath, TestList, AllocateList, ReadList, PushBack, Release
  <2>2. \E l \in Locked : pc' = [pc EXCEPT ![c] = l]
    BY <1>4 DEF Step, Spin, CompareAndSwap, RecordClock, LoadClock, StoreClock,
                RecordPath, TestList, AllocateList, ReadList, PushBack, Release
  <2>3. QED
    BY <2>1, <2>2
<1>5. CASE UNCHANGED vars
  BY <1>5 DEF vars
<1>6. ASSUME NEW c \in Child, Step(c) PROVE Exclusion'
  <2>1. CASE pc[c] \in {"spin", "cas", "release"}
    BY <1>1, <1>2, <1>3, <1>6, <2>1
       DEF Step, RecordClock, LoadClock, StoreClock, RecordPath, TestList,
           AllocateList, ReadList, PushBack
  <2>2. QED
    BY <1>4, <1>6, <2>1
<1>7. QED
  BY <1>5, <1>6 DEF Next, AllDone

(***************************************************************************)
(* my_getlock excludes: two threads are never between the acquisition and  *)
(* the release of the same tlock.                                          *)
(***************************************************************************)
THEOREM LockExcludes == Spec => []MutualExclusion
<1>1. Init => Exclusion
  BY DEF Init, Exclusion, MutualExclusion, Locked
<1>2. TypeOK /\ Exclusion /\ [Next]_vars => Exclusion'
  BY ExclusionStep
<1>3. Exclusion => MutualExclusion
  BY DEF Exclusion
<1>4. QED
  BY <1>1, <1>2, <1>3, TypeCorrect, PTL DEF Spec

-----------------------------------------------------------------------------
(***************************************************************************)
(* The invariant of the clock and the paths.  One more than the children   *)
(* in the list while nobody is between the store of the clock and the      *)
(* push, two more while somebody is; what the caller has read is current;  *)
(* and every path recorded so far is at most the clock, and below it when  *)
(* the next one is about to be recorded.                                   *)
(***************************************************************************)
Counted == {"path", "list", "alloc", "read", "push"}

ClockInv ==
  /\ \A c \in Child : pc[c] \in Counted => clock = Len(child_list) + 2
  /\ (\A c \in Child : pc[c] \notin Counted) => clock = Len(child_list) + 1
  /\ \A c \in Child : pc[c] \in {"load", "store"} => cached[c] = clock
  /\ \A c \in Child : pc[c] = "store" => old_clock[c] = clock
  /\ \A c \in Child : pc[c] \in Counted => cached[c] + 1 = clock
  /\ \A c \in Child : pc[c] \in Counted \ {"path"} => path[c] = clock

PathInv ==
  /\ \A c \in Child : Recorded(c) => path[c] <= clock
  /\ \A c, d \in Child : Recorded(c) /\ pc[d] = "path" => path[c] < clock

(* The invariant of the list: what push_back has read is the whole list.   *)
ListInv ==
  /\ ~ allocated => child_list = <<>>
  /\ \A c \in Child : pc[c] = "alloc" => ~ allocated
  /\ \A c \in Child : pc[c] \in {"read", "push"} => allocated
  /\ \A c \in Child : pc[c] = "push" => old_list[c] = child_list

Bookkeeping ==
  /\ TypeOK /\ Exclusion
  /\ ClockInv /\ PathInv /\ PathsDistinct
  /\ ListInv /\ ChildrenListed

(* Whoever holds the lock holds it alone.                                  *)
LEMMA Alone ==
  ASSUME Bookkeeping, NEW c \in Child, pc[c] \in Locked
  PROVE  \A d \in Child : d # c => pc[d] \in {"spin", "cas", "done"}
BY DEF Bookkeeping, TypeOK, PC, Exclusion, MutualExclusion

LEMMA ClockStep ==
  Bookkeeping /\ [Next]_vars => ClockInv' /\ PathInv' /\ PathsDistinct'
<1> SUFFICES ASSUME Bookkeeping, [Next]_vars
             PROVE  ClockInv' /\ PathInv' /\ PathsDistinct'
  OBVIOUS
<1> DEFINE Goal == ClockInv' /\ PathInv' /\ PathsDistinct'
<1> USE DEF TypeOK, PC, Locked, Counted, ClockInv, PathInv, PathsDistinct,
            Recorded, Goto, parentVars, childVars, localVars
<1>0. TypeOK /\ ClockInv /\ PathInv /\ PathsDistinct
  BY DEF Bookkeeping
<1>a. Len(child_list) \in Nat
  BY <1>0
<1>1. ASSUME NEW c \in Child, Spin(c) PROVE Goal
  BY <1>0, <1>1 DEF Spin
<1>2. ASSUME NEW c \in Child, CompareAndSwap(c) PROVE Goal
  <2>1. /\ pc[c] = "cas" /\ pc'[c] \in {"spin", "cached"}
        /\ \A d \in Child : d # c => pc'[d] = pc[d]
    BY <1>0, <1>2 DEF CompareAndSwap
  <2>2. UNCHANGED <<parentVars, childVars, localVars>>
    BY <1>2 DEF CompareAndSwap
  <2>3. ClockInv'
    BY <1>0, <2>1, <2>2
  <2>4. PathInv' /\ PathsDistinct'
    BY <1>0, <2>1, <2>2
  <2>5. QED
    BY <2>3, <2>4
<1>3. ASSUME NEW c \in Child, RecordClock(c) PROVE Goal
  <2>1. \A d \in Child : d # c => pc[d] \in {"spin", "cas", "done"}
    BY <1>3, Alone DEF RecordClock
  <2>2. QED
    BY <1>0, <1>3, <2>1 DEF RecordClock
<1>4. ASSUME NEW c \in Child, LoadClock(c) PROVE Goal
  <2>1. \A d \in Child : d # c => pc[d] \in {"spin", "cas", "done"}
    BY <1>4, Alone DEF LoadClock
  <2>2. QED
    BY <1>0, <1>4, <2>1 DEF LoadClock
<1>5. ASSUME NEW c \in Child, StoreClock(c) PROVE Goal
  <2>1. \A d \in Child : d # c => pc[d] \in {"spin", "cas", "done"}
    BY <1>5, Alone DEF StoreClock
  <2>2. clock' = clock + 1 /\ clock = Len(child_list) + 1
    BY <1>0, <1>5, <2>1 DEF StoreClock
  <2>3. ClockInv'
    <3>1. /\ cached[c] = clock /\ pc' = [pc EXCEPT ![c] = "path"]
          /\ UNCHANGED <<cached, child_list>>
      BY <1>0, <1>5 DEF StoreClock
    <3>2. /\ pc'[c] = "path"
          /\ \A d \in Child : d # c => pc'[d] \in {"spin", "cas", "done"}
      BY <1>0, <2>1, <3>1
    <3>3. /\ cached'[c] + 1 = clock'
          /\ clock' = Len(child_list') + 2
      BY <1>0, <1>a, <2>2, <3>1
    <3>4. QED
      BY <3>2, <3>3
  <2>4. PathInv' /\ PathsDistinct'
    BY <1>0, <1>5, <2>1, <2>2 DEF StoreClock
  <2>5. QED
    BY <2>3, <2>4
<1>6. ASSUME NEW c \in Child, RecordPath(c) PROVE Goal
  <2>1. \A d \in Child : d # c => pc[d] \in {"spin", "cas", "done"}
    BY <1>6, Alone DEF RecordPath
  <2>2. \A d \in Child : Recorded(d) => path[d] < clock /\ path[d] # clock
    BY <1>0, <1>6 DEF RecordPath
  <2>3. ClockInv'
    BY <1>0, <1>6, <2>1 DEF RecordPath
  <2>4. /\ path' = [path EXCEPT ![c] = clock] /\ clock' = clock
        /\ cached' = cached /\ cached[c] + 1 = clock
        /\ pc'[c] = "list" /\ ~ Recorded(c)
        /\ \A d \in Child : d # c => pc'[d] = pc[d] /\ pc'[d] # "path"
    BY <1>0, <1>6, <2>1 DEF RecordPath
  <2>5. PathInv' /\ PathsDistinct'
    <3>1. \A d \in Child : d # c /\ Recorded(d)' =>
            /\ path'[d] = path[d] /\ Recorded(d)
            /\ path'[d] < clock /\ path'[d] # clock
      BY <1>0, <2>2, <2>4
    <3>2. path'[c] = clock
      BY <1>0, <2>4
    <3>3. PathInv'
      BY <1>0, <2>4, <3>1, <3>2
    <3>4. ASSUME NEW d \in Child, NEW e \in Child, Recorded(d)', Recorded(e)',
                 path'[d] = path'[e]
          PROVE  d = e
      <4>1. CASE d # c /\ e # c
        BY <1>0, <3>1, <3>4, <4>1
      <4>2. CASE d = c \/ e = c
        BY <3>1, <3>2, <3>4, <4>2
      <4>3. QED
        BY <4>1, <4>2
    <3>5. \A d \in Child : Recorded(d)' => path'[d] = cached'[d] + 1
      BY <1>0, <2>4, <3>1, <3>2
    <3>6. QED
      BY <3>3, <3>4, <3>5
  <2>6. QED
    BY <2>3, <2>5
<1>7. ASSUME NEW c \in Child, TestList(c) PROVE Goal
  <2>1. ClockInv'
    BY <1>0, <1>7 DEF TestList
  <2>2. PathInv' /\ PathsDistinct'
    BY <1>0, <1>7 DEF TestList
  <2>3. QED
    BY <2>1, <2>2
<1>8. ASSUME NEW c \in Child, AllocateList(c) PROVE Goal
  <2>1. child_list' = child_list
    BY <1>8 DEF AllocateList, Bookkeeping, ListInv
  <2>2. QED
    BY <1>0, <1>8, <2>1 DEF AllocateList
<1>9. ASSUME NEW c \in Child, ReadList(c) PROVE Goal
  BY <1>0, <1>9 DEF ReadList
<1>10. ASSUME NEW c \in Child, PushBack(c) PROVE Goal
  <2>1. \A d \in Child : d # c => pc[d] \in {"spin", "cas", "done"}
    BY <1>10, Alone DEF PushBack
  <2>2. Len(child_list') = Len(child_list) + 1
    BY <1>0, <1>10 DEF PushBack, Bookkeeping, ListInv
  <2>3. ClockInv'
    <3>1. /\ \A d \in Child : pc'[d] \in {"spin", "cas", "done", "release"}
          /\ clock' = clock /\ clock = Len(child_list) + 2
      BY <1>0, <1>10, <2>1 DEF PushBack
    <3>2. clock' = Len(child_list') + 1
      BY <1>a, <2>2, <3>1
    <3>3. QED
      BY <3>1, <3>2
  <2>4. PathInv' /\ PathsDistinct'
    BY <1>0, <1>10, <2>1 DEF PushBack
  <2>5. QED
    BY <2>3, <2>4
<1>11. ASSUME NEW c \in Child, Release(c) PROVE Goal
  <2>1. \A d \in Child : d # c => pc[d] \in {"spin", "cas", "done"}
    BY <1>11, Alone DEF Release
  <2>2. QED
    BY <1>0, <1>11, <2>1 DEF Release
<1>12. CASE UNCHANGED vars
  BY <1>0, <1>12 DEF vars
<1>13. QED
  BY <1>1, <1>2, <1>3, <1>4, <1>5, <1>6, <1>7, <1>8, <1>9, <1>10, <1>11,
     <1>12 DEF Next, Step, AllDone

(* Appending what a sequence does not hold adds it to what it holds, once. *)
LEMMA AppendFresh ==
  ASSUME NEW S, NEW s \in Seq(S), NEW e \in S,
         \A i \in DOMAIN s : s[i] # e,
         \A i, j \in DOMAIN s : s[i] = s[j] => i = j
  PROVE  \A t : t = Append(s, e) =>
           /\ {t[i] : i \in DOMAIN t} = {s[i] : i \in DOMAIN s} \cup {e}
           /\ \A i, j \in DOMAIN t : t[i] = t[j] => i = j
<1> TAKE t
<1> HAVE t = Append(s, e)
<1>1. /\ Len(s) \in Nat /\ DOMAIN s = 1 .. Len(s)
      /\ DOMAIN t = 1 .. Len(s) + 1
      /\ t[Len(s) + 1] = e
      /\ \A i \in 1 .. Len(s) : t[i] = s[i]
  OBVIOUS
<1>2. DOMAIN t = DOMAIN s \cup {Len(s) + 1} /\ Len(s) + 1 \notin DOMAIN s
  BY <1>1
<1>3. \A i \in DOMAIN s : t[i] = s[i]
  BY <1>1
<1>4. {t[i] : i \in DOMAIN t} = {s[i] : i \in DOMAIN s} \cup {e}
  <2>1. ASSUME NEW x, x \in {t[i] : i \in DOMAIN t}
        PROVE  x \in {s[i] : i \in DOMAIN s} \cup {e}
    <3>1. PICK i \in DOMAIN t : x = t[i]
      BY <2>1
    <3>2. QED
      BY <1>1, <1>2, <1>3, <3>1
  <2>2. ASSUME NEW x, x \in {s[i] : i \in DOMAIN s} \cup {e}
        PROVE  x \in {t[i] : i \in DOMAIN t}
    <3>1. CASE x = e
      BY <1>1, <1>2, <3>1
    <3>2. ASSUME NEW i \in DOMAIN s, x = s[i]
          PROVE  x \in {t[k] : k \in DOMAIN t}
      BY <1>2, <1>3, <3>2
    <3>3. QED
      BY <2>2, <3>1, <3>2
  <2>3. QED
    BY <2>1, <2>2
<1>5. ASSUME NEW i \in DOMAIN t, NEW j \in DOMAIN t, t[i] = t[j]
      PROVE  i = j
  BY <1>1, <1>2, <1>3, <1>5, Zenon
<1>6. QED
  BY <1>4, <1>5

LEMMA ListStep == Bookkeeping /\ [Next]_vars => ListInv' /\ ChildrenListed'
<1> SUFFICES ASSUME Bookkeeping, [Next]_vars
             PROVE  ListInv' /\ ChildrenListed'
  OBVIOUS
<1> USE DEF TypeOK, PC, Locked, ListInv, ChildrenListed, Pushed, Goto,
            parentVars, childVars, localVars
<1>0. TypeOK /\ ListInv /\ ChildrenListed
  BY DEF Bookkeeping
<1>1. ASSUME NEW c \in Child,
             Step(c), pc[c] \notin {"list", "alloc", "read", "push", "release"}
      PROVE  ListInv' /\ ChildrenListed'
  <2>1. /\ UNCHANGED <<allocated, child_list, old_list>>
        /\ \E l \in PC \ {"alloc", "read", "push", "release", "done"} :
             pc' = [pc EXCEPT ![c] = l]
        /\ pc[c] # "done"
    BY <1>0, <1>1
       DEF Step, Spin, CompareAndSwap, RecordClock, LoadClock, StoreClock,
           RecordPath, TestList, AllocateList, ReadList, PushBack, Release
  <2>2. Pushed' = Pushed
    BY <1>0, <1>1, <2>1
  <2>3. \A d \in Child : pc'[d] \in {"alloc", "read", "push"} =>
          pc[d] = pc'[d]
    BY <1>0, <2>1
  <2>4. QED
    BY <1>0, <2>1, <2>2, <2>3
<1>2. ASSUME NEW c \in Child, TestList(c) PROVE ListInv' /\ ChildrenListed'
  <2>1. Pushed' = Pushed
    BY <1>0, <1>2 DEF TestList
  <2>2. QED
    BY <1>0, <1>2, <2>1 DEF TestList
<1>3. ASSUME NEW c \in Child, AllocateList(c) PROVE ListInv' /\ ChildrenListed'
  <2>1. \A d \in Child : d # c => pc[d] \in {"spin", "cas", "done"}
    BY <1>3, Alone DEF AllocateList
  <2>2. Pushed' = Pushed /\ child_list' = child_list
    BY <1>0, <1>3 DEF AllocateList
  <2>3. ChildrenListed'
    BY <1>0, <2>2
  <2>4. ListInv'
    BY <1>0, <1>3, <2>1 DEF AllocateList
  <2>5. QED
    BY <2>3, <2>4
<1>4. ASSUME NEW c \in Child, ReadList(c) PROVE ListInv' /\ ChildrenListed'
  <2>1. Pushed' = Pushed
    BY <1>0, <1>4 DEF ReadList
  <2>2. QED
    BY <1>0, <1>4, <2>1 DEF ReadList
<1>5. ASSUME NEW c \in Child, PushBack(c) PROVE ListInv' /\ ChildrenListed'
  <2>1. \A d \in Child : d # c => pc[d] \in {"spin", "cas", "done"}
    BY <1>5, Alone DEF PushBack
  <2>2. child_list' = Append(child_list, c)
    BY <1>0, <1>5 DEF PushBack
  <2>3. /\ Pushed' = Pushed \cup {c} /\ c \notin Pushed /\ allocated
        /\ pc' = [pc EXCEPT ![c] = "release"]
    BY <1>0, <1>5 DEF PushBack
  <2>4. /\ {child_list'[i] : i \in DOMAIN child_list'}
             = {child_list[i] : i \in DOMAIN child_list} \cup {c}
        /\ \A i, j \in DOMAIN child_list' :
             child_list'[i] = child_list'[j] => i = j
    <3>1. \A i \in DOMAIN child_list : child_list[i] # c
      BY <1>0, <2>3
    <3>2. /\ child_list \in Seq(Child)
          /\ \A i, j \in DOMAIN child_list :
               child_list[i] = child_list[j] => i = j
      BY <1>0
    <3>3. \A t : t = Append(child_list, c) =>
            /\ {t[i] : i \in DOMAIN t}
                 = {child_list[i] : i \in DOMAIN child_list} \cup {c}
            /\ \A i, j \in DOMAIN t : t[i] = t[j] => i = j
      BY <3>1, <3>2, AppendFresh
    <3>4. QED
      BY <2>2, <3>3
  <2>5. ChildrenListed'
    BY <1>0, <2>3, <2>4, Zenon
  <2>6. ListInv'
    BY <1>0, <1>5, <2>1, <2>3 DEF PushBack
  <2>7. QED
    BY <2>5, <2>6
<1>6. ASSUME NEW c \in Child, Release(c) PROVE ListInv' /\ ChildrenListed'
  <2>1. Pushed' = Pushed
    BY <1>0, <1>6 DEF Release
  <2>2. QED
    BY <1>0, <1>6, <2>1 DEF Release
<1>7. CASE UNCHANGED vars
  BY <1>0, <1>7 DEF vars
<1>8. ASSUME NEW c \in Child, Step(c) PROVE ListInv' /\ ChildrenListed'
  <2>1. CASE pc[c] \notin {"list", "alloc", "read", "push", "release"}
    BY <1>1, <1>8, <2>1
  <2>2. CASE pc[c] \in {"list", "alloc", "read", "push", "release"}
    BY <1>2, <1>3, <1>4, <1>5, <1>6, <1>8, <2>2
       DEF Step, Spin, CompareAndSwap, RecordClock, LoadClock, StoreClock,
           RecordPath
  <2>3. QED
    BY <2>1, <2>2
<1>9. QED
  BY <1>7, <1>8 DEF Next, AllDone

LEMMA BookkeepingInvariant == Spec => []Bookkeeping
<1>1. Init => Bookkeeping
  <2> SUFFICES ASSUME Init PROVE Bookkeeping
    OBVIOUS
  <2>1. /\ \A c \in Child : pc[c] = "spin"
        /\ clock = 1 /\ allocated = FALSE /\ child_list = <<>>
    BY DEF Init
  <2>2. Len(child_list) = 0 /\ DOMAIN child_list = {}
    BY <2>1
  <2>3. Exclusion
    BY <2>1 DEF Exclusion, MutualExclusion, Locked
  <2>4. ClockInv /\ PathInv /\ PathsDistinct
    BY <2>1, <2>2 DEF ClockInv, PathInv, PathsDistinct, Recorded, Counted
  <2>5. ListInv
    BY <2>1 DEF ListInv
  <2>6. ChildrenListed
    BY <2>1, <2>2 DEF ChildrenListed, Pushed
  <2>7. TypeOK => Bookkeeping
    BY <2>3, <2>4, <2>5, <2>6 DEF Bookkeeping
  <2>8. <<>> \in Seq(Child) /\ "spin" \in PC /\ 0 \in Nat /\ 1 \in Nat \ {0}
    BY DEF PC
  <2>9. QED
    BY <2>7, <2>8, Zenon DEF Init, TypeOK
<1>2. TypeOK' /\ Bookkeeping /\ [Next]_vars => Bookkeeping'
  BY ExclusionStep, ClockStep, ListStep DEF Bookkeeping
<1>3. QED
  BY <1>1, <1>2, TypeCorrect, PTL DEF Spec

(***************************************************************************)
(* Siblings are told apart by their paths, and no access made by the       *)
(* parent after a spawn is recorded in the child as its past.              *)
(***************************************************************************)
THEOREM SpawnsAreDistinct == Spec => []PathsDistinct
<1>1. Bookkeeping => PathsDistinct
  BY DEF Bookkeeping
<1>2. QED
  BY <1>1, BookkeepingInvariant, PTL

(* No spawn is lost from the child list of the parent, or listed twice.    *)
THEOREM NoSpawnIsLost == Spec => []ChildrenListed
<1>1. Bookkeeping => ChildrenListed
  BY DEF Bookkeeping
<1>2. QED
  BY <1>1, BookkeepingInvariant, PTL

-----------------------------------------------------------------------------
(***************************************************************************)
(* The refinement: push_back is Booking!Book, every other step changes     *)
(* nothing of the abstract state.                                          *)
(***************************************************************************)
LEMMA PushIsBook ==
  ASSUME Bookkeeping, NEW c \in Child, PushBack(c)
  PROVE  Booking!Book(c)
<1> DEFINE cachedBar == [d \in Child |-> IF d \in Pushed THEN cached[d] ELSE 0]
           pathBar == [d \in Child |-> IF d \in Pushed THEN path[d] ELSE 0]
<1> USE DEF Bookkeeping, TypeOK, PC, Goto
<1>1. /\ child_list' = Append(child_list, c)
      /\ c \notin Pushed /\ Pushed' = Pushed \cup {c}
      /\ UNCHANGED <<cached, path>>
  BY DEF PushBack, Pushed, ListInv, childVars
<1>2. Len(child_list) \in Nat /\ Len(child_list') = Len(child_list) + 1
  BY <1>1
<1>3. cached[c] = 1 + Len(child_list) /\ path[c] = 1 + Len(child_list) + 1
  BY <1>2 DEF PushBack, ClockInv, Counted
<1>4. pathBar[c] = 0
  BY <1>1
<1>5. cachedBar' = [cachedBar EXCEPT ![c] = 1 + Len(child_list)]
  BY <1>1, <1>3
<1>6. pathBar' = [pathBar EXCEPT ![c] = 1 + Len(child_list) + 1]
  BY <1>1, <1>3
<1>7. 1 + Len(child_list') = 1 + Len(child_list) + 1
  BY <1>2
<1>8. QED
  BY <1>1, <1>4, <1>5, <1>6, <1>7 DEF Booking!Book

LEMMA OtherStepsStutter ==
  ASSUME Bookkeeping, NEW c \in Child, Step(c), ~ PushBack(c)
  PROVE  UNCHANGED Booking!vars
<1> USE DEF Bookkeeping, TypeOK, PC, Goto, parentVars, childVars, localVars
<1>1. Pushed' = Pushed
  BY DEF Step, Spin, CompareAndSwap, RecordClock, LoadClock, StoreClock,
         RecordPath, TestList, AllocateList, ReadList, Release, Pushed
<1>2. child_list' = child_list
  BY DEF Step, Spin, CompareAndSwap, RecordClock, LoadClock, StoreClock,
         RecordPath, TestList, AllocateList, ReadList, Release, ListInv
<1>3. \A d \in Pushed : cached'[d] = cached[d] /\ path'[d] = path[d]
  BY DEF Step, Spin, CompareAndSwap, RecordClock, LoadClock, StoreClock,
         RecordPath, TestList, AllocateList, ReadList, Release, Pushed
<1>4. QED
  BY <1>1, <1>2, <1>3 DEF Booking!vars

(***************************************************************************)
(* CaptureSpawn as it is, load by load, implements the atomic booking that *)
(* FastRacerTasks takes as one step.                                       *)
(***************************************************************************)
THEOREM SpawnIsAtomic == Spec => ImplementsBooking
<1>1. Init => Booking!Init
  <2> SUFFICES ASSUME Init PROVE Booking!Init
    OBVIOUS
  <2>1. Pushed = {} /\ child_list = <<>>
    BY DEF Init, Pushed
  <2>2. 1 + Len(child_list) = 1
    BY <2>1
  <2>3. QED
    BY <2>1, <2>2 DEF Booking!Init
<1>2. Bookkeeping /\ [Next]_vars => [Booking!Next]_(Booking!vars)
  <2> SUFFICES ASSUME Bookkeeping, [Next]_vars
               PROVE  [Booking!Next]_(Booking!vars)
    OBVIOUS
  <2>1. ASSUME NEW c \in Child, Step(c) PROVE [Booking!Next]_(Booking!vars)
    BY <2>1, PushIsBook, OtherStepsStutter DEF Booking!Next
  <2>2. CASE UNCHANGED vars
    BY <2>2 DEF vars, parentVars, childVars, Pushed, Booking!vars
  <2>3. QED
    BY <2>1, <2>2 DEF Next, AllDone
<1>3. QED
  BY <1>1, <1>2, BookkeepingInvariant, PTL DEF Spec, ImplementsBooking,
     Booking!Spec
=============================================================================
