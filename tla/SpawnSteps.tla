----------------------------- MODULE SpawnSteps -----------------------------
(***************************************************************************)
(* CaptureSpawn load by load and store by store, for the children of one   *)
(* parent that several threads spawn at the same time (the halves of a     *)
(* parallel_for are all booked under the caller of spawn_root_and_wait).   *)
(* Everything that is shared, the clock and the child list of the parent,  *)
(* is under the spin lock tlock.  A call is named by the child it spawns.  *)
(* FastRacerTasks takes the whole of it as one step: see ImplementsBooking.*)
(***************************************************************************)
EXTENDS Naturals, Sequences

CONSTANT Child

VARIABLES
  pc,          \* the next step of each call
  tlock,       \* the lock of the parent: 0 free, 1 taken
  clock,       \* the clock of the parent
  cached,      \* cached_clock of the parent in each child
  path,        \* the last entry of the m_vc of each child
  allocated,   \* FALSE while the child_list of the parent is NULL
  child_list,  \* the child list of the parent
  old_clock,   \* the clock read by clock++ and not yet written back
  old_list     \* the list push_back is extending

parentVars == <<clock, allocated, child_list>>
childVars == <<cached, path>>
localVars == <<old_clock, old_list>>
vars == <<pc, tlock, parentVars, childVars, localVars>>

Locked == {"cached", "load", "store", "path", "list", "alloc", "read", "push",
           "release"}
PC == {"spin", "cas", "done"} \cup Locked

Init ==
  /\ pc = [c \in Child |-> "spin"]
  /\ tlock = 0
  /\ clock = 1
  /\ cached = [c \in Child |-> 0]
  /\ path = [c \in Child |-> 0]
  /\ allocated = FALSE
  /\ child_list = <<>>
  /\ old_clock = [c \in Child |-> 0]
  /\ old_list = [c \in Child |-> <<>>]

Goto(c, from, to) == pc[c] = from /\ pc' = [pc EXCEPT ![c] = to]

(* my_getlock: spin until the lock looks free, then try to take it.        *)
Spin(c) ==
  /\ Goto(c, "spin", "cas")
  /\ tlock # 1
  /\ UNCHANGED <<tlock, parentVars, childVars, localVars>>

(* Faulty: the exchange is not conditional; it counts the attempts.        *)
Store(c) ==
  /\ Goto(c, "cas", "cached")
  /\ tlock' = 1
  /\ UNCHANGED <<parentVars, childVars, localVars>>

FetchAndAdd(c) ==
  /\ tlock' = tlock + 1
  /\ \/ tlock = 0 /\ Goto(c, "cas", "cached")
     \/ tlock # 0 /\ Goto(c, "cas", "spin")
  /\ UNCHANGED <<parentVars, childVars, localVars>>

CompareAndSwap(c) ==
  /\ \/ tlock = 0 /\ tlock' = 1 /\ Goto(c, "cas", "cached")
     \/ tlock # 0 /\ UNCHANGED tlock /\ Goto(c, "cas", "spin")
  /\ UNCHANGED <<parentVars, childVars, localVars>>

(* cached_clock = getCurClock(); clock++; m_vc[cur_depth] = getCurClock(). *)
RecordClock(c) ==
  /\ Goto(c, "cached", "load")
  /\ cached' = [cached EXCEPT ![c] = clock]
  /\ UNCHANGED <<tlock, parentVars, path, localVars>>

LoadClock(c) ==
  /\ Goto(c, "load", "store")
  /\ old_clock' = [old_clock EXCEPT ![c] = clock]
  /\ UNCHANGED <<tlock, parentVars, childVars, old_list>>

(* Faulty: the clock is written back as it was read.                       *)
StoreOldClock(c) ==
  /\ Goto(c, "store", "path")
  /\ clock' = old_clock[c]
  /\ UNCHANGED <<tlock, allocated, child_list, childVars, localVars>>

StoreClock(c) ==
  /\ Goto(c, "store", "path")
  /\ clock' = old_clock[c] + 1
  /\ UNCHANGED <<tlock, allocated, child_list, childVars, localVars>>

(* Faulty: the path entry is the clock before the increment.               *)
RecordOldClock(c) ==
  /\ Goto(c, "path", "list")
  /\ path' = [path EXCEPT ![c] = old_clock[c]]
  /\ UNCHANGED <<tlock, parentVars, cached, localVars>>

RecordPath(c) ==
  /\ Goto(c, "path", "list")
  /\ path' = [path EXCEPT ![c] = clock]
  /\ UNCHANGED <<tlock, parentVars, cached, localVars>>

(* Faulty: every spawn allocates the list; every spawn waits for another   *)
(* one to do so.                                                           *)
AlwaysAllocates(c) ==
  /\ Goto(c, "list", "alloc")
  /\ UNCHANGED <<tlock, parentVars, childVars, localVars>>

AwaitsList(c) ==
  /\ pc[c] = "list" /\ pc' = [pc EXCEPT ![c] = IF allocated THEN "read" ELSE @]
  /\ UNCHANGED <<tlock, parentVars, childVars, localVars>>

(* The list is allocated by the first spawn; push_back reads its end and   *)
(* links the child there.                                                  *)
TestList(c) ==
  /\ Goto(c, "list", IF allocated THEN "read" ELSE "alloc")
  /\ UNCHANGED <<tlock, parentVars, childVars, localVars>>

AllocateList(c) ==
  /\ Goto(c, "alloc", "read")
  /\ allocated' = TRUE
  /\ child_list' = <<>>
  /\ UNCHANGED <<tlock, clock, childVars, localVars>>

ReadList(c) ==
  /\ Goto(c, "read", "push")
  /\ old_list' = [old_list EXCEPT ![c] = child_list]
  /\ UNCHANGED <<tlock, parentVars, childVars, old_clock>>

PushBack(c) ==
  /\ Goto(c, "push", "release")
  /\ child_list' = Append(old_list[c], c)
  /\ UNCHANGED <<tlock, clock, allocated, childVars, localVars>>

(* my_releaselock; the rest of CaptureSpawn writes to the child only.      *)
Release(c) ==
  /\ Goto(c, "release", "done")
  /\ tlock' = 0
  /\ UNCHANGED <<parentVars, childVars, localVars>>

Step(c) ==
  \/ Spin(c) \/ CompareAndSwap(c)
  \/ RecordClock(c) \/ LoadClock(c) \/ StoreClock(c) \/ RecordPath(c)
  \/ TestList(c) \/ AllocateList(c) \/ ReadList(c) \/ PushBack(c)
  \/ Release(c)

AllDone == (\A c \in Child : pc[c] = "done") /\ UNCHANGED vars

Next == (\E c \in Child : Step(c)) \/ AllDone

Spec == Init /\ [][Next]_vars

(* The operating system runs every thread that is not blocked.             *)
FairSpec == Spec /\ \A c \in Child : WF_vars(Step(c))

-----------------------------------------------------------------------------
(* The steps leave every variable in the range of the field it models.     *)
TypeOK ==
  /\ pc \in [Child -> PC]
  /\ tlock \in {0, 1}
  /\ clock \in Nat \ {0}
  /\ cached \in [Child -> Nat]
  /\ path \in [Child -> Nat]
  /\ allocated \in BOOLEAN
  /\ child_list \in Seq(Child)
  /\ old_clock \in [Child -> Nat]
  /\ old_list \in [Child -> Seq(Child)]

(***************************************************************************)
(* The spin lock lets at most one thread book a child of the parent: the   *)
(* lock is retried after a failed compare_and_swap, and the value tested   *)
(* before it may be stale.                                                 *)
(***************************************************************************)
MutualExclusion ==
  \A c, d \in Child : pc[c] \in Locked /\ pc[d] \in Locked => c = d

(***************************************************************************)
(* No two children of a parent get the same path entry, and the clock      *)
(* recorded of the parent is the one just before it: an access the parent  *)
(* makes after the spawn is never taken to be in the past of the child.    *)
(***************************************************************************)
Recorded(c) == pc[c] \in {"list", "alloc", "read", "push", "release", "done"}

PathsDistinct ==
  /\ \A c, d \in Child : Recorded(c) /\ Recorded(d) /\ path[c] = path[d] => c = d
  /\ \A c \in Child : Recorded(c) => path[c] = cached[c] + 1

(***************************************************************************)
(* No spawn is lost from the child list or put there twice: what is not in *)
(* the list is not joined by the wait of the parent.                       *)
(***************************************************************************)
Pushed == {c \in Child : pc[c] \in {"release", "done"}}

ChildrenListed ==
  /\ {child_list[i] : i \in DOMAIN child_list} = Pushed
  /\ \A i, j \in DOMAIN child_list : child_list[i] = child_list[j] => i = j

(***************************************************************************)
(* Every spawn takes effect at one instant, that of push_back: before it   *)
(* the clock, the recorded clock and the path entry are the caller's own.  *)
(***************************************************************************)
Booking ==
  INSTANCE SpawnBooking WITH
    clock <- 1 + Len(child_list),
    cached <- [c \in Child |-> IF c \in Pushed THEN cached[c] ELSE 0],
    path <- [c \in Child |-> IF c \in Pushed THEN path[c] ELSE 0]

ImplementsBooking == Booking!Spec

(* Every call of CaptureSpawn returns, though any of them may spin.        *)
EverySpawnReturns == \A c \in Child : <>(pc[c] = "done")
=============================================================================
