------------------------------ MODULE MCIdioms ------------------------------
(***************************************************************************)
(* FastRacer on four kinds of programs, chosen in the initial state, with  *)
(* a history variable: stamps collects, for every segment a task of a      *)
(* fork-join program has been in, the clocks an access made in that        *)
(* segment would have been recorded with.                                  *)
(***************************************************************************)
EXTENDS FastRacer

VARIABLES program, stamps

mcVars == <<vars, program, stamps>>

Program == {"fork_join", "idioms", "reports", "siblings"}

MCInit ==
  /\ Init
  /\ program \in Program
  /\ stamps = IF program = "fork_join" THEN {<<0, 1, 1>>} ELSE {}

(* The bounds of each kind of program.                                     *)
TaskBound ==
  CASE program = "fork_join" -> MaxTasks
    [] program = "idioms"    -> 5
    [] OTHER                 -> 4

AccessBound ==
  CASE program = "reports"  -> 3
    [] program = "siblings" -> 4
    [] OTHER                -> 0

(***************************************************************************)
(* What a step of each kind of program may do.  A spawn of a sibling does  *)
(* not end the segment of the parent that is booked.                       *)
(***************************************************************************)
SpawnsOwn ==
  LET p == parent_taskId'[task_id_ctr']
  IN  task_id_ctr' # task_id_ctr => seg'[p] # seg[p]

SpawnsUnderRootWait ==
  LET p == parent_taskId'[task_id_ctr']
  IN  task_id_ctr' # task_id_ctr => seg'[p] # seg[p] \/ status[p] = "rootwait"

NoLocks == \A t \in Task : lockset'[t] = {}
RootsByMain == \A t \in Task \ {0} : tbb_roots'[t] = {}
WaitsForChildren ==
  \A t \in Task \ {0} : status'[t] = "finished" => tbb_children'[t] = {}
SpawnsWithoutLock == \A t \in Task : lockset'[t] = held'[t]
MainIsIdle == held'[0] = {} /\ \A a \in history' : a.task # 0

Allowed ==
  /\ ~ is_racy       \* nothing is recorded after the first report
  /\ task_id_ctr' < TaskBound
  /\ AccessBound = 0 => history' = history
  /\ AccessBound > 0 => Cardinality(history) < AccessBound    \* ... or after the last access
  /\ CASE program = "fork_join" -> NoLocks /\ RootsByMain /\ WaitsForChildren /\ SpawnsOwn
       [] program = "siblings"  -> NoLocks /\ RootsByMain /\ WaitsForChildren
                                   /\ SpawnsUnderRootWait
       [] program = "reports"   -> SpawnsWithoutLock /\ SpawnsOwn /\ MainIsIdle
       [] OTHER                 -> TRUE

MCNext ==
  /\ Next
  /\ Allowed
  /\ stamps' = IF program = "fork_join"
               THEN stamps \cup {<<t, seg'[t], clock'[t]>> : t \in {u \in Task : seg'[u] > 0}}
               ELSE stamps
  /\ UNCHANGED program

MCSpec == MCInit /\ [][MCNext]_mcVars

(***************************************************************************)
(* The ordering test is exact: whatever a task of a fork-join program did  *)
(* in some segment, under whatever clock, a running task takes it to be    *)
(* ordered before itself if and only if it happened before.  What          *)
(* check_dead discards is excluded.                                        *)
(***************************************************************************)
OrderingIsExact ==
  \A t \in Task, s \in stamps :
    Running(t) /\ s[1] # t /\ ~ check_dead(s[1], s[3])
      => (OrderedBefore(t, s[1], s[3]) <=> <<s[1], s[2]>> \in before[t])

(***************************************************************************)
(* What check_dead lets RecordMem forget happened before everything that   *)
(* any task can still do.                                                  *)
(***************************************************************************)
DeadIsPast ==
  \A t \in Task, s \in stamps :
    Running(t) /\ s[1] # t /\ check_dead(s[1], s[3])
      => <<s[1], s[2]>> \in before[t]

(***************************************************************************)
(* RecordMem asks for a verdict several times under the lock of the        *)
(* address only, while other tasks spawn and join.  The verdict of a       *)
(* running task on any earlier clock changes only by a step of its own,     *)
(* unless tasks other than main wait for roots or leave children behind.   *)
(***************************************************************************)
VerdictsAreStable ==
  [][\A t, u \in Task :
       /\ program \in {"fork_join", "siblings"}
       /\ Running(t) /\ Running(t)'
       /\ seg'[t] = seg[t]
       => \A c \in 1 .. clock[u] :
            OrderedBefore(t, u, c)' <=> OrderedBefore(t, u, c)]_mcVars

(***************************************************************************)
(* A task that spawns a sibling while the parent waits in its              *)
(* spawn_root_and_wait (test 15) changes nothing: FastRacer books the      *)
(* sibling under a parent that makes no access, and misses no race.        *)
(***************************************************************************)
SiblingRacesFound == program = "siblings" => NoMissedRace

(***************************************************************************)
(* Every report, whatever the locks, with nested roots and with children   *)
(* left behind, names an access that was really made by the first task and *)
(* that did not happen before the access of the second; one of the two is  *)
(* a write.                                                                *)
(***************************************************************************)
ReportIsConcurrent ==
  [][program = "reports" /\ all_violations' # all_violations =>
       LET w == all_violations'
       IN  \E a \in history : /\ a.task = w[1] /\ a.kind = w[2]
                              /\ Concurrent(w[3], a)
                              /\ WRITE \in {w[2], w[4]}]_mcVars
=============================================================================
