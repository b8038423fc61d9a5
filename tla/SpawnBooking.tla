---------------------------- MODULE SpawnBooking ----------------------------
(***************************************************************************)
(* What CaptureSpawn promises about the children of one parent, however    *)
(* many threads spawn them: each spawn is booked once, and takes effect at *)
(* one instant, in which the child gets the clock the parent had, the next *)
(* clock as its path entry, and a place in the child list.                 *)
(***************************************************************************)
EXTENDS Naturals, Sequences

CONSTANT Child           \* the tasks spawned under the parent

VARIABLES
  clock,       \* TaskState::clock of the parent
  cached,      \* cached_clock of the parent in each child
  path,        \* the last entry of the m_vc of each child, 0 before it is set
  child_list   \* TaskState::child_list of the parent

vars == <<clock, cached, path, child_list>>

Init ==
  /\ clock = 1
  /\ cached = [c \in Child |-> 0]
  /\ path = [c \in Child |-> 0]
  /\ child_list = <<>>

Book(c) ==
  /\ path[c] = 0
  /\ cached' = [cached EXCEPT ![c] = clock]
  /\ path' = [path EXCEPT ![c] = clock + 1]
  /\ clock' = clock + 1
  /\ child_list' = Append(child_list, c)

Next == \E c \in Child : Book(c)

Spec == Init /\ [][Next]_vars
=============================================================================
