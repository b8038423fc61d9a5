---------------------------- MODULE MCDetectors ----------------------------
EXTENDS Detectors

(* A state is checked but not continued after the last access (the third   *)
(* if one of them is made under a lock or by the main task, or if siblings *)
(* were spawned), and once all three have reported.                        *)
Wide == ~ strict \/ \E a \in history : a.locks # {} \/ a.task = 0

Undecided ==
  /\ Cardinality(history) < IF Wide THEN MaxAccesses - 1 ELSE MaxAccesses
  /\ ~ (violation /\ ptracerFound /\ spd3Found)

(* A wait with no child outstanding changes nothing that was recorded: it  *)
(* is made before the first access only and, where siblings were spawned,  *)
(* after the last spawn.                                                   *)
EarlyIdle ==
  \/ due' = due \/ status' # status
  \/ history = {} /\ (strict \/ spawned = MaxTasks - 1)
=============================================================================
