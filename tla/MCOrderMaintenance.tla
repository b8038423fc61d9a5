------------------------ MODULE MCOrderMaintenance ------------------------
(***************************************************************************)
(* OrderMaintenance with two programs: two threads with a few calls each,  *)
(* and one thread alone that inserts many nodes, after the first node or   *)
(* the newest one, until the tree is rebuilt from its root.                *)
(***************************************************************************)
EXTENDS OrderMaintenance

CONSTANTS Few, Many

ASSUME MCAssumption == 2 * Few + 1 < Many

MCInit == Init /\ todo \in {<<Few, Few>>, <<Many, 0>>}

MCNext ==
  /\ Next
  /\ Cardinality(Nodes) + todo[1] >= Many =>
       /\ base'[1] \in {NoNode, 1, Cardinality(Nodes), base[1]}
       /\ pc'[1] # "lock_query"

MCSpec == MCInit /\ [][MCNext]_vars /\ \A t \in Thread : WF_vars(Step(t))
=============================================================================
