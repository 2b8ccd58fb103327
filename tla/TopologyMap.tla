----------------------------- MODULE TopologyMap -----------------------------
(***************************************************************************)
(* What the nodes promise of the shared ConfigMap dcu-topology-info: a     *)
(* node only ever writes its own entry, with a topology it has found.      *)
(***************************************************************************)
CONSTANTS Nodes, Topologies, None

VARIABLE entry   \* entry[n]: the topology published by n, or None

Init == entry = [n \in Nodes |-> None]

Publish(n) == \E t \in Topologies : entry' = [entry EXCEPT ![n] = t]

\* An administrator deletes the ConfigMap, and every entry with it.
Clear == entry' = [n \in Nodes |-> None]

Next == (\E n \in Nodes : Publish(n)) \/ Clear

Spec == Init /\ [][Next]_entry
=============================================================================
