------------------------- MODULE MCTopologyConfigMap -------------------------
(* Instance of TopologyConfigMap for TLC: two loops on n1, one on n2.       *)
EXTENDS TopologyConfigMap, TLC
CONSTANTS n1, n2, w1, w2, w3
Loops3 == w1 :> n1 @@ w2 :> n1 @@ w3 :> n2
=============================================================================
