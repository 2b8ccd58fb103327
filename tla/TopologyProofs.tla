---------------------------- MODULE TopologyProofs ----------------------------
(* Theorems about TopologyConfigMap.                                        *)
EXTENDS TopologyConfigMap, TLAPS

LEMMA NoDataType == NoData \in [Nodes -> Topologies \cup {None}]
  BY DEF NoData

LEMMA InitInv == Init => TopologyInv
<1> SUFFICES ASSUME Init PROVE TopologyInv
  OBVIOUS
<1>1. TypeOK
  <2>1. data \in [Nodes -> Topologies \cup {None}]
    BY NoDataType DEF Init
  <2>2. QED
    BY <2>1 DEF Init, TypeOK
<1>2. FoundIsTopology
  BY DEF Init, FoundIsTopology
<1>3. NoMapNoData
  BY DEF Init, NoMapNoData
<1>4. QED
  BY <1>1, <1>2, <1>3 DEF TopologyInv

\* A step that only fails keeps the invariant.
LEMMA ErrorInv ==
  ASSUME TopologyInv, NEW w \in Writers, Error(w), UNCHANGED <<topology, changes, deletes>>
  PROVE  TopologyInv'
  BY WritersAssumption
     DEF TopologyInv, TypeOK, FoundIsTopology, NoMapNoData, NoData, Error, Goto

LEMMA PatchInv ==
  ASSUME TopologyInv, NEW w \in Writers, pc[w] \in {"patch", "retry"}, PatchExisting(w),
         UNCHANGED <<topology, changes, deletes>>
  PROVE  TopologyInv'
  BY WritersAssumption
     DEF TopologyInv, TypeOK, FoundIsTopology, NoMapNoData, NoData, PatchExisting, Merged, Goto

LEMMA NextInv == TopologyInv /\ [Next]_vars => TopologyInv'
<1> SUFFICES ASSUME TopologyInv, [Next]_vars PROVE TopologyInv'
  OBVIOUS
<1> USE WritersAssumption
<1>1. ASSUME NEW w \in Writers, Update(w) PROVE TopologyInv'
  <2>1. CASE Discover(w)
    BY <2>1, ErrorInv
       DEF TopologyInv, TypeOK, FoundIsTopology, NoMapNoData, NoData, Discover, Discovered, Goto
  <2>2. CASE Patch(w)
    BY <2>2, ErrorInv, PatchInv
       DEF TopologyInv, TypeOK, FoundIsTopology, NoMapNoData, NoData, Patch, Goto
  <2>3. CASE Create(w)
    BY <2>3, ErrorInv
       DEF TopologyInv, TypeOK, FoundIsTopology, NoMapNoData, NoData, Create, Goto
  <2>4. CASE RetryPatch(w)
    BY <2>4, ErrorInv, PatchInv
       DEF TopologyInv, TypeOK, FoundIsTopology, NoMapNoData, NoData, RetryPatch, Goto
  <2>5. QED
    BY <1>1, <2>1, <2>2, <2>3, <2>4 DEF Update
<1>2. ASSUME NEW n \in Nodes, TopologyChanges(n) PROVE TopologyInv'
  BY <1>2 DEF TopologyInv, TypeOK, FoundIsTopology, NoMapNoData, NoData, TopologyChanges
<1>3. CASE DeleteMap
  <2>1. data' = NoData' /\ data' \in [Nodes -> Topologies \cup {None}]
    BY <1>3, NoDataType DEF DeleteMap, NoData
  <2>2. TypeOK'
    <3>1. exists' \in BOOLEAN
      BY <1>3 DEF DeleteMap
    <3>2. deletes' \in Nat
      BY <1>3 DEF TopologyInv, TypeOK, DeleteMap
    <3>3. QED
      BY <1>3, <2>1, <3>1, <3>2 DEF TopologyInv, TypeOK, DeleteMap
  <2>3. FoundIsTopology'
    BY <1>3 DEF TopologyInv, FoundIsTopology, DeleteMap
  <2>4. NoMapNoData'
    BY <2>1 DEF NoMapNoData
  <2>5. QED
    BY <2>2, <2>3, <2>4 DEF TopologyInv
<1>4. CASE UNCHANGED vars
  BY <1>4 DEF TopologyInv, TypeOK, FoundIsTopology, NoMapNoData, NoData, vars, budgets
<1>5. QED
  BY <1>1, <1>2, <1>3, <1>4 DEF Next

\* Whatever fails, a request carries a topology that was found, and a missing
\* ConfigMap has no data (UpdateTopologyConfigMap).
THEOREM TopologyInvariant == Spec => []TopologyInv
  BY InitInv, NextInv, PTL DEF Spec

-----------------------------------------------------------------------------
LEMMA InitAbstract == Init => Abstract!Init
  BY DEF Init, Abstract!Init, NoData

LEMMA StepAbstract == TopologyInv /\ [Next]_vars => [Abstract!Next]_data
<1> SUFFICES ASSUME TopologyInv, [Next]_vars PROVE Abstract!Next \/ UNCHANGED data
  OBVIOUS
<1> USE WritersAssumption
<1>1. ASSUME NEW w \in Writers, pc[w] \in {"patch", "retry"}, PatchExisting(w) PROVE Abstract!Next
  <2>1. NodeOf[w] \in Nodes /\ found[w] \in Topologies
    BY <1>1 DEF TopologyInv, FoundIsTopology
  <2>2. data' = [data EXCEPT ![NodeOf[w]] = found[w]]
    BY <1>1 DEF PatchExisting, Merged
  <2>3. Abstract!Publish(NodeOf[w])
    BY <2>1, <2>2 DEF Abstract!Publish
  <2>4. QED
    BY <2>1, <2>3 DEF Abstract!Next
<1>2. ASSUME NEW w \in Writers, pc[w] = "create", ~exists,
             data' = [NoData EXCEPT ![NodeOf[w]] = found[w]]
      PROVE Abstract!Next
  <2>1. NodeOf[w] \in Nodes /\ found[w] \in Topologies /\ data = NoData
    BY <1>2 DEF TopologyInv, FoundIsTopology, NoMapNoData
  <2>2. Abstract!Publish(NodeOf[w])
    BY <1>2, <2>1 DEF Abstract!Publish
  <2>3. QED
    BY <2>1, <2>2 DEF Abstract!Next
<1>3. ASSUME NEW w \in Writers, Update(w) PROVE Abstract!Next \/ UNCHANGED data
  BY <1>1, <1>2, <1>3 DEF Update, Discover, Patch, Create, RetryPatch, Error
<1>4. ASSUME NEW n \in Nodes, TopologyChanges(n) PROVE UNCHANGED data
  BY <1>4 DEF TopologyChanges
<1>5. CASE DeleteMap
  BY <1>5 DEF DeleteMap, Abstract!Next, Abstract!Clear, NoData
<1>6. QED
  BY <1>3, <1>4, <1>5 DEF Next, vars

\* UpdateTopologyConfigMap implements the shared map in which every node keeps
\* to its own entry, for any number of nodes and loops.
THEOREM ImplementsTopologyMap == Spec => KeepsToOwnEntry
  BY InitAbstract, StepAbstract, TopologyInvariant, PTL
     DEF Spec, KeepsToOwnEntry, Abstract!Spec
=============================================================================
