-------------------------- MODULE TopologyConfigMap --------------------------
(***************************************************************************)
(* UpdateTopologyConfigMap (register.go): every WatchAndRegister loop of   *)
(* every node patches its node's entry of one ConfigMap, creates the       *)
(* ConfigMap when there is none, and patches again when another node was   *)
(* faster.  Each request to the API server is a step of its own.           *)
(***************************************************************************)
EXTENDS Naturals

CONSTANTS
  Nodes, Topologies, None,
  Writers,      \* the loops; with RESOURCE_MULTIPLE a node runs three
  NodeOf,       \* NodeOf[w]: the node of loop w
  MaxErrors,    \* driver calls and requests that fail
  MaxChanges,   \* changes of a node's topology
  MaxDeletes    \* times the ConfigMap is deleted

ASSUME WritersAssumption ==
  /\ None \notin Topologies /\ NodeOf \in [Writers -> Nodes]
  /\ MaxErrors \in Nat /\ MaxChanges \in Nat /\ MaxDeletes \in Nat

VARIABLES
  topology,     \* what DiscoverInterconnectTopology finds on each node
  exists,       \* whether the ConfigMap exists
  data,         \* its data, None for a key it has not
  pc, found,    \* the next request of each loop and the topology it carries
  errors, changes, deletes

budgets == <<errors, changes, deletes>>
vars == <<topology, exists, data, pc, found, budgets>>

NoData == [n \in Nodes |-> None]

TypeOK ==
  /\ topology \in [Nodes -> Topologies]
  /\ exists \in BOOLEAN
  /\ data \in [Nodes -> Topologies \cup {None}]
  /\ pc \in [Writers -> {"discover", "patch", "create", "retry"}]
  /\ found \in [Writers -> Topologies \cup {None}]
  /\ errors \in Nat /\ changes \in Nat /\ deletes \in Nat

Init ==
  /\ topology \in [Nodes -> Topologies]
  /\ exists = FALSE /\ data = NoData
  /\ pc = [w \in Writers |-> "discover"]
  /\ found = [w \in Writers |-> None]
  /\ errors = 0 /\ changes = 0 /\ deletes = 0

-----------------------------------------------------------------------------
Goto(w, label) == pc' = [pc EXCEPT ![w] = label]

\* The merge patch; before it, a faulty variant that replaces the data.
Replaced(w) == [NoData EXCEPT ![NodeOf[w]] = found[w]]
Merged(w) == [data EXCEPT ![NodeOf[w]] = found[w]]

\* Any other error ends the call; the loop comes back later.  Before it, a
\* faulty variant that goes on after an error.
ErrorIgnored(w) ==
  /\ errors < MaxErrors /\ errors' = errors + 1
  /\ Goto(w, "patch")
  /\ UNCHANGED <<exists, data, found>>

Error(w) ==
  /\ errors < MaxErrors /\ errors' = errors + 1
  /\ Goto(w, "discover")
  /\ UNCHANGED <<exists, data, found>>

\* DiscoverInterconnectTopology; before it, a faulty variant that keeps the first.
DiscoveredOnce(w) == IF found[w] = None THEN topology[NodeOf[w]] ELSE found[w]
Discovered(w) == topology[NodeOf[w]]

Discover(w) ==
  /\ pc[w] = "discover"
  /\ \/ /\ found' = [found EXCEPT ![w] = Discovered(w)]
        /\ Goto(w, "patch") /\ UNCHANGED <<exists, data, errors>>
     \/ Error(w)
  /\ UNCHANGED <<topology, changes, deletes>>

\* A patch sets the node's key; NotFound leads to Create.
PatchExisting(w) ==
  /\ exists /\ data' = Merged(w)
  /\ Goto(w, "discover") /\ UNCHANGED <<exists, found, errors>>

Patch(w) ==
  /\ pc[w] = "patch"
  /\ \/ PatchExisting(w)
     \/ ~exists /\ Goto(w, "create") /\ UNCHANGED <<exists, data, found, errors>>
     \/ Error(w)
  /\ UNCHANGED <<topology, changes, deletes>>

\* AlreadyExists leads to a second patch, whose result is final.
Create(w) ==
  /\ pc[w] = "create"
  /\ \/ /\ ~exists /\ exists' = TRUE /\ data' = [NoData EXCEPT ![NodeOf[w]] = found[w]]
        /\ Goto(w, "discover") /\ UNCHANGED <<found, errors>>
     \/ exists /\ Goto(w, "retry") /\ UNCHANGED <<exists, data, found, errors>>
     \/ Error(w)
  /\ UNCHANGED <<topology, changes, deletes>>

RetryPatch(w) ==
  /\ pc[w] = "retry"
  /\ \/ PatchExisting(w)
     \/ ~exists /\ Goto(w, "discover") /\ UNCHANGED <<exists, data, found, errors>>
     \/ Error(w)
  /\ UNCHANGED <<topology, changes, deletes>>

Update(w) == Discover(w) \/ Patch(w) \/ Create(w) \/ RetryPatch(w)

TopologyChanges(n) ==
  /\ changes < MaxChanges /\ changes' = changes + 1
  /\ \E t \in Topologies : topology' = [topology EXCEPT ![n] = t]
  /\ UNCHANGED <<exists, data, pc, found, errors, deletes>>

DeleteMap ==
  /\ exists /\ deletes < MaxDeletes /\ deletes' = deletes + 1
  /\ exists' = FALSE /\ data' = NoData
  /\ UNCHANGED <<topology, pc, found, errors, changes>>

Next ==
  \/ \E w \in Writers : Update(w)
  \/ \E n \in Nodes : TopologyChanges(n)
  \/ DeleteMap

Spec == Init /\ [][Next]_vars

\* A loop goes on for ever, and its requests are answered.
FairSpec == Spec /\ \A w \in Writers : WF_vars(Update(w))

-----------------------------------------------------------------------------
\* The nodes keep to their own entries: this implements TopologyMap, whoever
\* creates the ConfigMap and whenever it is deleted.
Abstract == INSTANCE TopologyMap WITH entry <- data
KeepsToOwnEntry == Abstract!Spec

\* Whatever fails, a request carries a topology that was found, and with no
\* ConfigMap there is no entry left for Create to overwrite.
FoundIsTopology == \A w \in Writers : pc[w] # "discover" => found[w] \in Topologies
NoMapNoData == ~exists => data = NoData
TopologyInv == TypeOK /\ FoundIsTopology /\ NoMapNoData

\* The entry of every node comes to be its topology and stays so, although an
\* old topology may still be on its way when it changes.
Converges == \A n \in Nodes : (\E w \in Writers : NodeOf[w] = n) => <>[](data[n] = topology[n])
=============================================================================
