------------------------------ MODULE HamiState ------------------------------
(***************************************************************************)
(* The state that the "hami" strategy of the device plugin shares between  *)
(* its Allocate handler (HamiAllocate) and its reclaiming goroutines       *)
(* (HamiRefresh): the pods and annotations held by the API server, the     *)
(* mark files under /etc/vdev/dynamic, the vDCUs the driver holds, and the *)
(* node lock.  HamiNode composes the two and adds the environment.         *)
(***************************************************************************)
EXTENDS Integers, Sequences

CONSTANTS
  Pods,          \* pod objects, identified by UID: a re-created pod is another one
  Containers,    \* container names
  Cards,         \* physical DCUs of the node
  VIdx,          \* vDCU indices the driver may hand out
  Order,         \* Order[p]: the containers of p that request DCUs, in spec order
  Devs,          \* Devs[p][c]: the devices the scheduler chose for container c of p
  Virtual,       \* the pods with a positive dcumem limit
  CardMem,       \* memory of a card, in the unit of the dcumem request
  Loops,         \* goroutines running WatchAndRegister, one per plugin instance
  Informers,     \* goroutines running the pod informer's handlers, likewise
  NoPod, NoCtr,  \* sentinels
  MaxTries,      \* attempts RefreshContainerDevices makes at a driver call
  MaxApiFaults, MaxNodeFaults, MaxCrashes,  \* bounds on injected faults of a kind
  MaxFaults      \* bound on injected faults in all

VARIABLES
  \* kept by the API server
  phase,         \* status.phase of each pod, or "unborn" / "gone"
  bindPhase,     \* annotation hami.io/bind-phase
  toAllocate,    \* annotation hami.io/dcu-devices-to-allocate, decoded
  ctrIndexes,    \* annotation hygon.com/container-index, decoded
  lock,          \* node annotation hami.io/mutex.lock
  \* kept by the node: they survive a restart of the plugin
  marks,         \* files of /etc/vdev/dynamic
  dynDir,        \* whether /etc/vdev/dynamic exists
  vdcus,         \* vDCUs the driver holds; pod and ctr say who it was made for
  confs,         \* indices i with a file /etc/vdev/vdev<i>.conf
  reused,        \* history: the containers whose vDCU was given an index that an
                 \* older mark file, or a refresh with an older list, still named
  \* processes
  h,             \* the Allocate call in progress
  kubelet,       \* the pod kubelet is admitting and the containers still to do
  admitted,      \* pods whose Allocate calls all returned without error
  ref,           \* one RefreshContainerDevices call per reclaiming goroutine
  events,        \* pod events each informer has still to handle
  \* fault budgets used up
  apiFaults, nodeFaults, crashes

apiVars   == <<bindPhase, toAllocate, ctrIndexes, lock>>
nodeVars  == <<marks, dynDir, vdcus, confs, reused>>
allocVars == <<h, kubelet, admitted>>
refVars   == <<ref, events>>
faultVars == <<apiFaults, nodeFaults, crashes>>
vars == <<phase, apiVars, nodeVars, allocVars, refVars, faultVars>>

Refreshers == Loops \cup Informers

Device == [card: Cards, mem: Nat, cores: Nat]
Mark   == [pod: Pods, ctr: Containers \cup {NoCtr}, card: Cards, vdev: VIdx \cup {-1}]
Vdcu   == [idx: VIdx, pod: Pods, ctr: Containers, card: Cards, up: BOOLEAN]
Event  == Pods \X {"complete", "delete"}

\* The containers of p that request DCUs.
CtrsOf(p) == {Order[p][n] : n \in DOMAIN Order[p]}

Live     == {"Pending", "Running"}
Finished == {"Succeeded", "Failed", "gone"}

ASSUME ConstantsAssumption ==
  /\ NoPod \notin Pods /\ NoCtr \notin Containers
  /\ VIdx \subseteq Nat
  /\ Virtual \subseteq Pods
  /\ Loops \cap Informers = {}
  /\ Order \in [Pods -> Seq(Containers)]
  /\ \A p \in Pods : \A m, n \in DOMAIN Order[p] : Order[p][m] = Order[p][n] => m = n
  /\ Devs \in [Pods -> [Containers -> Seq(Device)]]
  /\ \A p \in Pods, c \in Containers : Devs[p][c] # <<>>
  /\ CardMem \in Nat
  /\ MaxTries \in Nat \ {0}
  /\ MaxApiFaults \in Nat /\ MaxNodeFaults \in Nat
  /\ MaxCrashes \in Nat /\ MaxFaults \in Nat

-----------------------------------------------------------------------------
\* A request to the API server (resp. a driver or file operation) is answered
\* with an error: each such step uses up the budget of its kind.
FaultLeft == apiFaults + nodeFaults + crashes < MaxFaults
ApiFault  == FaultLeft /\ apiFaults < MaxApiFaults /\ apiFaults' = apiFaults + 1
NodeFault == FaultLeft /\ nodeFaults < MaxNodeFaults /\ nodeFaults' = nodeFaults + 1

\* The indices a refresh may still destroy: those in the names of the files, and
\* in the names the refreshes in progress have read.
NamedIdx ==
  {m.vdev : m \in marks \cup UNION {ref[r].files \cup ref[r].todo \cup ref[r].busy : r \in Refreshers}}

\* RequestsVirtualDCU: some container of the pod has a dcumem limit above 0.
RequestsVirtualDCU(p) == p \in Virtual

\* What the informers receive when pod p completes or disappears; their
\* handlers act on pods that request a vDCU and ignore the others.
Notify(p, kind) ==
  events' = [i \in Informers |->
               IF RequestsVirtualDCU(p) THEN events[i] \cup {<<p, kind>>} ELSE events[i]]

Exists(p) == phase[p] \notin {"unborn", "gone"}
=============================================================================
