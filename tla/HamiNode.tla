------------------------------- MODULE HamiNode -------------------------------
(***************************************************************************)
(* A node under the "hami" strategy: the Allocate handler and the          *)
(* reclaiming goroutines of the plugin, composed with what surrounds them  *)
(* (the scheduler, kubelet, users, the life of the pods, a plugin crash).  *)
(* The surroundings are modelled from how the plugin uses them.            *)
(***************************************************************************)
EXTENDS HamiAllocate, HamiRefresh

PhaseTypeOK == phase \in [Pods -> Live \cup Finished \cup {"unborn"}]
ApiTypeOK ==
  /\ bindPhase \in [Pods -> {"none", "allocating", "success", "failed"}]
  /\ toAllocate \in [Pods -> Seq(Containers)]
  /\ ctrIndexes \in [Pods -> Seq(Containers)]
  /\ lock \in Pods \cup {NoPod}
NodeTypeOK ==
  /\ marks \subseteq Mark /\ dynDir \in BOOLEAN /\ vdcus \subseteq Vdcu /\ confs \subseteq VIdx
  /\ reused \subseteq Pods \X Containers
AllocTypeOK ==
  /\ h \in Handler
  /\ kubelet \in [pod : Pods \cup {NoPod}, left : Seq(Containers)]
  /\ admitted \subseteq Pods
RefTypeOK ==
  ref \in [Refreshers -> Refresher] /\ events \in [Informers -> SUBSET Event]
FaultTypeOK == apiFaults \in Nat /\ nodeFaults \in Nat /\ crashes \in Nat

\* Every variable has its type.
TypeOK ==
  PhaseTypeOK /\ ApiTypeOK /\ NodeTypeOK /\ AllocTypeOK /\ RefTypeOK /\ FaultTypeOK

Init ==
  /\ phase = [p \in Pods |-> "unborn"]
  /\ bindPhase = [p \in Pods |-> "none"]
  /\ toAllocate = [p \in Pods |-> <<>>]
  /\ ctrIndexes = [p \in Pods |-> <<>>]
  /\ lock = NoPod
  /\ marks = {} /\ vdcus = {} /\ confs = {} /\ reused = {}
  /\ dynDir \in BOOLEAN
  /\ h = IdleHandler /\ kubelet = NoAdmission /\ admitted = {}
  /\ ref = [r \in Refreshers |-> IdleRefresher]
  /\ events = [i \in Informers |-> {}]
  /\ apiFaults = 0 /\ nodeFaults = 0 /\ crashes = 0

-----------------------------------------------------------------------------
\* The scheduler takes the node lock, writes the devices it chose into both
\* annotations and binds the pod.
Schedule(p) ==
  /\ phase[p] = "unborn" /\ Order[p] # <<>> /\ lock = NoPod
  /\ lock' = p
  /\ phase' = [phase EXCEPT ![p] = "Pending"]
  /\ bindPhase' = [bindPhase EXCEPT ![p] = "allocating"]
  /\ toAllocate' = [toAllocate EXCEPT ![p] = Order[p]]
  /\ UNCHANGED <<ctrIndexes, nodeVars, allocVars, refVars, faultVars>>

\* The lock is forced open minutes later, when kubelet is long done with the
\* pod that took it.
ExpireLock ==
  /\ lock # NoPod /\ phase[lock] # "Pending" /\ kubelet.pod # lock
  /\ lock' = NoPod
  /\ UNCHANGED <<phase, bindPhase, toAllocate, ctrIndexes, nodeVars, allocVars,
                 refVars, faultVars>>

\* Kubelet admits one pod at a time, and makes one Allocate call for each of
\* its containers that requests devices.
AdmitPod(p) ==
  /\ kubelet = NoAdmission
  /\ phase[p] = "Pending" /\ p \notin admitted
  /\ kubelet' = [pod |-> p, left |-> Order[p]]
  /\ UNCHANGED <<phase, apiVars, nodeVars, h, admitted, refVars, faultVars>>

CallAllocate ==
  /\ h.pc = "idle" /\ kubelet.pod # NoPod
  /\ h' = [h EXCEPT !.pc = "pending"]
  /\ UNCHANGED <<phase, apiVars, nodeVars, kubelet, admitted, refVars, faultVars>>

StartPod(p) ==
  /\ p \in admitted /\ phase[p] = "Pending"
  /\ phase' = [phase EXCEPT ![p] = "Running"]
  /\ UNCHANGED <<apiVars, nodeVars, allocVars, refVars, faultVars>>

\* The informers see a pod complete only when it was running.
FinishPod(p) ==
  /\ phase[p] = "Running"
  /\ \E end \in {"Succeeded", "Failed"} : phase' = [phase EXCEPT ![p] = end]
  /\ Notify(p, "complete")
  /\ UNCHANGED <<apiVars, nodeVars, allocVars, ref, faultVars>>

UserDelete(p) ==
  /\ Exists(p)
  /\ phase' = [phase EXCEPT ![p] = "gone"]
  /\ Notify(p, "delete")
  /\ UNCHANGED <<apiVars, nodeVars, allocVars, ref, faultVars>>

\* The plugin dies and is started again.  Every goroutine starts afresh, events
\* in between are not seen, and kubelet gets an error for a call in progress.
Crash ==
  /\ FaultLeft /\ crashes < MaxCrashes /\ crashes' = crashes + 1
  /\ IF h.pc = "idle" THEN UNCHANGED <<phase, kubelet, admitted, h>> ELSE Answer(FALSE)
  /\ ref' = [r \in Refreshers |-> IdleRefresher]
  /\ events' = [i \in Informers |-> {}]
  /\ UNCHANGED <<apiVars, nodeVars, apiFaults, nodeFaults>>

EnvironmentStep ==
  \/ ExpireLock \/ CallAllocate
  \/ \E p \in Pods : \/ Schedule(p) \/ AdmitPod(p) \/ StartPod(p)
                     \/ FinishPod(p) \/ UserDelete(p)

Next ==
  \/ AllocateStep
  \/ \E r \in Refreshers : RefreshStep(r)
  \/ EnvironmentStep
  \/ Crash

Spec == Init /\ [][Next]_vars

\* Goroutines run and requests are answered, so the plugin's own steps are
\* taken; kubelet goes on with an admission it can make.  Nothing makes a user,
\* the scheduler, a container or a fault act.
Fairness ==
  /\ WF_vars(AllocateStep)
  /\ WF_vars(CallAllocate)
  /\ \A p \in Pods : WF_vars(AdmitPod(p))
  /\ \A r \in Refreshers : WF_vars(RefreshStep(r))

FairSpec == Spec /\ Fairness
-----------------------------------------------------------------------------
NoFaults    == apiFaults = 0 /\ nodeFaults = 0 /\ crashes = 0
NoApiFaults == apiFaults = 0 /\ crashes = 0

\* What the steps of a call rely on.  A call belongs to an admission; its pod,
\* request and index are known when they are needed; whoever has lost devices
\* to an earlier call has container indices.
Born(p) == phase[p] # "unborn"
HandlerOK ==
  /\ h.pc # "idle" => kubelet.pod # NoPod
  /\ kubelet.pod # NoPod => kubelet.left # <<>> /\ Born(kubelet.pod)
  /\ h.pc \notin {"idle", "pending"} => h.pod # NoPod
  /\ h.pod # NoPod => Born(h.pod)
  /\ h.pc \in {"serve", "create", "mark"} => h.req # NoCtr
  /\ h.pc = "mark" => h.vdev # -1

BornHasOrder == \A p \in Pods : Born(p) => Order[p] # <<>>

\* The marks a refresh holds stale belong to pods that have finished for good.
ReclaimOnlyFinished ==
  \A r \in Refreshers : \A m \in ref[r].todo \cup ref[r].busy : phase[m.pod] \in Finished

MarksBorn ==
  /\ \A m \in marks : Born(m.pod)
  /\ \A r \in Refreshers : \A m \in ref[r].files : Born(m.pod)

\* The inductive invariant behind the safety theorems.
NodeInv == TypeOK /\ HandlerOK /\ BornHasOrder /\ MarksBorn /\ ReclaimOnlyFinished

\* The pod the handler found through the annotations is the one kubelet is
\* asking for, although the request does not name it: nothing but the node lock
\* and the bind phase keeps two pods apart.  (AllocateHAMiDCUs, GetPendingPod)
RightPod == NoApiFaults /\ h.pod # NoPod => h.pod = kubelet.pod

\* The node lock covers the handshake: while a pending pod is marked as
\* allocating, the lock is held for it.  (PodAllocationSuccess patches the phase
\* before it gives up the lock.)
LockCoversAllocating ==
  NoApiFaults => \A p \in Pods :
    phase[p] = "Pending" /\ bindPhase[p] = "allocating" => lock = p

\* The spec.containers index the handler uses is always known once devices are
\* served, whatever request failed before: -1 would make the plugin panic.
\* (UpdateContainerIndexAnnotations, DeleteContainerIndexAnnotations)
IndexKnown == h.pc \in {"erase", "serve", "create", "mark"} => h.ctr # NoCtr

IndexInv ==
  /\ h.pc \notin {"idle", "pending", "index"} => ctrIndexes[h.pod] # <<>>
  /\ \A p \in Pods : Born(p) => Untouched(p) \/ ctrIndexes[p] # <<>>
  /\ h.pc \in {"erase", "serve", "create", "mark"} => h.ctr # NoCtr

\* No container is ever given two vDCUs, and the driver is never asked for a second
\* one, through any failure or crash between taking the devices from the annotation
\* and answering kubelet.  (EraseNextDeviceTypeFromAnnotation before CreateVDevices)
OneVdcuEach ==
  /\ \A v, w \in vdcus : v.pod = w.pod /\ v.ctr = w.ctr => v = w
  /\ h.pc = "create" => \A v \in vdcus : v.pod # h.pod \/ v.ctr # h.req

\* A vDCU that was made under an index nobody named any more belongs to the mark
\* that names it: the pod and the card agree whatever fails, and the container
\* unless a request to the API server has failed, since container-index runs in
\* step with the device queue.  (CreateMarkFile's name is all that ties a vDCU to
\* its pod.)
MarkNamesItsVdcu ==
  \A m \in marks, v \in vdcus :
    m.vdev = v.idx /\ <<v.pod, v.ctr>> \notin reused =>
      m.pod = v.pod /\ m.card = v.card /\ (NoApiFaults => m.ctr = v.ctr)

\* Such a vDCU is neither stopped nor destroyed while its pod lives, by any number
\* of goroutines with directory and pod lists of any age, and whatever fails.
\* (RefreshContainerDevices destroys what stands in a file name it once read.)
OwnVdcuKept ==
  [][\A v \in vdcus :
       <<v.pod, v.ctr>> \notin reused /\ phase[v.pod] \in Live => v \in vdcus']_vars

\* A pod that was admitted and lives has, for each container that needs a vDCU, a
\* mark with an index, and under that index its running vDCU if it is one of those
\* above: also when the driver runs out of indices for some of its containers.
\* (AllocateHAMiDCUs answers without an error only for a container it served.)
Served(p, c) ==
  \E m \in marks :
    /\ m.pod = p /\ m.ctr = c /\ m.vdev \in VIdx
    /\ <<p, c>> \notin reused =>
         \E v \in vdcus : v.idx = m.vdev /\ v.pod = p /\ v.ctr = c /\ v.up
AdmittedServed ==
  NoFaults => \A p \in admitted, c \in Containers :
    phase[p] \in Live /\ c \in CtrsOf(p) /\ NeedsVdcu(p, c) => Served(p, c)

\* A refresh only ever takes away the mark file of a pod that has finished, even
\* when the file and the pod lists are old and another refresh is running.
\* (RefreshContainerDevices reads the directory before it lists the pods.)
LiveMarkKept == [][\A m \in marks \ marks' : phase[m.pod] \in Finished]_vars

\* The vDCU of a live pod's mark is there and runs until the pod finishes.
LiveVdcuKept ==
  \A m \in marks : phase[m.pod] \in Live /\ m.vdev # -1 =>
    \E v \in vdcus : v.idx = m.vdev /\ v.pod = m.pod /\ v.up

\* The conf file mounted into the container of a live pod is there.
LiveConfKept ==
  \A m \in marks : phase[m.pod] \in Live /\ m.vdev # -1 => m.vdev \in confs

\* A refresh deletes only pods that really have no mark file.
OnlyErrorPodsDeleted ==
  [][\A r \in Refreshers, p \in Pods :
       p \in ref[r].kill \ ref'[r].kill /\ phase[p] = "Running" => \A m \in marks : m.pod # p]_vars

\* Once a pod has finished, its marks are removed and its vDCUs destroyed: the
\* latter unless a driver or file operation has failed, since its error is dropped.
\* (RefreshContainerDevices)
Reclaimed ==
  \A p \in Pods : phase[p] \in Finished ~>
    /\ \A m \in marks : m.pod # p
    /\ (\A v \in vdcus : v.pod # p) \/ nodeFaults > 0

\* Kubelet never waits for ever in an admission, also when the driver or the file
\* system fails.  (the error paths of AllocateHAMiDCUs return)
AdmissionEnds == kubelet # NoAdmission ~> kubelet = NoAdmission

\* The plugin gives up the node lock of a pod, unless the pod is deleted: also when
\* the driver or the file system fails.  (PodAllocationFailed, TrySuccess)
LockReleased == lock # NoPod ~> lock = NoPod \/ phase[lock] = "gone"

\* A running pod that requests a vDCU but whose mark could not be written does not
\* stay, once the directory of the marks exists.  (CreateMarkFile's error is
\* dropped; RefreshContainerDevices returns when there is no directory.)
ErrorPodReaped ==
  \A p \in Virtual :
    (phase[p] = "Running" /\ dynDir /\ \A m \in marks : m.pod # p) ~> phase[p] # "Running"
=============================================================================
