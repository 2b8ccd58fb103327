# A specification of the DCU device plugin

TLA+ models of `k8s-dcu-device-plugin`, the Kubernetes device plugin for Hygon
DCUs, with the TLC configurations that check them on small instances and TLAPS
proofs of the properties that matter most.  Paths are relative to the
repository.

## The system

| Component | State it keeps | Operations | Hard behaviour | What makes it correct |
|---|---|---|---|---|
| Dynamic vDCU allocation (`plugin.go` `AllocateHAMiDCUs`, `register.go` `CreateMarkFile`, the annotation helpers of `util.go`) | pod annotations `bind-phase`, `dcu-devices-to-allocate`, `container-index`; the node lock; mark files in `/etc/vdev/dynamic`; vDCUs and their `vdev<i>.conf` | one `Allocate` call per container, about ten requests each | the request names no pod; every request can fail; errors are dropped in some places and end the call in others; a crash between any two | the right pod is served, each container once, the mark names the vDCU that was made, the lock is given up |
| Reclaiming (`register.go` `RefreshContainerDevices`, `informerPodHandler`) | nothing of its own: a snapshot of the directory, then one of the pods | remove stale marks, stop and destroy vDCUs, remove conf files, delete pods in error | runs in the `WatchAndRegister` loop and in the informer's goroutine at the same time, on old snapshots, while `Allocate` runs | only finished pods lose anything; every finished pod is reclaimed |
| Device listing and health (`plugin.go` `ListAndWatch*`, `watchDevices`) | `p.DCUs` and the like, shared by all handlers; kubelet's view of the devices | list, sweep on every heartbeat, send | handlers of dead streams live on and share the channel; the map they loop over is replaced under them | kubelet's view follows the health of the cards |
| Topology ConfigMap (`register.go` `UpdateTopologyConfigMap`) | one ConfigMap for all nodes | patch, create, patch again | nodes race to create it; requests fail | a node writes only its own entry, and the entries converge |
| Node registration (`register.go` `RegistrInAnnotation`, `apiDevices`, `apiDevicesRemain`) | three annotations of the node | read the cards, read what remains of them, patch | called by the loop and the informer; driver errors are dropped or skip a card | the annotations converge to the node's capacity |
| Annotation codec (`util.go` `Encode*`, `Decode*`, `UpdateContainerIndexAnnotations`, `EraseNextDeviceTypeFromAnnotation`, `PodAllocationTrySuccess`) | three annotations of a pod, as strings | encode, decode, pad, erase the next part | empty parts are dropped and written again, so positions shift; requests fail between two writes | the strings are the two queues the handler takes them for; the container named is the one served |
| Static allocation (`plugin.go` `AllocateDCUs`, `AllocateVirtualDCUs`, `AllocateMigDCUs`, and the listing before them) | the maps `DCUs`, `VirtualDCUs`, `MigDCUs` of the last listing; kubelet's offers | list, look up devices, build a response | instances come and go after a listing; lookups fail and errors are dropped; kubelet and the plugin restart | a container gets the nodes and conf files of its own devices; what is offered exists |
| Start-up (`cmd/main.go`, `plugin.go` `Start`, `dcu.go` resource names) | flags, the list of resources | name the resources, start the manager, the heartbeat, the goroutines | the resources are listed once, errors ignored; goroutines are started again with every restart of kubelet | what there is comes to be offered |

The scheduler and kubelet call the plugin: the HAMi scheduler takes the node
lock, writes the devices it chose into both annotations and binds the pod;
kubelet then admits the pod and makes the `Allocate` calls.  The plugin's
handler, its reclaiming goroutines and the scheduler meet in the annotations
and the lock; the handler and the reclaiming goroutines meet in the directory
of marks and in the driver.

## The modules

| Module | What it is |
|---|---|
| `HamiState` | constants, variables and fault budgets shared by the next two |
| `HamiAllocate` | `AllocateHAMiDCUs` and its helpers, one action per request |
| `HamiRefresh` | `RefreshContainerDevices`, one action per request |
| `HamiNode` | composes the two with the scheduler, kubelet, the life of the pods and a crash of the plugin; states the properties |
| `HamiNodeProofs` | the inductive invariant of `HamiNode` and what follows from it |
| `HamiSafetyProofs` | on top of it: the theorems about the handshake of scheduler, kubelet and plugin |
| `HamiVdcuProofs` | on top of that: marks and vDCUs, and who was admitted is served |
| `DeviceQueue` | the two queues `HamiAllocate` takes the annotations for (the abstract specification) |
| `DeviceAnnotations` | the annotations of one pod as strings, shown to implement `DeviceQueue` |
| `DeviceAnnotationsProofs` | the theorems about `DeviceAnnotations` |
| `HealthWatch` | the four `ListAndWatch` with health, and `watchDevices` |
| `HealthWatchProofs` | the theorems about `HealthWatch` |
| `StaticPlugin` | start-up, listing and `Allocate` under the strategies `dcu`, `vdcu`, `mig` and `mixed` |
| `StaticPluginProofs` | the theorems about `StaticPlugin` |
| `NodeRegistration` | `RegistrInAnnotation` of the loop and the informer |
| `NodeRegistrationProofs` | the theorems about `NodeRegistration` |
| `TopologyMap` | what the nodes promise of the ConfigMap (the abstract specification) |
| `TopologyConfigMap` | `UpdateTopologyConfigMap`, shown to implement `TopologyMap` |
| `TopologyProofs` | the theorems about `TopologyConfigMap` |
| `MC...` | the instances for TLC |

### HamiState, HamiAllocate, HamiRefresh, HamiNode

Pods are identified by their UID, as in the names of the mark files: a pod that
is created again is another pod.  A mark file `<uid>_<ctr>_<card>_<vdev>` is a
record; `vdev = -1` marks a whole card.  A vDCU is a record with its index and,
for the properties only, the pod and container it was made for.  `reused` is history
too: the containers whose vDCU was made under an index that, at that moment, an older
mark file named, or a name some refresh had read (`NamedIdx`).  Annotations
are kept decoded: the devices-to-allocate annotation is the queue of the
containers still to serve, since `DecodePodDevices` drops empty entries and
`EraseNextDeviceTypeFromAnnotation` empties the first one left;
`container-index` is the queue of the containers by name.

`h` is the `Allocate` call in progress and `h.pc` the request it makes next:

| Action | Code |
|---|---|
| `GetPendingPod` | `plugin.go:637-645`; the library function is modelled as its twin `util.go:88-113`.  An error answers *success*, without devices |
| `UpdateContainerIndex` | `plugin.go:648-657`, `util.go:447-477`, `502-514`.  An error returns at once, leaving the phase and the lock |
| `EraseNextRequest` | `plugin.go:660-675`, `util.go:276-331` |
| `ServeDevices` | `plugin.go:677-718`: the lookups, and a mark for each whole card |
| `CreateVDevice` | `plugin.go:720-732` |
| `MarkVDevice` | `plugin.go:733-745`, `register.go:279-299` |
| `DeleteContainerIndex` | `plugin.go:754`, `util.go:479-500` |
| `TrySuccess`, `AllocationFailed`, `ReleaseNodeLock` | `util.go:406-445` |

Kubelet makes one call at a time: its device manager allocates the containers
of one pod before it goes on to the next.  `kubelet` is that admission.  Kubelet
sends one container per request, so the loop over `reqs.ContainerRequests` runs
once.  A failed call fails the pod.

`ref[r]` is the call of `RefreshContainerDevices` in goroutine `r`: a loop, or
an informer with events to handle.  Its two snapshots are reduced, when the
pods are listed, to the files found stale and the pods found in error, which is
all the code uses of them later.  `RemoveMark` may fail like every other file
operation; its error is dropped (`register.go:175`), the vDCU is destroyed all the same,
and the mark is stale again at the next turn.  `StopVDevice` and `DestroyVDevice` fail for an
index the driver does not hold and may fail otherwise; after the last attempt
the code goes on.

The pod's life: `Schedule`, `AdmitPod`, `StartPod`, `FinishPod`, `UserDelete`.
`Crash` restarts the plugin: goroutines start afresh, events in between are not
seen, kubelet gets an error.  What the node and the API server keep survives.

Three parameters bound the faults a behaviour may have: `MaxApiFaults` (a
request to the API server is answered with an error), `MaxNodeFaults` (a driver
or file operation fails), `MaxCrashes`; `MaxFaults` bounds them together.  `MaxTries` is 5
in the code.

### DeviceQueue, DeviceAnnotations

`HamiAllocate` keeps the device annotations decoded; these modules justify that.
An annotation is the sequence of its parts, one per container, split at `;`: a
position, when the container requests devices, or `Empty`.  What stands inside a
part (type, UUID, memory, cores) is not told apart.

| Action | Code |
|---|---|
| `Written` | `EncodePodSingleDevice`, `util.go:198-206`, as the scheduler writes the annotations |
| `UpdateContainerIndex` | `util.go:447-477`: `Padded` is the padding of `453-459`, `PositionsIn` the loop after it |
| `TakeRequest` | `GetNextDeviceRequest`, `EraseNextDeviceTypeFromAnnotation`, `util.go:276-331` |
| `DeleteContainerIndex` | `util.go:479-500` |
| `TrySuccess`, `PodAllocationFailed` | `util.go:406-445`; the search for `DCU` looks at the string as it stands |

`Abstract` maps the string to the queue of its non-empty parts.  `Endings` says how
the scheduler may write a string: with `;` between the parts (`util.go:46-47` says
"join") or after each, which splits into one more part, as `EncodePodSingleDevice`
does.  In either form it may leave out leading containers without devices, which is the
case the padding is there for.

The two together are where the code goes wrong: a string that has lost leading parts
and ends with `;` has one part more than it has containers left, is padded by one part
too few, and the positions written to `container-index` come out one too small, so the
vDCU of a container is marked under the name of the container before it.  `slip` is 1 for
such a string and 0 for all others; `IndexNamesRequest` and `Abstract` say exactly this: the
names are those of the requests moved by `slip`.  `HamiAllocate` works with `slip = 0`.
Whether the scheduler writes such strings is not known from this repository.

`calls` is what kubelet has still to ask for this pod: one call for each container
that requests devices, none after an error.  `PodNotFound` is a call that
`GetPendingPod` answers without this pod, because the list failed or because another
pod, which failed before, was found; kubelet gets no error.  `BeginCall` without a call
of its own is the reverse: after a failure the call for another pod works on this one.

### StaticPlugin

`boot` follows `start()`: name the resources, list them, start a plugin for each
(`KindsFor`).  For each kind (whole cards, vDCUs, MIG instances) `stream` is the
`ListAndWatch` kubelet has called, `table` the map that is shared with `Allocate`,
`writes` what the listing has still to add to it (instances) or to delete from it
(cards hidden by `mixed`), and `offer` what kubelet has been sent.

| Action | Code |
|---|---|
| `NameResources` | `dcu.go` resource names, called from `main.go`; policy `"0"` needs no driver |
| `StartPlugins` | `main.go:80-117`, and the listing of resources in `dcu.go` |
| `NotRecognised`, `ListDevices`, `WriteTable`, `SendDevices` | `ListAndWatch`, `plugin.go:110-166`, `213-278` |
| `CallAllocate`, `FindDevice`, `Respond` | `AllocateDCUs`, `AllocateVirtualDCUs`, `AllocateMigDCUs` |
| `InstanceChanges`, `KubeletRestarts`, `PluginRestarts` | the administrator, kubelet and a crash, whenever they like |

The driver says what instances there are now (`on`), so the map may be behind it.
An instance of the model is a vDCU index, which may come back on another card, or
the UUID of a MIG instance, which may not.  Plugins for different profiles of
instances share no state: one profile is modelled.

Three things the code does that the conditions of the properties leave room for:
with no instance left the old map stays and its ghosts are offered
(`plugin.go:218`); a resource whose first instance appears after the start is never
registered (`OfferedInTheEnd` says "when the faults are over before the plugin
starts"); and a stream never lists again, although the comment at
`plugin.go:107-109` says that it returns a new list whenever a device changes or
disappears, so `fresh` is lost with every change until kubelet connects again.

### HealthWatch

A record of `watch` is one call of `ListAndWatch`: its list `devs`, the health it
has stored in it, the device it checks next and the variable `health`.  The four
variants run the same code over other keys: `Devices` are cards, vDCUs, MIG
instances or the fakes of cards, and `CardOf` gives the card whose health counts.
`Changing` says whether the devices of the variant come and go, `KeepsOld` how the
call fills the map: vDCUs and MIG instances are added to a new map one by one
(and the old map stays when none is left, `plugin.go:218`), hidden cards are
deleted from the full map one by one.  `dcus` is that map, shared by all handlers,
while it is being filled too: `unwritten` is what the call has still to do, and a
sweep that reads the map meanwhile may end the process.

The device list is in the order of a Go map, so `Listings` leaves it open.  A
handler waits for a heartbeat or a signal and for nothing else, so it outlives its
stream; its `Send` then fails unnoticed.  An ID that is not in the map is looked
up as the zero value, whose `DvInd` is card 0 (`Zero`).

### NodeRegistration

`report[w]` is the report a writer is making: `full` is the result of `apiDevices`,
`left` and `count` that of `apiDevicesRemain`, from two calls of the driver for each
card; `todo` is what the loop over `p.DCUs` has still to read, in the order of a Go
map.  What the driver says of a card is abstracted to how often it has changed, so
the model tells an old value from a new one and not what either is.  A card is
skipped when its NUMA node cannot be read; the other driver errors are dropped and
a zero (`NoValue`) is registered.  An error of `GetNode` or of the patch ends the
report.  `p.DCUs` is listed once, when the loop starts; the informer does not wait
for that.  `alone` and `blind` are history for the properties: whether another
report overlapped this one, and whether it began before the cards were listed.

### TopologyConfigMap

Each of discover, patch, create and second patch is a step.  `NotFound` and
`AlreadyExists` follow from the state of the map; any other error ends the call
(`MaxErrors`).  `Abstract` is the refinement mapping: the map's data is the
abstract `entry`.

## The runs

| Run | What it shows | Bounds |
|---|---|---|
| `HamiAllocation` | `RightPod`, `LockCoversAllocating`, `IndexKnown`, `OneVdcuEach`, `MarkNamesItsVdcu`, `AdmittedServed`, `OwnVdcuKept` | two pods, one with a whole card for its first container and a share for its second, one with a share; two cards, one index; two refreshers that start whenever they like; one fault of any kind; symmetry of the two |
| `HamiLive` | `NodeInv`, `LiveMarkKept`, `Reclaimed`, `AdmissionEnds`, `LockReleased`, `ErrorPodReaped` | two pods, a share and a whole card; a loop and an informer side by side, one failing driver or file operation, `FairSpec` |
| `HamiDoubleReclaim` | `LiveVdcuKept` is violated with two refreshers | one index, no faults |
| `HamiKillRace` | `OnlyErrorPodsDeleted` is violated with one refresher | one index, no faults |
| `HamiLeak` | `Reclaimed` is violated after a crash | one crash, `FairSpec` |
| `Health` | `TypeOK`, `NoFalseAlarm`, `AllFailedReported` | two devices on cards of their own that come and go, two calls of `ListAndWatch`, `FairSpec` |
| `HealthSticky` | `FailedCardReported` is violated | the same devices, one call, `FairSpec` |
| `HealthPanic` | `SweepInRange` is violated | the same devices, hidden and shown, two calls |
| `Registration` | `RegistrationInv`, `NewestInv`, `KeepsCards`, `NoStepBack`, `RegistrationConverges` | two cards, a loop and an informer, one change of a card, one error of the driver or the API server, one restart, `FairSpec` |
| `Topology` | `TopologyInv`, `KeepsToOwnEntry`, `Converges` | two nodes, three loops, one error, one change, one deletion |
| `Annotations` | `AnnotationTypeOK`, `IndexNamesRequest`, `IndexInRange`, `ImplementsQueue`, `SuccessMeansServed`, `Settles` | pods of up to three containers, any of which request devices; both endings, shortened or not; two failed requests; `FairSpec` |
| `Static` | `StaticTypeOK`, `RightDevice`, `NoGhosts`, `ServedInTheEnd`, `OfferedInTheEnd` | two cards, two instances, four strategies, two kinds of policy, three faults of any kind, `FairSpec` |

Why the bounds are enough.  Two pods meet in the lock, the phase and a reused
vDCU index; nothing in the code relates three.  A pod with two containers is the
smallest for which the index and the device queue can get out of step; that the second
one gets the vDCU is what makes a wrong name show in a mark.  With one index for two pods
the driver runs out of it while the first pod lives, and hands it out again after.  In
`HamiAllocation` both refreshers are `Loops`, which may start at any time, so they do
whatever the loop and the event-driven informer of the code do, and more; being alike
they are symmetric.  `HamiLive` and `HamiDoubleReclaim` have a loop and an informer.  One
fault, at any point, reaches each error path of the handler and of a refresh; two
faults together are left to the theorems, which bound neither the faults nor the
refreshers.
`MaxTries = 2` has a first, a repeated and a last attempt.  Two
`ListAndWatch` calls are a live and a dead stream.  Three loops on two nodes have
a race on one node and one between nodes.  Three containers are the fewest with
one before, one between and one after those that request devices; of two failed
requests one can hit the retry of the other.  Three faults of `Static` are an
instance destroyed, its index made again on the other card, and a restart of
kubelet that lists both, or any of them together with an error of the driver.

Conditions in the properties say where the code stops keeping what it should, and
"Hazards" in `PROJECT.json` names each.  `RightDevice` and `NoGhosts` speak of a listing
the driver answered and nobody changed the instances after (`fresh`), and of instances that
exist; `RightDevice` of conf files only when `MigInfoByUUID` answered.  `ServedInTheEnd` is
for every policy, of a kind kubelet connects to when the faults are over.
`IndexNamesRequest` and `Settles` speak of calls without an error; `IndexInRange`,
`ImplementsQueue` and `SuccessMeansServed` hold whatever fails.  `RightPod` and
`LockCoversAllocating`, and the container in `MarkNamesItsVdcu`, are stated for behaviours
without an API error and a crash (`NoApiFaults`), and `AdmittedServed` without any fault
(`NoFaults`): the code drops errors (`plugin.go:733`, `754`, `util.go:407`, `426`) and they
really fail after one.  `MarkNamesItsVdcu`, `OwnVdcuKept` and `AdmittedServed` say nothing of
a vDCU that was made under a named index (`reused`): that one may be destroyed under a
live pod, as `HamiDoubleReclaim` shows.  `IndexKnown`, `OneVdcuEach`, `OwnVdcuKept`, `NodeInv`
and `LiveMarkKept` hold whatever fails.  `Reclaimed` lets a vDCU stay behind once a driver or
file operation has failed, since the code tries five times and goes on.  `LockReleased`
excepts a pod that was deleted, whose lock nobody gives up until it expires.

For the registration one change of a card tells old from new, two cards make a list
that is half read, and with two writers reports overlap in every way two can.

Deadlock is not checked for the `Hami...`, `Health...` and `Annotations` runs: the
pods of an instance may all have finished, and a plugin that has panicked stops.

### Fairness

`AllocateStep` and `RefreshStep(r)` are weakly fair: they are steps of running
goroutines and answers of the API server or the driver, and the code waits for
nothing else.  `WF` on `RefreshStep(loop)` includes the timer of the loop, which
always fires.  `CallAllocate` and `AdmitPod` are kubelet going on with its work.
No user, scheduler, container or fault is assumed to act.  A `HealthWatch`
handler is weakly fair: the heartbeat goroutine sends for ever on an unbuffered
channel, and Go serves the receivers of a channel in the order they came.  In
`NodeRegistration` the loops are weakly fair, and so is a report of the informer
once it has begun; pod events may never come.  In `StaticPlugin` the goroutine of
`start()` and each listing are weakly fair: kubelet connects to what registers.
Nobody has to allocate.  `DeviceAnnotations` has `WF` on `Next`: kubelet makes the one call it
has for every container of a pod it admits, and a call goes on.

### What the violated properties say of the code

* **Double reclaim** (`register.go:171-190`).  The loop and the informer both list
  the mark of a finished pod.  One destroys its vDCU; the driver hands the index
  to a new pod; the other stops and destroys the vDCU of the new pod.  One goroutine does
  the same when `os.RemoveAll` fails (`register.go:175`): the mark stays, its index is
  handed out again, and the next turn destroys it.
* **Conf file lost** (`register.go:195`).  The same window exists between
  `DestroySingleVDevice` and `os.Remove` of one goroutine: `Allocate` may get the
  index in between, and its conf file is removed.  It has no run of its own: `LiveConfKept`
  of `HamiNode`, added to `HamiDoubleReclaim.cfg` with one refresher, shows it.
* **Live pod killed** (`register.go:202-211`).  The directory is read before the
  pods are listed.  A pod that got its mark and started in between looks like a
  running pod without a mark, and is deleted without a grace period.
* **Leak** (`plugin.go:728-733`).  The mark is written after the vDCU is made and
  removed before it is destroyed; a crash in either window leaves a vDCU that
  nothing names.
* **Sticky health** (`plugin.go:154-164`, and the three other variants).  `health`
  is not reset for the next device: after one healthy device all later ones are
  reported healthy.
* **Panic of an old handler** (`plugin.go:158-159`).  The bound of the loop is the
  length of the map as the latest call has left it so far, the list is that of an
  older call.

Two disagreements have no run.  A request for all the memory of a card and part of its
cores, which `README.md:395-397` counts as valid, passes neither `plugin.go:715` nor
`plugin.go:723`: the pod gets no vDCU and no mark and is reaped when it runs.
`WholeCardMarks`, `NeedsVdcu` and `ErrorPods` have it; no instance of the runs does, so that
`ErrorPodReaped` does not pass on its account: there the mark is missing because its file
could not be written.  And the string that is shortened and ended with `;`, above.

## The proofs

`HamiNodeProofs` proves, for any number of pods, containers, cards, indices and
goroutines, any `Order` and `Devs` that satisfy `ConstantsAssumption`, and any
bounds on the faults:

* `NodeInvariant`: `NodeInv` is an invariant.  It is inductive as it stands:
  `TypeOK` needs `HandlerOK` (an action in the middle of a call works for a pod,
  a request and an index that are not the sentinels), which needs `BornHasOrder`
  (a scheduled pod has a container that asks for devices, so an admission has a
  container left); `ReclaimOnlyFinished` needs `MarksBorn` (a pod that is named by
  a file in a directory listing has been scheduled, so if the later pod listing
  lacks it, it is gone and not still to come).  There is one lemma per action.
* `TypeCorrect` and `ReclaimsOnlyFinished`: its parts.
* `LiveMarksKept`: the action property `LiveMarkKept`, from `ReclaimOnlyFinished`
  and the fact that only `RemoveMark` shrinks the set of marks.

Two facts carry that argument and are worth keeping in the code: pods never come
back once they have finished (UIDs, not names, are compared), and the directory is
read before the pods are listed.

`HamiSafetyProofs` adds, under the same assumptions, one invariant for each of three
arguments, inductive together with `NodeInv`:

* `IndexAlwaysKnown` (`IndexKnown`), from `IndexInv`: a pod that has lost devices to a
  call has container indices, since the indices are written before the first devices
  are taken and `DeleteContainerIndexAnnotations` never writes an empty list.
* `NoSecondVdcu` (`OneVdcuEach`), from `TakenInv`: a container with a vDCU is no
  longer in the annotation.  Its devices leave before the vDCU is made and nothing
  puts them back, so no failure, retry or crash makes another one, or asks the driver
  for it.
* `WorksForRightPod` (`RightPod`) and `LockHeldWhileAllocating`
  (`LockCoversAllocating`), from `HandshakeInv`, which says of behaviours without
  API errors and crashes: a pod is marked as allocating only while it is pending,
  not admitted and holds the lock (`LockInv`), and the annotation and kubelet's list
  of containers shrink together (`StepInv`).  It is what makes "some pending pod
  marked as allocating" name the pod kubelet asks for, which the request does not.

`HamiVdcuProofs` proves what marks and vDCUs have to do with each other, under plain
`Spec`: any number of refreshes overlap, and any operation fails, the removal of a mark
included.  The code cannot keep every vDCU then.  What decides is the moment a vDCU is
made: if no file and no name a refresh has read holds its index, nothing will ever
destroy it while its pod lives.  `reused` records the others, and the theorems are about
the rest.

* `MarksNameTheirVdcus` (`MarkNamesItsVdcu`) and `OwnVdcusKept` (`OwnVdcuKept`), from `VdcuInv`.
  `Known` is every mark file and every name some refresh holds, stale ones included.
  `NamesInv`: a known name with the index of a vDCU not in `reused` names that vDCU's pod
  and card.  `IdxInv`: an index is that of one vDCU.  `MakingInv`: the vDCU a call has just
  made has no name yet, so the name the call is about to write is the only one.  The
  argument is that refreshes only learn names from the directory (`KnownShrinks`), so the
  names of an index cannot come back once none is left.  With `ReclaimOnlyFinished` of
  `NodeInv`, a refresh that destroys such a vDCU holds a name of a finished pod, which is
  the vDCU's own pod.
* The container in the mark comes from `container-index`, the devices from the other
  annotation.  `IndicesInv` says that without an API error the two name the same
  containers between calls, and that within a call the name is that of the request.
* `AdmittedAreServed` (`AdmittedServed`), from `ServedInv`: without a fault each
  container that needs a vDCU is waiting, in the hands of the call, served, or of a pod
  whose allocation was given up, as when the driver has no index left (`DueInv`); and a
  pod is admitted only when nothing was given up and nothing is left to take (`EndInv`).

`DeviceAnnotationsProofs` proves, for pods of any size:

* `AnnotationsTyped` (`AnnotationTypeOK`) and `IndexAlwaysInRange` (`IndexInRange`), however
  the scheduler has written the string and whatever fails.  `RangeInv`: `container-index` is
  not empty from the first update on, and until then nothing is taken.
* `SuccessOnlyServed` (`SuccessMeansServed`), from `CallsInv`: the string has a request for
  every call still to come and for the one in progress, although calls fail, are not
  found or are made for another pod; an empty string therefore leaves no call.
* `IndexNamesTheRequest` (`IndexNamesRequest`) and the refinement `ImplementsTheQueue`
  (`ImplementsQueue`), for every string.  `Exact`: the names written are those of the
  requests, in order, moved by `slip`.  `InStep`: between two calls nothing was taken or
  the names left are the requests left, and within a call the name goes one step after
  its request.
* The lemmas say what the operators make of a string of any length: the names of a
  padded string (`NamesWritten`, `NamesInRange`), what is left of an erased one
  (`DecodeErased`), that dropping the empty parts of what was written gives the
  requests (`DecodeWritten`).  They rest on `KeptShifted`: what is kept depends on the
  chosen elements and not on where in the string they stand.  `Kept` is a recursive
  function, so the lemmas take inductions; `SetInduction` derives the principle, for a
  set of numbers in place of an operator, from the least element of a set (`WFMin`).

`HealthWatchProofs` proves for any number of devices, cards and calls of
`ListAndWatch`, whatever `CardOf` and `Zero` are:

* `HealthTypes` (`TypeOK`), by the invariant `HealthInv`: the list of the last handler
  is in the map, unless a listing is in progress.
* `NeverFalseAlarm` (`NoFalseAlarm`): a device whose card stays healthy is never
  reported.  Kubelet hears only the last handler; every device on that handler's list
  is in the map, so it is looked up under its own card and not as the zero value.

`StaticPluginProofs` proves for any number of cards, instances and faults that
`StaticInv` is an invariant (`StaticInvariant`, `StaticTypes`): kubelet's offer is the
map of an open stream (`OfferInv`); what is missing in a map that was listed without
error is still to be written, and what is in it is right (`InstancesInv`); an `Allocate` call has collected what the map says (`CallInv`).
`RightDevices` (`RightDevice`) and `NoGhostsOffered` (`NoGhosts`) follow, with the conditions
of those properties.

`TopologyProofs` proves for any number of nodes and loops that `TopologyInv` is an
invariant and that `TopologyConfigMap` implements `TopologyMap`: initial states
map to initial states and every step to a step of the node's own entry, a
`Clear`, or a stutter.

`NodeRegistrationProofs` proves for any number of cards, loops and informers:

* `RegistrationInvariant`: without a driver error, a report that began with the
  cards listed leaves out no card it is past.  `CardsKept` follows: a registered
  card is only dropped by a driver error or by a report that began earlier.
* `NewestInvariant`: no list is ahead of the cards, and a report that no other one
  overlapped is no older than the annotations.  The invariant needs the first
  half for the readers: a value just read is no older than any registered one.
  `StepsForward` follows: only overlapping reports take an annotation back.

TLC checked the invariants before they were proved: `IndexInv`, `TakenInv`, `HandshakeInv`,
`VdcuInv`, `IndicesInv` and `ServedInv` on the instance of `HamiAllocation`; those of `DeviceAnnotations` for pods of up to four
containers.

Only model-checked: every liveness property (`Reclaimed`, `AdmissionEnds`,
`LockReleased`, `ErrorPodReaped`, `AllFailedReported`, `Converges`,
`RegistrationConverges`, `Settles`, `ServedInTheEnd`, `OfferedInTheEnd`), which is out
of the prover's reach, as is `ENABLED`.  Every safety property of a passing run is a
theorem.

## Not modelled

What the models leave out has no state or order of its own:

* The fields inside a part of an annotation and the values of the node annotations.
  `EncodeNodeDevices` writes nine fields and `DecodeNodeDevices` accepts seven, but
  nothing decodes what the plugin registers.
* `dcucores` and `dcumem` (`RESOURCE_MULTIPLE`): constant lists without health, and
  an `Allocate` handler that looks nothing up.
* Flags, logging, the manager's start and the registration with kubelet, which the
  device plugin manager library does.  That `Start` launches the goroutines again with
  every restart of kubelet is a matter of how many `Loops` and `Informers` there are;
  the theorems hold for any number.
* `client.go`: a wrapper of client-go.
* The HAMi scheduler, but for what it writes (`Schedule`, `Written`).
* The contents of responses beyond nodes and conf files.  The handlers declare the
  response `car` outside the loop over container requests and append a pointer to it,
  so several requests in one call would share one response; kubelet sends one.
* Several profiles of instances: their plugins share no state.  A profile that
  appears after the start is never registered, as in `StaticPlugin`.
* A plugin whose first listing fails registers no card until it is started again
  (`register.go:133`); the model has the case, and no text promises otherwise.
* The informer's cast of a `DeletedFinalStateUnknown` (`register.go:263`), which
  would panic after a missed deletion: it depends on client-go's cache alone.

## Plan

1. Done: the hami strategy (`HamiNode`), its annotations (`DeviceAnnotations`), health,
   the static strategies and the start-up, the registration of the node, the topology
   ConfigMap, and the theorems above.
2. Done: every invariant, action property and refinement the runs check is a theorem.
3. Left: lemmas that would state the two windows of the code as positive facts, such
   as that a conf file of a live pod is lost only between `DestroySingleVDevice` and
   `os.Remove` of one refresher (`LiveConfKept`).
