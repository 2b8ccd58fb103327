--------------------------- MODULE DeviceAnnotations ---------------------------
(***************************************************************************)
(* The annotations of one pod as util.go reads and writes them through the *)
(* Allocate calls for its containers: strings with one part per container, *)
(* separated by ";", here the sequence of their parts.  Shows that they    *)
(* implement the two queues of DeviceQueue, which is what HamiAllocate     *)
(* works with.  AlwaysUntouched, PaddedAlways, RawErased and SomeTaken are *)
(* faulty variants of the definitions that follow them.                    *)
(***************************************************************************)
EXTENDS Integers, Sequences

CONSTANTS
  MaxContainers,   \* containers of a pod
  Endings,         \* how the scheduler may write an annotation: "joined", with
                   \* ";" between the parts, or "ended", with one after each
  Empty,           \* a part of a string with nothing in it
  MaxErrors        \* requests to the API server that fail, and calls for a container
                   \* of this pod that GetPendingPod does not find it for

ASSUME AnnotationAssumption ==
  /\ MaxContainers \in Nat \ {0} /\ MaxErrors \in Nat
  /\ Endings \subseteq {"joined", "ended"}
  /\ Empty \notin Nat

VARIABLES
  count,        \* containers in the spec of the pod
  order,        \* the positions, from 0, of those that request devices
  slip,         \* history: by how much the padding will miss these positions
  allocated,    \* hami.io/dcu-devices-allocated
  toAllocate,   \* hami.io/dcu-devices-to-allocate
  index,        \* hygon.com/container-index, without its empty parts
  bindPhase,    \* hami.io/bind-phase
  call,         \* the Allocate call in progress
  calls,        \* kubelet: calls it has still to make for containers of this pod
  errors

vars == <<count, order, slip, allocated, toAllocate, index, bindPhase, call, calls, errors>>
pod == <<count, order, slip, allocated>>

Positions == 0..(MaxContainers - 1)
Strings == Seq(Positions \cup {Empty})

\* req: the container whose devices were taken; ctr: what the code takes for it.
Call == [pc: {"idle", "update", "take", "serve", "drop", "settle", "fail"},
         req: Positions \cup {-1}, ctr: Int]
NoCall == [pc |-> "idle", req |-> -1, ctr |-> -1]

AnnotationTypeOK ==
  /\ count \in 1..MaxContainers /\ order \in Seq(Positions) /\ slip \in {0, 1}
  /\ allocated \in Strings /\ toAllocate \in Strings /\ index \in Seq(0..(count - 1))
  /\ bindPhase \in {"allocating", "success", "failed"}
  /\ call \in Call /\ calls \in Nat /\ errors \in Nat

\* The elements of s at the positions in P, in order, among the first n of them.
KeptUpTo(s, P) ==
  LET F[n \in 0..Len(s)] ==
        IF n = 0 THEN <<>> ELSE IF n \in P THEN Append(F[n - 1], s[n]) ELSE F[n - 1]
  IN F
Kept(s, P) == KeptUpTo(s, P)[Len(s)]

\* The parts of a string that are not empty.
Filled(s) == {i \in DOMAIN s : s[i] # Empty}
ErrorHappens == errors < MaxErrors /\ errors' = errors + 1

-----------------------------------------------------------------------------
\* The scheduler writes a part for each container, empty when it requests no
\* device; EncodePodSingleDevice puts a separator after each, which makes one
\* more part when the string is split.
Part(wants, i) == IF i \in wants THEN i ELSE Empty
EncodePodSingleDevice(parts) == Append(parts, Empty)

\* left: how many leading containers, which request no device, are left out.  A
\* string that has lost some of them and ends with a separator seems one part
\* longer than it is, and the padding stops short by one.
Written(n, wants, ending, left) ==
  LET parts == [i \in 1..(n - left) |-> Part(wants, i - 1 + left)]
  IN IF ending = "ended" THEN EncodePodSingleDevice(parts) ELSE parts

Ascending(S) ==
  Kept([i \in 1..MaxContainers |-> i - 1], {i \in 1..MaxContainers : i - 1 \in S})

Init ==
  /\ count \in 1..MaxContainers
  /\ \E wants \in (SUBSET (0..(count - 1))) \ {{}}, ending \in Endings, left \in 0..(count - 1) :
       /\ \A i \in wants : i >= left
       /\ order = Ascending(wants)
       /\ allocated = Written(count, wants, ending, left)
       /\ slip = IF left > 0 /\ ending = "ended" THEN 1 ELSE 0
  /\ toAllocate = allocated
  /\ index = <<>> /\ bindPhase = "allocating" /\ call = NoCall /\ errors = 0
  /\ calls = Len(order)

\* Kubelet calls once for each container that requests devices, until it gets an
\* error.  GetPendingPod finds the pod while it is marked as allocating: after a
\* failure also by a call for another pod, when this pod has none to come.
BeginCall ==
  /\ call.pc = "idle" /\ bindPhase = "allocating"
  /\ calls > 0 \/ errors > 0
  /\ calls' = IF calls > 0 THEN calls - 1 ELSE 0
  /\ call' = [call EXCEPT !.pc = "update"]
  /\ UNCHANGED <<pod, toAllocate, index, bindPhase, errors>>

\* The pods cannot be listed, or a pod that has failed before is found instead:
\* nothing of this pod is touched and kubelet gets no error.
PodNotFound ==
  /\ call.pc = "idle" /\ bindPhase = "allocating" /\ calls > 0
  /\ ErrorHappens
  /\ calls' = calls - 1
  /\ UNCHANGED <<pod, toAllocate, index, bindPhase, call>>

\* UpdateContainerIndexAnnotations: while nothing has been taken, the string is
\* padded in front to a part for each container, and the positions of the parts
\* with devices are written.
AlwaysUntouched == TRUE
Untouched == allocated = toAllocate
PaddedAlways(s) == <<Empty>> \o s
Padded(s) == IF Len(s) < count THEN [i \in 1..(count - Len(s)) |-> Empty] \o s ELSE s
PositionsIn(s) == Kept([i \in 1..Len(s) |-> i - 1], Filled(s))

\* GetCurrentContainerIndex: the first number, or -1.
GetCurrentContainerIndex(ind) == IF ind = <<>> THEN -1 ELSE Head(ind)

UpdateContainerIndex ==
  /\ call.pc = "update"
  /\ LET new == IF Untouched THEN PositionsIn(Padded(allocated)) ELSE index
     IN \/ /\ index' = new
           /\ call' = [call EXCEPT !.pc = "take", !.ctr = GetCurrentContainerIndex(new)]
           /\ UNCHANGED <<calls, errors>>
        \/ /\ ErrorHappens /\ call' = NoCall /\ calls' = 0
           /\ index' \in {index, new}   \* before or after the patch
  /\ UNCHANGED <<pod, toAllocate, bindPhase>>

\* DecodePodDevices drops the empty parts; GetNextDeviceRequest takes the first
\* one left, and EraseNextDeviceTypeFromAnnotation writes an empty part for it.
DecodePodDevices(s) == Kept(s, Filled(s))
RawErased(s) == <<Empty>> \o Tail(s)
Erased(s) == EncodePodSingleDevice(<<Empty>> \o Tail(DecodePodDevices(s)))

TakeRequest ==
  /\ call.pc = "take"
  /\ LET next == DecodePodDevices(toAllocate)
     IN \/ /\ next # <<>>
           /\ toAllocate' = Erased(toAllocate)
           /\ call' = [call EXCEPT !.pc = "serve", !.req = Head(next)]
           /\ UNCHANGED errors
        \/ /\ (next = <<>> /\ UNCHANGED errors) \/ ErrorHappens
           /\ call' = [call EXCEPT !.pc = "fail"]
           /\ UNCHANGED toAllocate
  /\ UNCHANGED <<pod, index, bindPhase, calls>>

\* The lookups, the vDCU and its mark, which HamiAllocate has step by step.
Serve ==
  /\ call.pc = "serve"
  /\ \E pc \in {"drop", "fail"} : call' = [call EXCEPT !.pc = pc]
  /\ UNCHANGED <<pod, toAllocate, index, bindPhase, calls, errors>>

\* DeleteContainerIndexAnnotations: nothing is written when no number is left.
IndexLeft == IF Len(index) > 1 THEN Tail(index) ELSE index

DeleteContainerIndex ==
  /\ call.pc = "drop"
  /\ call' = [call EXCEPT !.pc = "settle"]
  /\ \/ index' = IndexLeft /\ UNCHANGED errors
     \/ ErrorHappens /\ UNCHANGED index
  /\ UNCHANGED <<pod, toAllocate, bindPhase, calls>>

\* PodAllocationTrySuccess looks for the word DCU in the string as it stands.
SomeTaken(s) == s # allocated
NoDeviceIn(s) == Filled(s) = {}

TrySuccess ==
  /\ call.pc = "settle" /\ call' = NoCall
  /\ \/ bindPhase' = (IF NoDeviceIn(toAllocate) THEN "success" ELSE bindPhase) /\ UNCHANGED errors
     \/ ErrorHappens /\ UNCHANGED bindPhase
  /\ UNCHANGED <<pod, toAllocate, index, calls>>

PodAllocationFailed ==
  /\ call.pc = "fail" /\ call' = NoCall /\ calls' = 0
  /\ \/ bindPhase' = "failed" /\ UNCHANGED errors
     \/ ErrorHappens /\ UNCHANGED bindPhase
  /\ UNCHANGED <<pod, toAllocate, index>>

Next ==
  \/ BeginCall \/ PodNotFound \/ UpdateContainerIndex \/ TakeRequest \/ Serve
  \/ DeleteContainerIndex \/ TrySuccess \/ PodAllocationFailed

Spec == Init /\ [][Next]_vars

\* Kubelet makes the calls it has to make, and the handler goes on with each.
FairSpec == Spec /\ WF_vars(Next)
-----------------------------------------------------------------------------
\* The abstract queue: the containers left in the string, and those that
\* container-index stands for.
Raised(s, d) == [i \in DOMAIN s |-> s[i] + d]
Abstract == INSTANCE DeviceQueue WITH
  queue <- DecodePodDevices(toAllocate), names <- Raised(index, slip)

\* Through splitting, padding, dropping and encoding again, the annotations are
\* the two queues HamiAllocate works with: requests leave one by one and in
\* order, and the names restart only when nothing was taken.  (util.go:235-331,
\* 447-500)
ImplementsQueue == Abstract!Spec

\* While no request has failed, container-index runs in step with the devices
\* although the strings lose their positions with the first erasing: the handler
\* takes the container it serves for itself, or, when the string was shortened
\* and ended with a separator, for the one before it in the pod.  (util.go:453-465,
\* 304-331)
IndexNamesRequest == errors = 0 /\ call.pc = "serve" => call.ctr = call.req - slip

\* Whatever fails, and however the strings were written, the position the handler
\* uses is that of a container of the pod: Spec.Containers[ctrIndex] would panic.
\* (util.go:479-514, plugin.go:716)
IndexInRange == call.pc = "serve" => call.ctr \in 0..(count - 1)

\* A pod is marked as a success only when kubelet has no call for it left: no
\* earlier, or the next call would not find the pod and answer without devices,
\* also when other calls failed or did not find it.  (PodAllocationTrySuccess
\* looks at the encoded string.)
SuccessMeansServed ==
  [][bindPhase' = "success" /\ bindPhase # "success" => calls = 0]_vars

\* With one call for each container a pod does not stay allocating for ever, unless
\* a request failed.  (PodAllocationTrySuccess, PodAllocationFailed)
Settles == <>(bindPhase # "allocating" \/ errors > 0)
=============================================================================
