---------------------------- MODULE HamiAllocate ----------------------------
(***************************************************************************)
(* AllocateHAMiDCUs (plugin.go) and the annotation helpers of util.go it   *)
(* calls.  Kubelet makes one call per container and waits for the answer,  *)
(* so at most one call is in progress; h.pc says which request of it to    *)
(* the API server, the driver or the file system comes next.  The request  *)
(* names no pod: the handler finds the pod through the annotations.        *)
(* A definition that no action uses is a faulty variant of the one after   *)
(* it, there to see that the properties notice the fault.                  *)
(***************************************************************************)
EXTENDS HamiState

\* h.pod: the pod the handler works for; h.req: the container whose devices it
\* took from the annotation; h.ctr: the container named by container-index.
Handler == [pc: {"idle", "pending", "index", "erase", "serve", "create", "mark",
                 "unindex", "settle", "release"},
            pod: Pods \cup {NoPod}, req: Containers \cup {NoCtr},
            ctr: Containers \cup {NoCtr}, vdev: VIdx \cup {-1}, ok: BOOLEAN]

IdleHandler == [pc |-> "idle", pod |-> NoPod, req |-> NoCtr, ctr |-> NoCtr,
                vdev |-> -1, ok |-> TRUE]
NoAdmission == [pod |-> NoPod, left |-> <<>>]

\* Kubelet gets the answer.  After an error it fails the pod it is admitting.
FailAdmission ==
  /\ kubelet' = NoAdmission
  /\ phase' = [phase EXCEPT ![kubelet.pod] = IF @ = "Pending" THEN "Failed" ELSE @]
  /\ UNCHANGED admitted

Answer(ok) ==
  /\ h' = IdleHandler
  /\ \/ ~ok /\ FailAdmission
     \/ /\ ok /\ Len(kubelet.left) > 1
        /\ kubelet' = [kubelet EXCEPT !.left = Tail(@)]
        /\ UNCHANGED <<phase, admitted>>
     \/ /\ ok /\ Len(kubelet.left) = 1
        /\ kubelet' = NoAdmission
        /\ admitted' = admitted \cup {kubelet.pod}
        /\ UNCHANGED phase

\* PodAllocationFailed comes next.
Fail == h' = [h EXCEPT !.pc = "settle", !.ok = FALSE]

-----------------------------------------------------------------------------
\* hmutil.GetPendingPod, as its twin in util.go: any pod assigned to the node
\* whose bind phase is "allocating", whatever its status.
PendingPodsBoundAlso == {p \in Pods : Exists(p) /\ bindPhase[p] \in {"allocating", "success"}}
PendingPods == {p \in Pods : Exists(p) /\ bindPhase[p] = "allocating"}

\* When no pod is found, or the list fails, the call succeeds with the common
\* device nodes only, and the node lock is left as it is.
NoPodFoundWaits == PendingPods = {} /\ UNCHANGED <<h, phase, kubelet, admitted>>
NoPodFound == PendingPods = {} /\ Answer(TRUE)

GetPendingPod ==
  /\ h.pc = "pending"
  /\ \/ /\ \E p \in PendingPods : h' = [h EXCEPT !.pc = "index", !.pod = p]
        /\ UNCHANGED <<phase, kubelet, admitted, apiFaults>>
     \/ NoPodFound /\ UNCHANGED apiFaults
     \/ ApiFault /\ Answer(TRUE)
  /\ UNCHANGED <<apiVars, nodeVars, refVars, nodeFaults, crashes>>

\* UpdateContainerIndexAnnotations writes the indices of the containers with
\* devices when nothing has been taken from the annotation yet; GetPod and
\* GetCurrentContainerIndex read the first of them.  An error of either
\* request returns at once, without PodAllocationFailed.
Untouched(p) == toAllocate[p] = Order[p]

UpdateContainerIndex ==
  /\ h.pc = "index"
  /\ LET idx == IF Untouched(h.pod) THEN Order[h.pod] ELSE ctrIndexes[h.pod]
     IN \/ /\ Exists(h.pod)
           /\ ctrIndexes' = [ctrIndexes EXCEPT ![h.pod] = idx]
           /\ h' = [h EXCEPT !.pc = "erase", !.ctr = IF idx = <<>> THEN NoCtr ELSE Head(idx)]
           /\ UNCHANGED <<phase, kubelet, admitted, apiFaults>>
        \/ /\ (~Exists(h.pod) /\ UNCHANGED apiFaults) \/ ApiFault
           /\ Answer(FALSE)
           /\ ctrIndexes' \in {ctrIndexes, [ctrIndexes EXCEPT ![h.pod] = idx]}
  /\ UNCHANGED <<bindPhase, toAllocate, lock, nodeVars, refVars, nodeFaults, crashes>>

\* GetNextDeviceRequest takes the first container left in the annotation; its
\* devices must be as many as kubelet asks for.  EraseNextDeviceTypeFromAnnotation
\* then removes it.  Any error leads to PodAllocationFailed.
Matches ==
  /\ toAllocate[h.pod] # <<>>
  /\ Len(Devs[h.pod][Head(toAllocate[h.pod])]) = Len(Devs[kubelet.pod][Head(kubelet.left)])

ErasedNothing(p) == toAllocate[p]
Erased(p) == Tail(toAllocate[p])

EraseNextRequest ==
  /\ h.pc = "erase"
  /\ \/ /\ Matches /\ Exists(h.pod)
        /\ toAllocate' = [toAllocate EXCEPT ![h.pod] = Erased(h.pod)]
        /\ h' = [h EXCEPT !.pc = "serve", !.req = Head(toAllocate[h.pod])]
        /\ UNCHANGED apiFaults
     \/ /\ (~(Matches /\ Exists(h.pod)) /\ UNCHANGED apiFaults) \/ (Matches /\ ApiFault)
        /\ Fail
        /\ UNCHANGED toAllocate
  /\ UNCHANGED <<phase, bindPhase, ctrIndexes, lock, nodeVars, kubelet, admitted,
                 refVars, nodeFaults, crashes>>

\* The devices of the request are looked up one by one, and each that is asked
\* for with all its cores and memory gets a mark file without a vDCU.  A lookup
\* that fails ends the call; an error of CreateMarkFile is dropped.
DevsOf(p, c) == {Devs[p][c][n] : n \in DOMAIN Devs[p][c]}
WholeCardMarks(p, c, name) ==
  {[pod |-> p, ctr |-> name, card |-> d.card, vdev |-> -1] :
     d \in {e \in DevsOf(p, c) : e.cores = 100 /\ e.mem = CardMem}}

\* A vDCU is made for a single device with part of the card's memory.
NeedsVdcu(p, c) == Len(Devs[p][c]) < 2 /\ Devs[p][c][1].mem < CardMem

\* CreateMarkFile: the directory is made first, so it may exist without the file.
WriteMarks(ms) ==
  /\ marks' = marks \cup ms
  /\ dynDir' = (dynDir \/ ms # {})
MarkFault == NodeFault /\ UNCHANGED marks /\ dynDir' \in {dynDir, TRUE}

ServeDevices ==
  /\ h.pc = "serve"
  /\ LET whole == WholeCardMarks(h.pod, h.req, h.ctr)
         next  == IF NeedsVdcu(h.pod, h.req) THEN "create" ELSE "unindex"
     IN \/ WriteMarks(whole) /\ UNCHANGED nodeFaults /\ h' = [h EXCEPT !.pc = next]
        \/ /\ NodeFault
           /\ \E ms \in SUBSET whole : WriteMarks(ms)
           /\ Fail \/ (whole # {} /\ h' = [h EXCEPT !.pc = next])
  /\ UNCHANGED <<phase, apiVars, vdcus, confs, reused, kubelet, admitted, refVars,
                 apiFaults, crashes>>

\* dcgm.CreateVDevices: the driver picks a free index and writes its conf file.
FreeIdxOrNone == (VIdx \cup {-1}) \ {v.idx : v \in vdcus}
FreeIdx == VIdx \ {v.idx : v \in vdcus}

CreateVDevice ==
  /\ h.pc = "create"
  /\ \/ \E i \in FreeIdx :
          /\ vdcus' = vdcus \cup {[idx |-> i, pod |-> h.pod, ctr |-> h.req,
                                   card |-> Devs[h.pod][h.req][1].card, up |-> TRUE]}
          /\ confs' = confs \cup {i}
          /\ h' = [h EXCEPT !.pc = "mark", !.vdev = i]
          /\ reused' = IF i \in NamedIdx THEN reused \cup {<<h.pod, h.req>>} ELSE reused
          /\ UNCHANGED nodeFaults
     \/ /\ (FreeIdx = {} /\ UNCHANGED nodeFaults) \/ NodeFault
        /\ Fail
        /\ UNCHANGED <<vdcus, confs, reused>>
  /\ UNCHANGED <<phase, apiVars, marks, dynDir, kubelet, admitted, refVars,
                 apiFaults, crashes>>

\* CreateMarkFile for the new vDCU; on an error the call goes on without mounts.
MarkWithoutVdcu == [pod |-> h.pod, ctr |-> h.ctr, vdev |-> -1,
                    card |-> Devs[h.pod][h.req][1].card]
VdcuMark == [pod |-> h.pod, ctr |-> h.ctr, vdev |-> h.vdev,
             card |-> Devs[h.pod][h.req][1].card]

MarkVDevice ==
  /\ h.pc = "mark"
  /\ h' = [h EXCEPT !.pc = "unindex"]
  /\ \/ WriteMarks({VdcuMark}) /\ UNCHANGED nodeFaults
     \/ MarkFault
  /\ UNCHANGED <<phase, apiVars, vdcus, confs, reused, kubelet, admitted, refVars,
                 apiFaults, crashes>>

\* DeleteContainerIndexAnnotations drops the first index unless it is the last
\* one; its error is dropped.
IndexesCleared(p) == <<>>
IndexesKept(p) == ctrIndexes[p]
IndexesLeft(p) == IF Exists(p) /\ Len(ctrIndexes[p]) > 1 THEN Tail(ctrIndexes[p]) ELSE ctrIndexes[p]

DeleteContainerIndex ==
  /\ h.pc = "unindex"
  /\ h' = [h EXCEPT !.pc = "settle"]
  /\ \/ /\ ctrIndexes' = [ctrIndexes EXCEPT ![h.pod] = IndexesLeft(h.pod)]
        /\ UNCHANGED apiFaults
     \/ ApiFault /\ UNCHANGED ctrIndexes
  /\ UNCHANGED <<phase, bindPhase, toAllocate, lock, nodeVars, kubelet, admitted,
                 refVars, nodeFaults, crashes>>

\* PodAllocationTrySuccess reads the pod again and stops when the read fails or
\* devices remain; otherwise PodAllocationSuccess, like PodAllocationFailed,
\* patches the phase, ignoring an error, and goes on to release the lock.  The
\* faulty AllTakenAsRead looks at the pod as it was read before the erasing.
PatchLost(p, value) == UNCHANGED <<bindPhase, apiFaults>>
PatchBindPhase(p, value) ==
  \/ /\ bindPhase' = IF Exists(p) THEN [bindPhase EXCEPT ![p] = value] ELSE bindPhase
     /\ UNCHANGED apiFaults
  \/ ApiFault /\ UNCHANGED bindPhase

AllTakenAsRead(p) == Exists(p) /\ <<h.req>> \o toAllocate[p] = <<>>
AllTaken(p) == Exists(p) /\ toAllocate[p] = <<>>

TrySuccess ==
  /\ h.pc = "settle" /\ h.ok
  /\ \/ /\ AllTaken(h.pod)
        /\ PatchBindPhase(h.pod, "success")
        /\ h' = [h EXCEPT !.pc = "release"]
        /\ UNCHANGED <<phase, kubelet, admitted>>
     \/ /\ (~AllTaken(h.pod) /\ UNCHANGED apiFaults) \/ ApiFault
        /\ Answer(TRUE)
        /\ UNCHANGED bindPhase
  /\ UNCHANGED <<toAllocate, ctrIndexes, lock, nodeVars, refVars, nodeFaults, crashes>>

AllocationFailed ==
  /\ h.pc = "settle" /\ ~h.ok
  /\ PatchBindPhase(h.pod, "failed")
  /\ h' = [h EXCEPT !.pc = "release"]
  /\ UNCHANGED <<phase, toAllocate, ctrIndexes, lock, nodeVars, kubelet, admitted,
                 refVars, nodeFaults, crashes>>

\* nodelock.ReleaseNodeLock gives up the lock when this pod holds it; its error
\* is logged.  The call then returns.
LockAfter == IF lock = h.pod THEN NoPod ELSE lock

ReleaseNodeLock ==
  /\ h.pc = "release"
  /\ \/ lock' = LockAfter /\ UNCHANGED apiFaults
     \/ ApiFault /\ UNCHANGED lock
  /\ Answer(h.ok)
  /\ UNCHANGED <<bindPhase, toAllocate, ctrIndexes, nodeVars, refVars, nodeFaults, crashes>>

AllocateStep ==
  \/ GetPendingPod \/ UpdateContainerIndex \/ EraseNextRequest \/ ServeDevices
  \/ CreateVDevice \/ MarkVDevice \/ DeleteContainerIndex
  \/ TrySuccess \/ AllocationFailed \/ ReleaseNodeLock
=============================================================================
