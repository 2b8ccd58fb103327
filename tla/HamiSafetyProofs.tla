--------------------------- MODULE HamiSafetyProofs ---------------------------
(***************************************************************************)
(* More theorems about HamiNode, for any constants: what the handshake of  *)
(* scheduler, kubelet and plugin through the annotations and the node lock *)
(* guarantees.  Every invariant here is inductive together with NodeInv.   *)
(***************************************************************************)
EXTENDS HamiNodeProofs

USE DEF Live, Finished

\* No container has been taken from the annotation twice, and what a call has
\* taken has no vDCU yet.
Waits(s, c) == \E n \in DOMAIN s : s[n] = c
NoTwins == \A v, w \in vdcus : v.pod = w.pod /\ v.ctr = w.ctr => v = w
TakenInv ==
  /\ \A p \in Pods : \A m, n \in DOMAIN toAllocate[p] :
       toAllocate[p][m] = toAllocate[p][n] => m = n
  /\ \A v \in vdcus : Born(v.pod) /\ ~Waits(toAllocate[v.pod], v.ctr)
  /\ h.pc \in {"serve", "create"} =>
       /\ ~Waits(toAllocate[h.pod], h.req)
       /\ \A v \in vdcus : ~(v.pod = h.pod /\ v.ctr = h.req)
  /\ NoTwins

\* While no request to the API server has failed: who holds the lock, who is
\* allocating, and that kubelet's list of containers and the annotation agree.
Asked == kubelet.pod # NoPod /\ Exists(kubelet.pod)
LockInv ==
  /\ \A p \in Pods : Exists(p) /\ bindPhase[p] = "allocating" =>
       phase[p] = "Pending" /\ lock = p /\ p \notin admitted
  /\ kubelet.pod # NoPod => lock = kubelet.pod /\ kubelet.pod \notin admitted
  /\ \A p \in Pods : phase[p] = "Pending" /\ p \notin admitted /\ kubelet.pod # p =>
       bindPhase[p] = "allocating" /\ Untouched(p)
  /\ \A p \in admitted : Born(p)
StepInv ==
  /\ h.pod # NoPod => h.pod = kubelet.pod
  /\ Asked /\ h.pc \in {"idle", "pending", "index", "erase"} =>
       toAllocate[kubelet.pod] = kubelet.left /\ bindPhase[kubelet.pod] = "allocating"
  /\ Asked /\ h.pc \in {"serve", "create", "mark", "unindex", "settle"} =>
       /\ bindPhase[kubelet.pod] = "allocating"
       /\ h.ok => toAllocate[kubelet.pod] = Tail(kubelet.left)
  /\ h.pc = "release" =>
       /\ Exists(h.pod) => bindPhase[h.pod] # "allocating"
       /\ h.ok => Len(kubelet.left) = 1
HandshakeInv == NoApiFaults => LockInv /\ StepInv
-----------------------------------------------------------------------------
(* What the steps leave alone. *)

\* No step makes a pod unborn, and only Schedule makes one born.
SamePods == \A p \in Pods : Born(p)' <=> Born(p)

LEMMA RefreshQuiet ==
  ASSUME NodeInv, NEW r \in Refreshers, RefreshStep(r)
  PROVE  /\ UNCHANGED <<apiVars, allocVars>>
         /\ \A p \in Pods : phase'[p] = phase[p] \/ (Exists(p) /\ phase'[p] = "gone")
<1>1. CASE DeletePod(r)
  <2>1. PICK p \in ref[r].kill : phase' = phase \/ (Exists(p) /\ phase' = [phase EXCEPT ![p] = "gone"])
    BY <1>1 DEF DeletePod
  <2>2. phase \in [Pods -> Live \cup Finished \cup {"unborn"}]
    BY DEF NodeInv, TypeOK, PhaseTypeOK
  <2>3. QED
    BY <1>1, <2>1, <2>2 DEF DeletePod
<1>2. CASE ~DeletePod(r)
  BY <1>2 DEF RefreshStep, ReadDynamicDir, ListPods, RemoveMark, StopVDevice, DestroyVDevice,
              RemoveConf, EndRefresh
<1>3. QED
  BY <1>1, <1>2

LEMMA PodStepQuiet ==
  ASSUME NodeInv, NEW p \in Pods, StartPod(p) \/ FinishPod(p) \/ UserDelete(p)
  PROVE  /\ UNCHANGED <<apiVars, nodeVars, allocVars, faultVars>>
         /\ \A q \in Pods \ {p} : phase'[q] = phase[q]
         /\ Exists(p) /\ phase'[p] # "unborn"
         /\ phase'[p] = "Pending" => phase[p] = "Pending"
         /\ phase'[p] = "gone" \/ (p \in admitted /\ phase[p] = "Pending") \/ phase[p] = "Running"
<1>1. phase \in [Pods -> Live \cup Finished \cup {"unborn"}]
  BY DEF NodeInv, TypeOK, PhaseTypeOK
<1>2. QED
  BY <1>1 DEF StartPod, FinishPod, UserDelete, Exists

LEMMA CallPods == NodeInv /\ AllocateStep => SamePods
<1> SUFFICES ASSUME NodeInv, AllocateStep PROVE SamePods
  OBVIOUS
<1>1. CASE UNCHANGED phase
  BY <1>1 DEF SamePods, Born
<1>2. ASSUME h.pc # "idle", NEW ok \in BOOLEAN, Answer(ok) PROVE SamePods
  BY <1>2, AnswerInv DEF Kept, Steady, SamePods
<1>3. CASE GetPendingPod
  BY <1>1, <1>2, <1>3 DEF GetPendingPod, NoPodFound
<1>4. CASE UpdateContainerIndex
  BY <1>1, <1>2, <1>4 DEF UpdateContainerIndex
<1>5. CASE TrySuccess
  BY <1>1, <1>2, <1>5 DEF TrySuccess
<1>6. CASE ReleaseNodeLock
  <2>1. h.ok \in BOOLEAN
    BY DEF NodeInv, TypeOK, AllocTypeOK, Handler
  <2>2. QED
    BY <1>2, <1>6, <2>1 DEF ReleaseNodeLock
<1>7. QED
  BY <1>1, <1>3, <1>4, <1>5, <1>6
     DEF AllocateStep, EraseNextRequest, ServeDevices, CreateVDevice, MarkVDevice,
         DeleteContainerIndex, AllocationFailed

LEMMA PodsKept ==
  ASSUME NodeInv, [Next]_vars, \A p \in Pods : ~Schedule(p)
  PROVE  SamePods
<1>1. CASE UNCHANGED phase
  BY <1>1 DEF SamePods, Born
<1>2. CASE AllocateStep
  BY <1>2, CallPods
<1>3. CASE \E r \in Refreshers : RefreshStep(r)
  BY <1>3, RefreshQuiet DEF SamePods, Born, Exists
<1>4. CASE EnvironmentStep
  <2>1. ASSUME NEW p \in Pods, StartPod(p) \/ FinishPod(p) \/ UserDelete(p) PROVE SamePods
    BY <2>1, PodStepQuiet DEF SamePods, Born, Exists
  <2>2. QED
    BY <1>1, <1>4, <2>1 DEF EnvironmentStep, ExpireLock, CallAllocate, AdmitPod
<1>5. CASE Crash
  <2>1. ASSUME h.pc # "idle", Answer(FALSE) PROVE SamePods
    BY <2>1, AnswerInv DEF Kept, Steady, SamePods
  <2>2. QED
    BY <1>1, <1>5, <2>1 DEF Crash
<1>6. CASE UNCHANGED vars
  BY <1>1, <1>6 DEF vars
<1>7. QED
  BY <1>2, <1>3, <1>4, <1>5, <1>6 DEF Next

-----------------------------------------------------------------------------
(* The container index. *)

\* A call keeps its index, or is not yet, or no longer, at a step that uses one.
LEMMA IndexQuiet ==
  ASSUME IndexInv, SamePods, UNCHANGED <<toAllocate, ctrIndexes>>,
         \/ h'.pc \in {"idle", "pending", "index"}
         \/ /\ h.pc \notin {"idle", "pending", "index"} /\ h'.pod = h.pod
            /\ h'.pc \in {"erase", "serve", "create", "mark"} =>
                 h.pc \in {"erase", "serve", "create", "mark"} /\ h'.ctr = h.ctr
  PROVE  IndexInv'
  BY DEF IndexInv, SamePods, Untouched, Born

LEMMA IndexStep ==
  ASSUME NodeInv, IndexInv, [Next]_vars
  PROVE  IndexInv'
<1> USE ConstantsAssumption
<1>1. /\ TypeOK /\ HandlerOK /\ h \in Handler /\ toAllocate \in [Pods -> Seq(Containers)]
      /\ ctrIndexes \in [Pods -> Seq(Containers)]
  BY DEF NodeInv, TypeOK, AllocTypeOK, ApiTypeOK
<1>2. ASSUME h' = IdleHandler, SamePods, UNCHANGED <<toAllocate, ctrIndexes>> PROVE IndexInv'
  BY <1>2, IndexQuiet DEF IdleHandler
<1>3. CASE AllocateStep
  <2>0. SamePods
    BY <1>3, CallPods
  <2>1. CASE GetPendingPod
    <3>1. UNCHANGED <<toAllocate, ctrIndexes>>
      BY <2>1 DEF GetPendingPod, apiVars
    <3>2. h' = IdleHandler \/ h'.pc = "index"
      BY <1>1, <2>1 DEF GetPendingPod, NoPodFound, Answer, Handler
    <3>3. QED
      BY <1>2, <2>0, <3>1, <3>2, IndexQuiet
  <2>2. CASE UpdateContainerIndex
    <3> DEFINE idx == IF Untouched(h.pod) THEN Order[h.pod] ELSE ctrIndexes[h.pod]
    <3>1. h.pod \in Pods /\ Born(h.pod)
      BY <2>2, InCall DEF UpdateContainerIndex
    <3>2. idx # <<>> /\ idx \in Seq(Containers)
      BY <1>1, <3>1 DEF IndexInv, NodeInv, BornHasOrder
    <3>3. \A p \in Pods : Born(p)' => Untouched(p)' \/ ctrIndexes'[p] # <<>>
      BY <1>1, <2>0, <2>2, <3>1, <3>2 DEF IndexInv, UpdateContainerIndex, SamePods, Untouched
    <3>4. CASE Answer(FALSE)
      BY <3>3, <3>4 DEF Answer, IdleHandler, IndexInv, Born, Untouched
    <3>5. CASE /\ ctrIndexes' = [ctrIndexes EXCEPT ![h.pod] = idx]
               /\ h' = [h EXCEPT !.pc = "erase", !.ctr = IF idx = <<>> THEN NoCtr ELSE Head(idx)]
      <4>1. Head(idx) \in Containers
        BY <3>2, HeadTailProperties
      <4>2. h'.ctr # NoCtr /\ h'.pod = h.pod
        BY <1>1, <3>2, <3>5, <4>1 DEF Handler
      <4>3. ctrIndexes'[h.pod] # <<>>
        BY <1>1, <3>1, <3>2, <3>5
      <4>4. QED
        BY <3>3, <4>2, <4>3 DEF IndexInv, Born, Untouched
    <3>6. QED
      BY <2>2, <3>4, <3>5 DEF UpdateContainerIndex
  <2>3. CASE EraseNextRequest
    <3>1. h.pod \in Pods /\ ctrIndexes[h.pod] # <<>> /\ h.ctr # NoCtr
      BY <2>3, InCall DEF EraseNextRequest, IndexInv
    <3>2. h'.pod = h.pod /\ h'.ctr = h.ctr /\ ctrIndexes' = ctrIndexes
      BY <1>1, <2>3 DEF EraseNextRequest, Fail, Handler
    <3>3. \A p \in Pods \ {h.pod} : toAllocate'[p] = toAllocate[p]
      BY <1>1, <2>3 DEF EraseNextRequest
    <3>4. QED
      BY <2>0, <3>1, <3>2, <3>3 DEF IndexInv, SamePods, Untouched, Born
  <2>4. CASE DeleteContainerIndex
    <3>1. h.pod \in Pods /\ ctrIndexes[h.pod] # <<>>
      BY <2>4, InCall DEF DeleteContainerIndex, IndexInv
    <3>2. h'.pod = h.pod /\ h'.pc = "settle" /\ toAllocate' = toAllocate
      BY <1>1, <2>4 DEF DeleteContainerIndex, Handler
    <3>3. IndexesLeft(h.pod) # <<>>
      BY <1>1, <3>1, TailNotEmpty DEF IndexesLeft
    <3>4. \/ ctrIndexes' = ctrIndexes
          \/ ctrIndexes' = [ctrIndexes EXCEPT ![h.pod] = IndexesLeft(h.pod)]
      BY <2>4 DEF DeleteContainerIndex
    <3>5. \A p \in Pods : ctrIndexes[p] # <<>> => ctrIndexes'[p] # <<>>
      BY <1>1, <3>1, <3>3, <3>4
    <3>6. QED
      BY <2>0, <3>1, <3>2, <3>5 DEF IndexInv, SamePods, Untouched, Born
  <2>5. CASE ServeDevices \/ CreateVDevice \/ MarkVDevice
    <3>1. UNCHANGED <<toAllocate, ctrIndexes>> /\ h.pc \in {"serve", "create", "mark"}
      BY <2>5 DEF ServeDevices, CreateVDevice, MarkVDevice, apiVars
    <3>2. h'.pod = h.pod /\ h'.ctr = h.ctr
      BY <1>1, <2>5 DEF ServeDevices, CreateVDevice, MarkVDevice, Fail, Handler
    <3>3. QED
      BY <2>0, <3>1, <3>2, IndexQuiet
  <2>6. CASE TrySuccess
    <3>1. UNCHANGED <<toAllocate, ctrIndexes>> /\ h.pc = "settle"
      BY <2>6 DEF TrySuccess
    <3>2. h' = IdleHandler \/ (h'.pod = h.pod /\ h'.pc = "release")
      BY <1>1, <2>6 DEF TrySuccess, Answer, Handler
    <3>3. QED
      BY <1>2, <2>0, <3>1, <3>2, IndexQuiet
  <2>7. CASE AllocationFailed
    <3>1. UNCHANGED <<toAllocate, ctrIndexes>> /\ h.pc = "settle"
      BY <2>7 DEF AllocationFailed
    <3>2. h'.pod = h.pod /\ h'.pc = "release"
      BY <1>1, <2>7 DEF AllocationFailed, Handler
    <3>3. QED
      BY <2>0, <3>1, <3>2, IndexQuiet
  <2>8. CASE ReleaseNodeLock
    BY <1>2, <2>0, <2>8 DEF ReleaseNodeLock, Answer
  <2>9. QED
    BY <1>3, <2>1, <2>2, <2>3, <2>4, <2>5, <2>6, <2>7, <2>8 DEF AllocateStep
<1>4. ASSUME SamePods, UNCHANGED <<toAllocate, ctrIndexes, h>> PROVE IndexInv'
  <2>1. h'.pc = h.pc /\ h'.pod = h.pod /\ h'.ctr = h.ctr
    BY <1>4
  <2>2. QED
    BY <1>4, <2>1, IndexQuiet
<1>5. ASSUME NEW p \in Pods, Schedule(p) PROVE IndexInv'
  <2>1. h' = h /\ ctrIndexes' = ctrIndexes /\ toAllocate' = [toAllocate EXCEPT ![p] = Order[p]]
    BY <1>5 DEF Schedule, allocVars
  <2>2. \A q \in Pods \ {p} : Born(q)' => Born(q)
    BY <1>1, <1>5 DEF Schedule, Born, TypeOK, PhaseTypeOK
  <2>3. \A q \in Pods : Born(q)' => Untouched(q)' \/ ctrIndexes'[q] # <<>>
    BY <1>1, <2>1, <2>2 DEF IndexInv, Untouched
  <2>4. QED
    BY <2>1, <2>3 DEF IndexInv
<1>6. CASE \A p \in Pods : ~Schedule(p)
  <2>0. SamePods
    BY <1>6, PodsKept
  <2>1. CASE \E r \in Refreshers : RefreshStep(r)
    BY <1>4, <2>0, <2>1, RefreshQuiet DEF apiVars, allocVars
  <2>2. CASE EnvironmentStep
    <3>1. CASE CallAllocate
      BY <1>1, <2>0, <3>1, IndexQuiet DEF CallAllocate, Handler, apiVars
    <3>2. CASE ~CallAllocate
      <4>1. UNCHANGED <<toAllocate, ctrIndexes, h>>
        BY <1>6, <2>2, <3>2 DEF EnvironmentStep, ExpireLock, AdmitPod, StartPod, FinishPod,
                                UserDelete, apiVars, allocVars
      <4>2. QED
        BY <1>4, <2>0, <4>1
    <3>3. QED
      BY <3>1, <3>2
  <2>3. CASE Crash
    <3>1. UNCHANGED <<toAllocate, ctrIndexes>> /\ (h' = h \/ h' = IdleHandler)
      BY <2>3 DEF Crash, Answer, apiVars
    <3>2. QED
      BY <1>2, <1>4, <2>0, <3>1
  <2>4. CASE UNCHANGED vars
    BY <1>4, <2>0, <2>4 DEF vars, apiVars, allocVars
  <2>5. QED
    BY <1>3, <2>1, <2>2, <2>3, <2>4 DEF Next
<1>7. QED
  BY <1>5, <1>6

LEMMA IndexInvariant == Spec => []IndexInv
<1>1. Init => IndexInv
  BY DEF Init, IndexInv, IdleHandler, Born
<1>2. QED
  BY <1>1, IndexStep, NodeInvariant, PTL DEF Spec

\* GetCurrentContainerIndex never yields -1 while devices are served: the
\* annotation is written before the first devices are taken from the other
\* one, and DeleteContainerIndexAnnotations leaves its last entry in place.
THEOREM IndexAlwaysKnown == Spec => []IndexKnown
<1>1. IndexInv => IndexKnown
  BY DEF IndexInv, IndexKnown
<1>2. QED
  BY <1>1, IndexInvariant, PTL

-----------------------------------------------------------------------------
(* One vDCU for each container. *)

LEMMA TailOfDistinct ==
  ASSUME NEW S, NEW s \in Seq(S), s # <<>>,
         \A m, n \in DOMAIN s : s[m] = s[n] => m = n
  PROVE  /\ \A m, n \in DOMAIN Tail(s) : Tail(s)[m] = Tail(s)[n] => m = n
         /\ \A n \in DOMAIN Tail(s) : Tail(s)[n] # Head(s)
         /\ \A n \in DOMAIN Tail(s) : \E m \in DOMAIN s : s[m] = Tail(s)[n]
         /\ \E m \in DOMAIN s : s[m] = Head(s)
<1>1. Tail(s) \in Seq(S) /\ Len(Tail(s)) = Len(s) - 1
  BY HeadTailProperties
<1>2. Len(s) \in Nat /\ Len(s) # 0 /\ DOMAIN s = 1..Len(s)
  BY EmptySeq, LenProperties
<1>3. DOMAIN Tail(s) = 1..(Len(s) - 1)
  BY <1>1, LenProperties
<1>4. \A n \in 1..(Len(s) - 1) : n + 1 \in DOMAIN s /\ Tail(s)[n] = s[n + 1]
  BY <1>1, <1>2
<1>5. 1 \in DOMAIN s /\ Head(s) = s[1]
  BY <1>2
<1>6. QED
  BY <1>2, <1>3, <1>4, <1>5

\* vDCUs may go, and a call may leave the steps between taking and making.
LEMMA TakenQuiet ==
  ASSUME TakenInv, SamePods, vdcus \subseteq Vdcu, UNCHANGED toAllocate, NoTwins',
         \A v \in vdcus' : \E w \in vdcus : w.pod = v.pod /\ w.ctr = v.ctr,
         h'.pc \in {"serve", "create"} =>
           h.pc \in {"serve", "create"} /\ h'.pod = h.pod /\ h'.req = h.req
  PROVE  TakenInv'
<1>1. \A p \in Pods : \A m, n \in DOMAIN toAllocate'[p] :
        toAllocate'[p][m] = toAllocate'[p][n] => m = n
  BY DEF TakenInv
<1>2. \A v \in vdcus' : Born(v.pod)' /\ ~Waits(toAllocate'[v.pod], v.ctr)
  <2> SUFFICES ASSUME NEW v \in vdcus' PROVE Born(v.pod)' /\ ~Waits(toAllocate'[v.pod], v.ctr)
    OBVIOUS
  <2>1. PICK w \in vdcus : w.pod = v.pod /\ w.ctr = v.ctr
    OBVIOUS
  <2>2. w.pod \in Pods /\ Born(w.pod) /\ ~Waits(toAllocate[w.pod], w.ctr)
    BY DEF TakenInv, Vdcu
  <2>3. QED
    BY <2>1, <2>2 DEF SamePods, Born
<1>3. h'.pc \in {"serve", "create"} =>
        /\ ~Waits(toAllocate'[h'.pod], h'.req)
        /\ \A v \in vdcus' : ~(v.pod = h'.pod /\ v.ctr = h'.req)
  BY DEF TakenInv
<1>4. QED
  BY <1>1, <1>2, <1>3 DEF TakenInv, Born

LEMMA TakenStep ==
  ASSUME NodeInv, TakenInv, [Next]_vars
  PROVE  TakenInv'
<1> USE ConstantsAssumption
<1>1. /\ TypeOK /\ HandlerOK /\ h \in Handler /\ toAllocate \in [Pods -> Seq(Containers)]
      /\ vdcus \subseteq Vdcu
  BY DEF NodeInv, TypeOK, AllocTypeOK, ApiTypeOK, NodeTypeOK
<1>2. ASSUME SamePods, UNCHANGED <<toAllocate, vdcus>>,
             h'.pc \in {"serve", "create"} =>
               h.pc \in {"serve", "create"} /\ h'.pod = h.pod /\ h'.req = h.req
      PROVE  TakenInv'
  <2>1. NoTwins'
    BY <1>2 DEF TakenInv, NoTwins
  <2>2. QED
    BY <1>1, <1>2, <2>1, TakenQuiet
<1>3. CASE AllocateStep
  <2>0. SamePods
    BY <1>3, CallPods
  <2>1. CASE EraseNextRequest
    <3>1. /\ h.pod \in Pods /\ vdcus' = vdcus
      BY <2>1, InCall DEF EraseNextRequest, nodeVars
    <3>2. CASE Fail /\ UNCHANGED toAllocate
      BY <1>1, <1>2, <2>0, <3>1, <3>2 DEF Fail, Handler
    <3>3. CASE /\ Matches
               /\ toAllocate' = [toAllocate EXCEPT ![h.pod] = Erased(h.pod)]
               /\ h' = [h EXCEPT !.pc = "serve", !.req = Head(toAllocate[h.pod])]
      <4> DEFINE s == toAllocate[h.pod]
      <4>1. s \in Seq(Containers) /\ s # <<>>
        BY <1>1, <3>1, <3>3 DEF Matches
      <4>2. \A m, n \in DOMAIN s : s[m] = s[n] => m = n
        BY <3>1 DEF TakenInv
      <4>3. /\ \A m, n \in DOMAIN Tail(s) : Tail(s)[m] = Tail(s)[n] => m = n
            /\ \A n \in DOMAIN Tail(s) : Tail(s)[n] # Head(s)
            /\ \A n \in DOMAIN Tail(s) : \E m \in DOMAIN s : s[m] = Tail(s)[n]
            /\ \E m \in DOMAIN s : s[m] = Head(s)
        BY <4>1, <4>2, TailOfDistinct
      <4>4. toAllocate'[h.pod] = Tail(s) /\ \A p \in Pods \ {h.pod} : toAllocate'[p] = toAllocate[p]
        BY <1>1, <3>1, <3>3 DEF Erased
      <4>5. h'.pod = h.pod /\ h'.req = Head(s)
        BY <1>1, <3>3 DEF Handler
      <4>6. \A p \in Pods : \A c : Waits(toAllocate'[p], c) => Waits(toAllocate[p], c)
        <5>1. \A c : Waits(Tail(s), c) => Waits(s, c)
          BY <4>3, Zenon DEF Waits
        <5>2. ASSUME NEW p \in Pods, NEW c, Waits(toAllocate'[p], c) PROVE Waits(toAllocate[p], c)
          <6>1. CASE p = h.pod
            <7>1. toAllocate'[p] = Tail(s) /\ toAllocate[p] = s
              BY <4>4, <6>1
            <7>2. QED
              BY <5>1, <5>2, <7>1
          <6>2. CASE p # h.pod
            BY <4>4, <5>2, <6>2
          <6>3. QED
            BY <6>1, <6>2
        <5>3. QED
          BY <5>2
      <4>7. Waits(s, Head(s)) /\ ~Waits(toAllocate'[h.pod], Head(s))
        BY <4>3, <4>4 DEF Waits
      <4>8. \A p \in Pods : \A m, n \in DOMAIN toAllocate'[p] :
              toAllocate'[p][m] = toAllocate'[p][n] => m = n
        BY <4>3, <4>4 DEF TakenInv
      <4>9. \A v \in vdcus' : Born(v.pod)' /\ ~Waits(toAllocate'[v.pod], v.ctr)
        BY <1>1, <2>0, <3>1, <4>6 DEF TakenInv, SamePods, Vdcu
      <4>10. ~Waits(toAllocate'[h'.pod], h'.req)
        BY <4>5, <4>7
      <4>11. \A v \in vdcus' : ~(v.pod = h'.pod /\ v.ctr = h'.req)
        BY <3>1, <4>5, <4>7 DEF TakenInv
      <4>12. NoTwins'
        BY <3>1 DEF TakenInv, NoTwins
      <4>13. QED
        BY <4>8, <4>9, <4>10, <4>11, <4>12 DEF TakenInv, Born
    <3>4. QED
      BY <2>1, <3>2, <3>3 DEF EraseNextRequest
  <2>2. CASE CreateVDevice
    <3>1. /\ h.pod \in Pods /\ Born(h.pod) /\ toAllocate' = toAllocate /\ h.pc = "create"
      BY <2>2, InCall DEF CreateVDevice, apiVars
    <3>2. CASE Fail /\ UNCHANGED vdcus
      BY <1>1, <1>2, <2>0, <3>1, <3>2 DEF Fail, Handler
    <3>3. ASSUME NEW i \in FreeIdx,
                 vdcus' = vdcus \cup {[idx |-> i, pod |-> h.pod, ctr |-> h.req,
                                       card |-> Devs[h.pod][h.req][1].card, up |-> TRUE]},
                 h' = [h EXCEPT !.pc = "mark", !.vdev = i]
          PROVE  TakenInv'
      <4>1. ~Waits(toAllocate[h.pod], h.req) /\ \A v \in vdcus : ~(v.pod = h.pod /\ v.ctr = h.req)
        BY <3>1 DEF TakenInv
      <4>2. NoTwins'
        <5> DEFINE new == [idx |-> i, pod |-> h.pod, ctr |-> h.req,
                           card |-> Devs[h.pod][h.req][1].card, up |-> TRUE]
        <5>1. new.pod = h.pod /\ new.ctr = h.req /\ vdcus' = vdcus \cup {new}
          BY <3>3
        <5> HIDE DEF new
        <5>2. QED
          BY <4>1, <5>1 DEF TakenInv, NoTwins
      <4>3. \A v \in vdcus' : Born(v.pod)' /\ ~Waits(toAllocate'[v.pod], v.ctr)
        <5>1. \A v \in vdcus : Born(v.pod)' /\ ~Waits(toAllocate'[v.pod], v.ctr)
          BY <1>1, <2>0, <3>1 DEF TakenInv, SamePods, Vdcu
        <5>2. phase'[h.pod] # "unborn" /\ ~Waits(toAllocate'[h.pod], h.req)
          BY <2>0, <3>1, <4>1 DEF SamePods, Born
        <5>3. QED
          BY <3>3, <5>1, <5>2 DEF Born
      <4>4. h'.pc = "mark"
        BY <1>1, <3>3 DEF Handler
      <4>5. QED
        BY <3>1, <4>2, <4>3, <4>4 DEF TakenInv, Born
    <3>4. QED
      BY <2>2, <3>2, <3>3 DEF CreateVDevice
  <2>3. CASE ServeDevices
    <3>1. UNCHANGED <<toAllocate, vdcus>> /\ h.pc = "serve"
      BY <2>3 DEF ServeDevices, apiVars
    <3>2. h'.pod = h.pod /\ h'.req = h.req
      BY <1>1, <2>3 DEF ServeDevices, Fail, Handler
    <3>3. QED
      BY <1>2, <2>0, <3>1, <3>2
  <2>4. CASE ~(EraseNextRequest \/ CreateVDevice \/ ServeDevices)
    <3>1. UNCHANGED <<toAllocate, vdcus>>
      BY <1>3, <2>4 DEF AllocateStep, GetPendingPod, UpdateContainerIndex, MarkVDevice,
         DeleteContainerIndex, TrySuccess, AllocationFailed, ReleaseNodeLock, apiVars, nodeVars
    <3>2. h'.pc \notin {"serve", "create"}
      <4>1. CASE GetPendingPod
        <5>1. h' = IdleHandler \/ h'.pc = "index"
          BY <1>1, <4>1 DEF GetPendingPod, NoPodFound, Answer, Handler
        <5>2. QED
          BY <5>1 DEF IdleHandler
      <4>2. CASE UpdateContainerIndex
        <5>1. h' = IdleHandler \/ h'.pc = "erase"
          BY <1>1, <4>2 DEF UpdateContainerIndex, Answer, Handler
        <5>2. QED
          BY <5>1 DEF IdleHandler
      <4>3. CASE MarkVDevice \/ DeleteContainerIndex \/ AllocationFailed
        BY <1>1, <4>3 DEF MarkVDevice, DeleteContainerIndex, AllocationFailed, Handler
      <4>4. CASE TrySuccess \/ ReleaseNodeLock
        BY <1>1, <4>4 DEF TrySuccess, ReleaseNodeLock, Answer, IdleHandler, Handler
      <4>5. QED
        BY <1>3, <2>4, <4>1, <4>2, <4>3, <4>4 DEF AllocateStep
    <3>3. QED
      BY <1>2, <2>0, <3>1, <3>2
  <2>5. QED
    BY <2>1, <2>2, <2>3, <2>4
<1>4. ASSUME NEW p \in Pods, Schedule(p) PROVE TakenInv'
  <2>1. /\ h' = h /\ vdcus' = vdcus /\ toAllocate' = [toAllocate EXCEPT ![p] = Order[p]]
        /\ ~Born(p)
    BY <1>4 DEF Schedule, allocVars, nodeVars, Born
  <2>2. \A q \in Pods : Born(q) => Born(q)' /\ toAllocate'[q] = toAllocate[q]
    BY <1>1, <1>4, <2>1 DEF Schedule, Born, TypeOK, PhaseTypeOK
  <2>3. \A q \in Pods : \A m, n \in DOMAIN toAllocate'[q] :
          toAllocate'[q][m] = toAllocate'[q][n] => m = n
    BY <1>1, <2>1 DEF TakenInv
  <2>4. \A v \in vdcus : Born(v.pod)' /\ ~Waits(toAllocate'[v.pod], v.ctr)
    BY <1>1, <2>2 DEF TakenInv, Vdcu
  <2>5. h.pc \in {"serve", "create"} => ~Waits(toAllocate'[h.pod], h.req)
    <3> SUFFICES ASSUME h.pc \in {"serve", "create"} PROVE ~Waits(toAllocate'[h.pod], h.req)
      OBVIOUS
    <3>1. h.pod \in Pods /\ Born(h.pod)
      BY InCall
    <3>2. QED
      BY <2>1, <2>2, <3>1 DEF TakenInv
  <2>6. NoTwins'
    BY <2>1 DEF TakenInv, NoTwins
  <2>7. \A v \in vdcus : h.pc \in {"serve", "create"} => ~(v.pod = h.pod /\ v.ctr = h.req)
    BY DEF TakenInv
  <2>8. QED
    BY <2>1, <2>3, <2>4, <2>5, <2>6, <2>7 DEF TakenInv, Born
<1>5. ASSUME SamePods, NEW r \in Refreshers, RefreshStep(r) PROVE TakenInv'
  <2>1. UNCHANGED <<toAllocate, h>>
    BY <1>5, RefreshQuiet DEF apiVars, allocVars
  <2>2. CASE vdcus' \subseteq vdcus
    <3>1. NoTwins'
      BY <2>2 DEF TakenInv, NoTwins
    <3>2. QED
      BY <1>1, <1>5, <2>1, <2>2, <3>1, TakenQuiet
  <2>3. CASE vdcus' = (vdcus \ Busy(r)) \cup {[v EXCEPT !.up = FALSE] : v \in Busy(r)}
    <3>1. Busy(r) \subseteq vdcus
      BY DEF Busy
    <3>2. \A v \in Busy(r) : [v EXCEPT !.up = FALSE].pod = v.pod /\ [v EXCEPT !.up = FALSE].ctr = v.ctr
      BY <1>1, <3>1 DEF Vdcu
    <3>3. \A v \in vdcus' : \E w \in vdcus :
            /\ w.pod = v.pod /\ w.ctr = v.ctr
            /\ v = IF w \in Busy(r) THEN [w EXCEPT !.up = FALSE] ELSE w
      BY <2>3, <3>1, <3>2
    <3>4. NoTwins'
      <4> SUFFICES ASSUME NEW v \in vdcus', NEW w \in vdcus', v.pod = w.pod, v.ctr = w.ctr
                   PROVE  v = w
        BY DEF NoTwins
      <4>1. PICK v0 \in vdcus : /\ v0.pod = v.pod /\ v0.ctr = v.ctr
                                /\ v = IF v0 \in Busy(r) THEN [v0 EXCEPT !.up = FALSE] ELSE v0
        BY <3>3
      <4>2. PICK w0 \in vdcus : /\ w0.pod = w.pod /\ w0.ctr = w.ctr
                                /\ w = IF w0 \in Busy(r) THEN [w0 EXCEPT !.up = FALSE] ELSE w0
        BY <3>3
      <4>3. v0 = w0
        BY <4>1, <4>2 DEF TakenInv, NoTwins
      <4>4. QED
        BY <4>1, <4>2, <4>3
    <3>5. \A v \in vdcus' : \E w \in vdcus : w.pod = v.pod /\ w.ctr = v.ctr
      BY <3>3
    <3>6. QED
      BY <1>1, <1>5, <2>1, <3>4, <3>5, TakenQuiet
  <2>4. QED
    BY <1>5, <2>2, <2>3 DEF RefreshStep, ReadDynamicDir, ListPods, RemoveMark, StopVDevice,
       DestroyVDevice, RemoveConf, DeletePod, EndRefresh, nodeVars
<1>6. CASE \A p \in Pods : ~Schedule(p)
  <2>0. SamePods
    BY <1>6, PodsKept
  <2>1. CASE EnvironmentStep
    <3>1. UNCHANGED <<toAllocate, vdcus>> /\ (h' = h \/ h'.pc = "pending")
      BY <1>1, <1>6, <2>1 DEF EnvironmentStep, ExpireLock, CallAllocate, AdmitPod, StartPod,
         FinishPod, UserDelete, apiVars, allocVars, nodeVars, Handler
    <3>2. QED
      BY <1>2, <2>0, <3>1
  <2>2. CASE Crash
    <3>1. UNCHANGED <<toAllocate, vdcus>> /\ (h' = h \/ h'.pc = "idle")
      BY <2>2 DEF Crash, Answer, IdleHandler, apiVars, nodeVars
    <3>2. QED
      BY <1>2, <2>0, <3>1
  <2>3. CASE UNCHANGED vars
    BY <1>2, <2>0, <2>3 DEF vars, apiVars, allocVars, nodeVars
  <2>4. QED
    BY <1>3, <1>5, <2>0, <2>1, <2>2, <2>3 DEF Next
<1>7. QED
  BY <1>4, <1>6

LEMMA TakenInvariant == Spec => []TakenInv
<1>1. Init => TakenInv
  BY ConstantsAssumption, EmptySeq DEF Init, TakenInv, NoTwins, IdleHandler
<1>2. QED
  BY <1>1, TakenStep, NodeInvariant, PTL DEF Spec

\* A container never gets two vDCUs: its devices leave the annotation before
\* the vDCU is made and nothing puts them back, whatever fails in between; so the
\* driver is not even asked for a second one.
THEOREM NoSecondVdcu == Spec => []OneVdcuEach
<1>1. TakenInv => OneVdcuEach
  BY DEF TakenInv, NoTwins, OneVdcuEach
<1>2. QED
  BY <1>1, TakenInvariant, PTL

-----------------------------------------------------------------------------
(* The handshake through the annotations and the lock. *)

\* What every step below starts from.
LEMMA HandshakeTypes ==
  ASSUME NodeInv
  PROVE  /\ h \in Handler /\ HandlerOK /\ admitted \subseteq Pods
         /\ kubelet \in [pod : Pods \cup {NoPod}, left : Seq(Containers)]
         /\ phase \in [Pods -> Live \cup Finished \cup {"unborn"}]
         /\ bindPhase \in [Pods -> {"none", "allocating", "success", "failed"}]
         /\ toAllocate \in [Pods -> Seq(Containers)]
         /\ lock \in Pods \cup {NoPod} /\ NoPod \notin Pods
         /\ apiFaults \in Nat /\ crashes \in Nat
BY ConstantsAssumption
   DEF NodeInv, TypeOK, PhaseTypeOK, ApiTypeOK, AllocTypeOK, FaultTypeOK

\* Steps of a call that only move on, or give up.
LEMMA MovesOn ==
  ASSUME LockInv, StepInv,
         UNCHANGED <<phase, bindPhase, toAllocate, lock, kubelet, admitted>>,
         h.pc \in {"serve", "create", "mark", "unindex"}, h'.pod = h.pod,
         h'.pc \in {"serve", "create", "mark", "unindex", "settle"}, h'.ok => h.ok
  PROVE  LockInv' /\ StepInv'
<1>1. LockInv'
  BY DEF LockInv, Exists, Born, Untouched
<1>2. StepInv'
  BY DEF StepInv, Asked, Exists
<1>3. QED
  BY <1>1, <1>2

\* Whatever is answered about a pod that was deleted disturbs no other pod.
LEMMA AnswerGone ==
  ASSUME NodeInv, LockInv, StepInv, h.pc # "idle", NEW ok \in BOOLEAN, Answer(ok),
         ~Exists(kubelet.pod), UNCHANGED <<bindPhase, toAllocate, lock>>
  PROVE  LockInv' /\ StepInv'
<1> DEFINE k == kubelet.pod
<1>1. k \in Pods /\ Born(k) /\ phase[k] # "Pending"
  BY HandshakeTypes DEF HandlerOK, Exists
<1>2. phase' = phase
  BY <1>1, HandshakeTypes DEF Answer, FailAdmission
<1>3. h' = IdleHandler
  BY DEF Answer
<1>4. CASE UNCHANGED admitted /\ kubelet' = NoAdmission
  <2>1. LockInv'
    BY <1>1, <1>2, <1>4, HandshakeTypes DEF LockInv, Exists, Born, Untouched, NoAdmission
  <2>2. StepInv'
    BY <1>3, <1>4 DEF StepInv, Asked, IdleHandler, NoAdmission
  <2>3. QED
    BY <2>1, <2>2
<1>5. CASE UNCHANGED admitted /\ kubelet'.pod = k
  <2>1. LockInv'
    BY <1>1, <1>2, <1>5 DEF LockInv, Exists, Born, Untouched
  <2>2. ~Asked'
    BY <1>2, <1>5 DEF Asked, Exists
  <2>3. StepInv'
    BY <1>3, <2>2 DEF StepInv, IdleHandler
  <2>4. QED
    BY <2>1, <2>3
<1>6. CASE admitted' = admitted \cup {k} /\ kubelet' = NoAdmission
  <2>1. LockInv'
    BY <1>1, <1>2, <1>6, HandshakeTypes DEF LockInv, Exists, Born, Untouched, NoAdmission
  <2>2. StepInv'
    BY <1>3, <1>6 DEF StepInv, Asked, IdleHandler, NoAdmission
  <2>3. QED
    BY <2>1, <2>2
<1>7. QED
  BY <1>4, <1>5, <1>6, HandshakeTypes DEF Answer, FailAdmission

LEMMA GetPendingPodShakes ==
  ASSUME NodeInv, LockInv, StepInv, GetPendingPod, UNCHANGED apiFaults
  PROVE  LockInv' /\ StepInv'
<1> DEFINE k == kubelet.pod
<1>1. h.pc = "pending" /\ k \in Pods /\ UNCHANGED <<bindPhase, toAllocate, lock>>
  BY HandshakeTypes DEF GetPendingPod, HandlerOK, apiVars
<1>2. ASSUME NEW p \in PendingPods, h' = [h EXCEPT !.pc = "index", !.pod = p],
             UNCHANGED <<phase, kubelet, admitted>>
      PROVE  LockInv' /\ StepInv'
  <2>1. p = k
    BY <1>1, HandshakeTypes DEF PendingPods, LockInv
  <2>2. h'.pc = "index" /\ h'.pod = k
    BY <1>2, <2>1, HandshakeTypes DEF Handler
  <2>3. LockInv'
    BY <1>1, <1>2 DEF LockInv, Exists, Born, Untouched
  <2>4. StepInv'
    BY <1>1, <1>2, <2>2 DEF StepInv, Asked, Exists
  <2>5. QED
    BY <2>3, <2>4
<1>3. CASE NoPodFound
  <2>1. ~Exists(k)
    BY <1>1, <1>3, HandshakeTypes DEF NoPodFound, PendingPods, StepInv, Asked
  <2>2. QED
    BY <1>1, <1>3, <2>1, AnswerGone DEF NoPodFound
<1>4. ~ApiFault
  BY HandshakeTypes DEF ApiFault
<1>5. QED
  BY <1>2, <1>3, <1>4 DEF GetPendingPod

LEMMA UpdateContainerIndexShakes ==
  ASSUME NodeInv, LockInv, StepInv, UpdateContainerIndex, UNCHANGED apiFaults
  PROVE  LockInv' /\ StepInv'
<1>1. /\ h.pc = "index" /\ h.pod = kubelet.pod /\ UNCHANGED <<bindPhase, toAllocate, lock>>
  BY InCall DEF UpdateContainerIndex, StepInv
<1>2. ~ApiFault
  BY HandshakeTypes DEF ApiFault
<1>3. CASE Answer(FALSE) /\ ~Exists(h.pod)
  BY <1>1, <1>3, AnswerGone
<1>4. CASE h'.pc = "erase" /\ h'.pod = h.pod /\ UNCHANGED <<phase, kubelet, admitted>>
  <2>1. LockInv'
    BY <1>1, <1>4 DEF LockInv, Exists, Born, Untouched
  <2>2. StepInv'
    BY <1>1, <1>4 DEF StepInv, Asked, Exists
  <2>3. QED
    BY <2>1, <2>2
<1>5. QED
  BY <1>2, <1>3, <1>4, HandshakeTypes DEF UpdateContainerIndex, Handler

LEMMA EraseNextRequestShakes ==
  ASSUME NodeInv, LockInv, StepInv, EraseNextRequest
  PROVE  LockInv' /\ StepInv'
<1> DEFINE k == kubelet.pod
<1>1. /\ h.pc = "erase" /\ h.pod = k /\ k \in Pods
      /\ UNCHANGED <<phase, bindPhase, lock, kubelet, admitted>>
  BY InCall DEF EraseNextRequest, StepInv
<1>2. CASE Fail /\ UNCHANGED toAllocate
  <2>1. h'.pc = "settle" /\ h'.pod = k /\ ~h'.ok
    BY <1>1, <1>2, HandshakeTypes DEF Fail, Handler
  <2>2. LockInv'
    BY <1>1, <1>2 DEF LockInv, Exists, Born, Untouched
  <2>3. StepInv'
    BY <1>1, <1>2, <2>1 DEF StepInv, Asked, Exists
  <2>4. QED
    BY <2>2, <2>3
<1>3. CASE /\ toAllocate' = [toAllocate EXCEPT ![h.pod] = Erased(h.pod)]
           /\ h' = [h EXCEPT !.pc = "serve", !.req = Head(toAllocate[h.pod])]
  <2>1. h'.pc = "serve" /\ h'.pod = k
    BY <1>1, <1>3, HandshakeTypes DEF Handler
  <2>2. toAllocate'[k] = Tail(toAllocate[k]) /\ \A p \in Pods \ {k} : toAllocate'[p] = toAllocate[p]
    BY <1>1, <1>3, HandshakeTypes DEF Erased
  <2>3. LockInv'
    BY <1>1, <2>2 DEF LockInv, Exists, Born, Untouched
  <2>4. StepInv'
    BY <1>1, <2>1, <2>2 DEF StepInv, Asked, Exists
  <2>5. QED
    BY <2>3, <2>4
<1>4. QED
  BY <1>2, <1>3 DEF EraseNextRequest

LEMMA LastOne ==
  ASSUME NEW S, NEW s \in Seq(S), s # <<>>
  PROVE  Tail(s) = <<>> <=> Len(s) = 1
<1>1. Tail(s) \in Seq(S) /\ Len(Tail(s)) = Len(s) - 1
  BY HeadTailProperties
<1>2. Len(s) \in Nat
  BY LenProperties
<1>3. Tail(s) = <<>> <=> Len(Tail(s)) = 0
  BY <1>1, EmptySeq, Zenon
<1>4. QED
  BY <1>1, <1>2, <1>3

LEMMA TrySuccessShakes ==
  ASSUME NodeInv, LockInv, StepInv, TrySuccess, UNCHANGED apiFaults
  PROVE  LockInv' /\ StepInv'
<1> DEFINE k == kubelet.pod
<1>1. /\ h.pc = "settle" /\ h.ok /\ h.pod = k /\ k \in Pods /\ kubelet.pod # NoPod
      /\ UNCHANGED <<toAllocate, lock>>
  BY InCall, HandshakeTypes DEF TrySuccess, StepInv
<1>2. ~ApiFault
  BY HandshakeTypes DEF ApiFault
<1>3. kubelet.left \in Seq(Containers) /\ kubelet.left # <<>>
  BY <1>1, HandshakeTypes DEF HandlerOK
<1>4. Tail(kubelet.left) = <<>> <=> Len(kubelet.left) = 1
  BY <1>3, LastOne
<1>5. CASE AllTaken(h.pod) /\ PatchBindPhase(h.pod, "success") /\ h' = [h EXCEPT !.pc = "release"]
           /\ UNCHANGED <<phase, kubelet, admitted>>
  <2>1. Tail(kubelet.left) = <<>>
    BY <1>1, <1>5 DEF AllTaken, StepInv, Asked
  <2>2. Len(kubelet.left) = 1
    BY <1>4, <2>1
  <2>3. h'.pc = "release" /\ h'.pod = k
    BY <1>1, <1>5, HandshakeTypes DEF Handler
  <2>4. bindPhase' = [bindPhase EXCEPT ![k] = "success"]
    BY <1>1, <1>2, <1>5 DEF PatchBindPhase, AllTaken
  <2>5. bindPhase'[k] = "success" /\ \A p \in Pods \ {k} : bindPhase'[p] = bindPhase[p]
    BY <1>1, <2>4, HandshakeTypes
  <2>6. LockInv'
    BY <1>1, <1>5, <2>5 DEF LockInv, Exists, Born, Untouched
  <2>7. StepInv'
    BY <1>1, <1>5, <2>2, <2>3, <2>5 DEF StepInv, Exists
  <2>8. QED
    BY <2>6, <2>7
<1>6. CASE ~AllTaken(h.pod) /\ Answer(TRUE) /\ UNCHANGED bindPhase
  <2>1. CASE ~Exists(k)
    BY <1>1, <1>6, <2>1, AnswerGone
  <2>2. CASE Exists(k)
    <3>1. Asked /\ toAllocate[k] = Tail(kubelet.left) /\ Tail(kubelet.left) # <<>>
          /\ bindPhase[k] = "allocating"
      BY <1>1, <1>6, <2>2 DEF AllTaken, StepInv, Asked
    <3>2. Len(kubelet.left) # 1
      BY <1>4, <3>1
    <3>3. /\ h' = IdleHandler /\ UNCHANGED <<phase, admitted>>
          /\ kubelet' = [kubelet EXCEPT !.left = Tail(@)]
      BY <1>6, <3>2 DEF Answer
    <3>4. kubelet'.pod = k /\ kubelet'.left = Tail(kubelet.left)
      BY <3>3, HandshakeTypes
    <3>5. LockInv'
      BY <1>1, <1>6, <3>3, <3>4 DEF LockInv, Exists, Born, Untouched
    <3>6. StepInv'
      BY <1>1, <1>6, <3>1, <3>3, <3>4 DEF StepInv, Asked, Exists, IdleHandler
    <3>7. QED
      BY <3>5, <3>6
  <2>3. QED
    BY <2>1, <2>2
<1>7. QED
  BY <1>2, <1>5, <1>6 DEF TrySuccess

LEMMA AllocationFailedShakes ==
  ASSUME NodeInv, LockInv, StepInv, AllocationFailed, UNCHANGED apiFaults
  PROVE  LockInv' /\ StepInv'
<1> DEFINE k == kubelet.pod
<1>1. /\ h.pc = "settle" /\ ~h.ok /\ h.pod = k /\ k \in Pods
      /\ UNCHANGED <<phase, toAllocate, lock, kubelet, admitted>>
  BY InCall DEF AllocationFailed, StepInv
<1>2. h'.pc = "release" /\ h'.pod = k /\ ~h'.ok
  BY <1>1, HandshakeTypes DEF AllocationFailed, Handler
<1>3. bindPhase' = IF Exists(k) THEN [bindPhase EXCEPT ![k] = "failed"] ELSE bindPhase
  BY <1>1, HandshakeTypes DEF AllocationFailed, PatchBindPhase, ApiFault
<1>4. /\ Exists(k) => bindPhase'[k] = "failed"
      /\ \A p \in Pods \ {k} : bindPhase'[p] = bindPhase[p]
  BY <1>1, <1>3, HandshakeTypes
<1>5. LockInv'
  BY <1>1, <1>4 DEF LockInv, Exists, Born, Untouched
<1>6. StepInv'
  BY <1>1, <1>2, <1>4 DEF StepInv, Exists
<1>7. QED
  BY <1>5, <1>6

LEMMA ReleaseNodeLockShakes ==
  ASSUME NodeInv, LockInv, StepInv, ReleaseNodeLock, UNCHANGED apiFaults
  PROVE  LockInv' /\ StepInv'
<1> DEFINE k == kubelet.pod
<1>1. /\ h.pc = "release" /\ h.pod = k /\ k \in Pods /\ k # NoPod /\ Born(k)
      /\ UNCHANGED <<bindPhase, toAllocate>> /\ Answer(h.ok)
  BY InCall DEF ReleaseNodeLock, StepInv
<1>2. lock = k /\ lock' = NoPod
  BY <1>1, HandshakeTypes DEF ReleaseNodeLock, ApiFault, LockAfter, LockInv
<1>3. /\ h' = IdleHandler /\ kubelet' = NoAdmission
      /\ \/ admitted' = admitted /\ phase' = [phase EXCEPT ![k] = IF @ = "Pending" THEN "Failed" ELSE @]
         \/ admitted' = admitted \cup {k} /\ phase' = phase
  <2>1. CASE h.ok
    <3>1. Len(kubelet.left) = 1
      BY <1>1, <2>1 DEF StepInv
    <3>2. QED
      BY <1>1, <2>1, <3>1 DEF Answer
  <2>2. CASE ~h.ok
    BY <1>1, <2>2 DEF Answer, FailAdmission
  <2>3. QED
    BY <2>1, <2>2
<1>4. \A p \in Pods \ {k} : phase'[p] = phase[p]
  BY <1>3, HandshakeTypes
<1>5. phase'[k] # "Pending" \/ k \in admitted'
  BY <1>1, <1>3, HandshakeTypes
<1>6. (phase'[k] \notin {"unborn", "gone"} => Exists(k)) /\ phase'[k] # "unborn"
  BY <1>1, <1>3, HandshakeTypes DEF Exists, Born
<1>7. \A p \in Pods : ~(phase'[p] \notin {"unborn", "gone"} /\ bindPhase'[p] = "allocating")
  BY <1>1, <1>2, <1>4, <1>6, HandshakeTypes DEF LockInv, StepInv, Exists
<1>8. \A p \in Pods : phase'[p] = "Pending" /\ p \notin admitted' =>
        bindPhase'[p] = "allocating" /\ Untouched(p)'
  BY <1>1, <1>3, <1>4, <1>5 DEF LockInv, Untouched
<1>9. \A p \in admitted' : phase'[p] # "unborn"
  BY <1>3, <1>4, <1>6, HandshakeTypes DEF LockInv, Born
<1>10. LockInv'
  BY <1>3, <1>7, <1>8, <1>9 DEF LockInv, Exists, Born, NoAdmission
<1>11. StepInv'
  BY <1>3 DEF StepInv, Asked, IdleHandler, NoAdmission
<1>12. QED
  BY <1>10, <1>11

LEMMA AllocateShakes ==
  ASSUME NodeInv, LockInv, StepInv, AllocateStep, UNCHANGED apiFaults
  PROVE  LockInv' /\ StepInv'
<1>1. CASE ServeDevices \/ CreateVDevice \/ MarkVDevice \/ DeleteContainerIndex
  <2>1. /\ UNCHANGED <<phase, bindPhase, toAllocate, lock, kubelet, admitted>>
        /\ h.pc \in {"serve", "create", "mark", "unindex"}
    BY <1>1 DEF ServeDevices, CreateVDevice, MarkVDevice, DeleteContainerIndex, apiVars
  <2>2. /\ h'.pod = h.pod
        /\ h'.ok => h.ok
        /\ h'.pc \in {"serve", "create", "mark", "unindex", "settle"}
    BY <1>1, HandshakeTypes
       DEF ServeDevices, CreateVDevice, MarkVDevice, DeleteContainerIndex, Fail, Handler
  <2>3. QED
    BY <2>1, <2>2, MovesOn
<1>2. QED
  BY <1>1, GetPendingPodShakes, UpdateContainerIndexShakes, EraseNextRequestShakes,
     TrySuccessShakes, AllocationFailedShakes, ReleaseNodeLockShakes DEF AllocateStep

\* A pod that runs, finishes or goes weakens what is known of it, and nothing else.
LEMMA PodMovesOn ==
  ASSUME NodeInv, LockInv, StepInv, UNCHANGED <<apiVars, allocVars>>,
         \A p \in Pods :
           \/ phase'[p] = phase[p] \/ (Exists(p) /\ phase'[p] = "gone")
           \/ phase[p] = "Running" /\ phase'[p] \in Finished
           \/ p \in admitted /\ phase[p] = "Pending" /\ phase'[p] = "Running"
  PROVE  LockInv' /\ StepInv'
<1>1. UNCHANGED <<bindPhase, toAllocate, lock, h, kubelet, admitted>>
  BY DEF apiVars, allocVars
<1>2. \A p \in Pods : /\ phase'[p] \notin {"unborn", "gone"} => Exists(p)
                      /\ phase'[p] = "Pending" => phase[p] = "Pending"
                      /\ Born(p) => phase'[p] # "unborn"
  BY DEF Exists, Born
<1>3. \A p \in Pods : phase'[p] \notin {"unborn", "gone"} /\ bindPhase[p] = "allocating" =>
        phase'[p] = "Pending" /\ lock = p /\ p \notin admitted
  BY <1>2 DEF LockInv, Exists
<1>4. \A p \in Pods : phase'[p] = "Pending" /\ p \notin admitted /\ kubelet.pod # p =>
        bindPhase[p] = "allocating" /\ toAllocate[p] = Order[p]
  BY <1>2 DEF LockInv, Untouched
<1>5. \A p \in admitted : phase'[p] # "unborn"
  BY <1>2, HandshakeTypes DEF LockInv
<1>6. LockInv'
  BY <1>1, <1>3, <1>4, <1>5 DEF LockInv, Exists, Born, Untouched
<1>7. kubelet.pod # NoPod /\ phase'[kubelet.pod] \notin {"unborn", "gone"} => Asked
  BY <1>2, HandshakeTypes DEF Asked
<1>8. h.pc = "release" /\ phase'[h.pod] \notin {"unborn", "gone"} => Exists(h.pod)
  BY <1>2, InCall
<1>9. StepInv'
  BY <1>1, <1>7, <1>8 DEF StepInv, Asked, Exists
<1>10. QED
  BY <1>6, <1>9

LEMMA ScheduleShakes ==
  ASSUME NodeInv, LockInv, StepInv, NEW p \in Pods, Schedule(p)
  PROVE  LockInv' /\ StepInv'
<1>1. /\ lock = NoPod /\ lock' = p /\ UNCHANGED <<h, kubelet, admitted>>
      /\ ~Born(p) /\ p \notin admitted
  BY DEF Schedule, allocVars, LockInv, Born
<1>2. kubelet.pod = NoPod /\ h.pc = "idle" /\ h.pod = NoPod
  BY <1>1, HandshakeTypes DEF LockInv, StepInv, HandlerOK
<1>3. /\ phase'[p] = "Pending" /\ bindPhase'[p] = "allocating" /\ toAllocate'[p] = Order[p]
      /\ \A q \in Pods \ {p} : /\ phase'[q] = phase[q] /\ bindPhase'[q] = bindPhase[q]
                               /\ toAllocate'[q] = toAllocate[q]
  BY HandshakeTypes DEF Schedule
<1>4. \A q \in Pods : ~(Exists(q) /\ bindPhase[q] = "allocating")
  BY <1>1, HandshakeTypes DEF LockInv
<1>5. LockInv'
  BY <1>1, <1>2, <1>3, <1>4, HandshakeTypes DEF LockInv, Exists, Born, Untouched
<1>6. StepInv'
  BY <1>1, <1>2 DEF StepInv, Asked
<1>7. QED
  BY <1>5, <1>6

LEMMA EnvironmentShakes ==
  ASSUME NodeInv, LockInv, StepInv, EnvironmentStep
  PROVE  LockInv' /\ StepInv'
<1>1. CASE ExpireLock
  <2>1. /\ UNCHANGED <<phase, bindPhase, toAllocate, allocVars>> /\ lock' = NoPod
        /\ lock \in Pods /\ phase[lock] # "Pending" /\ kubelet.pod # lock
    BY <1>1, HandshakeTypes DEF ExpireLock
  <2>2. kubelet.pod = NoPod /\ \A p \in Pods : ~(Exists(p) /\ bindPhase[p] = "allocating")
    BY <2>1 DEF LockInv
  <2>3. LockInv'
    BY <2>1, <2>2 DEF LockInv, Exists, Born, Untouched, allocVars
  <2>4. StepInv'
    BY <2>1 DEF StepInv, Asked, Exists, allocVars
  <2>5. QED
    BY <2>3, <2>4
<1>2. CASE CallAllocate
  <2>1. /\ UNCHANGED <<phase, bindPhase, toAllocate, lock, kubelet, admitted>>
        /\ h.pc = "idle" /\ h'.pc = "pending" /\ h'.pod = h.pod
    BY <1>2, HandshakeTypes DEF CallAllocate, apiVars, Handler
  <2>2. LockInv'
    BY <2>1 DEF LockInv, Exists, Born, Untouched
  <2>3. StepInv'
    BY <2>1 DEF StepInv, Asked, Exists
  <2>4. QED
    BY <2>2, <2>3
<1>3. ASSUME NEW p \in Pods, AdmitPod(p) PROVE LockInv' /\ StepInv'
  <2>1. /\ UNCHANGED <<phase, bindPhase, toAllocate, lock, h, admitted>>
        /\ kubelet.pod = NoPod /\ phase[p] = "Pending" /\ p \notin admitted
        /\ kubelet'.pod = p /\ kubelet'.left = Order[p]
    BY <1>3 DEF AdmitPod, NoAdmission, apiVars
  <2>2. bindPhase[p] = "allocating" /\ Untouched(p) /\ lock = p
    BY <2>1, HandshakeTypes DEF LockInv, Exists
  <2>3. h.pc = "idle" /\ h.pod = NoPod
    BY <2>1, HandshakeTypes DEF HandlerOK, StepInv
  <2>4. LockInv'
    BY <2>1, <2>2, HandshakeTypes DEF LockInv, Exists, Born, Untouched
  <2>5. StepInv'
    BY <2>1, <2>2, <2>3 DEF StepInv, Asked, Exists, Untouched
  <2>6. QED
    BY <2>4, <2>5
<1>4. ASSUME NEW p \in Pods, StartPod(p) \/ FinishPod(p) \/ UserDelete(p)
      PROVE  LockInv' /\ StepInv'
  <2>1. \A q \in Pods :
          \/ phase'[q] = phase[q] \/ (Exists(q) /\ phase'[q] = "gone")
          \/ phase[q] = "Running" /\ phase'[q] \in Finished
          \/ q \in admitted /\ phase[q] = "Pending" /\ phase'[q] = "Running"
    <3>1. CASE StartPod(p)
      BY <3>1, HandshakeTypes DEF StartPod
    <3>2. CASE FinishPod(p)
      BY <3>2, HandshakeTypes DEF FinishPod
    <3>3. CASE UserDelete(p)
      BY <3>3, HandshakeTypes DEF UserDelete
    <3>4. QED
      BY <1>4, <3>1, <3>2, <3>3
  <2>2. QED
    BY <1>4, <2>1, PodStepQuiet, PodMovesOn
<1>5. QED
  BY <1>1, <1>2, <1>3, <1>4, ScheduleShakes DEF EnvironmentStep

\* Faults are never taken back.
LEMMA FaultsStay ==
  ASSUME NodeInv, [Next]_vars, NoApiFaults'
  PROVE  NoApiFaults /\ UNCHANGED apiFaults /\ ~Crash
<1>1. apiFaults \in Nat /\ crashes \in Nat
  BY HandshakeTypes
<1>2. ~Crash
  <2>1. crashes' = 0
    BY DEF NoApiFaults
  <2>2. Crash => crashes' = crashes + 1
    BY DEF Crash
  <2>3. QED
    BY <1>1, <2>1, <2>2
<1>3. crashes' = crashes /\ (apiFaults' = apiFaults \/ apiFaults' = apiFaults + 1)
  <2>1. CASE AllocateStep
    BY <2>1 DEF AllocateStep, GetPendingPod, UpdateContainerIndex, EraseNextRequest, ServeDevices,
       CreateVDevice, MarkVDevice, DeleteContainerIndex, TrySuccess, PatchBindPhase,
       AllocationFailed, ReleaseNodeLock, ApiFault
  <2>2. CASE \E r \in Refreshers : RefreshStep(r)
    BY <2>2 DEF RefreshStep, ReadDynamicDir, ListPods, RemoveMark, StopVDevice, DestroyVDevice,
       RemoveConf, DeletePod, EndRefresh, ApiFault, faultVars
  <2>3. CASE EnvironmentStep
    BY <2>3 DEF EnvironmentStep, ExpireLock, CallAllocate, Schedule, AdmitPod, StartPod, FinishPod,
       UserDelete, faultVars
  <2>4. CASE UNCHANGED vars
    BY <2>4 DEF vars, faultVars
  <2>5. QED
    BY <1>2, <2>1, <2>2, <2>3, <2>4 DEF Next
<1>4. QED
  BY <1>1, <1>2, <1>3 DEF NoApiFaults

LEMMA HandshakeStep ==
  ASSUME NodeInv, HandshakeInv, [Next]_vars
  PROVE  HandshakeInv'
<1> SUFFICES ASSUME NoApiFaults' PROVE LockInv' /\ StepInv'
  BY DEF HandshakeInv, NoApiFaults
<1>1. LockInv /\ StepInv /\ UNCHANGED apiFaults /\ ~Crash
  BY FaultsStay DEF HandshakeInv
<1>2. CASE AllocateStep
  BY <1>1, <1>2, AllocateShakes
<1>3. CASE \E r \in Refreshers : RefreshStep(r)
  BY <1>1, <1>3, RefreshQuiet, PodMovesOn
<1>4. CASE EnvironmentStep
  BY <1>1, <1>4, EnvironmentShakes
<1>5. CASE UNCHANGED vars
  BY <1>1, <1>5, PodMovesOn DEF vars
<1>6. QED
  BY <1>1, <1>2, <1>3, <1>4, <1>5 DEF Next

LEMMA HandshakeInvariant == Spec => []HandshakeInv
<1>1. Init => HandshakeInv
  BY ConstantsAssumption
     DEF Init, HandshakeInv, LockInv, StepInv, Asked, Exists, IdleHandler, NoAdmission
<1>2. QED
  BY <1>1, HandshakeStep, NodeInvariant, PTL DEF Spec

\* While the API server answers and the plugin stays up, the pod that an
\* Allocate call finds through the annotations is the one kubelet asks for.
THEOREM WorksForRightPod == Spec => []RightPod
<1>1. HandshakeInv => RightPod
  BY DEF HandshakeInv, StepInv, RightPod
<1>2. QED
  BY <1>1, HandshakeInvariant, PTL

\* Under the same conditions a pending pod marked as allocating has the lock.
THEOREM LockHeldWhileAllocating == Spec => []LockCoversAllocating
<1>1. HandshakeInv => LockCoversAllocating
  BY DEF HandshakeInv, LockInv, LockCoversAllocating, Exists
<1>2. QED
  BY <1>1, HandshakeInvariant, PTL

=============================================================================
