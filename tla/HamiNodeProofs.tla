---------------------------- MODULE HamiNodeProofs ----------------------------
(***************************************************************************)
(* Theorems about HamiNode, for any number of pods, containers, cards,     *)
(* indices and reclaiming goroutines, and any bound on the faults.         *)
(***************************************************************************)
EXTENDS HamiNode, SequenceTheorems, TLAPS

USE DEF Live, Finished

\* No pod is born or unborn, and one that has finished stays finished.
Steady == \A p \in Pods : /\ Born(p)' <=> Born(p)
                          /\ phase[p] \in Finished => phase'[p] \in Finished

\* What every step of the handler, or of its answer, keeps.
Kept == PhaseTypeOK' /\ AllocTypeOK' /\ Steady /\ HandlerOK'

LEMMA TailNotEmpty ==
  ASSUME NEW S, NEW s \in Seq(S), Len(s) > 1
  PROVE  Tail(s) \in Seq(S) /\ Tail(s) # <<>>
<1>1. s # <<>>
  BY EmptySeq
<1>2. Tail(s) \in Seq(S) /\ Len(Tail(s)) = Len(s) - 1
  BY <1>1, HeadTailProperties
<1>3. Len(s) \in Nat /\ Len(<<>>) = 0
  BY LenProperties, EmptySeq
<1>4. Len(Tail(s)) # Len(<<>>)
  BY <1>2, <1>3
<1>5. QED
  BY <1>2, <1>4, Zenon

LEMMA InitInv == Init => NodeInv
<1> SUFFICES ASSUME Init PROVE NodeInv
  OBVIOUS
<1> USE ConstantsAssumption DEF Init
<1>1. PhaseTypeOK /\ ApiTypeOK
  BY DEF PhaseTypeOK, ApiTypeOK
<1>2. NodeTypeOK /\ FaultTypeOK
  BY DEF NodeTypeOK, FaultTypeOK
<1>3. AllocTypeOK
  BY DEF AllocTypeOK, IdleHandler, Handler, NoAdmission
<1>4. RefTypeOK
  BY DEF RefTypeOK, IdleRefresher, Refresher, Refreshers
<1>5. HandlerOK
  BY DEF HandlerOK, IdleHandler, NoAdmission
<1>6. BornHasOrder /\ MarksBorn /\ ReclaimOnlyFinished
  BY DEF BornHasOrder, MarksBorn, ReclaimOnlyFinished, Born, IdleRefresher
<1>7. QED
  BY <1>1, <1>2, <1>3, <1>4, <1>5, <1>6 DEF NodeInv, TypeOK

-----------------------------------------------------------------------------
\* The answer to kubelet, which ends a call in every possible way.
LEMMA AnswerInv ==
  ASSUME NodeInv, h.pc # "idle", NEW ok \in BOOLEAN, Answer(ok)
  PROVE  Kept
<1> USE ConstantsAssumption
<1>1. PhaseTypeOK /\ AllocTypeOK /\ HandlerOK
  BY DEF NodeInv, TypeOK
<1>2. h' = IdleHandler /\ h' \in Handler
  BY DEF Answer, IdleHandler, Handler
<1>3. kubelet.pod \in Pods
  BY <1>1 DEF HandlerOK, AllocTypeOK
<1>4. CASE FailAdmission
  <2>1. PhaseTypeOK' /\ Steady
    BY <1>1, <1>3, <1>4 DEF FailAdmission, PhaseTypeOK, Steady, Born
  <2>2. kubelet' = NoAdmission /\ admitted' = admitted
    BY <1>4 DEF FailAdmission
  <2>3. AllocTypeOK'
    BY <1>1, <1>2, <2>2 DEF AllocTypeOK, NoAdmission
  <2>4. HandlerOK'
    BY <1>2, <2>2 DEF HandlerOK, NoAdmission, IdleHandler
  <2>5. QED
    BY <2>1, <2>3, <2>4 DEF Kept
<1>5. CASE Len(kubelet.left) > 1 /\ kubelet' = [kubelet EXCEPT !.left = Tail(@)]
           /\ UNCHANGED <<phase, admitted>>
  <2>1. kubelet.left \in Seq(Containers)
    BY <1>1 DEF AllocTypeOK
  <2>2. Tail(kubelet.left) \in Seq(Containers) /\ Tail(kubelet.left) # <<>>
    BY <1>5, <2>1, TailNotEmpty
  <2>3. AllocTypeOK'
    BY <1>1, <1>2, <1>5, <2>2 DEF AllocTypeOK
  <2>4. HandlerOK'
    <3>1. kubelet'.pod = kubelet.pod /\ kubelet'.left # <<>>
      BY <1>1, <1>5, <2>2 DEF AllocTypeOK
    <3>2. Born(kubelet.pod)' <=> Born(kubelet.pod)
      BY <1>5 DEF Born
    <3>3. Born(kubelet.pod)
      BY <1>1, <1>3 DEF HandlerOK
    <3>4. QED
      BY <1>2, <3>1, <3>2, <3>3 DEF HandlerOK, IdleHandler, Born
  <2>5. QED
    BY <1>1, <1>5, <2>3, <2>4 DEF PhaseTypeOK, Steady, Born, Kept
<1>6. CASE kubelet' = NoAdmission /\ admitted' = admitted \cup {kubelet.pod} /\ UNCHANGED phase
  <2>1. AllocTypeOK'
    BY <1>1, <1>2, <1>3, <1>6 DEF AllocTypeOK, NoAdmission
  <2>2. HandlerOK'
    BY <1>2, <1>6 DEF HandlerOK, NoAdmission, IdleHandler
  <2>3. QED
    BY <1>1, <1>6, <2>1, <2>2 DEF PhaseTypeOK, Steady, Born, Kept
<1>7. QED
  BY <1>4, <1>5, <1>6 DEF Answer

\* Faults are counted one at a time.
LEMMA FaultInv ==
  ASSUME FaultTypeOK,
         UNCHANGED apiFaults \/ ApiFault,
         UNCHANGED nodeFaults \/ NodeFault,
         UNCHANGED crashes \/ crashes' = crashes + 1
  PROVE  FaultTypeOK'
  BY DEF FaultTypeOK, ApiFault, NodeFault

\* What follows for the pods of the marks when no refresh takes a step.
LEMMA SteadyInv ==
  ASSUME NodeInv, PhaseTypeOK', NodeTypeOK', Steady, ref' = ref,
         \A m \in marks' \ marks : Born(m.pod)
  PROVE  BornHasOrder' /\ MarksBorn' /\ ReclaimOnlyFinished'
<1>1. \A m \in Mark : m.pod \in Pods
  BY DEF Mark
<1>2. BornHasOrder'
  BY DEF NodeInv, BornHasOrder, Steady
<1>3. \A r \in Refreshers : /\ ref[r].files \subseteq Mark /\ ref[r].todo \subseteq Mark
                            /\ ref[r].busy \subseteq Mark
  BY DEF NodeInv, TypeOK, RefTypeOK, Refresher
<1>4. MarksBorn'
  <2>1. \A m \in marks' : Born(m.pod)
    BY DEF NodeInv, MarksBorn
  <2>2. \A m \in marks' : m.pod \in Pods
    BY <1>1 DEF NodeTypeOK
  <2>3. \A m \in marks' : Born(m.pod)'
    BY <2>1, <2>2 DEF Steady, Born
  <2>4. \A r \in Refreshers : \A m \in ref[r].files : Born(m.pod)'
    BY <1>1, <1>3 DEF NodeInv, MarksBorn, Steady, Born
  <2>5. QED
    BY <2>3, <2>4 DEF MarksBorn, Born
<1>5. ReclaimOnlyFinished'
  BY <1>1, <1>3 DEF NodeInv, ReclaimOnlyFinished, Steady
<1>6. QED
  BY <1>2, <1>4, <1>5

LEMMA StutterInv == NodeInv /\ UNCHANGED vars => NodeInv'
  BY DEF NodeInv, TypeOK, PhaseTypeOK, ApiTypeOK, NodeTypeOK, AllocTypeOK, RefTypeOK, FaultTypeOK,
         HandlerOK, BornHasOrder, MarksBorn, ReclaimOnlyFinished, Born,
         vars, apiVars, nodeVars, allocVars, refVars, faultVars

-----------------------------------------------------------------------------
(* The Allocate handler, step by step. *)

LEMMA GetPendingPodInv == NodeInv /\ GetPendingPod => NodeInv'
<1> SUFFICES ASSUME NodeInv, GetPendingPod PROVE NodeInv'
  OBVIOUS
<1> USE ConstantsAssumption
<1>1. TypeOK /\ HandlerOK /\ h.pc = "pending"
  BY DEF NodeInv, GetPendingPod
<1>2. ApiTypeOK' /\ NodeTypeOK' /\ RefTypeOK'
  BY <1>1 DEF TypeOK, ApiTypeOK, NodeTypeOK, RefTypeOK, GetPendingPod, apiVars, nodeVars, refVars
<1>3. FaultTypeOK'
  BY <1>1, FaultInv DEF TypeOK, GetPendingPod
<1>4. Kept
  <2>1. CASE Answer(TRUE)
    BY <1>1, <2>1, AnswerInv
  <2>2. ASSUME NEW p \in PendingPods, h' = [h EXCEPT !.pc = "index", !.pod = p],
               UNCHANGED <<phase, kubelet, admitted>>
        PROVE  Kept
    <3>1. p \in Pods /\ Born(p)
      BY DEF PendingPods, Exists, Born
    <3>2. AllocTypeOK'
      BY <1>1, <2>2, <3>1 DEF TypeOK, AllocTypeOK, Handler
    <3>3. HandlerOK'
      BY <1>1, <2>2, <3>1 DEF TypeOK, AllocTypeOK, Handler, HandlerOK, Born
    <3>4. QED
      BY <1>1, <2>2, <3>2, <3>3 DEF TypeOK, PhaseTypeOK, Steady, Born, Kept
  <2>3. QED
    BY <2>1, <2>2 DEF GetPendingPod, NoPodFound
<1>5. BornHasOrder' /\ MarksBorn' /\ ReclaimOnlyFinished'
  BY <1>2, <1>4, SteadyInv DEF GetPendingPod, nodeVars, refVars, Kept
<1>6. QED
  BY <1>2, <1>3, <1>4, <1>5 DEF NodeInv, TypeOK, Kept

LEMMA UpdateContainerIndexInv == NodeInv /\ UpdateContainerIndex => NodeInv'
<1> SUFFICES ASSUME NodeInv, UpdateContainerIndex PROVE NodeInv'
  OBVIOUS
<1> USE ConstantsAssumption
<1> DEFINE idx == IF Untouched(h.pod) THEN Order[h.pod] ELSE ctrIndexes[h.pod]
<1>1. TypeOK /\ HandlerOK /\ h.pc = "index"
  BY DEF NodeInv, UpdateContainerIndex
<1>2. h.pod \in Pods
  BY <1>1 DEF TypeOK, AllocTypeOK, Handler, HandlerOK
<1>3. idx \in Seq(Containers)
  BY <1>1, <1>2 DEF TypeOK, ApiTypeOK
<1>4. ctrIndexes' \in {ctrIndexes, [ctrIndexes EXCEPT ![h.pod] = idx]}
  BY DEF UpdateContainerIndex
<1>5. ApiTypeOK'
  <2>1. ctrIndexes' \in [Pods -> Seq(Containers)]
    BY <1>1, <1>2, <1>3, <1>4 DEF TypeOK, ApiTypeOK
  <2>2. QED
    BY <1>1, <2>1 DEF TypeOK, ApiTypeOK, UpdateContainerIndex
<1>6. NodeTypeOK' /\ RefTypeOK'
  BY <1>1 DEF TypeOK, NodeTypeOK, RefTypeOK, UpdateContainerIndex, nodeVars, refVars
<1>7. FaultTypeOK'
  BY <1>1, FaultInv DEF TypeOK, UpdateContainerIndex
<1>8. Kept
  <2>1. CASE Answer(FALSE)
    BY <1>1, <2>1, AnswerInv
  <2>2. CASE /\ h' = [h EXCEPT !.pc = "erase", !.ctr = IF idx = <<>> THEN NoCtr ELSE Head(idx)]
             /\ UNCHANGED <<phase, kubelet, admitted>>
    <3>1. h'.ctr \in Containers \cup {NoCtr}
      BY <1>1, <1>3, <2>2, HeadTailProperties DEF TypeOK, AllocTypeOK, Handler
    <3>2. AllocTypeOK'
      BY <1>1, <2>2, <3>1 DEF TypeOK, AllocTypeOK, Handler
    <3>3. HandlerOK'
      BY <1>1, <2>2 DEF TypeOK, AllocTypeOK, Handler, HandlerOK, Born
    <3>4. QED
      BY <1>1, <2>2, <3>2, <3>3 DEF TypeOK, PhaseTypeOK, Steady, Born, Kept
  <2>3. QED
    BY <2>1, <2>2 DEF UpdateContainerIndex
<1>9. BornHasOrder' /\ MarksBorn' /\ ReclaimOnlyFinished'
  BY <1>6, <1>8, SteadyInv DEF UpdateContainerIndex, nodeVars, refVars, Kept
<1>10. QED
  BY <1>5, <1>6, <1>7, <1>8, <1>9 DEF NodeInv, TypeOK, Kept

\* A step within a call changes h alone among what the handler's invariant reads.
LEMMA WithinCall ==
  ASSUME NodeInv, UNCHANGED <<phase, kubelet, admitted>>, h' \in Handler,
         h.pc # "idle", h'.pod = h.pod, h.pod # NoPod,
         h'.pc \in {"serve", "create", "mark"} => h'.req # NoCtr,
         h'.pc = "mark" => h'.vdev # -1
  PROVE  Kept
<1>1. TypeOK /\ HandlerOK
  BY DEF NodeInv
<1>2. PhaseTypeOK' /\ AllocTypeOK' /\ Steady
  BY <1>1 DEF TypeOK, PhaseTypeOK, AllocTypeOK, Steady, Born
<1>3. HandlerOK'
  BY <1>1 DEF HandlerOK, Born
<1>4. QED
  BY <1>2, <1>3 DEF Kept

\* What an action of the handler knows when its call works for a pod.
LEMMA InCall ==
  ASSUME NodeInv, h.pc \notin {"idle", "pending"}
  PROVE  TypeOK /\ HandlerOK /\ h \in Handler /\ h.pod \in Pods /\ h.pod # NoPod /\ Born(h.pod)
BY ConstantsAssumption DEF NodeInv, TypeOK, AllocTypeOK, Handler, HandlerOK

LEMMA FailInv ==
  ASSUME NodeInv, h.pc \notin {"idle", "pending"}, Fail, UNCHANGED <<phase, kubelet, admitted>>
  PROVE  Kept
<1>1. h' \in Handler /\ h'.pod = h.pod /\ h'.pc = "settle"
  BY InCall DEF Fail, Handler
<1>2. QED
  BY <1>1, InCall, WithinCall

LEMMA EraseNextRequestInv == NodeInv /\ EraseNextRequest => NodeInv'
<1> SUFFICES ASSUME NodeInv, EraseNextRequest PROVE NodeInv'
  OBVIOUS
<1> USE ConstantsAssumption
<1>1. TypeOK /\ h.pc = "erase" /\ h \in Handler /\ h.pod \in Pods /\ h.pod # NoPod
  BY InCall DEF EraseNextRequest
<1>2. toAllocate[h.pod] \in Seq(Containers)
  BY <1>1 DEF TypeOK, ApiTypeOK
<1>3. ASSUME Fail, UNCHANGED toAllocate
      PROVE  ApiTypeOK' /\ Kept
  <2>1. Kept
    BY <1>1, <1>3, FailInv DEF EraseNextRequest
  <2>2. ApiTypeOK'
    BY <1>1, <1>3 DEF TypeOK, ApiTypeOK, EraseNextRequest
  <2>3. QED
    BY <2>1, <2>2
<1>4. ASSUME Matches,
             toAllocate' = [toAllocate EXCEPT ![h.pod] = Erased(h.pod)],
             h' = [h EXCEPT !.pc = "serve", !.req = Head(toAllocate[h.pod])]
      PROVE  ApiTypeOK' /\ Kept
  <2>1. /\ Head(toAllocate[h.pod]) \in Containers
        /\ Erased(h.pod) \in Seq(Containers)
    BY <1>2, <1>4, HeadTailProperties DEF Matches, Erased
  <2>2. ApiTypeOK'
    BY <1>1, <1>4, <2>1 DEF TypeOK, ApiTypeOK, EraseNextRequest
  <2>3. h' \in Handler /\ h'.pod = h.pod /\ h'.pc = "serve" /\ h'.req # NoCtr
    BY <1>1, <1>4, <2>1 DEF Handler
  <2>4. Kept
    BY <1>1, <2>3, WithinCall DEF EraseNextRequest
  <2>5. QED
    BY <2>2, <2>4
<1>5. ApiTypeOK' /\ Kept
  BY <1>3, <1>4 DEF EraseNextRequest
<1>6. NodeTypeOK' /\ RefTypeOK'
  BY <1>1 DEF TypeOK, NodeTypeOK, RefTypeOK, EraseNextRequest, nodeVars, refVars
<1>7. FaultTypeOK'
  BY <1>1, FaultInv DEF TypeOK, EraseNextRequest
<1>8. BornHasOrder' /\ MarksBorn' /\ ReclaimOnlyFinished'
  BY <1>5, <1>6, SteadyInv DEF EraseNextRequest, nodeVars, refVars, Kept
<1>9. QED
  BY <1>5, <1>6, <1>7, <1>8 DEF NodeInv, TypeOK, Kept

\* The marks a call writes are those of its own pod.
LEMMA DeviceType ==
  ASSUME NEW p \in Pods, NEW c \in Containers
  PROVE  /\ \A d \in DevsOf(p, c) : d \in Device
         /\ Devs[p][c][1] \in Device
<1>1. Devs[p][c] \in Seq(Device) /\ Devs[p][c] # <<>>
  BY ConstantsAssumption
<1>2. Len(Devs[p][c]) \in Nat \ {0}
  BY <1>1, EmptySeq
<1>3. 1 \in DOMAIN Devs[p][c] /\ \A n \in DOMAIN Devs[p][c] : Devs[p][c][n] \in Device
  BY <1>1, <1>2, LenProperties
<1>4. QED
  BY <1>3 DEF DevsOf

LEMMA WriteMarksInv ==
  ASSUME NodeInv, NEW ms, WriteMarks(ms), UNCHANGED <<vdcus, confs, reused>>, Steady, ref' = ref,
         ms \subseteq Mark, \A m \in ms : Born(m.pod), PhaseTypeOK'
  PROVE  NodeTypeOK' /\ BornHasOrder' /\ MarksBorn' /\ ReclaimOnlyFinished'
<1>1. NodeTypeOK
  BY DEF NodeInv, TypeOK
<1>2. dynDir' \in BOOLEAN
  BY <1>1 DEF NodeTypeOK, WriteMarks
<1>3. NodeTypeOK'
  BY <1>1, <1>2 DEF NodeTypeOK, WriteMarks
<1>4. \A m \in marks' \ marks : Born(m.pod)
  BY DEF WriteMarks
<1>5. QED
  BY <1>3, <1>4, SteadyInv

LEMMA ServeDevicesInv == NodeInv /\ ServeDevices => NodeInv'
<1> SUFFICES ASSUME NodeInv, ServeDevices PROVE NodeInv'
  OBVIOUS
<1> USE ConstantsAssumption
<1> DEFINE whole == WholeCardMarks(h.pod, h.req, h.ctr)
<1>1. TypeOK /\ h.pc = "serve" /\ h \in Handler /\ h.pod \in Pods /\ h.pod # NoPod /\ Born(h.pod)
  BY InCall DEF ServeDevices
<1>2. h.req \in Containers
  BY <1>1 DEF NodeInv, HandlerOK, Handler
<1>3. whole \subseteq Mark /\ \A m \in whole : Born(m.pod)
  <2>1. \A d \in DevsOf(h.pod, h.req) : d.card \in Cards
    BY <1>1, <1>2, DeviceType DEF Device
  <2>2. h.ctr \in Containers \cup {NoCtr}
    BY <1>1 DEF Handler
  <2>3. QED
    BY <1>1, <2>1, <2>2 DEF WholeCardMarks, Mark
<1>4. ApiTypeOK' /\ RefTypeOK'
  BY <1>1 DEF TypeOK, ApiTypeOK, RefTypeOK, ServeDevices, apiVars, refVars
<1>5. FaultTypeOK'
  BY <1>1, FaultInv DEF TypeOK, ServeDevices
<1>6. Kept
  <2>1. CASE Fail
    BY <1>1, <2>1, FailInv DEF ServeDevices
  <2>2. ASSUME NEW next \in {"create", "unindex"}, h' = [h EXCEPT !.pc = next] PROVE Kept
    <3>1. h' \in Handler /\ h'.pod = h.pod /\ h'.pc = next /\ h'.req = h.req
      BY <1>1, <2>2 DEF Handler
    <3>2. QED
      BY <1>1, <1>2, <3>1, WithinCall DEF ServeDevices
  <2>3. QED
    BY <2>1, <2>2 DEF ServeDevices
<1>7. \E ms \in SUBSET whole : WriteMarks(ms)
  BY DEF ServeDevices
<1>8. NodeTypeOK' /\ BornHasOrder' /\ MarksBorn' /\ ReclaimOnlyFinished'
  BY <1>3, <1>6, <1>7, WriteMarksInv DEF ServeDevices, refVars, Kept
<1>9. QED
  BY <1>4, <1>5, <1>6, <1>8 DEF NodeInv, TypeOK, Kept

LEMMA CreateVDeviceInv == NodeInv /\ CreateVDevice => NodeInv'
<1> SUFFICES ASSUME NodeInv, CreateVDevice PROVE NodeInv'
  OBVIOUS
<1> USE ConstantsAssumption
<1>1. TypeOK /\ h.pc = "create" /\ h \in Handler /\ h.pod \in Pods /\ h.pod # NoPod
  BY InCall DEF CreateVDevice
<1>2. h.req \in Containers
  BY <1>1 DEF NodeInv, HandlerOK, Handler
<1>3. ASSUME Fail, UNCHANGED <<vdcus, confs, reused>> PROVE Kept /\ NodeTypeOK'
  BY <1>1, <1>3, FailInv DEF CreateVDevice, TypeOK, NodeTypeOK
<1>4. ASSUME NEW i \in FreeIdx, h' = [h EXCEPT !.pc = "mark", !.vdev = i],
             vdcus' = vdcus \cup {[idx |-> i, pod |-> h.pod, ctr |-> h.req,
                                   card |-> Devs[h.pod][h.req][1].card, up |-> TRUE]},
             confs' = confs \cup {i}, reused' \in {reused, reused \cup {<<h.pod, h.req>>}}
      PROVE  Kept /\ NodeTypeOK'
  <2>1. i \in VIdx /\ i # -1
    BY <1>4 DEF FreeIdx
  <2>2. Devs[h.pod][h.req][1].card \in Cards
    BY <1>1, <1>2, DeviceType DEF Device
  <2>3. NodeTypeOK'
    <3>1. vdcus' \subseteq Vdcu
      <4>1. TRUE \in BOOLEAN
        OBVIOUS
      <4>2. [idx |-> i, pod |-> h.pod, ctr |-> h.req,
             card |-> Devs[h.pod][h.req][1].card, up |-> TRUE] \in Vdcu
        BY <1>1, <1>2, <2>1, <2>2, <4>1, Zenon DEF Vdcu
      <4>3. QED
        BY <1>1, <1>4, <4>2 DEF TypeOK, NodeTypeOK
    <3>2. confs' \subseteq VIdx
      BY <1>1, <1>4, <2>1 DEF TypeOK, NodeTypeOK
    <3>3. reused' \subseteq Pods \X Containers
      BY <1>1, <1>2, <1>4 DEF TypeOK, NodeTypeOK
    <3>4. UNCHANGED <<marks, dynDir>>
      BY DEF CreateVDevice
    <3>5. QED
      BY <1>1, <3>1, <3>2, <3>3, <3>4 DEF TypeOK, NodeTypeOK
  <2>4. h' \in Handler /\ h'.pod = h.pod /\ h'.pc = "mark" /\ h'.req = h.req /\ h'.vdev = i
    BY <1>1, <1>4, <2>1 DEF Handler
  <2>5. Kept
    BY <1>1, <1>2, <2>1, <2>4, WithinCall DEF CreateVDevice
  <2>6. QED
    BY <2>3, <2>5
<1>5. Kept /\ NodeTypeOK'
  BY <1>3, <1>4 DEF CreateVDevice
<1>6. ApiTypeOK' /\ RefTypeOK'
  BY <1>1 DEF TypeOK, ApiTypeOK, RefTypeOK, CreateVDevice, apiVars, refVars
<1>7. FaultTypeOK'
  BY <1>1, FaultInv DEF TypeOK, CreateVDevice
<1>8. BornHasOrder' /\ MarksBorn' /\ ReclaimOnlyFinished'
  BY <1>5, SteadyInv DEF CreateVDevice, refVars, Kept
<1>9. QED
  BY <1>5, <1>6, <1>7, <1>8 DEF NodeInv, TypeOK, Kept

LEMMA MarkVDeviceInv == NodeInv /\ MarkVDevice => NodeInv'
<1> SUFFICES ASSUME NodeInv, MarkVDevice PROVE NodeInv'
  OBVIOUS
<1> USE ConstantsAssumption
<1>1. TypeOK /\ h.pc = "mark" /\ h \in Handler /\ h.pod \in Pods /\ h.pod # NoPod /\ Born(h.pod)
  BY InCall DEF MarkVDevice
<1>2. h.req \in Containers
  BY <1>1 DEF NodeInv, HandlerOK, Handler
<1>3. VdcuMark \in Mark /\ VdcuMark.pod = h.pod
  <2>1. Devs[h.pod][h.req][1].card \in Cards
    BY <1>1, <1>2, DeviceType DEF Device
  <2>2. h.ctr \in Containers \cup {NoCtr} /\ h.vdev \in VIdx \cup {-1}
    BY <1>1 DEF Handler
  <2>3. QED
    BY <1>1, <2>1, <2>2 DEF VdcuMark, Mark
<1>4. ApiTypeOK' /\ RefTypeOK'
  BY <1>1 DEF TypeOK, ApiTypeOK, RefTypeOK, MarkVDevice, apiVars, refVars
<1>5. FaultTypeOK'
  BY <1>1, FaultInv DEF TypeOK, MarkVDevice, MarkFault
<1>6. Kept
  <2>1. h' \in Handler /\ h'.pod = h.pod /\ h'.pc = "unindex"
    BY <1>1 DEF Handler, MarkVDevice
  <2>2. QED
    BY <1>1, <2>1, WithinCall DEF MarkVDevice
<1>7. NodeTypeOK' /\ BornHasOrder' /\ MarksBorn' /\ ReclaimOnlyFinished'
  <2>1. CASE WriteMarks({VdcuMark})
    BY <1>1, <1>3, <1>6, <2>1, WriteMarksInv DEF MarkVDevice, refVars, Kept
  <2>2. CASE UNCHANGED marks /\ dynDir' \in {dynDir, TRUE}
    <3>1. dynDir' \in BOOLEAN
      BY <1>1, <2>2 DEF TypeOK, NodeTypeOK
    <3>2. NodeTypeOK'
      BY <1>1, <2>2, <3>1 DEF TypeOK, NodeTypeOK, MarkVDevice
    <3>3. QED
      BY <1>6, <2>2, <3>2, SteadyInv DEF MarkVDevice, refVars, Kept
  <2>3. QED
    BY <2>1, <2>2 DEF MarkVDevice, MarkFault
<1>8. QED
  BY <1>4, <1>5, <1>6, <1>7 DEF NodeInv, TypeOK, Kept

LEMMA DeleteContainerIndexInv == NodeInv /\ DeleteContainerIndex => NodeInv'
<1> SUFFICES ASSUME NodeInv, DeleteContainerIndex PROVE NodeInv'
  OBVIOUS
<1> USE ConstantsAssumption
<1>1. TypeOK /\ h.pc = "unindex" /\ h \in Handler /\ h.pod \in Pods /\ h.pod # NoPod
  BY InCall DEF DeleteContainerIndex
<1>2. ApiTypeOK'
  <2>1. ctrIndexes[h.pod] \in Seq(Containers)
    BY <1>1 DEF TypeOK, ApiTypeOK
  <2>2. IndexesLeft(h.pod) \in Seq(Containers)
    BY <2>1, TailNotEmpty DEF IndexesLeft
  <2>3. ctrIndexes' \in [Pods -> Seq(Containers)]
    <3>1. ctrIndexes' \in {ctrIndexes, [ctrIndexes EXCEPT ![h.pod] = IndexesLeft(h.pod)]}
      BY DEF DeleteContainerIndex
    <3>2. ctrIndexes \in [Pods -> Seq(Containers)]
      BY <1>1 DEF TypeOK, ApiTypeOK
    <3>3. QED
      BY <1>1, <2>2, <3>1, <3>2
  <2>4. QED
    BY <1>1, <2>3 DEF TypeOK, ApiTypeOK, DeleteContainerIndex
<1>3. NodeTypeOK' /\ RefTypeOK'
  BY <1>1 DEF TypeOK, NodeTypeOK, RefTypeOK, DeleteContainerIndex, nodeVars, refVars
<1>4. FaultTypeOK'
  BY <1>1, FaultInv DEF TypeOK, DeleteContainerIndex
<1>5. Kept
  <2>1. h' \in Handler /\ h'.pod = h.pod /\ h'.pc = "settle"
    BY <1>1 DEF Handler, DeleteContainerIndex
  <2>2. QED
    BY <1>1, <2>1, WithinCall DEF DeleteContainerIndex
<1>6. BornHasOrder' /\ MarksBorn' /\ ReclaimOnlyFinished'
  BY <1>3, <1>5, SteadyInv DEF DeleteContainerIndex, nodeVars, refVars, Kept
<1>7. QED
  BY <1>2, <1>3, <1>4, <1>5, <1>6 DEF NodeInv, TypeOK, Kept

LEMMA TrySuccessInv == NodeInv /\ TrySuccess => NodeInv'
<1> SUFFICES ASSUME NodeInv, TrySuccess PROVE NodeInv'
  OBVIOUS
<1> USE ConstantsAssumption
<1>1. TypeOK /\ h.pc = "settle" /\ h \in Handler /\ h.pod \in Pods /\ h.pod # NoPod
  BY InCall DEF TrySuccess
<1>2. ApiTypeOK'
  BY <1>1 DEF TypeOK, ApiTypeOK, TrySuccess, PatchBindPhase
<1>3. NodeTypeOK' /\ RefTypeOK'
  BY <1>1 DEF TypeOK, NodeTypeOK, RefTypeOK, TrySuccess, nodeVars, refVars
<1>4. FaultTypeOK'
  BY <1>1, FaultInv DEF TypeOK, TrySuccess, PatchBindPhase
<1>5. Kept
  <2>1. CASE Answer(TRUE)
    BY <1>1, <2>1, AnswerInv
  <2>2. CASE h' = [h EXCEPT !.pc = "release"] /\ UNCHANGED <<phase, kubelet, admitted>>
    <3>1. h' \in Handler /\ h'.pod = h.pod /\ h'.pc = "release"
      BY <1>1, <2>2 DEF Handler
    <3>2. QED
      BY <1>1, <2>2, <3>1, WithinCall
  <2>3. QED
    BY <2>1, <2>2 DEF TrySuccess
<1>6. BornHasOrder' /\ MarksBorn' /\ ReclaimOnlyFinished'
  BY <1>3, <1>5, SteadyInv DEF TrySuccess, nodeVars, refVars, Kept
<1>7. QED
  BY <1>2, <1>3, <1>4, <1>5, <1>6 DEF NodeInv, TypeOK, Kept

LEMMA AllocationFailedInv == NodeInv /\ AllocationFailed => NodeInv'
<1> SUFFICES ASSUME NodeInv, AllocationFailed PROVE NodeInv'
  OBVIOUS
<1> USE ConstantsAssumption
<1>1. TypeOK /\ h.pc = "settle" /\ h \in Handler /\ h.pod \in Pods /\ h.pod # NoPod
  BY InCall DEF AllocationFailed
<1>2. ApiTypeOK'
  BY <1>1 DEF TypeOK, ApiTypeOK, AllocationFailed, PatchBindPhase
<1>3. NodeTypeOK' /\ RefTypeOK'
  BY <1>1 DEF TypeOK, NodeTypeOK, RefTypeOK, AllocationFailed, nodeVars, refVars
<1>4. FaultTypeOK'
  BY <1>1, FaultInv DEF TypeOK, AllocationFailed, PatchBindPhase
<1>5. Kept
  <2>1. h' \in Handler /\ h'.pod = h.pod /\ h'.pc = "release"
    BY <1>1 DEF Handler, AllocationFailed
  <2>2. QED
    BY <1>1, <2>1, WithinCall DEF AllocationFailed
<1>6. BornHasOrder' /\ MarksBorn' /\ ReclaimOnlyFinished'
  BY <1>3, <1>5, SteadyInv DEF AllocationFailed, nodeVars, refVars, Kept
<1>7. QED
  BY <1>2, <1>3, <1>4, <1>5, <1>6 DEF NodeInv, TypeOK, Kept

LEMMA ReleaseNodeLockInv == NodeInv /\ ReleaseNodeLock => NodeInv'
<1> SUFFICES ASSUME NodeInv, ReleaseNodeLock PROVE NodeInv'
  OBVIOUS
<1> USE ConstantsAssumption
<1>1. TypeOK /\ h.pc = "release" /\ h.ok \in BOOLEAN
  BY InCall DEF ReleaseNodeLock, Handler
<1>2. ApiTypeOK'
  BY <1>1 DEF TypeOK, ApiTypeOK, ReleaseNodeLock, LockAfter
<1>3. NodeTypeOK' /\ RefTypeOK'
  BY <1>1 DEF TypeOK, NodeTypeOK, RefTypeOK, ReleaseNodeLock, nodeVars, refVars
<1>4. FaultTypeOK'
  BY <1>1, FaultInv DEF TypeOK, ReleaseNodeLock
<1>5. Kept
  <2>1. Answer(h.ok)
    BY DEF ReleaseNodeLock
  <2>2. QED
    BY <1>1, <2>1, AnswerInv
<1>6. BornHasOrder' /\ MarksBorn' /\ ReclaimOnlyFinished'
  BY <1>3, <1>5, SteadyInv DEF ReleaseNodeLock, nodeVars, refVars, Kept
<1>7. QED
  BY <1>2, <1>3, <1>4, <1>5, <1>6 DEF NodeInv, TypeOK, Kept

LEMMA AllocateInv == NodeInv /\ AllocateStep => NodeInv'
  BY GetPendingPodInv, UpdateContainerIndexInv, EraseNextRequestInv, ServeDevicesInv,
     CreateVDeviceInv, MarkVDeviceInv, DeleteContainerIndexInv, TrySuccessInv,
     AllocationFailedInv, ReleaseNodeLockInv
     DEF AllocateStep

-----------------------------------------------------------------------------
(* The reclaiming goroutines, step by step. *)

\* A step of r changes its own record alone, and only holds marks as stale whose
\* pods have finished.
OwnStep(r, new) ==
  /\ ref' = [ref EXCEPT ![r] = new]
  /\ new \in Refresher
  /\ \A m \in new.files : Born(m.pod)
  /\ \A m \in new.todo \cup new.busy : phase[m.pod] \in Finished

LEMMA RefresherType ==
  ASSUME NodeInv, NEW r \in Refreshers
  PROVE  /\ TypeOK /\ ref[r] \in Refresher
         /\ \A m \in ref[r].files : Born(m.pod)
         /\ \A m \in ref[r].todo \cup ref[r].busy : phase[m.pod] \in Finished
  BY DEF NodeInv, TypeOK, RefTypeOK, MarksBorn, ReclaimOnlyFinished

LEMMA OwnStepInv ==
  ASSUME NodeInv, NEW r \in Refreshers, NEW new, OwnStep(r, new),
         PhaseTypeOK', Steady, marks' \subseteq marks, UNCHANGED allocVars
  PROVE  /\ ref' \in [Refreshers -> Refresher]
         /\ AllocTypeOK' /\ HandlerOK' /\ BornHasOrder' /\ MarksBorn' /\ ReclaimOnlyFinished'
<1> USE DEF OwnStep
<1>1. TypeOK /\ HandlerOK /\ ref \in [Refreshers -> Refresher]
  BY DEF NodeInv, TypeOK, RefTypeOK
<1>2. ref' \in [Refreshers -> Refresher]
  BY <1>1
<1>3. \A s \in Refreshers : ref'[s] = IF s = r THEN new ELSE ref[s]
  BY <1>1
<1>4. \A s \in Refreshers : /\ ref'[s].files \subseteq Mark
                            /\ ref'[s].todo \cup ref'[s].busy \subseteq Mark
  BY <1>2 DEF Refresher
<1>5. \A m \in Mark : m.pod \in Pods
  BY DEF Mark
<1>6. AllocTypeOK'
  BY <1>1 DEF TypeOK, AllocTypeOK, allocVars
<1>7. HandlerOK'
  <2>1. h.pod \in Pods \cup {NoPod} /\ kubelet.pod \in Pods \cup {NoPod}
    BY <1>1 DEF TypeOK, AllocTypeOK, Handler
  <2>2. h' = h /\ kubelet' = kubelet
    BY DEF allocVars
  <2>3. QED
    BY <1>1, <2>1, <2>2 DEF HandlerOK, Steady, Born
<1>8. BornHasOrder'
  BY DEF NodeInv, BornHasOrder, Steady
<1>9. MarksBorn'
  <2>1. \A m \in marks' : Born(m.pod)'
    BY <1>1, <1>5 DEF NodeInv, TypeOK, NodeTypeOK, MarksBorn, Steady, Born
  <2>2. \A s \in Refreshers : \A m \in ref'[s].files : Born(m.pod)
    BY <1>3 DEF NodeInv, MarksBorn
  <2>3. \A s \in Refreshers : \A m \in ref'[s].files : Born(m.pod)'
    BY <1>4, <1>5, <2>2 DEF Steady, Born
  <2>4. QED
    BY <2>1, <2>3 DEF MarksBorn, Born
<1>10. ReclaimOnlyFinished'
  <2>1. \A s \in Refreshers : \A m \in ref'[s].todo \cup ref'[s].busy : phase[m.pod] \in Finished
    BY <1>3 DEF NodeInv, ReclaimOnlyFinished
  <2>2. \A s \in Refreshers : \A m \in ref'[s].todo \cup ref'[s].busy : phase'[m.pod] \in Finished
    BY <1>4, <1>5, <2>1 DEF Steady
  <2>3. QED
    BY <2>2 DEF ReclaimOnlyFinished
<1>11. QED
  BY <1>2, <1>6, <1>7, <1>8, <1>9, <1>10

\* The steps that leave the pods and the annotations alone.
LEMMA QuietStepInv ==
  ASSUME NodeInv, NEW r \in Refreshers, NEW new, OwnStep(r, new),
         UNCHANGED <<phase, apiVars, allocVars>>, marks' \subseteq marks, NodeTypeOK', FaultTypeOK',
         events' \in [Informers -> SUBSET Event]
  PROVE  NodeInv'
<1>1. PhaseTypeOK' /\ ApiTypeOK' /\ Steady
  BY DEF NodeInv, TypeOK, PhaseTypeOK, ApiTypeOK, apiVars, Steady, Born
<1>2. /\ ref' \in [Refreshers -> Refresher]
      /\ AllocTypeOK' /\ HandlerOK' /\ BornHasOrder' /\ MarksBorn' /\ ReclaimOnlyFinished'
  BY <1>1, OwnStepInv
<1>3. QED
  BY <1>1, <1>2 DEF NodeInv, TypeOK, RefTypeOK

LEMMA IdleOwnStep ==
  /\ IdleRefresher \in Refresher
  /\ IdleRefresher.files = {} /\ IdleRefresher.todo = {} /\ IdleRefresher.busy = {}
  BY ConstantsAssumption DEF IdleRefresher, Refresher

LEMMA ReadDynamicDirInv == ASSUME NodeInv, NEW r \in Refreshers, ReadDynamicDir(r) PROVE NodeInv'
<1> DEFINE new == IF dynDir THEN [ref[r] EXCEPT !.pc = "list", !.files = marks] ELSE ref[r]
<1>1. TypeOK /\ ref[r] \in Refresher
  BY RefresherType
<1>2. new \in Refresher
  BY <1>1 DEF TypeOK, NodeTypeOK, Refresher
<1>3. ref' = [ref EXCEPT ![r] = new]
  BY <1>1 DEF ReadDynamicDir, TypeOK, RefTypeOK
<1>4. /\ \A m \in new.files : Born(m.pod)
      /\ \A m \in new.todo \cup new.busy : phase[m.pod] \in Finished
  BY <1>1, RefresherType DEF NodeInv, MarksBorn, Refresher
<1>5. OwnStep(r, new)
  BY <1>2, <1>3, <1>4 DEF OwnStep
<1>6. events' \in [Informers -> SUBSET Event]
  BY <1>1 DEF TypeOK, RefTypeOK, ReadDynamicDir
<1>7. NodeTypeOK' /\ FaultTypeOK' /\ marks' \subseteq marks
  BY <1>1 DEF TypeOK, NodeTypeOK, FaultTypeOK, ReadDynamicDir, nodeVars, faultVars
<1>8. UNCHANGED <<phase, apiVars, allocVars>>
  BY DEF ReadDynamicDir
<1>9. QED
  BY <1>5, <1>6, <1>7, <1>8, QuietStepInv

LEMMA ListPodsInv == ASSUME NodeInv, NEW r \in Refreshers, ListPods(r) PROVE NodeInv'
<1> DEFINE listed == [IdleRefresher EXCEPT !.pc = "reap", !.todo = StaleMarks(ref[r].files),
                                           !.kill = ErrorPods(ref[r].files)]
<1>1. TypeOK /\ ref[r] \in Refresher /\ \A m \in ref[r].files : Born(m.pod)
  BY RefresherType
<1>2. NodeTypeOK' /\ marks' \subseteq marks /\ events' \in [Informers -> SUBSET Event]
  BY <1>1 DEF TypeOK, NodeTypeOK, RefTypeOK, ListPods, nodeVars
<1>3. FaultTypeOK'
  BY <1>1, FaultInv DEF TypeOK, ListPods
<1>4. UNCHANGED <<phase, apiVars, allocVars>>
  BY DEF ListPods
<1>5. CASE ref' = [ref EXCEPT ![r] = listed]
  <2>1. StaleMarks(ref[r].files) \subseteq Mark /\ ErrorPods(ref[r].files) \subseteq Pods
    BY <1>1 DEF StaleMarks, ErrorPods, Refresher
  <2>2. /\ listed \in Refresher
        /\ listed.todo = StaleMarks(ref[r].files) /\ listed.files = {} /\ listed.busy = {}
    BY <2>1, IdleOwnStep, ConstantsAssumption DEF Refresher, IdleRefresher
  <2>3. \A m \in StaleMarks(ref[r].files) : phase[m.pod] \in Finished
    BY <1>1 DEF StaleMarks, Exists, Born
  <2>4. OwnStep(r, listed)
    BY <1>5, <2>2, <2>3 DEF OwnStep
  <2>5. QED
    BY <1>2, <1>3, <1>4, <2>4, QuietStepInv
<1>6. CASE ref' = [ref EXCEPT ![r] = IdleRefresher]
  <2>1. OwnStep(r, IdleRefresher)
    BY <1>6, IdleOwnStep DEF OwnStep
  <2>2. QED
    BY <1>2, <1>3, <1>4, <2>1, QuietStepInv
<1>7. QED
  BY <1>5, <1>6 DEF ListPods

LEMMA RemoveMarkInv == ASSUME NodeInv, NEW r \in Refreshers, RemoveMark(r) PROVE NodeInv'
<1>1. /\ TypeOK /\ ref[r] \in Refresher /\ \A m \in ref[r].files : Born(m.pod)
      /\ \A m \in ref[r].todo \cup ref[r].busy : phase[m.pod] \in Finished
  BY RefresherType
<1>2. PICK m \in ref[r].todo :
        /\ marks' = marks \ {m} \/ UNCHANGED marks
        /\ \/ ref' = [ref EXCEPT ![r].todo = @ \ {m}]
           \/ ref' = [ref EXCEPT ![r].pc = "stop", ![r].todo = @ \ {m}, ![r].busy = {m}]
  BY DEF RemoveMark
<1> DEFINE light == [ref[r] EXCEPT !.todo = @ \ {m}]
           heavy == [ref[r] EXCEPT !.pc = "stop", !.todo = @ \ {m}, !.busy = {m}]
<1>3. \E new : OwnStep(r, new)
  <2>1. light \in Refresher /\ heavy \in Refresher
    BY <1>1 DEF Refresher
  <2>2. /\ light.files = ref[r].files /\ light.todo \cup light.busy \subseteq ref[r].todo \cup ref[r].busy
        /\ heavy.files = ref[r].files /\ heavy.todo \cup heavy.busy \subseteq ref[r].todo \cup ref[r].busy
    BY <1>1 DEF Refresher
  <2>3. ref' = [ref EXCEPT ![r] = light] \/ ref' = [ref EXCEPT ![r] = heavy]
    BY <1>1, <1>2 DEF TypeOK, RefTypeOK
  <2>4. OwnStep(r, light) \/ OwnStep(r, heavy)
    BY <1>1, <2>1, <2>2, <2>3 DEF OwnStep
  <2>5. QED
    BY <2>4
<1>4. marks' \subseteq marks /\ NodeTypeOK'
  BY <1>1, <1>2 DEF TypeOK, NodeTypeOK, RemoveMark
<1>5. FaultTypeOK' /\ events' \in [Informers -> SUBSET Event]
  BY <1>1, FaultInv DEF TypeOK, RefTypeOK, RemoveMark
<1>6. UNCHANGED <<phase, apiVars, allocVars>>
  BY DEF RemoveMark
<1>7. QED
  BY <1>3, <1>4, <1>5, <1>6, QuietStepInv

\* The driver steps: a success or a retry.
LEMMA DriverOwnStep ==
  ASSUME NodeInv, NEW r \in Refreshers, NEW next \in {"destroy", "unconf"},
         ref' = [ref EXCEPT ![r].pc = next, ![r].try = 0] \/ Retry(r, next)
  PROVE  \E new : OwnStep(r, new)
<1>1. /\ TypeOK /\ ref[r] \in Refresher /\ \A m \in ref[r].files : Born(m.pod)
      /\ \A m \in ref[r].todo \cup ref[r].busy : phase[m.pod] \in Finished
  BY RefresherType
<1> DEFINE done == [ref[r] EXCEPT !.pc = next, !.try = 0]
           again == [ref[r] EXCEPT !.try = @ + 1]
<1>2. done \in Refresher /\ (ref[r].try + 1 < MaxTries => again \in Refresher)
  <2>1. MaxTries \in Nat /\ ref[r].try \in 0..MaxTries
    BY <1>1, ConstantsAssumption DEF Refresher
  <2>2. 0 \in 0..MaxTries /\ (ref[r].try + 1 < MaxTries => ref[r].try + 1 \in 0..MaxTries)
    BY <2>1
  <2>3. QED
    BY <1>1, <2>2 DEF Refresher
<1>3. /\ done.files = ref[r].files /\ done.todo = ref[r].todo /\ done.busy = ref[r].busy
      /\ again.files = ref[r].files /\ again.todo = ref[r].todo /\ again.busy = ref[r].busy
  BY <1>1 DEF Refresher
<1>4. \/ ref' = [ref EXCEPT ![r] = done]
      \/ ref[r].try + 1 < MaxTries /\ ref' = [ref EXCEPT ![r] = again]
  BY <1>1 DEF Retry, TypeOK, RefTypeOK
<1>5. CASE ref' = [ref EXCEPT ![r] = done]
  <2>1. OwnStep(r, done)
    BY <1>1, <1>2, <1>3, <1>5 DEF OwnStep
  <2>2. QED
    BY <2>1
<1>6. CASE ref[r].try + 1 < MaxTries /\ ref' = [ref EXCEPT ![r] = again]
  <2>1. OwnStep(r, again)
    BY <1>1, <1>2, <1>3, <1>6 DEF OwnStep
  <2>2. QED
    BY <2>1
<1>7. QED
  BY <1>4, <1>5, <1>6

LEMMA StopVDeviceInv == ASSUME NodeInv, NEW r \in Refreshers, StopVDevice(r) PROVE NodeInv'
<1>1. TypeOK
  BY RefresherType
<1>2. \E new : OwnStep(r, new)
  <2>1. ref' = [ref EXCEPT ![r].pc = "destroy", ![r].try = 0] \/ Retry(r, "destroy")
    BY DEF StopVDevice
  <2>2. QED
    BY <2>1, DriverOwnStep
<1>3. NodeTypeOK'
  <2>1. \A v \in Vdcu : [v EXCEPT !.up = FALSE] \in Vdcu
    BY DEF Vdcu
  <2>2. vdcus' \subseteq Vdcu
    BY <1>1, <2>1 DEF TypeOK, NodeTypeOK, StopVDevice, Busy
  <2>3. QED
    BY <1>1, <2>2 DEF TypeOK, NodeTypeOK, StopVDevice
<1>4. FaultTypeOK'
  BY <1>1, FaultInv DEF TypeOK, StopVDevice
<1>5. events' \in [Informers -> SUBSET Event] /\ marks' \subseteq marks
  BY <1>1 DEF TypeOK, RefTypeOK, StopVDevice
<1>6. UNCHANGED <<phase, apiVars, allocVars>>
  BY DEF StopVDevice
<1>7. QED
  BY <1>2, <1>3, <1>4, <1>5, <1>6, QuietStepInv

LEMMA DestroyVDeviceInv == ASSUME NodeInv, NEW r \in Refreshers, DestroyVDevice(r) PROVE NodeInv'
<1>1. TypeOK
  BY RefresherType
<1>2. \E new : OwnStep(r, new)
  <2>1. ref' = [ref EXCEPT ![r].pc = "unconf", ![r].try = 0] \/ Retry(r, "unconf")
    BY DEF DestroyVDevice
  <2>2. QED
    BY <2>1, DriverOwnStep
<1>3. NodeTypeOK'
  BY <1>1 DEF TypeOK, NodeTypeOK, DestroyVDevice
<1>4. FaultTypeOK'
  BY <1>1, FaultInv DEF TypeOK, DestroyVDevice
<1>5. events' \in [Informers -> SUBSET Event] /\ marks' \subseteq marks
  BY <1>1 DEF TypeOK, RefTypeOK, DestroyVDevice
<1>6. UNCHANGED <<phase, apiVars, allocVars>>
  BY DEF DestroyVDevice
<1>7. QED
  BY <1>2, <1>3, <1>4, <1>5, <1>6, QuietStepInv

LEMMA RemoveConfInv == ASSUME NodeInv, NEW r \in Refreshers, RemoveConf(r) PROVE NodeInv'
<1> DEFINE new == [ref[r] EXCEPT !.pc = "reap", !.busy = {}]
<1>1. /\ TypeOK /\ ref[r] \in Refresher /\ \A m \in ref[r].files : Born(m.pod)
      /\ \A m \in ref[r].todo \cup ref[r].busy : phase[m.pod] \in Finished
  BY RefresherType
<1>2. OwnStep(r, new)
  <2>1. new \in Refresher /\ new.files = ref[r].files /\ new.todo = ref[r].todo /\ new.busy = {}
    BY <1>1 DEF Refresher
  <2>2. ref' = [ref EXCEPT ![r] = new]
    BY <1>1 DEF RemoveConf, TypeOK, RefTypeOK
  <2>3. QED
    BY <1>1, <2>1, <2>2 DEF OwnStep
<1>3. NodeTypeOK' /\ FaultTypeOK' /\ marks' \subseteq marks /\ events' \in [Informers -> SUBSET Event]
  BY <1>1, FaultInv DEF TypeOK, NodeTypeOK, RefTypeOK, RemoveConf
<1>4. UNCHANGED <<phase, apiVars, allocVars>>
  BY DEF RemoveConf
<1>5. QED
  BY <1>2, <1>3, <1>4, QuietStepInv

LEMMA EndRefreshInv == ASSUME NodeInv, NEW r \in Refreshers, EndRefresh(r) PROVE NodeInv'
<1>1. TypeOK
  BY RefresherType
<1>2. OwnStep(r, IdleRefresher)
  BY IdleOwnStep DEF OwnStep, EndRefresh
<1>3. NodeTypeOK' /\ FaultTypeOK' /\ marks' \subseteq marks /\ events' \in [Informers -> SUBSET Event]
  BY <1>1 DEF TypeOK, NodeTypeOK, FaultTypeOK, RefTypeOK, EndRefresh, nodeVars, faultVars
<1>4. UNCHANGED <<phase, apiVars, allocVars>>
  BY DEF EndRefresh
<1>5. QED
  BY <1>2, <1>3, <1>4, QuietStepInv

LEMMA NotifyType ==
  ASSUME RefTypeOK, NEW p \in Pods, NEW kind \in {"complete", "delete"}, Notify(p, kind)
  PROVE  events' \in [Informers -> SUBSET Event]
  BY DEF RefTypeOK, Notify, Event

LEMMA DeletePodInv == ASSUME NodeInv, NEW r \in Refreshers, DeletePod(r) PROVE NodeInv'
<1>1. /\ TypeOK /\ ref[r] \in Refresher /\ \A m \in ref[r].files : Born(m.pod)
      /\ \A m \in ref[r].todo \cup ref[r].busy : phase[m.pod] \in Finished
  BY RefresherType
<1>2. PICK p \in ref[r].kill :
        /\ ref' = [ref EXCEPT ![r].kill = @ \ {p}]
        /\ \/ /\ Exists(p) /\ phase' = [phase EXCEPT ![p] = "gone"]
              /\ Notify(p, "delete") /\ UNCHANGED apiFaults
           \/ /\ UNCHANGED apiFaults \/ ApiFault
              /\ UNCHANGED <<phase, events>>
  BY DEF DeletePod
<1>3. p \in Pods
  BY <1>1 DEF Refresher
<1>4. PhaseTypeOK' /\ Steady
  BY <1>1, <1>2, <1>3 DEF TypeOK, PhaseTypeOK, Steady, Born, Exists
<1>5. events' \in [Informers -> SUBSET Event]
  BY <1>1, <1>2, <1>3, NotifyType DEF TypeOK, RefTypeOK
<1> DEFINE new == [ref[r] EXCEPT !.kill = @ \ {p}]
<1>6. OwnStep(r, new)
  <2>1. /\ new \in Refresher /\ new.files = ref[r].files /\ new.todo = ref[r].todo
        /\ new.busy = ref[r].busy
    BY <1>1 DEF Refresher
  <2>2. ref' = [ref EXCEPT ![r] = new]
    BY <1>1, <1>2 DEF TypeOK, RefTypeOK
  <2>3. QED
    BY <1>1, <2>1, <2>2 DEF OwnStep
<1>7. ApiTypeOK' /\ NodeTypeOK' /\ marks' \subseteq marks
  BY <1>1 DEF TypeOK, ApiTypeOK, NodeTypeOK, DeletePod, apiVars, nodeVars
<1>8. FaultTypeOK'
  BY <1>1, <1>2, FaultInv DEF TypeOK, DeletePod
<1>9. UNCHANGED allocVars
  BY DEF DeletePod
<1>10. /\ ref' \in [Refreshers -> Refresher]
       /\ AllocTypeOK' /\ HandlerOK' /\ BornHasOrder' /\ MarksBorn' /\ ReclaimOnlyFinished'
  BY <1>4, <1>6, <1>7, <1>9, OwnStepInv
<1>11. QED
  BY <1>4, <1>5, <1>7, <1>8, <1>10 DEF NodeInv, TypeOK, RefTypeOK

LEMMA RefreshInv == ASSUME NodeInv, NEW r \in Refreshers, RefreshStep(r) PROVE NodeInv'
  BY ReadDynamicDirInv, ListPodsInv, RemoveMarkInv, StopVDeviceInv, DestroyVDeviceInv,
     RemoveConfInv, DeletePodInv, EndRefreshInv
     DEF RefreshStep

-----------------------------------------------------------------------------
(* The surroundings. *)

\* Steps that change neither a handler's call nor a refresh, only phases.
LEMMA PhaseStepInv ==
  ASSUME NodeInv, PhaseTypeOK', Steady, ApiTypeOK',
         UNCHANGED <<nodeVars, allocVars, ref, faultVars>>,
         events' \in [Informers -> SUBSET Event]
  PROVE  NodeInv'
<1>1. TypeOK /\ HandlerOK
  BY DEF NodeInv
<1>2. NodeTypeOK' /\ FaultTypeOK' /\ AllocTypeOK'
  BY <1>1 DEF TypeOK, NodeTypeOK, FaultTypeOK, AllocTypeOK, nodeVars, faultVars, allocVars
<1>3. RefTypeOK'
  BY <1>1 DEF TypeOK, RefTypeOK
<1>4. HandlerOK'
  <2>1. h.pod \in Pods \cup {NoPod} /\ kubelet.pod \in Pods \cup {NoPod}
    BY <1>1 DEF TypeOK, AllocTypeOK, Handler
  <2>2. h' = h /\ kubelet' = kubelet
    BY DEF allocVars
  <2>3. QED
    BY <1>1, <2>1, <2>2 DEF HandlerOK, Steady, Born
<1>5. BornHasOrder' /\ MarksBorn' /\ ReclaimOnlyFinished'
  <2>1. marks' = marks
    BY DEF nodeVars
  <2>2. QED
    BY <1>2, <2>1, SteadyInv
<1>6. QED
  BY <1>2, <1>3, <1>4, <1>5 DEF NodeInv, TypeOK

LEMMA ScheduleInv == ASSUME NodeInv, NEW p \in Pods, Schedule(p) PROVE NodeInv'
<1> USE ConstantsAssumption
<1>1. TypeOK /\ HandlerOK
  BY DEF NodeInv
<1>2. PhaseTypeOK' /\ (\A q \in Pods : Born(q) => Born(q)') /\ (\A q \in Pods : q # p => phase'[q] = phase[q])
  BY <1>1 DEF Schedule, TypeOK, PhaseTypeOK, Born
<1>3. ApiTypeOK'
  BY <1>1 DEF TypeOK, ApiTypeOK, Schedule
<1>4. NodeTypeOK' /\ FaultTypeOK' /\ AllocTypeOK' /\ RefTypeOK'
  BY <1>1 DEF TypeOK, NodeTypeOK, FaultTypeOK, AllocTypeOK, RefTypeOK, Schedule,
              nodeVars, faultVars, allocVars, refVars
<1>5. HandlerOK'
  <2>1. h.pod \in Pods \cup {NoPod} /\ kubelet.pod \in Pods \cup {NoPod}
    BY <1>1 DEF TypeOK, AllocTypeOK, Handler
  <2>2. h' = h /\ kubelet' = kubelet
    BY DEF Schedule, allocVars
  <2>3. QED
    BY <1>1, <1>2, <2>1, <2>2 DEF HandlerOK
<1>6. BornHasOrder'
  BY <1>1, <1>2 DEF NodeInv, BornHasOrder, Schedule, TypeOK, PhaseTypeOK, Born
<1>7. \A m \in Mark : m.pod \in Pods
  BY DEF Mark
<1>8. MarksBorn'
  <2>1. marks' = marks /\ ref' = ref /\ marks \subseteq Mark
    BY <1>1 DEF Schedule, nodeVars, refVars, TypeOK, NodeTypeOK
  <2>2. \A r \in Refreshers : ref[r].files \subseteq Mark
    BY <1>1 DEF TypeOK, RefTypeOK, Refresher
  <2>3. \A m \in marks : Born(m.pod)'
    BY <1>2, <1>7, <2>1 DEF NodeInv, MarksBorn
  <2>4. \A r \in Refreshers : \A m \in ref[r].files : Born(m.pod)'
    BY <1>2, <1>7, <2>2 DEF NodeInv, MarksBorn
  <2>5. QED
    BY <2>1, <2>3, <2>4 DEF MarksBorn, Born
<1>9. ReclaimOnlyFinished'
  <2>1. ref' = ref /\ phase[p] = "unborn"
    BY DEF Schedule, refVars
  <2>2. \A r \in Refreshers : ref[r].todo \cup ref[r].busy \subseteq Mark
    BY <1>1 DEF TypeOK, RefTypeOK, Refresher
  <2>3. ASSUME NEW r \in Refreshers, NEW m \in ref[r].todo \cup ref[r].busy
        PROVE  phase'[m.pod] \in Finished
    <3>1. phase[m.pod] \in Finished /\ m.pod \in Pods
      BY <1>7, <2>2 DEF NodeInv, ReclaimOnlyFinished
    <3>2. QED
      BY <1>2, <2>1, <3>1
  <2>4. QED
    BY <2>1, <2>3 DEF ReclaimOnlyFinished
<1>10. QED
  BY <1>1, <1>2, <1>3, <1>4, <1>5, <1>6, <1>8, <1>9 DEF NodeInv, TypeOK

LEMMA ExpireLockInv == NodeInv /\ ExpireLock => NodeInv'
<1> SUFFICES ASSUME NodeInv, ExpireLock PROVE NodeInv'
  OBVIOUS
<1>1. PhaseTypeOK' /\ Steady /\ ApiTypeOK' /\ events' \in [Informers -> SUBSET Event]
  BY DEF NodeInv, TypeOK, PhaseTypeOK, ApiTypeOK, RefTypeOK, ExpireLock, Steady, Born, refVars
<1>2. UNCHANGED <<nodeVars, allocVars, ref, faultVars>>
  BY DEF ExpireLock, refVars
<1>3. QED
  BY <1>1, <1>2, PhaseStepInv

LEMMA StartPodInv == ASSUME NodeInv, NEW p \in Pods, StartPod(p) PROVE NodeInv'
<1>1. PhaseTypeOK' /\ Steady
  BY DEF NodeInv, TypeOK, PhaseTypeOK, StartPod, Steady, Born
<1>2. ApiTypeOK' /\ events' \in [Informers -> SUBSET Event]
  BY DEF NodeInv, TypeOK, ApiTypeOK, RefTypeOK, StartPod, apiVars, refVars
<1>3. UNCHANGED <<nodeVars, allocVars, ref, faultVars>>
  BY DEF StartPod, refVars
<1>4. QED
  BY <1>1, <1>2, <1>3, PhaseStepInv

LEMMA FinishPodInv == ASSUME NodeInv, NEW p \in Pods, FinishPod(p) PROVE NodeInv'
<1>1. PhaseTypeOK' /\ Steady
  BY DEF NodeInv, TypeOK, PhaseTypeOK, FinishPod, Steady, Born
<1>2. ApiTypeOK'
  BY DEF NodeInv, TypeOK, ApiTypeOK, FinishPod, apiVars
<1>3. events' \in [Informers -> SUBSET Event]
  BY NotifyType DEF NodeInv, TypeOK, FinishPod
<1>4. UNCHANGED <<nodeVars, allocVars, ref, faultVars>>
  BY DEF FinishPod
<1>5. QED
  BY <1>1, <1>2, <1>3, <1>4, PhaseStepInv

LEMMA UserDeleteInv == ASSUME NodeInv, NEW p \in Pods, UserDelete(p) PROVE NodeInv'
<1>1. PhaseTypeOK' /\ Steady
  BY DEF NodeInv, TypeOK, PhaseTypeOK, UserDelete, Exists, Steady, Born
<1>2. ApiTypeOK'
  BY DEF NodeInv, TypeOK, ApiTypeOK, UserDelete, apiVars
<1>3. events' \in [Informers -> SUBSET Event]
  BY NotifyType DEF NodeInv, TypeOK, UserDelete
<1>4. UNCHANGED <<nodeVars, allocVars, ref, faultVars>>
  BY DEF UserDelete
<1>5. QED
  BY <1>1, <1>2, <1>3, <1>4, PhaseStepInv

\* Steps that change the calls of kubelet or of the handler alone.
LEMMA CallStepInv ==
  ASSUME NodeInv, AllocTypeOK', HandlerOK', UNCHANGED <<phase, apiVars, nodeVars, refVars, faultVars>>
  PROVE  NodeInv'
<1>1. /\ PhaseTypeOK' /\ Steady /\ ApiTypeOK' /\ NodeTypeOK' /\ RefTypeOK' /\ FaultTypeOK'
  BY DEF NodeInv, TypeOK, PhaseTypeOK, ApiTypeOK, NodeTypeOK, RefTypeOK, FaultTypeOK,
         Steady, Born, apiVars, nodeVars, refVars, faultVars
<1>2. BornHasOrder' /\ MarksBorn' /\ ReclaimOnlyFinished'
  <2>1. marks' = marks /\ ref' = ref
    BY DEF nodeVars, refVars
  <2>2. QED
    BY <1>1, <2>1, SteadyInv
<1>3. QED
  BY <1>1, <1>2 DEF NodeInv, TypeOK

LEMMA AdmitPodInv == ASSUME NodeInv, NEW p \in Pods, AdmitPod(p) PROVE NodeInv'
<1> USE ConstantsAssumption
<1>1. TypeOK /\ HandlerOK
  BY DEF NodeInv
<1>2. Born(p) /\ Order[p] # <<>>
  BY DEF NodeInv, BornHasOrder, AdmitPod, Born
<1>3. AllocTypeOK'
  BY <1>1 DEF TypeOK, AllocTypeOK, AdmitPod
<1>4. HandlerOK'
  BY <1>1, <1>2 DEF HandlerOK, AdmitPod, Born
<1>5. QED
  BY <1>3, <1>4, CallStepInv DEF AdmitPod

LEMMA CallAllocateInv == NodeInv /\ CallAllocate => NodeInv'
<1> SUFFICES ASSUME NodeInv, CallAllocate PROVE NodeInv'
  OBVIOUS
<1>1. TypeOK /\ HandlerOK
  BY DEF NodeInv
<1>2. AllocTypeOK'
  BY <1>1 DEF TypeOK, AllocTypeOK, CallAllocate, Handler
<1>3. HandlerOK'
  BY <1>1 DEF TypeOK, AllocTypeOK, HandlerOK, CallAllocate, Handler, Born
<1>4. QED
  BY <1>2, <1>3, CallStepInv DEF CallAllocate

LEMMA CrashInv == NodeInv /\ Crash => NodeInv'
<1> SUFFICES ASSUME NodeInv, Crash PROVE NodeInv'
  OBVIOUS
<1>1. TypeOK /\ HandlerOK
  BY DEF NodeInv
<1>2. Kept
  <2>1. CASE h.pc = "idle"
    <3>1. UNCHANGED <<phase, kubelet, admitted, h>>
      BY <2>1 DEF Crash
    <3>2. PhaseTypeOK' /\ AllocTypeOK' /\ Steady
      BY <1>1, <3>1 DEF TypeOK, PhaseTypeOK, AllocTypeOK, Steady, Born
    <3>3. HandlerOK'
      BY <1>1, <3>1 DEF HandlerOK, Born
    <3>4. QED
      BY <3>2, <3>3 DEF Kept
  <2>2. CASE h.pc # "idle"
    BY <2>2, AnswerInv DEF Crash
  <2>3. QED
    BY <2>1, <2>2
<1>3. ApiTypeOK' /\ NodeTypeOK' /\ marks' = marks
  BY <1>1 DEF TypeOK, ApiTypeOK, NodeTypeOK, Crash, apiVars, nodeVars
<1>4. FaultTypeOK'
  BY <1>1, FaultInv DEF TypeOK, Crash
<1>5. RefTypeOK'
  BY IdleOwnStep DEF RefTypeOK, Crash
<1>6. \A r \in Refreshers : ref'[r].files = {} /\ ref'[r].todo \cup ref'[r].busy = {}
  BY IdleOwnStep DEF Crash
<1>7. \A m \in marks : m.pod \in Pods
  BY <1>1 DEF TypeOK, NodeTypeOK, Mark
<1>8. BornHasOrder'
  BY <1>2 DEF NodeInv, BornHasOrder, Kept, Steady
<1>9. MarksBorn'
  BY <1>2, <1>3, <1>6, <1>7 DEF NodeInv, MarksBorn, Kept, Steady
<1>10. ReclaimOnlyFinished'
  BY <1>6 DEF ReclaimOnlyFinished
<1>11. QED
  BY <1>2, <1>3, <1>4, <1>5, <1>8, <1>9, <1>10 DEF NodeInv, TypeOK, Kept

-----------------------------------------------------------------------------
LEMMA NextInv == NodeInv /\ [Next]_vars => NodeInv'
<1> SUFFICES ASSUME NodeInv, [Next]_vars PROVE NodeInv'
  OBVIOUS
<1>1. CASE AllocateStep
  BY <1>1, AllocateInv
<1>2. CASE \E r \in Refreshers : RefreshStep(r)
  BY <1>2, RefreshInv
<1>3. CASE EnvironmentStep
  BY <1>3, ExpireLockInv, CallAllocateInv, ScheduleInv, AdmitPodInv, StartPodInv,
     FinishPodInv, UserDeleteInv DEF EnvironmentStep
<1>4. CASE Crash
  BY <1>4, CrashInv
<1>5. CASE UNCHANGED vars
  BY <1>5, StutterInv
<1>6. QED
  BY <1>1, <1>2, <1>3, <1>4, <1>5 DEF Next

\* The node keeps its inductive invariant through every interleaving of the
\* handler, the refreshes, the surroundings, faults and crashes.
THEOREM NodeInvariant == Spec => []NodeInv
  BY InitInv, NextInv, PTL DEF Spec

\* Type correctness: in particular the vDCU index -1 never reaches a mark that
\* stands for a vDCU, and the handler never works for no pod.
THEOREM TypeCorrect == Spec => []TypeOK
<1>1. NodeInv => TypeOK
  BY DEF NodeInv
<1>2. QED
  BY <1>1, NodeInvariant, PTL

\* RefreshContainerDevices only removes files, and stops and destroys vDCUs, on
\* account of pods that have finished, although both of its lists are old when it
\* acts on them and other refreshes run beside it.
THEOREM ReclaimsOnlyFinished == Spec => []ReclaimOnlyFinished
<1>1. NodeInv => ReclaimOnlyFinished
  BY DEF NodeInv
<1>2. QED
  BY <1>1, NodeInvariant, PTL

LEMMA MarksGrow ==
  [Next]_vars => marks \subseteq marks' \/ \E r \in Refreshers : RemoveMark(r)
<1> SUFFICES ASSUME [Next]_vars, ~ \E r \in Refreshers : RemoveMark(r)
             PROVE  marks \subseteq marks'
  OBVIOUS
<1>1. CASE AllocateStep
  <2>1. CASE ServeDevices
    BY <2>1 DEF ServeDevices, WriteMarks
  <2>2. CASE MarkVDevice
    BY <2>2 DEF MarkVDevice, WriteMarks, MarkFault
  <2>3. CASE CreateVDevice
    BY <2>3 DEF CreateVDevice
  <2>4. QED
    BY <1>1, <2>1, <2>2, <2>3
       DEF AllocateStep, GetPendingPod, UpdateContainerIndex, EraseNextRequest,
           DeleteContainerIndex, TrySuccess, AllocationFailed, ReleaseNodeLock, nodeVars
<1>2. CASE \E r \in Refreshers : RefreshStep(r)
  BY <1>2 DEF RefreshStep, ReadDynamicDir, ListPods, StopVDevice, DestroyVDevice, RemoveConf,
              DeletePod, EndRefresh, nodeVars
<1>3. CASE EnvironmentStep
  BY <1>3 DEF EnvironmentStep, ExpireLock, CallAllocate, Schedule, AdmitPod, StartPod,
              FinishPod, UserDelete, nodeVars
<1>4. CASE Crash
  BY <1>4 DEF Crash, nodeVars
<1>5. CASE UNCHANGED vars
  BY <1>5 DEF vars, nodeVars
<1>6. QED
  BY <1>1, <1>2, <1>3, <1>4, <1>5 DEF Next

\* The mark of a live pod is never taken away: a refresh reads the directory
\* before it lists the pods, so a file it finds without a pod outlived that pod.
THEOREM LiveMarksKept == Spec => LiveMarkKept
<1>1. NodeInv /\ [Next]_vars => [\A m \in marks \ marks' : phase[m.pod] \in Finished]_vars
  <2> SUFFICES ASSUME NodeInv, [Next]_vars, NEW m \in marks \ marks'
               PROVE  phase[m.pod] \in Finished
    OBVIOUS
  <2>1. PICK r \in Refreshers : RemoveMark(r)
    BY MarksGrow
  <2>2. m \in ref[r].todo
    BY <2>1 DEF RemoveMark
  <2>3. QED
    BY <2>2, RefresherType
<1>2. QED
  BY <1>1, NodeInvariant, PTL DEF Spec, LiveMarkKept

=============================================================================
