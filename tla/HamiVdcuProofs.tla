---------------------------- MODULE HamiVdcuProofs ----------------------------
(***************************************************************************)
(* Theorems about the vDCUs of HamiNode, for any constants, and so for any *)
(* number of goroutines in RefreshContainerDevices at a time, with marks   *)
(* and lists of any age: what ties a vDCU to its mark, and that who was    *)
(* admitted is served.  They are about the vDCUs that were made under an   *)
(* index nobody named any more; HamiDoubleReclaim shows what happens to    *)
(* the others.                                                             *)
(***************************************************************************)
EXTENDS HamiSafetyProofs

\* The file names that stand in the directory or that a refresh has in hand: those
\* whose indices are NamedIdx.
Known ==
  marks \cup UNION {ref[r].files \cup ref[r].todo \cup ref[r].busy : r \in Refreshers}

Own(v) == <<v.pod, v.ctr>> \notin reused

\* The index in a name is that of no other vDCU, if the vDCU is its container's own.
Fits(m, v) ==
  m.pod = v.pod /\ m.card = v.card /\ (NoApiFaults => m.ctr = v.ctr)
IdxInv == \A v, w \in vdcus : v.idx = w.idx => v = w
NamesInv == \A m \in Known, v \in vdcus : m.vdev = v.idx /\ Own(v) => Fits(m, v)

\* What has the index that a call was given is the vDCU the call made; and it is
\* there, with no name, if it is the container's own.
MadeBy(v) ==
  v.pod = h.pod /\ v.ctr = h.req /\ v.card = Devs[h.pod][h.req][1].card
MakingInv ==
  h.pc = "mark" =>
    /\ \A v \in vdcus : v.idx = h.vdev => MadeBy(v)
    /\ <<h.pod, h.req>> \notin reused =>
         /\ \E v \in vdcus : v.idx = h.vdev /\ v.up
         /\ \A m \in Known : m.vdev # h.vdev

VdcuInv == IdxInv /\ NamesInv /\ MakingInv
-----------------------------------------------------------------------------
(* What is known of the names. *)

LEMMA KnownTypes ==
  ASSUME NodeInv
  PROVE  /\ \A v \in vdcus : v \in Vdcu /\ v.idx # -1
         /\ Known \subseteq Mark /\ h \in Handler
         /\ ref \in [Refreshers -> Refresher]
<1>1. /\ marks \subseteq Mark /\ vdcus \subseteq Vdcu /\ h \in Handler
      /\ ref \in [Refreshers -> Refresher]
  BY DEF NodeInv, TypeOK, NodeTypeOK, AllocTypeOK, RefTypeOK
<1>2. \A r \in Refreshers : ref[r].files \cup ref[r].todo \cup ref[r].busy \subseteq Mark
  BY <1>1 DEF Refresher
<1>3. QED
  BY <1>1, <1>2, ConstantsAssumption DEF Known, Vdcu

\* Without a step of a refresh, only a new file is a new name.
LEMMA KnownGrows ==
  ASSUME ref' = ref
  PROVE  Known' \subseteq Known \cup (marks' \ marks)
  BY DEF Known

\* A refresh learns nothing but what stands in the directory.
LEMMA KnownShrinks ==
  ASSUME NodeInv, NEW r \in Refreshers, RefreshStep(r)
  PROVE  Known' \subseteq Known
<1> DEFINE Has(q) == ref[q].files \cup ref[q].todo \cup ref[q].busy
<1>1. ref \in [Refreshers -> Refresher] /\ ref[r] \in Refresher
  BY KnownTypes
<1>2. ASSUME marks' \subseteq marks, \A q \in Refreshers \ {r} : ref'[q] = ref[q],
             ref'[r].files \cup ref'[r].todo \cup ref'[r].busy \subseteq Has(r) \cup marks
      PROVE  Known' \subseteq Known
  BY <1>2 DEF Known
<1>3. \A q \in Refreshers \ {r} : ref'[q] = ref[q]
  BY <1>1 DEF RefreshStep, ReadDynamicDir, ListPods, RemoveMark, StopVDevice, DestroyVDevice,
     Retry, RemoveConf, DeletePod, EndRefresh
<1>4. marks' \subseteq marks
  BY DEF RefreshStep, ReadDynamicDir, ListPods, RemoveMark, StopVDevice, DestroyVDevice,
     RemoveConf, DeletePod, EndRefresh, nodeVars
<1>5. CASE ReadDynamicDir(r)
  <2>1. ref' = ref \/ ref' = [ref EXCEPT ![r].pc = "list", ![r].files = marks]
    BY <1>5 DEF ReadDynamicDir
  <2>2. ref'[r].files \subseteq Has(r) \cup marks /\ ref'[r].todo = ref[r].todo
        /\ ref'[r].busy = ref[r].busy
    BY <1>1, <2>1 DEF Refresher
  <2>3. QED
    BY <1>2, <1>3, <1>4, <2>2
<1>6. CASE ListPods(r)
  <2>1. \/ ref' = [ref EXCEPT ![r] = IdleRefresher]
        \/ ref' = [ref EXCEPT ![r] = [IdleRefresher EXCEPT
                     !.pc = "reap", !.todo = StaleMarks(ref[r].files),
                     !.kill = ErrorPods(ref[r].files)]]
    BY <1>6 DEF ListPods
  <2>2. ref'[r].files = {} /\ ref'[r].busy = {}
        /\ ref'[r].todo \subseteq StaleMarks(ref[r].files)
    <3>1. CASE ref' = [ref EXCEPT ![r] = IdleRefresher]
      BY <1>1, <3>1, IdleOwnStep
    <3>2. CASE ref' = [ref EXCEPT ![r] = [IdleRefresher EXCEPT
                         !.pc = "reap", !.todo = StaleMarks(ref[r].files),
                         !.kill = ErrorPods(ref[r].files)]]
      <4>1. ref'[r] = [IdleRefresher EXCEPT !.pc = "reap", !.todo = StaleMarks(ref[r].files),
                                            !.kill = ErrorPods(ref[r].files)]
        BY <1>1, <3>2
      <4>2. QED
        BY <4>1 DEF IdleRefresher
    <3>3. QED
      BY <2>1, <3>1, <3>2
  <2>3. StaleMarks(ref[r].files) \subseteq ref[r].files
    BY DEF StaleMarks
  <2>4. QED
    BY <1>2, <1>3, <1>4, <2>2, <2>3
<1>7. CASE RemoveMark(r)
  <2>1. PICK m \in ref[r].todo :
          \/ ref' = [ref EXCEPT ![r].todo = @ \ {m}]
          \/ ref' = [ref EXCEPT ![r].pc = "stop", ![r].todo = @ \ {m}, ![r].busy = {m}]
    BY <1>7 DEF RemoveMark
  <2>2. ref'[r].files = ref[r].files /\ ref'[r].todo \subseteq ref[r].todo
        /\ ref'[r].busy \subseteq ref[r].busy \cup ref[r].todo
    BY <1>1, <2>1 DEF Refresher
  <2>3. QED
    BY <1>2, <1>3, <1>4, <2>2
<1>8. CASE StopVDevice(r) \/ DestroyVDevice(r) \/ RemoveConf(r) \/ DeletePod(r) \/ EndRefresh(r)
  <2>1. ref'[r].files \cup ref'[r].todo \cup ref'[r].busy \subseteq Has(r)
    <3>1. CASE EndRefresh(r)
      BY <1>1, <3>1, IdleOwnStep DEF EndRefresh
    <3>2. CASE RemoveConf(r) \/ DeletePod(r)
      BY <1>1, <3>2 DEF RemoveConf, DeletePod, Refresher
    <3>3. CASE StopVDevice(r) \/ DestroyVDevice(r)
      BY <1>1, <3>3 DEF StopVDevice, DestroyVDevice, Retry, Refresher
    <3>4. QED
      BY <1>8, <3>1, <3>2, <3>3
  <2>2. QED
    BY <1>2, <1>3, <1>4, <2>1
<1>9. QED
  BY <1>5, <1>6, <1>7, <1>8 DEF RefreshStep

-----------------------------------------------------------------------------
(* Steps that neither make nor reclaim a vDCU. *)

LEMMA VdcuQuiet ==
  ASSUME NodeInv, VdcuInv, NoApiFaults' => NoApiFaults, UNCHANGED <<vdcus, reused>>,
         \A m \in Known' \ Known : m.vdev = -1,
         h'.pc = "mark" => h.pc = "mark" /\ h'.vdev = h.vdev /\ h'.pod = h.pod /\ h'.req = h.req
  PROVE  VdcuInv'
<1>1. IdxInv'
  BY DEF VdcuInv, IdxInv
<1>2. NamesInv'
  BY KnownTypes DEF VdcuInv, NamesInv, Fits, Own
<1>3. MakingInv'
  <2> SUFFICES ASSUME h'.pc = "mark" PROVE MakingInv'
    BY DEF MakingInv
  <2>1. h.vdev # -1
    BY DEF NodeInv, HandlerOK
  <2>2. QED
    BY <2>1 DEF VdcuInv, MakingInv, MadeBy
<1>4. QED
  BY <1>1, <1>2, <1>3 DEF VdcuInv

LEMMA ServeDevicesKeeps ==
  ASSUME NodeInv, VdcuInv, ServeDevices, NoApiFaults' => NoApiFaults
  PROVE  VdcuInv'
<1>1. UNCHANGED <<vdcus, reused, ref>> /\ h'.pc # "mark"
  BY KnownTypes DEF ServeDevices, refVars, Fail, Handler
<1>2. PICK ms \in SUBSET WholeCardMarks(h.pod, h.req, h.ctr) : marks' = marks \cup ms
  BY DEF ServeDevices, WriteMarks
<1>3. \A m \in ms : m.vdev = -1
  BY <1>2 DEF WholeCardMarks
<1>4. \A m \in Known' \ Known : m.vdev = -1
  BY <1>1, <1>2, <1>3, KnownGrows
<1>5. QED
  BY <1>1, <1>4, VdcuQuiet

\* The driver hands out an index that no vDCU has.  Either no name has it, or the
\* container is one of those that got a named index.
LEMMA CreateVDeviceKeeps ==
  ASSUME NodeInv, VdcuInv, CreateVDevice, NoApiFaults' => NoApiFaults
  PROVE  VdcuInv'
<1>1. h.pc = "create" /\ UNCHANGED <<marks, ref>> /\ h \in Handler /\ Known' = Known
  BY KnownTypes DEF CreateVDevice, refVars, Known
<1>2. CASE UNCHANGED <<vdcus, reused>> /\ Fail
  BY <1>1, <1>2, VdcuQuiet DEF Fail, Handler
<1>3. ASSUME NEW i \in FreeIdx,
             vdcus' = vdcus \cup {[idx |-> i, pod |-> h.pod, ctr |-> h.req,
                                   card |-> Devs[h.pod][h.req][1].card, up |-> TRUE]},
             h' = [h EXCEPT !.pc = "mark", !.vdev = i],
             reused' = IF i \in NamedIdx THEN reused \cup {<<h.pod, h.req>>} ELSE reused
      PROVE  VdcuInv'
  <2> DEFINE new == [idx |-> i, pod |-> h.pod, ctr |-> h.req,
                     card |-> Devs[h.pod][h.req][1].card, up |-> TRUE]
  <2>1. /\ h'.pc = "mark" /\ h'.vdev = i /\ h'.pod = h.pod /\ h'.req = h.req
        /\ \A v \in vdcus : v.idx # i
        /\ vdcus' = vdcus \cup {new}
        /\ new.idx = i /\ new.pod = h.pod /\ new.ctr = h.req /\ new.up
        /\ new.card = Devs[h.pod][h.req][1].card
    BY <1>1, <1>3 DEF Handler, FreeIdx
  <2> HIDE DEF new
  <2>2. <<h.pod, h.req>> \notin reused' => \A m \in Known : m.vdev # i
    BY <1>3 DEF NamedIdx, Known
  <2>3. reused \subseteq reused'
    BY <1>3
  <2>4. IdxInv'
    BY <2>1 DEF VdcuInv, IdxInv
  <2>5. NamesInv'
    <3> SUFFICES ASSUME NEW m \in Known', NEW v \in vdcus', m.vdev = v.idx, Own(v)'
                 PROVE  Fits(m, v)'
      BY DEF NamesInv
    <3>1. CASE v = new
      BY <1>1, <2>1, <2>2, <3>1 DEF Own
    <3>2. CASE v \in vdcus
      <4>1. Own(v)
        BY <2>3 DEF Own
      <4>2. QED
        BY <1>1, <3>2, <4>1 DEF VdcuInv, NamesInv, Fits
    <3>3. QED
      BY <2>1, <3>1, <3>2
  <2>6. MakingInv'
    BY <1>1, <2>1, <2>2 DEF MakingInv, MadeBy
  <2>7. QED
    BY <2>4, <2>5, <2>6 DEF VdcuInv
<1>4. QED
  BY <1>2, <1>3 DEF CreateVDevice

\* The mark names the vDCU, by the container in the annotation of the indices.
LEMMA MarkVDeviceKeeps ==
  ASSUME NodeInv, VdcuInv, MarkVDevice, NoApiFaults' => NoApiFaults,
         NoApiFaults => h.ctr = h.req
  PROVE  VdcuInv'
<1>1. h.pc = "mark" /\ h'.pc = "unindex" /\ UNCHANGED <<vdcus, reused, ref>> /\ h \in Handler
  BY KnownTypes DEF MarkVDevice, refVars, Handler
<1>2. marks' \subseteq marks \cup {VdcuMark}
  BY DEF MarkVDevice, WriteMarks, MarkFault
<1>3. Known' \subseteq Known \cup {VdcuMark}
  BY <1>1, <1>2, KnownGrows
<1>4. NamesInv'
  <2> SUFFICES ASSUME NEW m \in Known', NEW v \in vdcus', m.vdev = v.idx, Own(v)'
               PROVE  Fits(m, v)'
    BY DEF NamesInv
  <2>1. CASE m \in Known
    BY <1>1, <2>1 DEF VdcuInv, NamesInv, Fits, Own
  <2>2. CASE m = VdcuMark
    <3>1. MadeBy(v)
      BY <1>1, <2>2 DEF VdcuInv, MakingInv, VdcuMark
    <3>2. QED
      BY <2>2, <3>1 DEF MadeBy, VdcuMark, Fits
  <2>3. QED
    BY <1>3, <2>1, <2>2
<1>5. IdxInv' /\ MakingInv'
  BY <1>1 DEF VdcuInv, IdxInv, MakingInv
<1>6. QED
  BY <1>4, <1>5 DEF VdcuInv

-----------------------------------------------------------------------------
(* Reclaiming. *)

\* A refresh has the index of an own vDCU in hand only when its pod has finished,
\* and never before the vDCU has its mark.
LEMMA BusyIsNobodys ==
  ASSUME NodeInv, VdcuInv, NEW r \in Refreshers
  PROVE  /\ \A v \in Busy(r) : Own(v) => phase[v.pod] \in Finished
         /\ \A v \in Busy(r) : h.pc = "mark" /\ <<h.pod, h.req>> \notin reused => v.idx # h.vdev
<1>1. ref[r].busy \subseteq Known
  BY DEF Known
<1>2. \A m \in ref[r].busy : phase[m.pod] \in Finished
  BY RefresherType
<1>3. QED
  BY <1>1, <1>2 DEF VdcuInv, NamesInv, MakingInv, Fits, Busy

LEMMA RefreshKeeps ==
  ASSUME NodeInv, VdcuInv, NoApiFaults' => NoApiFaults, NEW r \in Refreshers, RefreshStep(r)
  PROVE  VdcuInv'
<1>1. Known' \subseteq Known /\ h' = h /\ reused' = reused
  BY KnownShrinks DEF RefreshStep, ReadDynamicDir, ListPods, RemoveMark, StopVDevice,
     DestroyVDevice, RemoveConf, DeletePod, EndRefresh, nodeVars, allocVars
<1>2. CASE vdcus' = vdcus
  BY <1>1, <1>2, VdcuQuiet
<1>3. CASE vdcus' = (vdcus \ Busy(r)) \cup {[v EXCEPT !.up = FALSE] : v \in Busy(r)}
  <2> DEFINE after(v) == IF v \in Busy(r) THEN [v EXCEPT !.up = FALSE] ELSE v
  <2>1. \A v \in vdcus : /\ after(v).idx = v.idx /\ after(v).pod = v.pod
                         /\ after(v).ctr = v.ctr /\ after(v).card = v.card
    BY KnownTypes DEF Vdcu
  <2>2. /\ \A v \in vdcus : after(v) \in vdcus'
        /\ \A w \in vdcus' : \E v \in vdcus : w = after(v)
        /\ \A v \in vdcus : v \notin Busy(r) => v \in vdcus'
    BY <1>3 DEF Busy
  <2> HIDE DEF after
  <2>3. IdxInv'
    BY <2>1, <2>2 DEF VdcuInv, IdxInv
  <2>4. NamesInv'
    BY <1>1, <2>1, <2>2 DEF VdcuInv, NamesInv, Fits, Own
  <2>5. MakingInv'
    <3> SUFFICES ASSUME h.pc = "mark" PROVE MakingInv'
      BY <1>1 DEF MakingInv
    <3>1. \A v \in vdcus' : v.idx = h.vdev => MadeBy(v)
      BY <2>1, <2>2 DEF VdcuInv, MakingInv, MadeBy
    <3>2. ASSUME <<h.pod, h.req>> \notin reused
          PROVE  /\ \E v \in vdcus' : v.idx = h.vdev /\ v.up
                 /\ \A m \in Known' : m.vdev # h.vdev
      BY <1>1, <2>2, <3>2, BusyIsNobodys DEF VdcuInv, MakingInv
    <3>3. QED
      BY <1>1, <3>1, <3>2 DEF MakingInv, MadeBy
  <2>6. QED
    BY <2>3, <2>4, <2>5 DEF VdcuInv
<1>4. CASE vdcus' = vdcus \ Busy(r)
  <2>1. IdxInv' /\ NamesInv'
    BY <1>1, <1>4 DEF VdcuInv, IdxInv, NamesInv, Fits, Own
  <2>2. MakingInv'
    BY <1>1, <1>4, BusyIsNobodys DEF VdcuInv, MakingInv, MadeBy
  <2>3. QED
    BY <2>1, <2>2 DEF VdcuInv
<1>5. QED
  BY <1>2, <1>3, <1>4 DEF RefreshStep, ReadDynamicDir, ListPods, RemoveMark, StopVDevice,
     DestroyVDevice, RemoveConf, DeletePod, EndRefresh, nodeVars

-----------------------------------------------------------------------------
(* The two annotations of a pod. *)

\* While no request to the API server has failed: between two calls the indices
\* are those of the containers left, and within a call its index is its request.
InStep(p) == Untouched(p) \/ toAllocate[p] = <<>> \/ ctrIndexes[p] = toAllocate[p]
Between(p) == p # h.pod \/ h.pc = "index" \/ (h.pc = "settle" /\ h.ok)
PairInv ==
  /\ h.pc \in {"idle", "pending"} => h.pod = NoPod
  /\ \A p \in Pods : Exists(p) /\ bindPhase[p] = "allocating" /\ Between(p) => InStep(p)
  /\ h.pc = "erase" /\ Exists(h.pod) /\ toAllocate[h.pod] # <<>> =>
       ctrIndexes[h.pod] = toAllocate[h.pod] /\ h.ctr = Head(toAllocate[h.pod])
  /\ h.pc \in {"serve", "create", "mark", "unindex"} /\ Exists(h.pod) =>
       ctrIndexes[h.pod] # <<>> /\ Tail(ctrIndexes[h.pod]) = toAllocate[h.pod]
  /\ h.pc \in {"serve", "create", "mark"} => h.ctr = h.req
IndicesInv == NoApiFaults => PairInv

\* Nobody touches the annotations, and pods only go.
LEMMA PairQuiet ==
  ASSUME NodeInv, PairInv, UNCHANGED <<bindPhase, toAllocate, ctrIndexes, h>>,
         \A p \in Pods : Exists(p)' => Exists(p)
  PROVE  PairInv'
<1>1. h.pc \notin {"idle", "pending"} => h.pod \in Pods
  BY InCall
<1>2. QED
  BY <1>1 DEF PairInv, Between, InStep, Untouched

\* The call is over.
LEMMA PairAnswered ==
  ASSUME h' = IdleHandler,
         \A p \in Pods : Exists(p)' /\ bindPhase'[p] = "allocating" => InStep(p)'
  PROVE  PairInv'
  BY DEF PairInv, IdleHandler

\* An answer to kubelet brings no pod to life.
LEMMA AnswerGoes ==
  ASSUME NodeInv, NEW ok \in BOOLEAN, Answer(ok)
  PROVE  h' = IdleHandler /\ \A p \in Pods : Exists(p)' => Exists(p)
  BY HandshakeTypes DEF Answer, FailAdmission, Exists

\* Steps that only move the call on, before or after its devices are served.
LEMMA PairMovesOn ==
  ASSUME NodeInv, PairInv, UNCHANGED <<phase, bindPhase, toAllocate, ctrIndexes>>,
         h.pc \in {"serve", "create", "mark"}, h'.pod = h.pod, h'.ctr = h.ctr, h'.req = h.req,
         h'.pc \in {"create", "mark", "unindex"} \/ (h'.pc = "settle" /\ ~h'.ok)
  PROVE  PairInv'
  BY DEF PairInv, Between, InStep, Untouched, Exists

LEMMA GetPendingPodPairs ==
  ASSUME NodeInv, PairInv, GetPendingPod
  PROVE  PairInv'
<1>1. h.pc = "pending" /\ h.pod = NoPod /\ UNCHANGED <<bindPhase, toAllocate, ctrIndexes>>
  BY DEF GetPendingPod, PairInv, apiVars
<1>2. CASE Answer(TRUE)
  <2>1. h' = IdleHandler /\ \A p \in Pods : Exists(p)' => Exists(p)
    BY <1>2, AnswerGoes
  <2>2. \A p \in Pods : p # h.pod
    BY <1>1, HandshakeTypes
  <2>3. QED
    BY <1>1, <2>1, <2>2, PairAnswered DEF PairInv, Between, InStep, Untouched
<1>3. ASSUME NEW p \in PendingPods, h' = [h EXCEPT !.pc = "index", !.pod = p],
             UNCHANGED <<phase, kubelet, admitted>>
      PROVE  PairInv'
  <2>1. h'.pc = "index" /\ h'.pod = p
    BY <1>3, HandshakeTypes DEF Handler
  <2>2. \A q \in Pods : q # h.pod
    BY <1>1, HandshakeTypes
  <2>3. QED
    BY <1>1, <1>3, <2>1, <2>2 DEF PairInv, Between, InStep, Untouched, Exists
<1>4. QED
  BY <1>2, <1>3 DEF GetPendingPod, NoPodFound

\* The indices are written while nothing was taken, and are right otherwise.
LEMMA UpdateContainerIndexPairs ==
  ASSUME NodeInv, PairInv, LockInv, StepInv, UpdateContainerIndex, UNCHANGED apiFaults
  PROVE  PairInv'
<1> DEFINE k == h.pod
           idx == IF Untouched(k) THEN Order[k] ELSE ctrIndexes[k]
<1>1. h.pc = "index" /\ k \in Pods /\ k = kubelet.pod /\ UNCHANGED <<bindPhase, toAllocate>>
  BY InCall DEF UpdateContainerIndex, StepInv
<1>2. ~ApiFault
  BY HandshakeTypes DEF ApiFault
<1>3. CASE ~Exists(k) /\ Answer(FALSE)
          /\ ctrIndexes' \in {ctrIndexes, [ctrIndexes EXCEPT ![k] = idx]}
  <2>1. h' = IdleHandler /\ \A p \in Pods : Exists(p)' => Exists(p)
    BY <1>3, AnswerGoes
  <2>2. \A p \in Pods : p # k => ctrIndexes'[p] = ctrIndexes[p]
    BY <1>1, <1>3 DEF NodeInv, TypeOK, ApiTypeOK
  <2>3. \A p \in Pods : Exists(p)' /\ bindPhase'[p] = "allocating" => InStep(p)'
    BY <1>1, <1>3, <2>1, <2>2 DEF PairInv, Between, InStep, Untouched
  <2>4. QED
    BY <2>1, <2>3, PairAnswered
<1>4. CASE /\ Exists(k) /\ ctrIndexes' = [ctrIndexes EXCEPT ![k] = idx]
           /\ h' = [h EXCEPT !.pc = "erase", !.ctr = IF idx = <<>> THEN NoCtr ELSE Head(idx)]
           /\ UNCHANGED <<phase, kubelet, admitted>>
  <2>1. /\ ctrIndexes'[k] = idx
        /\ \A p \in Pods : p # k => ctrIndexes'[p] = ctrIndexes[p]
    BY <1>1, <1>4 DEF NodeInv, TypeOK, ApiTypeOK
  <2>2. h'.pc = "erase" /\ h'.pod = k /\ (idx # <<>> => h'.ctr = Head(idx))
    BY <1>4, HandshakeTypes DEF Handler
  <2>3. InStep(k)
    BY <1>1, <1>4, HandshakeTypes DEF PairInv, Between, StepInv, Asked
  <2>4. toAllocate[k] # <<>> => idx = toAllocate[k]
    BY <2>3 DEF InStep, Untouched
  <2>5. QED
    BY <1>1, <1>4, <2>1, <2>2, <2>4 DEF PairInv, Between, InStep, Untouched, Exists
<1>5. QED
  BY <1>2, <1>3, <1>4 DEF UpdateContainerIndex

LEMMA EraseNextRequestPairs ==
  ASSUME NodeInv, PairInv, EraseNextRequest
  PROVE  PairInv'
<1> DEFINE k == h.pod
<1>1. h.pc = "erase" /\ k \in Pods /\ UNCHANGED <<phase, bindPhase, ctrIndexes>>
  BY InCall DEF EraseNextRequest
<1>2. CASE Fail /\ UNCHANGED toAllocate
  <2>1. h'.pc = "settle" /\ h'.pod = k /\ ~h'.ok
    BY <1>2, HandshakeTypes DEF Fail, Handler
  <2>2. QED
    BY <1>1, <1>2, <2>1 DEF PairInv, Between, InStep, Untouched, Exists
<1>3. CASE /\ Matches /\ Exists(k)
           /\ toAllocate' = [toAllocate EXCEPT ![k] = Erased(k)]
           /\ h' = [h EXCEPT !.pc = "serve", !.req = Head(toAllocate[k])]
  <2>1. /\ toAllocate'[k] = Tail(toAllocate[k])
        /\ \A p \in Pods : p # k => toAllocate'[p] = toAllocate[p]
    BY <1>1, <1>3, HandshakeTypes DEF Erased
  <2>2. h'.pc = "serve" /\ h'.pod = k /\ h'.req = Head(toAllocate[k]) /\ h'.ctr = h.ctr
    BY <1>3, HandshakeTypes DEF Handler
  <2>3. toAllocate[k] # <<>> /\ ctrIndexes[k] = toAllocate[k] /\ h.ctr = Head(toAllocate[k])
    BY <1>1, <1>3 DEF Matches, PairInv
  <2>4. QED
    BY <1>1, <2>1, <2>2, <2>3 DEF PairInv, Between, InStep, Untouched, Exists
<1>4. QED
  BY <1>2, <1>3 DEF EraseNextRequest

\* The first index goes when another one is left; the last stays with no request.
LEMMA DeleteContainerIndexPairs ==
  ASSUME NodeInv, PairInv, DeleteContainerIndex, UNCHANGED apiFaults
  PROVE  PairInv'
<1> DEFINE k == h.pod
<1>1. /\ h.pc = "unindex" /\ k \in Pods /\ UNCHANGED <<phase, bindPhase, toAllocate>>
      /\ h'.pc = "settle" /\ h'.pod = k
  BY InCall DEF DeleteContainerIndex, Handler
<1>2. ctrIndexes' = [ctrIndexes EXCEPT ![k] = IndexesLeft(k)]
  BY HandshakeTypes DEF DeleteContainerIndex, ApiFault
<1>3. /\ ctrIndexes'[k] = IndexesLeft(k)
      /\ \A p \in Pods : p # k => ctrIndexes'[p] = ctrIndexes[p]
      /\ ctrIndexes[k] \in Seq(Containers)
  BY <1>1, <1>2 DEF NodeInv, TypeOK, ApiTypeOK
<1>4. ASSUME Exists(k) PROVE InStep(k)'
  <2>1. ctrIndexes[k] # <<>> /\ Tail(ctrIndexes[k]) = toAllocate[k]
    BY <1>1, <1>4 DEF PairInv
  <2>2. CASE Len(ctrIndexes[k]) > 1
    BY <1>1, <1>3, <1>4, <2>1, <2>2 DEF IndexesLeft, InStep
  <2>3. CASE ~(Len(ctrIndexes[k]) > 1)
    <3>1. Len(ctrIndexes[k]) \in Nat /\ Len(ctrIndexes[k]) # 0
      BY <1>3, <2>1, EmptySeq, LenProperties
    <3>2. Len(ctrIndexes[k]) = 1
      <4>1. \A n \in Nat : n # 0 /\ ~(n > 1) => n = 1
        OBVIOUS
      <4>2. QED
        BY <2>3, <3>1, <4>1, Zenon
    <3>3. toAllocate[k] = <<>>
      BY <1>3, <2>1, <3>2, LastOne
    <3>4. QED
      BY <1>1, <3>3 DEF InStep
  <2>4. QED
    BY <2>2, <2>3
<1>5. QED
  BY <1>1, <1>3, <1>4 DEF PairInv, Between, InStep, Untouched, Exists

LEMMA TrySuccessPairs ==
  ASSUME NodeInv, PairInv, TrySuccess, UNCHANGED apiFaults
  PROVE  PairInv'
<1> DEFINE k == h.pod
<1>1. h.pc = "settle" /\ h.ok /\ k \in Pods /\ UNCHANGED <<toAllocate, ctrIndexes>>
  BY InCall DEF TrySuccess
<1>2. CASE PatchBindPhase(k, "success") /\ h' = [h EXCEPT !.pc = "release"] /\ UNCHANGED phase
  <2>1. h'.pc = "release" /\ h'.pod = k
    BY <1>2, HandshakeTypes DEF Handler
  <2>2. \A p \in Pods : p # k => bindPhase'[p] = bindPhase[p]
    BY <1>1, <1>2, HandshakeTypes DEF PatchBindPhase
  <2>3. QED
    BY <1>1, <1>2, <2>1, <2>2 DEF PairInv, Between, InStep, Untouched, Exists
<1>3. CASE Answer(TRUE) /\ UNCHANGED bindPhase
  <2>1. h' = IdleHandler /\ \A p \in Pods : Exists(p)' => Exists(p)
    BY <1>3, AnswerGoes
  <2>2. \A p \in Pods : Between(p)
    BY <1>1 DEF Between
  <2>3. QED
    BY <1>1, <1>3, <2>1, <2>2, PairAnswered DEF PairInv, InStep, Untouched
<1>4. QED
  BY <1>2, <1>3 DEF TrySuccess

LEMMA AllocationFailedPairs ==
  ASSUME NodeInv, PairInv, AllocationFailed
  PROVE  PairInv'
<1> DEFINE k == h.pod
<1>1. /\ h.pc = "settle" /\ k \in Pods /\ UNCHANGED <<phase, toAllocate, ctrIndexes>>
      /\ h'.pc = "release" /\ h'.pod = k
  BY InCall DEF AllocationFailed, Handler
<1>2. \A p \in Pods : p # k => bindPhase'[p] = bindPhase[p]
  BY <1>1, HandshakeTypes DEF AllocationFailed, PatchBindPhase
<1>3. QED
  BY <1>1, <1>2 DEF PairInv, Between, InStep, Untouched, Exists

\* A pod that is given up is no longer marked as allocating.
LEMMA ReleaseNodeLockPairs ==
  ASSUME NodeInv, PairInv, StepInv, ReleaseNodeLock
  PROVE  PairInv'
<1>1. h.pc = "release" /\ UNCHANGED <<bindPhase, toAllocate, ctrIndexes>> /\ Answer(h.ok)
  BY DEF ReleaseNodeLock
<1>2. h' = IdleHandler /\ \A p \in Pods : Exists(p)' => Exists(p)
  BY <1>1, AnswerGoes, HandshakeTypes DEF Handler
<1>3. \A p \in Pods : Exists(p) /\ bindPhase[p] = "allocating" => Between(p)
  BY <1>1 DEF StepInv, Between
<1>4. QED
  BY <1>1, <1>2, <1>3, PairAnswered DEF PairInv, InStep, Untouched

LEMMA AllocatePairs ==
  ASSUME NodeInv, PairInv, LockInv, StepInv, AllocateStep, UNCHANGED apiFaults
  PROVE  PairInv'
<1>1. CASE ServeDevices \/ CreateVDevice \/ MarkVDevice
  <2>1. /\ UNCHANGED <<phase, bindPhase, toAllocate, ctrIndexes>>
        /\ h.pc \in {"serve", "create", "mark"}
    BY <1>1 DEF ServeDevices, CreateVDevice, MarkVDevice, apiVars
  <2>2. /\ h'.pod = h.pod /\ h'.ctr = h.ctr /\ h'.req = h.req
        /\ h'.pc \in {"create", "mark", "unindex"} \/ (h'.pc = "settle" /\ ~h'.ok)
    BY <1>1, HandshakeTypes DEF ServeDevices, CreateVDevice, MarkVDevice, Fail, Handler
  <2>3. QED
    BY <2>1, <2>2, PairMovesOn
<1>2. QED
  BY <1>1, GetPendingPodPairs, UpdateContainerIndexPairs, EraseNextRequestPairs,
     DeleteContainerIndexPairs, TrySuccessPairs, AllocationFailedPairs, ReleaseNodeLockPairs
     DEF AllocateStep

LEMMA EnvironmentPairs ==
  ASSUME NodeInv, PairInv, EnvironmentStep
  PROVE  PairInv'
<1>1. CASE ExpireLock \/ \E p \in Pods : AdmitPod(p)
  BY <1>1, PairQuiet DEF ExpireLock, AdmitPod, allocVars, apiVars, Exists
<1>2. CASE CallAllocate
  <2>1. /\ h.pc = "idle" /\ h'.pc = "pending" /\ h'.pod = h.pod
        /\ UNCHANGED <<phase, bindPhase, toAllocate, ctrIndexes>>
    BY <1>2, HandshakeTypes DEF CallAllocate, Handler, apiVars
  <2>2. QED
    BY <2>1, HandshakeTypes DEF PairInv, Between, InStep, Untouched, Exists
<1>3. ASSUME NEW p \in Pods, StartPod(p) \/ FinishPod(p) \/ UserDelete(p)
      PROVE  PairInv'
  <2>1. UNCHANGED <<bindPhase, toAllocate, ctrIndexes, h>>
    BY <1>3, PodStepQuiet DEF apiVars, allocVars
  <2>2. \A q \in Pods : Exists(q)' => Exists(q)
    BY <1>3, PodStepQuiet DEF Exists
  <2>3. QED
    BY <2>1, <2>2, PairQuiet
<1>4. ASSUME NEW p \in Pods, Schedule(p)
      PROVE  PairInv'
  <2>1. /\ UNCHANGED <<h, ctrIndexes>> /\ ~Born(p) /\ toAllocate'[p] = Order[p]
        /\ \A q \in Pods \ {p} : /\ phase'[q] = phase[q] /\ bindPhase'[q] = bindPhase[q]
                                 /\ toAllocate'[q] = toAllocate[q]
    BY <1>4, HandshakeTypes DEF Schedule, Born, allocVars
  <2>2. h.pc \notin {"idle", "pending"} => h.pod \in Pods \ {p}
    BY <2>1, InCall
  <2>3. QED
    BY <2>1, <2>2 DEF PairInv, Between, InStep, Untouched, Exists
<1>5. QED
  BY <1>1, <1>2, <1>3, <1>4 DEF EnvironmentStep

LEMMA IndicesStep ==
  ASSUME NodeInv, HandshakeInv, IndicesInv, [Next]_vars
  PROVE  IndicesInv'
<1> SUFFICES ASSUME NoApiFaults' PROVE PairInv'
  BY DEF IndicesInv, NoApiFaults
<1>1. PairInv /\ LockInv /\ StepInv /\ UNCHANGED apiFaults /\ ~Crash
  BY FaultsStay DEF HandshakeInv, IndicesInv
<1>2. CASE AllocateStep
  BY <1>1, <1>2, AllocatePairs
<1>3. ASSUME NEW r \in Refreshers, RefreshStep(r) PROVE PairInv'
  <2>1. UNCHANGED <<bindPhase, toAllocate, ctrIndexes, h>>
    BY <1>3, RefreshQuiet DEF apiVars, allocVars
  <2>2. \A p \in Pods : Exists(p)' => Exists(p)
    BY <1>3, RefreshQuiet DEF Exists
  <2>3. QED
    BY <1>1, <2>1, <2>2, PairQuiet
<1>4. CASE EnvironmentStep
  BY <1>1, <1>4, EnvironmentPairs
<1>5. CASE UNCHANGED vars
  BY <1>1, <1>5, PairQuiet DEF vars, apiVars, allocVars, Exists
<1>6. QED
  BY <1>1, <1>2, <1>3, <1>4, <1>5 DEF Next

LEMMA IndicesInvariant == Spec => []IndicesInv
<1>1. Init => IndicesInv
  BY DEF Init, IndicesInv, PairInv, IdleHandler, Exists
<1>2. QED
  BY <1>1, IndicesStep, HandshakeInvariant, NodeInvariant, PTL DEF Spec

-----------------------------------------------------------------------------
(* The vDCUs. *)

LEMMA VdcuStep ==
  ASSUME NodeInv, IndicesInv, VdcuInv, [Next]_vars
  PROVE  VdcuInv'
<1>1. NoApiFaults' => NoApiFaults
  BY FaultsStay
<1>2. CASE AllocateStep
  <2>1. CASE MarkVDevice
    <3>1. NoApiFaults => h.ctr = h.req
      BY <2>1 DEF MarkVDevice, IndicesInv, PairInv
    <3>2. QED
      BY <1>1, <2>1, <3>1, MarkVDeviceKeeps
  <2>2. CASE ServeDevices
    BY <1>1, <2>2, ServeDevicesKeeps
  <2>3. CASE CreateVDevice
    BY <1>1, <2>3, CreateVDeviceKeeps
  <2>4. ASSUME AllocateStep, ~MarkVDevice, ~ServeDevices, ~CreateVDevice PROVE VdcuInv'
    <3>1. UNCHANGED <<vdcus, reused, Known>>
      BY <2>4 DEF Known, AllocateStep, GetPendingPod, UpdateContainerIndex,
         EraseNextRequest, DeleteContainerIndex, TrySuccess, AllocationFailed, ReleaseNodeLock, nodeVars, refVars
    <3>2. CASE h' = IdleHandler
      BY <1>1, <3>1, <3>2, VdcuQuiet DEF IdleHandler
    <3>3. CASE h' # IdleHandler
      <4>1. \E pc \in {"index", "erase", "serve", "settle", "release"} :
              \/ \E p \in Pods : h' = [h EXCEPT !.pc = pc, !.pod = p]
              \/ \E c : h' = [h EXCEPT !.pc = pc, !.ctr = c]
              \/ \E c : h' = [h EXCEPT !.pc = pc, !.req = c]
              \/ h' = [h EXCEPT !.pc = pc, !.ok = FALSE]
              \/ h' = [h EXCEPT !.pc = pc]
        BY <2>4, <3>3
           DEF AllocateStep, GetPendingPod, NoPodFound, PendingPods, UpdateContainerIndex,
               EraseNextRequest, DeleteContainerIndex, TrySuccess, AllocationFailed,
               ReleaseNodeLock, Fail, Answer
      <4>2. h'.pc # "mark"
        BY <4>1, HandshakeTypes DEF Handler
      <4>3. QED
        BY <1>1, <3>1, <4>2, VdcuQuiet
    <3>4. QED
      BY <3>2, <3>3
  <2>5. QED
    BY <1>2, <2>1, <2>2, <2>3, <2>4
<1>3. CASE \E r \in Refreshers : RefreshStep(r)
  BY <1>1, <1>3, RefreshKeeps
<1>4. CASE EnvironmentStep
  <2>1. UNCHANGED <<vdcus, reused, Known>> /\ (h' = h \/ h'.pc # "mark")
    BY <1>4, HandshakeTypes
       DEF Known, EnvironmentStep, ExpireLock, CallAllocate, Schedule, AdmitPod, StartPod, FinishPod,
           UserDelete, nodeVars, allocVars, refVars, Handler
  <2>2. QED
    BY <1>1, <2>1, VdcuQuiet
<1>5. CASE Crash
  <2>1. /\ UNCHANGED <<vdcus, reused, marks>> /\ (h' = h \/ h'.pc # "mark")
        /\ \A r \in Refreshers : ref'[r] = IdleRefresher
    BY <1>5 DEF Crash, nodeVars, Answer, IdleHandler
  <2>2. Known' \subseteq Known
    BY <2>1, IdleOwnStep DEF Known
  <2>3. QED
    BY <1>1, <2>1, <2>2, VdcuQuiet
<1>6. CASE UNCHANGED vars
  <2>1. UNCHANGED <<vdcus, reused, h, Known>>
    BY <1>6 DEF vars, nodeVars, allocVars, refVars, Known
  <2>2. QED
    BY <1>1, <2>1, VdcuQuiet
<1>7. QED
  BY <1>2, <1>3, <1>4, <1>5, <1>6 DEF Next

LEMMA VdcuInvariant == Spec => []VdcuInv
<1>1. Init => VdcuInv
  BY DEF Init, VdcuInv, IdxInv, NamesInv, MakingInv, IdleHandler
<1>2. NodeInv /\ IndicesInv /\ VdcuInv /\ [Next]_vars => VdcuInv'
  BY VdcuStep
<1>3. QED
  BY <1>1, <1>2, IndicesInvariant, NodeInvariant, PTL DEF Spec

\* A mark file names the pod and the card of the vDCU that has its index, and the
\* container too while no request to the API server has failed, however many
\* refreshes run and whatever else fails, for every vDCU whose index nobody named
\* when it was made.
THEOREM MarksNameTheirVdcus == Spec => []MarkNamesItsVdcu
<1>1. VdcuInv => MarkNamesItsVdcu
  BY DEF VdcuInv, NamesInv, Fits, Own, Known, MarkNamesItsVdcu
<1>2. QED
  BY <1>1, VdcuInvariant, PTL

\* vDCUs go only when they are reclaimed.
LEMMA VdcusGrow ==
  ASSUME [Next]_vars, \A r \in Refreshers : ~StopVDevice(r) /\ ~DestroyVDevice(r)
  PROVE  vdcus \subseteq vdcus'
<1>1. CASE AllocateStep
  BY <1>1 DEF AllocateStep, GetPendingPod, UpdateContainerIndex, EraseNextRequest, ServeDevices,
     CreateVDevice, MarkVDevice, DeleteContainerIndex, TrySuccess, AllocationFailed,
     ReleaseNodeLock, nodeVars
<1>2. CASE \E r \in Refreshers : RefreshStep(r)
  BY <1>2 DEF RefreshStep, ReadDynamicDir, ListPods, RemoveMark, RemoveConf, DeletePod,
     EndRefresh, nodeVars
<1>3. CASE EnvironmentStep
  BY <1>3 DEF EnvironmentStep, ExpireLock, CallAllocate, Schedule, AdmitPod, StartPod, FinishPod,
     UserDelete, nodeVars
<1>4. CASE Crash \/ UNCHANGED vars
  BY <1>4 DEF Crash, vars, nodeVars
<1>5. QED
  BY <1>1, <1>2, <1>3, <1>4 DEF Next

LEMMA OwnStays ==
  ASSUME NodeInv, VdcuInv, [Next]_vars, NEW v \in vdcus, Own(v), phase[v.pod] \in Live
  PROVE  v \in vdcus'
<1>1. CASE \E r \in Refreshers : StopVDevice(r) \/ DestroyVDevice(r)
  <2>1. PICK r \in Refreshers : StopVDevice(r) \/ DestroyVDevice(r)
    BY <1>1
  <2>2. v \notin Busy(r)
    BY BusyIsNobodys DEF Live, Finished
  <2>3. QED
    BY <2>1, <2>2 DEF StopVDevice, DestroyVDevice
<1>2. QED
  BY <1>1, VdcusGrow

\* Such a vDCU is neither stopped nor destroyed while its pod lives: by any number
\* of refreshes, whose lists of files and of pods have any age, also when marks
\* cannot be removed, requests fail or the plugin dies.
THEOREM OwnVdcusKept == Spec => OwnVdcuKept
<1>1. NodeInv /\ VdcuInv /\ [Next]_vars =>
        [\A v \in vdcus :
           <<v.pod, v.ctr>> \notin reused /\ phase[v.pod] \in Live => v \in vdcus']_vars
  BY OwnStays DEF Own
<1>2. QED
  BY <1>1, VdcuInvariant, NodeInvariant, PTL DEF Spec, OwnVdcuKept

-----------------------------------------------------------------------------
(* Who was admitted is served. *)

\* A container that is to have a vDCU waits for its devices, has just been handed
\* them, is served, or belongs to an allocation that was given up.
Due(p, c) == phase[p] \in Live /\ c \in CtrsOf(p) /\ NeedsVdcu(p, c)
GivenUp(p) == bindPhase[p] = "failed" \/ (h.pod = p /\ ~h.ok)
Handed(p, c) == h.pod = p /\ h.req = c /\ h.pc \in {"serve", "create", "mark"}
DueInv ==
  \A p \in Pods, c \in Containers :
    Due(p, c) => GivenUp(p) \/ Waits(toAllocate[p], c) \/ Handed(p, c) \/ Served(p, c)

\* An allocation ends as a success, with nothing left to take, or is given up.
EndInv ==
  /\ ~h.ok => h.pc \in {"settle", "release"}
  /\ \A p \in admitted : Exists(p) => bindPhase[p] = "success" /\ toAllocate[p] = <<>>
  /\ h.pc = "release" /\ Exists(h.pod) =>
       IF h.ok THEN bindPhase[h.pod] = "success" /\ toAllocate[h.pod] = <<>>
               ELSE bindPhase[h.pod] = "failed"
ServedInv == NoFaults => DueInv /\ EndInv

LEMMA NoFaultHappens ==
  ASSUME NodeInv, [Next]_vars, NoFaults'
  PROVE  /\ NoFaults /\ UNCHANGED apiFaults /\ ~Crash
         /\ ~ApiFault /\ ~NodeFault
<1>1. NoApiFaults' /\ apiFaults \in Nat /\ nodeFaults \in Nat
  BY DEF NoFaults, NoApiFaults, NodeInv, TypeOK, FaultTypeOK
<1>2. NoApiFaults /\ UNCHANGED apiFaults /\ ~Crash
  BY <1>1, FaultsStay
<1>3. nodeFaults' = nodeFaults \/ nodeFaults' = nodeFaults + 1
  <2>1. CASE AllocateStep
    BY <2>1 DEF AllocateStep, GetPendingPod, UpdateContainerIndex, EraseNextRequest, ServeDevices,
       CreateVDevice, MarkVDevice, MarkFault, DeleteContainerIndex, TrySuccess,
       AllocationFailed, ReleaseNodeLock, NodeFault
  <2>2. CASE \E r \in Refreshers : RefreshStep(r)
    BY <2>2 DEF RefreshStep, ReadDynamicDir, ListPods, RemoveMark, StopVDevice, DestroyVDevice,
       RemoveConf, DeletePod, EndRefresh, NodeFault, faultVars
  <2>3. CASE EnvironmentStep
    BY <2>3 DEF EnvironmentStep, ExpireLock, CallAllocate, Schedule, AdmitPod, StartPod, FinishPod,
       UserDelete, faultVars
  <2>4. CASE UNCHANGED vars
    BY <2>4 DEF vars, faultVars
  <2>5. QED
    BY <1>2, <2>1, <2>2, <2>3, <2>4 DEF Next
<1>4. nodeFaults' = 0 /\ apiFaults' = 0
  BY DEF NoFaults
<1>5. nodeFaults = 0 /\ nodeFaults' = nodeFaults
  BY <1>1, <1>3, <1>4
<1>6. QED
  BY <1>2, <1>4, <1>5 DEF NoFaults, NoApiFaults, ApiFault, NodeFault

\* Which containers got a named index is not forgotten.
LEMMA ReusedGrows == [Next]_vars => reused \subseteq reused'
<1> SUFFICES ASSUME [Next]_vars PROVE reused \subseteq reused'
  OBVIOUS
<1>1. CASE AllocateStep
  BY <1>1 DEF AllocateStep, GetPendingPod, UpdateContainerIndex, EraseNextRequest, ServeDevices,
     CreateVDevice, MarkVDevice, DeleteContainerIndex, TrySuccess, AllocationFailed,
     ReleaseNodeLock, nodeVars
<1>2. CASE \E r \in Refreshers : RefreshStep(r)
  BY <1>2 DEF RefreshStep, ReadDynamicDir, ListPods, RemoveMark, StopVDevice, DestroyVDevice,
     RemoveConf, DeletePod, EndRefresh, nodeVars
<1>3. CASE EnvironmentStep \/ Crash \/ UNCHANGED vars
  BY <1>3 DEF EnvironmentStep, ExpireLock, CallAllocate, Schedule, AdmitPod, StartPod, FinishPod,
     UserDelete, Crash, vars, nodeVars
<1>4. QED
  BY <1>1, <1>2, <1>3 DEF Next

\* A container that lives keeps its mark, and its vDCU if it is its own.
LEMMA ServedStays ==
  ASSUME NodeInv, VdcuInv, [Next]_vars, NEW p \in Pods, NEW c \in Containers,
         phase[p] \in Live, Served(p, c)
  PROVE  Served(p, c)'
<1>1. PICK m \in marks :
        /\ m.pod = p /\ m.ctr = c /\ m.vdev \in VIdx
        /\ <<p, c>> \notin reused =>
             \E v \in vdcus : v.idx = m.vdev /\ v.pod = p /\ v.ctr = c /\ v.up
  BY DEF Served
<1>2. m \in marks'
  <2>1. CASE \E r \in Refreshers : RemoveMark(r)
    <3>1. PICK r \in Refreshers : RemoveMark(r)
      BY <2>1
    <3>2. PICK n \in ref[r].todo : marks' = marks \ {n} \/ marks' = marks
      BY <3>1 DEF RemoveMark
    <3>3. n # m
      BY <1>1, RefresherType DEF Live, Finished
    <3>4. QED
      BY <3>2, <3>3
  <2>2. QED
    BY <2>1, MarksGrow
<1>3. ASSUME <<p, c>> \notin reused'
      PROVE  \E v \in vdcus' : v.idx = m.vdev /\ v.pod = p /\ v.ctr = c /\ v.up
  <2>1. <<p, c>> \notin reused
    BY <1>3, ReusedGrows
  <2>2. PICK v \in vdcus : v.idx = m.vdev /\ v.pod = p /\ v.ctr = c /\ v.up
    BY <1>1, <2>1
  <2>3. v \in vdcus'
    BY <2>1, <2>2, OwnStays DEF Own
  <2>4. QED
    BY <2>2, <2>3
<1>4. QED
  BY <1>1, <1>2, <1>3 DEF Served

\* The devices of no container are lost sight of in a step that takes none.
LEMMA DueKeeps ==
  ASSUME NodeInv, VdcuInv, DueInv, [Next]_vars, UNCHANGED toAllocate,
         \A p \in Pods : phase'[p] \in Live => phase[p] \in Live,
         \A p \in Pods : phase'[p] \in Live /\ GivenUp(p) => GivenUp(p)',
         \A p \in Pods, c \in Containers :
           phase'[p] \in Live /\ NeedsVdcu(p, c) /\ Handed(p, c) =>
             GivenUp(p)' \/ Handed(p, c)' \/ Served(p, c)'
  PROVE  DueInv'
<1> SUFFICES ASSUME NEW p \in Pods, NEW c \in Containers, Due(p, c)'
             PROVE  GivenUp(p)' \/ Waits(toAllocate'[p], c) \/ Handed(p, c)' \/ Served(p, c)'
  BY DEF DueInv
<1>1. Due(p, c) /\ phase[p] \in Live /\ phase'[p] \in Live
  BY DEF Due
<1>2. CASE GivenUp(p)
  BY <1>1, <1>2
<1>3. CASE Waits(toAllocate[p], c)
  BY <1>3
<1>4. CASE Handed(p, c)
  BY <1>1, <1>4 DEF Due
<1>5. CASE Served(p, c)
  BY <1>1, <1>5, ServedStays
<1>6. QED
  BY <1>1, <1>2, <1>3, <1>4, <1>5 DEF DueInv

\* The same for a step after which the call is as it was.
LEMMA DueQuiet ==
  ASSUME NodeInv, VdcuInv, DueInv, [Next]_vars, UNCHANGED <<bindPhase, toAllocate, h>>,
         \A p \in Pods : phase'[p] \in Live => phase[p] \in Live
  PROVE  DueInv'
<1>1. /\ \A p \in Pods : GivenUp(p) => GivenUp(p)'
      /\ \A p \in Pods, c \in Containers : Handed(p, c) => Handed(p, c)'
  BY DEF GivenUp, Handed
<1>2. QED
  BY <1>1, DueKeeps

LEMMA EndKeeps ==
  ASSUME NodeInv, EndInv, UNCHANGED <<bindPhase, toAllocate, admitted>>,
         \A p \in Pods : Exists(p)' => Exists(p),
         h' = h \/ (h'.pc # "release" /\ (~h'.ok => h'.pc = "settle"))
  PROVE  EndInv'
<1>1. h.pc = "release" => h.pod \in Pods
  BY InCall
<1>2. admitted \subseteq Pods
  BY HandshakeTypes
<1>3. QED
  BY <1>1, <1>2 DEF EndInv

\* What the steps of the section are taken from, when nothing fails.
Undisturbed ==
  /\ NodeInv /\ LockInv /\ StepInv /\ PairInv /\ VdcuInv /\ DueInv /\ EndInv
  /\ ~ApiFault /\ ~NodeFault

\* A call that is over leaves its allocation as it ended.
LEMMA AnswerServes ==
  ASSUME Undisturbed, [Next]_vars, UNCHANGED <<bindPhase, toAllocate>>,
         h.pc \notin {"idle", "serve", "create", "mark"}, NEW ok \in BOOLEAN, Answer(ok),
         h.pod \in Pods /\ Exists(h.pod) => h.ok \/ bindPhase[h.pod] = "failed",
         ok /\ Len(kubelet.left) = 1 /\ Exists(kubelet.pod) =>
           bindPhase[kubelet.pod] = "success" /\ toAllocate[kubelet.pod] = <<>>
  PROVE  DueInv' /\ EndInv'
<1> USE DEF Undisturbed
<1>1. h' = IdleHandler /\ \A p \in Pods : Exists(p)' => Exists(p)
  BY AnswerGoes
<1>2. \A p \in Pods : phase'[p] \in Live => phase[p] \in Live /\ Exists(p)
  <2>1. \A p \in Pods : phase'[p] = phase[p] \/ phase'[p] = "Failed"
    BY HandshakeTypes DEF Answer, FailAdmission
  <2>2. QED
    BY <2>1 DEF Exists, Live
<1>3. \A p \in Pods : phase'[p] \in Live /\ GivenUp(p) => GivenUp(p)'
  BY <1>2 DEF GivenUp
<1>4. \A p \in Pods, c \in Containers : ~Handed(p, c)
  BY DEF Handed
<1>5. DueInv'
  BY <1>2, <1>3, <1>4, DueKeeps
<1>6. h'.pc = "idle" /\ h'.ok
  BY <1>1 DEF IdleHandler
<1>7. \/ admitted' = admitted
      \/ ok /\ Len(kubelet.left) = 1 /\ admitted' = admitted \cup {kubelet.pod}
  BY DEF Answer, FailAdmission
<1>8. admitted \subseteq Pods /\ kubelet.pod \in Pods
  BY HandshakeTypes DEF HandlerOK
<1>9. \A p \in admitted' : Exists(p)' => bindPhase[p] = "success" /\ toAllocate[p] = <<>>
  BY <1>1, <1>7, <1>8 DEF EndInv
<1>10. QED
  BY <1>5, <1>6, <1>9 DEF EndInv

\* Steps at which the call only moves on.
LEMMA CallMovesOn ==
  ASSUME Undisturbed, [Next]_vars, UNCHANGED <<phase, bindPhase, toAllocate, admitted>>,
         h'.pc # "release", ~h'.ok => h'.pc = "settle",
         ~h.ok => ~h'.ok /\ h'.pod = h.pod,
         \A p \in Pods, c \in Containers :
           phase[p] \in Live /\ NeedsVdcu(p, c) /\ Handed(p, c) =>
             GivenUp(p)' \/ Handed(p, c)' \/ Served(p, c)'
  PROVE  DueInv' /\ EndInv'
<1> USE DEF Undisturbed
<1>1. \A p \in Pods : GivenUp(p) => GivenUp(p)'
  BY DEF GivenUp
<1>2. DueInv'
  <2>1. /\ UNCHANGED toAllocate
        /\ \A p \in Pods : phase'[p] = phase[p]
    OBVIOUS
  <2>2. QED
    BY <1>1, <2>1, DueKeeps
<1>3. EndInv'
  BY EndKeeps DEF Exists
<1>4. QED
  BY <1>2, <1>3

LEMMA GetPendingPodServes ==
  ASSUME Undisturbed, [Next]_vars, GetPendingPod
  PROVE  DueInv' /\ EndInv'
<1> USE DEF Undisturbed
<1>1. /\ h.pc = "pending" /\ h.ok /\ h.pod = NoPod /\ NoPod \notin Pods /\ kubelet.pod \in Pods
      /\ UNCHANGED <<bindPhase, toAllocate>>
  BY HandshakeTypes DEF GetPendingPod, apiVars, EndInv, PairInv, HandlerOK
<1>2. CASE NoPodFound
  <2>1. ~Exists(kubelet.pod)
    BY <1>1, <1>2, HandshakeTypes DEF NoPodFound, PendingPods, StepInv, Asked
  <2>2. QED
    BY <1>1, <1>2, <2>1, AnswerServes DEF NoPodFound
<1>3. ASSUME NEW p \in PendingPods, h' = [h EXCEPT !.pc = "index", !.pod = p],
             UNCHANGED <<phase, kubelet, admitted>>
      PROVE  DueInv' /\ EndInv'
  <2>1. h'.pc = "index" /\ h'.ok
    BY <1>1, <1>3, HandshakeTypes DEF Handler
  <2>2. \A q \in Pods, c \in Containers : ~Handed(q, c)
    BY <1>1 DEF Handed
  <2>3. QED
    BY <1>1, <1>3, <2>1, <2>2, CallMovesOn
<1>4. QED
  BY <1>2, <1>3 DEF GetPendingPod

LEMMA UpdateContainerIndexServes ==
  ASSUME Undisturbed, [Next]_vars, UpdateContainerIndex
  PROVE  DueInv' /\ EndInv'
<1> USE DEF Undisturbed
<1>1. h.pc = "index" /\ h.ok /\ h \in Handler /\ UNCHANGED <<bindPhase, toAllocate>>
  BY HandshakeTypes DEF UpdateContainerIndex, EndInv
<1>2. CASE Answer(FALSE)
  BY <1>1, <1>2, AnswerServes
<1>3. ASSUME NEW c, h' = [h EXCEPT !.pc = "erase", !.ctr = c], UNCHANGED <<phase, kubelet, admitted>>
      PROVE  DueInv' /\ EndInv'
  <2>1. h'.pc = "erase" /\ h'.ok
    BY <1>1, <1>3 DEF Handler
  <2>2. \A q \in Pods, d \in Containers : ~Handed(q, d)
    BY <1>1 DEF Handed
  <2>3. QED
    BY <1>1, <1>3, <2>1, <2>2, CallMovesOn
<1>4. QED
  BY <1>2, <1>3 DEF UpdateContainerIndex

\* Who waits in a queue is its head or waits in the rest.
LEMMA HeadOrTail ==
  ASSUME NEW S, NEW s \in Seq(S), NEW c, Waits(s, c), s # <<>>
  PROVE  c = Head(s) \/ Waits(Tail(s), c)
<1>1. Tail(s) \in Seq(S) /\ Len(Tail(s)) = Len(s) - 1 /\ Len(s) \in Nat
  BY HeadTailProperties, LenProperties
<1>2. PICK n \in 1..Len(s) : s[n] = c
  BY LenProperties DEF Waits
<1>3. CASE n = 1
  BY <1>2, <1>3
<1>4. CASE n # 1
  <2>1. n - 1 \in 1..Len(Tail(s)) /\ Tail(s)[n - 1] = s[n]
    BY <1>1, <1>2, <1>4
  <2>2. DOMAIN Tail(s) = 1..Len(Tail(s))
    BY <1>1, LenProperties
  <2>3. QED
    BY <1>2, <2>1, <2>2 DEF Waits
<1>5. QED
  BY <1>3, <1>4

\* What leaves the annotation is in the hands of the call.
LEMMA EraseNextRequestServes ==
  ASSUME Undisturbed, [Next]_vars, EraseNextRequest
  PROVE  DueInv' /\ EndInv'
<1> USE DEF Undisturbed
<1> DEFINE k == h.pod
<1>1. /\ h.pc = "erase" /\ h.ok /\ h \in Handler /\ k \in Pods
      /\ UNCHANGED <<phase, bindPhase, admitted>>
      /\ toAllocate \in [Pods -> Seq(Containers)]
  BY InCall, HandshakeTypes DEF EraseNextRequest, EndInv
<1>2. CASE Fail /\ UNCHANGED toAllocate
  <2>1. h'.pc = "settle"
    BY <1>1, <1>2 DEF Fail, Handler
  <2>2. \A p \in Pods, c \in Containers : ~Handed(p, c)
    BY <1>1 DEF Handed
  <2>3. QED
    BY <1>1, <1>2, <2>1, <2>2, CallMovesOn
<1>3. CASE /\ Matches /\ Exists(k)
           /\ toAllocate' = [toAllocate EXCEPT ![k] = Erased(k)]
           /\ h' = [h EXCEPT !.pc = "serve", !.req = Head(toAllocate[k])]
  <2>1. /\ toAllocate[k] # <<>> /\ toAllocate'[k] = Tail(toAllocate[k])
        /\ \A p \in Pods : p # k => toAllocate'[p] = toAllocate[p]
        /\ h'.pc = "serve" /\ h'.pod = k /\ h'.req = Head(toAllocate[k]) /\ h'.ok
    BY <1>1, <1>3 DEF Matches, Erased, Handler
  <2>2. ASSUME NEW p \in Pods, NEW c \in Containers, Due(p, c)'
        PROVE  GivenUp(p)' \/ Waits(toAllocate'[p], c) \/ Handed(p, c)' \/ Served(p, c)'
    <3>1. Due(p, c) /\ ~Handed(p, c)
      BY <1>1, <2>2 DEF Due, Handed
    <3>2. CASE GivenUp(p)
      BY <1>1, <3>2 DEF GivenUp
    <3>3. CASE Waits(toAllocate[p], c)
      <4>1. CASE p = k
        <5>1. c = Head(toAllocate[k]) \/ Waits(Tail(toAllocate[k]), c)
          BY <1>1, <2>1, <3>3, <4>1, HeadOrTail
        <5>2. QED
          BY <2>1, <4>1, <5>1 DEF Handed
      <4>2. CASE p # k
        BY <2>1, <3>3, <4>2
      <4>3. QED
        BY <4>1, <4>2
    <3>4. CASE Served(p, c)
      BY <3>1, <3>4, ServedStays DEF Due
    <3>5. QED
      BY <3>1, <3>2, <3>3, <3>4 DEF DueInv
  <2>3. DueInv'
    BY <2>2 DEF DueInv
  <2>4. k \notin admitted
    BY <1>1, <1>3, <2>1 DEF EndInv
  <2>5. EndInv'
    BY <1>1, <2>1, <2>4, HandshakeTypes DEF EndInv, Exists
  <2>6. QED
    BY <2>3, <2>5
<1>4. QED
  BY <1>2, <1>3 DEF EraseNextRequest

\* From the annotation to the mark, the call holds on to what it has taken.
LEMMA ServingServes ==
  ASSUME Undisturbed, [Next]_vars, ServeDevices \/ CreateVDevice \/ MarkVDevice
  PROVE  DueInv' /\ EndInv'
<1> USE DEF Undisturbed
<1>1. /\ UNCHANGED <<phase, bindPhase, toAllocate, admitted>> /\ h \in Handler /\ h.ok
      /\ h.pc \in {"serve", "create", "mark"}
  BY HandshakeTypes DEF ServeDevices, CreateVDevice, MarkVDevice, apiVars, EndInv
<1>2. /\ h'.pod = h.pod /\ h'.req = h.req
      /\ (h'.ok /\ h'.pc \in {"create", "mark", "unindex"}) \/ (~h'.ok /\ h'.pc = "settle")
  BY <1>1 DEF ServeDevices, CreateVDevice, MarkVDevice, Fail, Handler
<1>3. ASSUME NEW p \in Pods, NEW c \in Containers, NeedsVdcu(p, c), Handed(p, c)
      PROVE  GivenUp(p)' \/ Handed(p, c)' \/ Served(p, c)'
  <2>1. h.pod = p /\ h.req = c
    BY <1>3 DEF Handed
  <2>2. CASE ServeDevices
    <3>1. h'.pc = "create"
      BY <1>1, <1>3, <2>1, <2>2 DEF ServeDevices, Handler
    <3>2. QED
      BY <1>2, <2>1, <3>1 DEF Handed
  <2>3. CASE CreateVDevice
    <3>1. h'.pc = "mark" \/ ~h'.ok
      BY <1>1, <2>3 DEF CreateVDevice, Fail, Handler
    <3>2. QED
      BY <1>2, <2>1, <3>1 DEF Handed, GivenUp
  <2>4. CASE MarkVDevice
    <3>1. VdcuMark \in marks' /\ vdcus' = vdcus /\ h.pc = "mark"
      BY <2>4 DEF MarkVDevice, MarkFault, WriteMarks
    <3>2. h.ctr = h.req /\ h.vdev \in VIdx
      BY <1>1, <3>1 DEF PairInv, NodeInv, HandlerOK, Handler
    <3>3. ASSUME <<p, c>> \notin reused'
          PROVE  \E v \in vdcus' : v.idx = h.vdev /\ v.pod = p /\ v.ctr = c /\ v.up
      BY <2>1, <2>4, <3>1, <3>3 DEF MarkVDevice, VdcuInv, MakingInv, MadeBy
    <3>4. QED
      BY <2>1, <3>1, <3>2, <3>3 DEF Served, VdcuMark
  <2>5. QED
    BY <2>2, <2>3, <2>4
<1>4. QED
  BY <1>1, <1>2, <1>3, CallMovesOn

LEMMA DeleteContainerIndexServes ==
  ASSUME Undisturbed, [Next]_vars, DeleteContainerIndex
  PROVE  DueInv' /\ EndInv'
<1> USE DEF Undisturbed
<1>1. /\ h.pc = "unindex" /\ h.ok /\ h'.pc = "settle"
      /\ UNCHANGED <<phase, bindPhase, toAllocate, admitted>>
  BY HandshakeTypes DEF DeleteContainerIndex, EndInv, Handler
<1>2. \A p \in Pods, c \in Containers : ~Handed(p, c)
  BY <1>1 DEF Handed
<1>3. QED
  BY <1>1, <1>2, CallMovesOn

\* Success is written only when nothing is left to take.
LEMMA TrySuccessServes ==
  ASSUME Undisturbed, [Next]_vars, TrySuccess
  PROVE  DueInv' /\ EndInv'
<1> USE DEF Undisturbed
<1> DEFINE k == h.pod
<1>1. /\ h.pc = "settle" /\ h.ok /\ k = kubelet.pod /\ k \in Pods /\ k # NoPod
      /\ k \notin admitted /\ UNCHANGED toAllocate
  BY InCall DEF TrySuccess, StepInv, LockInv
<1>2. Exists(k) => bindPhase[k] = "allocating" /\ toAllocate[k] = Tail(kubelet.left)
  BY <1>1 DEF StepInv, Asked
<1>3. CASE /\ AllTaken(k) /\ PatchBindPhase(k, "success") /\ h' = [h EXCEPT !.pc = "release"]
           /\ UNCHANGED <<phase, kubelet, admitted>>
  <2>1. /\ toAllocate[k] = <<>> /\ bindPhase[k] = "allocating" /\ bindPhase'[k] = "success"
        /\ \A p \in Pods : p # k => bindPhase'[p] = bindPhase[p]
    BY <1>1, <1>2, <1>3, HandshakeTypes DEF AllTaken, PatchBindPhase
  <2>2. h'.pc = "release" /\ h'.pod = k /\ h'.ok
    BY <1>1, <1>3, HandshakeTypes DEF Handler
  <2>3. \A p \in Pods : GivenUp(p) => GivenUp(p)'
    BY <1>1, <2>1 DEF GivenUp
  <2>4. \A p \in Pods, c \in Containers : ~Handed(p, c)
    BY <1>1 DEF Handed
  <2>5. DueInv'
    BY <1>1, <1>3, <2>3, <2>4, DueKeeps
  <2>6. EndInv'
    BY <1>1, <1>3, <2>1, <2>2, HandshakeTypes DEF EndInv, Exists
  <2>7. QED
    BY <2>5, <2>6
<1>4. CASE ~AllTaken(k) /\ Answer(TRUE) /\ UNCHANGED bindPhase
  <2>1. kubelet.left \in Seq(Containers) /\ kubelet.left # <<>>
    BY <1>1, HandshakeTypes DEF HandlerOK
  <2>2. Exists(k) => Len(kubelet.left) # 1
    BY <1>1, <1>2, <1>4, <2>1, LastOne DEF AllTaken
  <2>3. QED
    BY <1>1, <1>4, <2>2, AnswerServes
<1>5. QED
  BY <1>3, <1>4 DEF TrySuccess

LEMMA AllocationFailedServes ==
  ASSUME Undisturbed, [Next]_vars, AllocationFailed
  PROVE  DueInv' /\ EndInv'
<1> USE DEF Undisturbed
<1> DEFINE k == h.pod
<1>1. /\ h.pc = "settle" /\ ~h.ok /\ k = kubelet.pod /\ k \in Pods /\ k \notin admitted
      /\ UNCHANGED <<phase, toAllocate, admitted>>
  BY InCall DEF AllocationFailed, StepInv, LockInv
<1>2. h'.pc = "release" /\ h'.pod = k /\ ~h'.ok
  BY <1>1, HandshakeTypes DEF AllocationFailed, Handler
<1>3. bindPhase' = IF Exists(k) THEN [bindPhase EXCEPT ![k] = "failed"] ELSE bindPhase
  BY DEF AllocationFailed, PatchBindPhase
<1>4. /\ Exists(k) => bindPhase'[k] = "failed"
      /\ \A p \in Pods : p # k => bindPhase'[p] = bindPhase[p]
  BY <1>1, <1>3, HandshakeTypes
<1>5. \A p \in Pods : GivenUp(p) => GivenUp(p)'
  BY <1>1, <1>2, <1>4 DEF GivenUp
<1>6. \A p \in Pods, c \in Containers : ~Handed(p, c)
  BY <1>1 DEF Handed
<1>7. DueInv'
  BY <1>1, <1>5, <1>6, DueKeeps
<1>8. EndInv'
  BY <1>1, <1>2, <1>4, HandshakeTypes DEF EndInv, Exists
<1>9. QED
  BY <1>7, <1>8

LEMMA ReleaseNodeLockServes ==
  ASSUME Undisturbed, [Next]_vars, ReleaseNodeLock
  PROVE  DueInv' /\ EndInv'
<1>1. /\ h.pc = "release" /\ h.ok \in BOOLEAN /\ h.pod = kubelet.pod
      /\ UNCHANGED <<bindPhase, toAllocate>> /\ Answer(h.ok)
  BY InCall DEF Undisturbed, ReleaseNodeLock, StepInv, Handler
<1>2. QED
  BY <1>1, AnswerServes DEF Undisturbed, EndInv

LEMMA CallServes ==
  ASSUME Undisturbed, [Next]_vars, AllocateStep
  PROVE  DueInv' /\ EndInv'
  BY GetPendingPodServes, UpdateContainerIndexServes, EraseNextRequestServes, ServingServes,
     DeleteContainerIndexServes, TrySuccessServes, AllocationFailedServes, ReleaseNodeLockServes
     DEF AllocateStep

\* Around a call, pods only come with a full queue or cease to live.
LEMMA PodsServe ==
  ASSUME Undisturbed, [Next]_vars, UNCHANGED <<bindPhase, toAllocate, h, admitted>>,
         \A p \in Pods : phase'[p] = phase[p] \/ (Exists(p) /\ phase'[p] \notin Live)
                                             \/ (phase[p] \in Live /\ phase'[p] \in Live)
  PROVE  DueInv' /\ EndInv'
<1> USE DEF Undisturbed
<1>1. \A p \in Pods : /\ phase'[p] \in Live => phase[p] \in Live
                      /\ Exists(p)' => Exists(p)
  BY DEF Exists, Live
<1>2. DueInv'
  BY <1>1, DueQuiet
<1>3. EndInv'
  BY <1>1, EndKeeps
<1>4. QED
  BY <1>2, <1>3

LEMMA ScheduleServes ==
  ASSUME Undisturbed, [Next]_vars, NEW p \in Pods, Schedule(p)
  PROVE  DueInv' /\ EndInv'
<1> USE DEF Undisturbed
<1>1. /\ UNCHANGED <<h, admitted>> /\ ~Born(p) /\ p \notin admitted /\ h.pod # p
      /\ toAllocate'[p] = Order[p]
      /\ \A q \in Pods : q # p => /\ phase'[q] = phase[q] /\ bindPhase'[q] = bindPhase[q]
                                  /\ toAllocate'[q] = toAllocate[q]
  BY HandshakeTypes, ConstantsAssumption DEF Schedule, allocVars, LockInv, Born, HandlerOK
<1>2. ASSUME NEW q \in Pods, NEW c \in Containers, Due(q, c)'
      PROVE  GivenUp(q)' \/ Waits(toAllocate'[q], c) \/ Handed(q, c)' \/ Served(q, c)'
  <2>1. CASE q = p
    BY <1>1, <1>2, <2>1 DEF Due, CtrsOf, Waits
  <2>2. CASE q # p
    <3>1. Due(q, c)
      BY <1>1, <1>2, <2>2 DEF Due
    <3>2. CASE Served(q, c)
      BY <3>1, <3>2, ServedStays DEF Due
    <3>3. QED
      BY <1>1, <2>2, <3>1, <3>2 DEF DueInv, GivenUp, Handed
  <2>3. QED
    BY <2>1, <2>2
<1>3. DueInv'
  BY <1>2 DEF DueInv
<1>4. EndInv'
  <2>1. h.pc = "release" => h.pod \in Pods
    BY InCall
  <2>2. QED
    BY <1>1, <2>1, HandshakeTypes DEF EndInv, Exists
<1>5. QED
  BY <1>3, <1>4

LEMMA AroundServes ==
  ASSUME Undisturbed, [Next]_vars, EnvironmentStep
  PROVE  DueInv' /\ EndInv'
<1> USE DEF Undisturbed
<1>1. CASE CallAllocate
  <2>1. h.pc = "idle" /\ h.ok /\ h'.pc = "pending" /\ h'.ok
        /\ UNCHANGED <<phase, bindPhase, toAllocate, admitted>>
    BY <1>1, HandshakeTypes DEF CallAllocate, Handler, apiVars, EndInv
  <2>2. \A p \in Pods, c \in Containers : ~Handed(p, c)
    BY <2>1 DEF Handed
  <2>3. QED
    BY <2>1, <2>2, CallMovesOn
<1>2. CASE ExpireLock \/ \E p \in Pods : AdmitPod(p)
  BY <1>2, PodsServe DEF ExpireLock, AdmitPod, allocVars, apiVars
<1>3. ASSUME NEW p \in Pods, StartPod(p) \/ FinishPod(p) \/ UserDelete(p)
      PROVE  DueInv' /\ EndInv'
  <2>1. /\ UNCHANGED <<bindPhase, toAllocate, h, admitted>>
        /\ \A q \in Pods : q # p => phase'[q] = phase[q]
        /\ Exists(p) /\ (phase'[p] = "gone" \/ phase[p] \in Live)
    BY <1>3, PodStepQuiet DEF apiVars, allocVars, Live
  <2>2. \A q \in Pods : phase'[q] = phase[q] \/ (Exists(q) /\ phase'[q] \notin Live)
                                             \/ (phase[q] \in Live /\ phase'[q] \in Live)
    BY <2>1 DEF Live
  <2>3. QED
    BY <2>1, <2>2, PodsServe
<1>4. QED
  BY <1>1, <1>2, <1>3, ScheduleServes DEF EnvironmentStep

LEMMA ServedStep ==
  ASSUME NodeInv, HandshakeInv, IndicesInv, VdcuInv, ServedInv, [Next]_vars
  PROVE  ServedInv'
<1> SUFFICES ASSUME NoFaults' PROVE DueInv' /\ EndInv'
  BY DEF ServedInv, NoFaults
<1>1. NoFaults /\ ~Crash /\ ~ApiFault /\ ~NodeFault
  BY NoFaultHappens
<1>2. Undisturbed
  BY <1>1 DEF Undisturbed, NoFaults, NoApiFaults, HandshakeInv, IndicesInv, ServedInv
<1>3. CASE AllocateStep
  BY <1>2, <1>3, CallServes
<1>4. ASSUME NEW r \in Refreshers, RefreshStep(r) PROVE DueInv' /\ EndInv'
  <2>1. UNCHANGED <<bindPhase, toAllocate, h, admitted>>
    BY <1>4, RefreshQuiet DEF apiVars, allocVars
  <2>2. \A p \in Pods : phase'[p] = phase[p] \/ (Exists(p) /\ phase'[p] \notin Live)
    BY <1>4, RefreshQuiet DEF Live
  <2>3. QED
    BY <1>2, <2>1, <2>2, PodsServe
<1>5. CASE EnvironmentStep
  BY <1>2, <1>5, AroundServes
<1>6. CASE UNCHANGED vars
  BY <1>2, <1>6, PodsServe DEF vars, apiVars, allocVars
<1>7. QED
  BY <1>1, <1>3, <1>4, <1>5, <1>6 DEF Next

LEMMA ServedInvariant == Spec => []ServedInv
<1>1. Init => ServedInv
  BY DEF Init, ServedInv, DueInv, Due, EndInv, IdleHandler, Live
<1>2. QED
  BY <1>1, ServedStep, VdcuInvariant, IndicesInvariant, HandshakeInvariant, NodeInvariant, PTL
     DEF Spec

\* While nothing fails, kubelet admits a pod only with a mark that has an index for
\* each container that needs a vDCU, and with the running vDCU under that index if
\* nobody named the index when it was made: no container is left out by the order of
\* taking, making and marking, when the driver has no index left, or by any number
\* of refreshes.
THEOREM AdmittedAreServed == Spec => []AdmittedServed
<1>1. NodeInv /\ HandshakeInv /\ ServedInv => AdmittedServed
  <2> SUFFICES ASSUME NodeInv, HandshakeInv, ServedInv, NoFaults, NEW p \in admitted,
                      NEW c \in Containers, Due(p, c)
               PROVE  Served(p, c)
    BY DEF AdmittedServed, Due
  <2>1. LockInv /\ StepInv /\ DueInv /\ EndInv
    BY DEF HandshakeInv, ServedInv, NoFaults, NoApiFaults
  <2>2. p \in Pods /\ Exists(p)
    BY HandshakeTypes DEF Due, Live, Exists
  <2>3. bindPhase[p] = "success" /\ toAllocate[p] = <<>>
    BY <2>1, <2>2 DEF EndInv
  <2>4. h.pod # p
    BY <2>1, <2>2, ConstantsAssumption DEF LockInv, StepInv
  <2>5. ~GivenUp(p) /\ ~Waits(toAllocate[p], c) /\ ~Handed(p, c)
    BY <2>3, <2>4 DEF GivenUp, Waits, Handed
  <2>6. QED
    BY <2>1, <2>2, <2>5 DEF DueInv
<1>2. QED
  BY <1>1, ServedInvariant, HandshakeInvariant, NodeInvariant, PTL

=============================================================================
