----------------------------- MODULE HamiRefresh -----------------------------
(***************************************************************************)
(* RefreshContainerDevices (register.go).  It runs in the WatchAndRegister *)
(* loop and, after a pod event, in the informer's goroutine, with nothing  *)
(* that keeps the calls apart.  It takes a snapshot of the mark files,     *)
(* then one of the pods, and only then removes, stops, destroys, deletes.  *)
(* StaleUnlessRunning and ErrorPodsFailedOnly are faulty variants of the   *)
(* definitions that follow them.                                           *)
(***************************************************************************)
EXTENDS HamiState

\* files: the directory as read; todo: files found stale and not yet handled;
\* kill: pods found in error and not yet deleted; busy: the mark whose vDCU
\* is being destroyed; try: failed attempts at the current driver call.
Refresher == [pc: {"idle", "list", "reap", "stop", "destroy", "unconf"},
              files: SUBSET Mark, todo: SUBSET Mark, kill: SUBSET Pods,
              busy: SUBSET Mark, try: 0..MaxTries]

IdleRefresher == [pc |-> "idle", files |-> {}, todo |-> {}, kill |-> {},
                  busy |-> {}, try |-> 0]

\* os.ReadDir on the dynamic directory; without it the call returns.  A loop
\* calls when its timer fires, an informer for an event it has received.
ReadDynamicDir(r) ==
  /\ ref[r].pc = "idle"
  /\ \/ r \in Loops /\ UNCHANGED events
     \/ r \in Informers /\ \E e \in events[r] :
          events' = [events EXCEPT ![r] = @ \ {e}]
  /\ ref' = IF dynDir THEN [ref EXCEPT ![r].pc = "list", ![r].files = marks] ELSE ref
  /\ UNCHANGED <<phase, apiVars, nodeVars, allocVars, faultVars>>

\* The pods of the node are listed.  A file is stale when its pod is not among
\* them or has succeeded or failed; a pod that requests a vDCU is in error when
\* it runs or has failed and no file names it.
StaleUnlessRunning(files) == {m \in files : phase[m.pod] # "Running"}
StaleMarks(files) ==
  {m \in files : ~Exists(m.pod) \/ phase[m.pod] \in {"Succeeded", "Failed"}}
ErrorPodsFailedOnly(files) ==
  {p \in Pods : RequestsVirtualDCU(p) /\ phase[p] = "Failed" /\ \A m \in files : m.pod # p}
ErrorPods(files) ==
  {p \in Pods : /\ RequestsVirtualDCU(p)
                /\ phase[p] \in {"Running", "Failed"}
                /\ \A m \in files : m.pod # p}

ListPods(r) ==
  /\ ref[r].pc = "list"
  /\ \/ /\ ref' = [ref EXCEPT ![r] = [IdleRefresher EXCEPT
                     !.pc = "reap", !.todo = StaleMarks(ref[r].files),
                     !.kill = ErrorPods(ref[r].files)]]
        /\ UNCHANGED apiFaults
     \/ ApiFault /\ ref' = [ref EXCEPT ![r] = IdleRefresher]
  /\ UNCHANGED <<phase, apiVars, nodeVars, allocVars, events, nodeFaults, crashes>>

\* The mark file goes first, then the vDCU it names, if it names one.  The error
\* of os.RemoveAll is dropped: the vDCU goes also when the file stays.
RemoveMark(r) ==
  /\ ref[r].pc = "reap"
  /\ \E m \in ref[r].todo :
       /\ \/ marks' = marks \ {m} /\ UNCHANGED nodeFaults
          \/ NodeFault /\ UNCHANGED marks
       /\ \/ m.vdev = -1 /\ ref' = [ref EXCEPT ![r].todo = @ \ {m}]
          \/ /\ m.vdev # -1
             /\ ref' = [ref EXCEPT ![r].pc = "stop", ![r].todo = @ \ {m}, ![r].busy = {m}]
  /\ UNCHANGED <<phase, apiVars, dynDir, vdcus, confs, reused, allocVars, events,
                 apiFaults, crashes>>

\* A driver call that fails is repeated; after the last attempt the next call
\* is made all the same.  It fails for an index the driver does not hold.
Retry(r, next) ==
  \/ ref[r].try + 1 < MaxTries /\ ref' = [ref EXCEPT ![r].try = @ + 1]
  \/ ref[r].try + 1 >= MaxTries /\ ref' = [ref EXCEPT ![r].pc = next, ![r].try = 0]

Busy(r) == {v \in vdcus : \E m \in ref[r].busy : v.idx = m.vdev}

StopVDevice(r) ==
  /\ ref[r].pc = "stop"
  /\ \/ /\ Busy(r) # {}
        /\ vdcus' = (vdcus \ Busy(r)) \cup {[v EXCEPT !.up = FALSE] : v \in Busy(r)}
        /\ ref' = [ref EXCEPT ![r].pc = "destroy", ![r].try = 0]
        /\ UNCHANGED nodeFaults
     \/ /\ (Busy(r) = {} /\ UNCHANGED nodeFaults) \/ NodeFault
        /\ Retry(r, "destroy")
        /\ UNCHANGED vdcus
  /\ UNCHANGED <<phase, apiVars, marks, dynDir, confs, reused, allocVars, events,
                 apiFaults, crashes>>

DestroyVDevice(r) ==
  /\ ref[r].pc = "destroy"
  /\ \/ /\ Busy(r) # {}
        /\ vdcus' = vdcus \ Busy(r)
        /\ ref' = [ref EXCEPT ![r].pc = "unconf", ![r].try = 0]
        /\ UNCHANGED nodeFaults
     \/ /\ (Busy(r) = {} /\ UNCHANGED nodeFaults) \/ NodeFault
        /\ Retry(r, "unconf")
        /\ UNCHANGED vdcus
  /\ UNCHANGED <<phase, apiVars, marks, dynDir, confs, reused, allocVars, events,
                 apiFaults, crashes>>

\* The conf file is removed whether or not the vDCU was destroyed; an error is
\* dropped.
RemoveConf(r) ==
  /\ ref[r].pc = "unconf"
  /\ \/ confs' = confs \ {m.vdev : m \in ref[r].busy} /\ UNCHANGED nodeFaults
     \/ NodeFault /\ UNCHANGED confs
  /\ ref' = [ref EXCEPT ![r].pc = "reap", ![r].busy = {}]
  /\ UNCHANGED <<phase, apiVars, marks, dynDir, vdcus, reused, allocVars, events,
                 apiFaults, crashes>>

\* After the files, the pods in error are deleted, with their UID as a
\* precondition and no grace period; an error is dropped.
DeletePod(r) ==
  /\ ref[r].pc = "reap" /\ ref[r].todo = {}
  /\ \E p \in ref[r].kill :
       /\ ref' = [ref EXCEPT ![r].kill = @ \ {p}]
       /\ \/ /\ Exists(p)
             /\ phase' = [phase EXCEPT ![p] = "gone"]
             /\ Notify(p, "delete")
             /\ UNCHANGED apiFaults
          \/ /\ (~Exists(p) /\ UNCHANGED apiFaults) \/ ApiFault
             /\ UNCHANGED <<phase, events>>
  /\ UNCHANGED <<apiVars, nodeVars, allocVars, nodeFaults, crashes>>

EndRefresh(r) ==
  /\ ref[r].pc = "reap" /\ ref[r].todo = {} /\ ref[r].kill = {}
  /\ ref' = [ref EXCEPT ![r] = IdleRefresher]
  /\ UNCHANGED <<phase, apiVars, nodeVars, allocVars, events, faultVars>>

RefreshStep(r) ==
  \/ ReadDynamicDir(r) \/ ListPods(r) \/ RemoveMark(r) \/ StopVDevice(r)
  \/ DestroyVDevice(r) \/ RemoveConf(r) \/ DeletePod(r) \/ EndRefresh(r)
=============================================================================
