------------------------------ MODULE DeviceQueue ------------------------------
(***************************************************************************)
(* What the device annotations of a pod promise, and what HamiAllocate     *)
(* takes them for: a queue of the containers whose devices are still to be *)
(* served, and a queue of container names beside it.  Every operation may  *)
(* fail and then changes nothing.                                          *)
(***************************************************************************)
EXTENDS Naturals, Sequences

VARIABLES
  order,   \* the containers that request devices, as the scheduler saw them
  queue,   \* those whose devices are still to be served
  names    \* the containers named by container-index

vars == <<order, queue, names>>

Init == queue = order /\ names = <<>>

\* UpdateContainerIndexAnnotations, before anything is taken from the queue.
Name == queue = order /\ names' = order /\ UNCHANGED <<order, queue>>

\* EraseNextDeviceTypeFromAnnotation.
Take == queue # <<>> /\ queue' = Tail(queue) /\ UNCHANGED <<order, names>>

\* DeleteContainerIndexAnnotations; the last name stays.
Drop == Len(names) > 1 /\ names' = Tail(names) /\ UNCHANGED <<order, queue>>

Next == Name \/ Take \/ Drop

Spec == Init /\ [][Next]_vars
=============================================================================
