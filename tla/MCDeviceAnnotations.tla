-------------------------- MODULE MCDeviceAnnotations --------------------------
(* Instances of DeviceAnnotations for TLC.                                   *)
EXTENDS DeviceAnnotations
=============================================================================
