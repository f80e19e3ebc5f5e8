-------------------------- MODULE MCDeviceBridge --------------------------
(* Instances of DeviceBridge for model checking. *)
EXTENDS DeviceBridge
=============================================================================
