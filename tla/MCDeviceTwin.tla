---------------------------- MODULE MCDeviceTwin -----------------------------
(* DeviceTwin on small instances, in every environment.                     *)
EXTENDS DeviceTwin

AllFaultSets == SUBSET TwinFaultKinds
=============================================================================
