-------------------------- MODULE DetectedDevices ---------------------------
(***************************************************************************)
(* DetectedDevice (packages/podkit-daemon/src/device-poller.ts): what the  *)
(* poller and the orchestrator tell each other about. Both know a device   *)
(* by its name only, so a device here is a name.                           *)
(***************************************************************************)
CONSTANT Devices

=============================================================================
