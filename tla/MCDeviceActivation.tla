------------------------- MODULE MCDeviceActivation -------------------------
(* A small instance of DeviceActivation for TLC: one handle on every device. *)
EXTENDS DeviceActivation
=============================================================================
