-------------------------- MODULE MCKHardwareTimer --------------------------
(* KHardwareTimer for TLC. *)
EXTENDS KHardwareTimer
=============================================================================
