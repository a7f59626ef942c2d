---------------------------- MODULE MCWakeupTimer ----------------------------
(* Instances of WakeupTimer for TLC.                                       *)
EXTENDS WakeupTimer
=============================================================================
