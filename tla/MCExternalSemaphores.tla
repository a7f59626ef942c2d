------------------------ MODULE MCExternalSemaphores ------------------------
(* Instances of ExternalSemaphores for TLC: who the callers are is in the  *)
(* configurations.                                                         *)
EXTENDS ExternalSemaphores

CONSTANTS socket, sound
=============================================================================
