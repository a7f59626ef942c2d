---------------------------- MODULE MCInterrupts ----------------------------
(* Instance of Interrupts for TLC.                                         *)
EXTENDS Interrupts, TLC

CONSTANTS idle, p1, p2, sT, sX

MCPriority == [p \in Process |-> IF p = idle THEN 1 ELSE 2]
\* Index 1 names a semaphore, 2 another object, 3 lies beyond the array.
MCExternalObjects == <<sX, nilObj>>
=============================================================================
