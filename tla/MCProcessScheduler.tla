------------------------- MODULE MCProcessScheduler -------------------------
(* Instance of ProcessScheduler for TLC.                                   *)
EXTENDS ProcessScheduler, TLC

CONSTANTS idle, low, p1, p2, s1, s2

\* The idle process, a process above it and two that share the top priority.
MCPriority == (idle :> 1) @@ (low :> 1) @@ (p1 :> 2) @@ (p2 :> 2)
=============================================================================
