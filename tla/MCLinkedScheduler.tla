-------------------------- MODULE MCLinkedScheduler --------------------------
(* Instance of LinkedScheduler for TLC.                                    *)
EXTENDS LinkedScheduler, TLC

CONSTANTS idle, low, p1, p2, s1, s2

\* The idle process, a process above it and two that share the top priority.
MCPriority == (idle :> 1) @@ (low :> 2) @@ (p1 :> 3) @@ (p2 :> 3)
=============================================================================
