---------------------------- MODULE Reachability ----------------------------
(* What can be reached in a graph whose edges are named fields of objects.  *)

\* The objects that come from those of Roots along the fields Via without
\* leaving Within: no set without the object holds Roots and is closed.
Reached(fields, Roots, Via, Within) ==
    LET Closed(S) == \A o \in S, s \in Via :
                         fields[o][s] \in Within => fields[o][s] \in S
    IN  {o \in Within : \A S \in SUBSET (Within \ {o}) :
                            ~(Roots \subseteq S /\ Closed(S))}
=============================================================================
