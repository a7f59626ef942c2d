----------------------------- MODULE MCMarking -----------------------------
(* An instance of Marking for TLC. *)
EXTENDS Marking

CONSTANTS R, W, K

\* R is an old weak array in the root table, W a young weak one, K another
\* object, a class with one named field in its instances if it is a class:
\* R and W are then of it or, with none, of any of the three.
MClastPointerOf == [o \in Object |-> IF o = W THEN 2 ELSE 1]
MCEntryLists == {<<R>>, <<K, R>>, <<R, K, R>>, <<K, W>>}
MCFixedFields == [o \in Object |-> IF o = K THEN 1 ELSE 0]
=============================================================================
