----------------------------- MODULE MCAsyncIO ------------------------------
(* Instances of AsyncIO for TLC. *)
EXTENDS AsyncIO
=============================================================================
