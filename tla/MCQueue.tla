------------------------------ MODULE MCQueue ------------------------------
(* The queue on a small ring, for TLC. *)
EXTENDS Queue
=============================================================================
