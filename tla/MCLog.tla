------------------------------- MODULE MCLog -------------------------------
(* The log of one task on a small ring, for TLC. *)
EXTENDS Log
=============================================================================
