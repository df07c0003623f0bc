----------------------------- MODULE MCProgram -----------------------------
(* The program with two tasks and two instances, for TLC. *)
EXTENDS Program
=============================================================================
