----------------------------- MODULE MCMonitor -----------------------------
(* The monitoring of one task over a few periods, for TLC. *)
EXTENDS Monitor
=============================================================================
