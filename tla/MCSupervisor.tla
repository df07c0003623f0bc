---------------------------- MODULE MCSupervisor ----------------------------
(* The supervisor with a few tasks, for TLC. *)
EXTENDS Supervisor, TLC

\* Ids are interchangeable; only runs without liveness properties use this.
Symmetry == Permutations(Pids)
=============================================================================
