---------------------------- MODULE MCPipeline ----------------------------
(* The whole way of a telegram on a small ring and a small FIFO, for TLC. *)
EXTENDS Pipeline
=============================================================================
