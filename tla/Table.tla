------------------------------- MODULE Table -------------------------------
(***************************************************************************)
(* The table of instances as the other threads of the supervisor see it    *)
(* (the first members of Supervisor.h's Supervisor): what the check thread *)
(* makes of it, whatever it does in between.  An instance is reserved for  *)
(* a task that has none, its pid follows when the mutex is released, and   *)
(* nothing is ever taken back but by a restart of the process.             *)
(*                                                                         *)
(* Module Program builds on this table; module Supervisor, with the whole  *)
(* of the check thread, is shown to implement it.                          *)
(***************************************************************************)
EXTENDS Integers

CONSTANTS
  Pids,              \* ids of traced tasks
  NoPid,             \* pid of an instance that has not had a task: 0
  MAX_TRACED_TASKS   \* instances

ASSUME TableAssumption == MAX_TRACED_TASKS \in Nat \ {0} /\ NoPid \notin Pids

VARIABLES
  isTaskBeingTraced, \* per instance: in use
  monitorPid,        \* per instance: monitor[i].pid
  ckPid,             \* the task whose pid is still to be written, or NoPid
  ckInstance         \* the instance reserved last

tableVars == <<isTaskBeingTraced, monitorPid, ckPid, ckInstance>>

Instances == 0 .. MAX_TRACED_TASKS - 1

TableInit ==
  /\ isTaskBeingTraced = [i \in Instances |-> FALSE]
  /\ monitorPid = [i \in Instances |-> NoPid]
  /\ ckPid = NoPid /\ ckInstance = 0

Traced(p) == \E i \in Instances : isTaskBeingTraced[i] /\ monitorPid[i] = p

FreeInstances == {i \in Instances : ~isTaskBeingTraced[i]}

\* A task that is not traced gets the first free instance.
Reserve(p) ==
  /\ ckPid = NoPid /\ ~Traced(p)
  /\ \E i \in FreeInstances :
       /\ \A j \in FreeInstances : i <= j
       /\ isTaskBeingTraced' = [isTaskBeingTraced EXCEPT ![i] = TRUE]
       /\ ckPid' = p /\ ckInstance' = i
  /\ UNCHANGED monitorPid

\* Its pid is written without the mutex.
SetPid ==
  /\ ckPid # NoPid
  /\ monitorPid' = [monitorPid EXCEPT ![ckInstance] = ckPid]
  /\ ckPid' = NoPid
  /\ UNCHANGED <<isTaskBeingTraced, ckInstance>>

\* The supervisor is killed: the memory of the next one is zeroed.
Restart ==
  /\ isTaskBeingTraced' = [i \in Instances |-> FALSE]
  /\ monitorPid' = [i \in Instances |-> NoPid]
  /\ ckPid' = NoPid /\ ckInstance' = 0

TableNext == (\E p \in Pids : Reserve(p)) \/ SetPid \/ Restart

TableSpec == TableInit /\ [][TableNext]_tableVars

=============================================================================
