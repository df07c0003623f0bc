---------------------------- MODULE TableProofs ----------------------------
(***************************************************************************)
(* What holds of the table of instances for any number of tasks,           *)
(* instances and restarts, although the pid of an instance is written      *)
(* after the mutex has been released.                                      *)
(***************************************************************************)
EXTENDS Table, TLAPS

\* The members of Supervisor.h's Supervisor that the table is made of.
TableTypes ==
  /\ isTaskBeingTraced \in [Instances -> BOOLEAN]
  /\ monitorPid \in [Instances -> Pids \cup {NoPid}]
  /\ ckPid \in Pids \cup {NoPid} /\ ckInstance \in Instances

\* No two instances have one task, and none has the task whose pid is about to be
\* written, into an instance that is in use and has none.
OneInstance ==
  /\ \A i, j \in Instances : i # j /\ monitorPid[i] \in Pids => monitorPid[i] # monitorPid[j]
  /\ \A i \in Instances : ~isTaskBeingTraced[i] => monitorPid[i] = NoPid
  /\ ckPid # NoPid => /\ isTaskBeingTraced[ckInstance] /\ monitorPid[ckInstance] = NoPid
                      /\ \A i \in Instances : monitorPid[i] # ckPid

\* The zeroed memory of a supervisor that starts (Supervisor.c:29) has no task.
LEMMA InitTable == TableInit => TableTypes /\ OneInstance
<1>1. SUFFICES ASSUME TableInit PROVE TableTypes /\ OneInstance
  OBVIOUS
<1>2. 0 \in Instances
  BY TableAssumption DEF Instances
<1>3. QED
  BY <1>1, <1>2, TableAssumption DEF TableInit, TableTypes, OneInstance

\* Reserving an instance (Supervisor.c:89-115), writing its pid (:169) and a
\* restart keep every task in one instance at most.
LEMMA TableStep ==
  ASSUME TableTypes, OneInstance, [TableNext]_tableVars
  PROVE  TableTypes' /\ OneInstance'
<1> USE TableAssumption
<1>1. ASSUME NEW p \in Pids, Reserve(p)
      PROVE  TableTypes' /\ OneInstance'
  <2>1. PICK i \in Instances :
          /\ ~isTaskBeingTraced[i]
          /\ isTaskBeingTraced' = [isTaskBeingTraced EXCEPT ![i] = TRUE]
          /\ ckPid' = p /\ ckInstance' = i /\ monitorPid' = monitorPid
    BY <1>1 DEF Reserve, FreeInstances
  <2>2. monitorPid[i] = NoPid /\ \A j \in Instances : monitorPid[j] # p
    BY <1>1, <2>1 DEF Reserve, Traced, OneInstance
  <2>3. QED
    BY <2>1, <2>2 DEF TableTypes, OneInstance
<1>2. CASE SetPid
  <2>1. /\ ckPid \in Pids /\ ckInstance \in Instances
        /\ monitorPid' = [monitorPid EXCEPT ![ckInstance] = ckPid] /\ ckPid' = NoPid
        /\ UNCHANGED <<isTaskBeingTraced, ckInstance>>
    BY <1>2 DEF SetPid, TableTypes
  <2>2. TableTypes'
    BY <2>1 DEF TableTypes
  <2>3. QED
    BY <2>1, <2>2 DEF TableTypes, OneInstance
<1>3. CASE Restart
  <2>1. 0 \in Instances
    BY DEF Instances
  <2>2. QED
    BY <1>3, <2>1 DEF Restart, TableTypes, OneInstance
<1>4. CASE UNCHANGED tableVars
  BY <1>4 DEF tableVars, TableTypes, OneInstance
<1>5. QED
  BY <1>1, <1>2, <1>3, <1>4 DEF TableNext

\* What other threads may rely on when they look at the table (the terminal
\* interface and the cleanup thread do, TerminalInterface.c:60, Supervisor.c:131):
\* a task is found in one instance.
THEOREM TableOneInstance == TableSpec => [](TableTypes /\ OneInstance)
BY InitTable, TableStep, PTL DEF TableSpec

\* A pid that has been written stays until the process is started anew: what a
\* thread has read without the mutex it may go on using.
LEMMA PidStays ==
  ASSUME TableTypes, OneInstance,
         (\E p \in Pids : Reserve(p)) \/ SetPid \/ UNCHANGED tableVars,
         NEW i \in Instances, monitorPid[i] # NoPid
  PROVE  monitorPid'[i] = monitorPid[i] /\ isTaskBeingTraced'[i]
<1>1. isTaskBeingTraced[i]
  BY DEF OneInstance, TableTypes
<1>2. ASSUME NEW p \in Pids, Reserve(p)
      PROVE  monitorPid'[i] = monitorPid[i] /\ isTaskBeingTraced'[i]
  BY <1>1, <1>2 DEF Reserve, TableTypes
<1>3. CASE SetPid
  BY <1>1, <1>3 DEF SetPid, TableTypes, OneInstance
<1>4. CASE UNCHANGED tableVars
  BY <1>1, <1>4 DEF tableVars
<1>5. QED
  BY <1>2, <1>3, <1>4

=============================================================================
