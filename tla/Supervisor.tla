---------------------------- MODULE Supervisor -----------------------------
(***************************************************************************)
(* The supervisor process (Supervisor/Supervisor.c): the check thread that *)
(* looks for new regions and starts a monitor thread for each, the cleanup *)
(* thread that removes regions of dead tasks, and the monitor threads as   *)
(* far as they hold an instance and a region (Monitor_task, the calls of   *)
(* SharedMem_supervisorInit and SharedMem_supervisorRead).                 *)
(*                                                                         *)
(* The mutex protects each search of the table alone.  What a thread found *)
(* in the table, in the directory or in the process list may have changed  *)
(* by the time it acts on it, so each of those steps is an action.         *)
(***************************************************************************)
EXTENDS SharedMem

CONSTANTS
  MAX_TRACED_TASKS,  \* instances
  NoPid,             \* pid of an instance that has not had a task: 0
  MaxKills,          \* bound: times the supervisor is killed and started again
  MaxCreateFailures  \* bound: failures of pthread_create for a monitor

ASSUME SupervisorAssumption ==
  /\ MAX_TRACED_TASKS \in Nat \ {0}
  /\ NoPid \notin Pids
  /\ MaxKills \in Nat /\ MaxCreateFailures \in Nat

VARIABLES
  up,                \* the supervisor runs
  isTaskBeingTraced, \* per instance: in use
  monitorPid,        \* per instance: monitor[i].pid
  monitor,           \* per instance: where its thread is
  reading,           \* per instance: the life of the FIFO it opened
  ckPc, ckList, ckPid, ckInstance,  \* the check thread
  clPc, clList, clPid,              \* the cleanup thread
  kills, createFailures             \* counters for the bounds

tableVars == <<isTaskBeingTraced, monitorPid>>
monVars   == <<monitor, reading>>
ckVars    == <<ckPc, ckList, ckPid, ckInstance>>
clVars    == <<clPc, clList, clPid>>
countVars == <<kills, createFailures>>
supVars   == <<up, tableVars, monVars, ckVars, clVars>>
vars      == <<shmVars, supVars, countVars>>

Instances == 0 .. MAX_TRACED_TASKS - 1

MonitorState == {"none", "access", "open", "opening", "reading", "badfd", "gone"}

\* The memory of a supervisor that starts: memset to zero, no thread has run.
Fresh ==
  /\ isTaskBeingTraced = [i \in Instances |-> FALSE]
  /\ monitorPid = [i \in Instances |-> NoPid]
  /\ monitor = [i \in Instances |-> "none"]
  /\ reading = [i \in Instances |-> NoFifo]
  /\ ckPc = "opendir" /\ ckList = {} /\ ckPid = NoPid /\ ckInstance = 0
  /\ clPc = "readdir" /\ clList = {} /\ clPid = NoPid

Init == ShmInit /\ Fresh /\ up = FALSE /\ kills = 0 /\ createFailures = 0

\* The names readdir returns after opendir or rewinddir.
Regions == {p \in Pids : fifo[p] # NoFifo}

\* Supervisor_checkIfTaskIsBeingTraced.
Traced(p) == \E i \in Instances : isTaskBeingTraced[i] /\ monitorPid[i] = p

FreeInstances == {i \in Instances : ~isTaskBeingTraced[i]}

----------------------------------------------------------------------------
(* Supervisor_checkForNewProcessesThread. *)

\* opendir, or rewinddir after 500 ms: the entries of the directory now.
CheckScan ==
  /\ up /\ ckPc = "opendir"
  /\ ckList' = Regions
  /\ ckPc' = "entries"
  /\ UNCHANGED <<up, shmVars, tableVars, monVars, ckPid, ckInstance, clVars, countVars>>

\* Seeded fault: the table is not searched.
CheckEntryAny(p) ==
  /\ up /\ ckPc = "entries" /\ p \in ckList
  /\ ckList' = {} /\ ckPid' = p /\ ckPc' = "reserve"
  /\ UNCHANGED <<up, shmVars, tableVars, monVars, ckInstance, clVars, countVars>>

\* Seeded fault: any instance in use is taken for one that traces the task.
CheckEntryAnyUse(p) ==
  /\ up /\ ckPc = "entries" /\ p \in ckList
  /\ IF \E i \in Instances : isTaskBeingTraced[i]
       THEN ckList' = ckList \ {p} /\ UNCHANGED <<ckPc, ckPid>>
       ELSE ckList' = {} /\ ckPid' = p /\ ckPc' = "reserve"
  /\ UNCHANGED <<up, shmVars, tableVars, monVars, ckInstance, clVars, countVars>>

\* One entry: a task that is being traced is passed over, any other is taken
\* for a new task, whether it is alive or not.
CheckEntry(p) ==
  /\ up /\ ckPc = "entries" /\ p \in ckList
  /\ IF Traced(p)
       THEN ckList' = ckList \ {p} /\ UNCHANGED <<ckPc, ckPid>>
       ELSE ckList' = {} /\ ckPid' = p /\ ckPc' = "reserve"
  /\ UNCHANGED <<up, shmVars, tableVars, monVars, ckInstance, clVars, countVars>>

CheckNoMoreEntries ==
  /\ up /\ ckPc = "entries" /\ ckList = {}
  /\ ckPc' = "opendir"
  /\ UNCHANGED <<up, shmVars, tableVars, monVars, ckList, ckPid, ckInstance, clVars, countVars>>

\* Supervisor_reserveInstance takes the first free instance, under the mutex.
\* The thread tries again every 500 ms while there is none.
CheckReserve ==
  /\ up /\ ckPc = "reserve"
  /\ \E i \in FreeInstances :
       /\ \A j \in FreeInstances : i <= j
       /\ isTaskBeingTraced' = [isTaskBeingTraced EXCEPT ![i] = TRUE]
       /\ ckInstance' = i
  /\ ckPc' = "setPid"
  /\ UNCHANGED <<up, shmVars, monitorPid, monVars, ckList, ckPid, clVars, countVars>>

\* The pid is written after the mutex is released.
CheckSetPid ==
  /\ up /\ ckPc = "setPid"
  /\ monitorPid' = [monitorPid EXCEPT ![ckInstance] = ckPid]
  /\ ckPc' = "create"
  /\ UNCHANGED <<up, shmVars, isTaskBeingTraced, monVars, ckList, ckPid, ckInstance, clVars,
                 countVars>>

CheckCreate ==
  /\ up /\ ckPc = "create"
  /\ monitor' = [monitor EXCEPT ![ckInstance] = "access"]
  /\ ckPc' = "opendir"
  /\ UNCHANGED <<up, shmVars, tableVars, reading, ckList, ckPid, ckInstance, clVars, countVars>>

\* pthread_create fails: the instance stays reserved, the pid stays in it.
CheckCreateFails ==
  /\ up /\ ckPc = "create" /\ createFailures < MaxCreateFailures
  /\ createFailures' = createFailures + 1
  /\ ckPc' = "opendir"
  /\ UNCHANGED <<up, shmVars, tableVars, monVars, ckList, ckPid, ckInstance, clVars, kills>>

CheckThread ==
  \/ CheckScan
  \/ \E p \in Pids : CheckEntry(p)
  \/ CheckNoMoreEntries
  \/ CheckReserve
  \/ CheckSetPid
  \/ CheckCreate

----------------------------------------------------------------------------
(* Supervisor_checkAndCleanUnusedSharedMemThread. *)

CleanupScan ==
  /\ up /\ clPc = "readdir"
  /\ clList' = Regions
  /\ clPc' = "entries"
  /\ UNCHANGED <<up, shmVars, tableVars, monVars, ckVars, clPid, countVars>>

\* Seeded fault: any instance in use is taken for one that traces the task.
CleanupEntryAnyUse(p) ==
  /\ up /\ clPc = "entries" /\ p \in clList
  /\ clList' = clList \ {p}
  /\ IF \E i \in Instances : isTaskBeingTraced[i]
       THEN UNCHANGED <<clPc, clPid>>
       ELSE clPid' = p /\ clPc' = "exist"
  /\ UNCHANGED <<up, shmVars, tableVars, monVars, ckVars, countVars>>

\* A region that is being traced is left alone.
CleanupEntry(p) ==
  /\ up /\ clPc = "entries" /\ p \in clList
  /\ clList' = clList \ {p}
  /\ IF Traced(p)
       THEN UNCHANGED <<clPc, clPid>>
       ELSE clPid' = p /\ clPc' = "exist"
  /\ UNCHANGED <<up, shmVars, tableVars, monVars, ckVars, countVars>>

\* Seeded fault: the region is removed whether the task exists or not.
CleanupExistAny ==
  /\ up /\ clPc = "exist"
  /\ clPc' = "remove"
  /\ UNCHANGED <<up, shmVars, tableVars, monVars, ckVars, clList, clPid, countVars>>

\* PID_checkIfExist.
CleanupExist ==
  /\ up /\ clPc = "exist"
  /\ clPc' = IF Exists(clPid) THEN "entries" ELSE "remove"
  /\ UNCHANGED <<up, shmVars, tableVars, monVars, ckVars, clList, clPid, countVars>>

\* remove(path), whatever the path names now.
CleanupRemove ==
  /\ up /\ clPc = "remove"
  /\ fifo' = [fifo EXCEPT ![clPid] = NoFifo]
  /\ clPc' = "entries"
  /\ UNCHANGED <<up, task, life, writers, tableVars, monVars, ckVars, clList, clPid, countVars>>

\* Seeded fault: no rewinddir, the directory stays at its end.
CleanupNoRewind ==
  /\ up /\ clPc = "entries" /\ clList = {}
  /\ clPc' = "end"
  /\ UNCHANGED <<up, shmVars, tableVars, monVars, ckVars, clList, clPid, countVars>>

\* rewinddir and sleep(10).
CleanupRewind ==
  /\ up /\ clPc = "entries" /\ clList = {}
  /\ clPc' = "readdir"
  /\ UNCHANGED <<up, shmVars, tableVars, monVars, ckVars, clList, clPid, countVars>>

CleanupThread ==
  \/ CleanupScan
  \/ \E p \in Pids : CleanupEntry(p)
  \/ CleanupExist
  \/ CleanupRemove
  \/ CleanupRewind

----------------------------------------------------------------------------
(* Monitor_task of instance i, from its creation to pthread_exit. *)

SetMonitor(i, s) == monitor' = [monitor EXCEPT ![i] = s]

\* while (access(path) != 0);
MonitorAccess(i) ==
  /\ up /\ monitor[i] = "access" /\ fifo[monitorPid[i]] # NoFifo
  /\ SetMonitor(i, "open")
  /\ UNCHANGED <<up, shmVars, tableVars, reading, ckVars, clVars, countVars>>

\* open(O_RDONLY) waits until the FIFO it found has a writer.  If the path is
\* gone it fails; the caller does not look at the result and reads from -1.
MonitorOpen(i) ==
  /\ up /\ monitor[i] = "open"
  /\ LET p == monitorPid[i] IN
       /\ SetMonitor(i, IF fifo[p] = NoFifo THEN "badfd"
                        ELSE IF <<p, fifo[p]>> \in writers THEN "reading" ELSE "opening")
       /\ reading' = [reading EXCEPT ![i] = fifo[p]]
  /\ UNCHANGED <<up, shmVars, tableVars, ckVars, clVars, countVars>>

\* The task opens its FIFO; a monitor that waits for a writer of it goes on.
UserOpen(p) ==
  /\ TaskOpen(p)
  /\ monitor' = [i \in Instances |->
       IF monitor[i] = "opening" /\ monitorPid[i] = p /\ <<p, reading[i]>> \in writers'
         THEN "reading" ELSE monitor[i]]
  /\ UNCHANGED <<up, tableVars, reading, ckVars, clVars, countVars>>

\* read returns 0: no writer is left.  PID_checkIfExist(me->pid != 1) asks for
\* pid 1, which always exists, so the thread ends.  It neither closes its
\* descriptor nor removes the region nor frees its instance.
MonitorEof(i) ==
  /\ up /\ monitor[i] = "reading" /\ <<monitorPid[i], reading[i]>> \notin writers
  /\ SetMonitor(i, "gone")
  /\ UNCHANGED <<up, shmVars, tableVars, reading, ckVars, clVars, countVars>>

MonitorThread(i) == MonitorAccess(i) \/ MonitorOpen(i) \/ MonitorEof(i)

----------------------------------------------------------------------------
(* The process. *)

Start ==
  /\ ~up /\ kills <= MaxKills
  /\ up' = TRUE
  /\ UNCHANGED <<shmVars, tableVars, monVars, ckVars, clVars, countVars>>

\* The supervisor is killed at any point: the regions stay as they are, and
\* its memory is Fresh again when it is started.
Kill ==
  /\ up /\ kills < MaxKills
  /\ up' = FALSE /\ kills' = kills + 1
  /\ isTaskBeingTraced' = [i \in Instances |-> FALSE]
  /\ monitorPid' = [i \in Instances |-> NoPid]
  /\ monitor' = [i \in Instances |-> "none"]
  /\ reading' = [i \in Instances |-> NoFifo]
  /\ ckPc' = "opendir" /\ ckList' = {} /\ ckPid' = NoPid /\ ckInstance' = 0
  /\ clPc' = "readdir" /\ clList' = {} /\ clPid' = NoPid
  /\ UNCHANGED <<shmVars, createFailures>>

\* A step of a task that no thread of the supervisor takes part in.
UserStep(p) == TaskStep(p) /\ UNCHANGED <<supVars, countVars>>

Next ==
  \/ \E p \in Pids : UserStep(p)
  \/ \E p \in Pids : UserOpen(p)
  \/ Start
  \/ Kill
  \/ CheckThread
  \/ CheckCreateFails
  \/ CleanupThread
  \/ \E i \in Instances : MonitorThread(i)

\* Every thread of a running supervisor that can take a step takes one; tasks
\* and the hand that starts and kills the supervisor owe nothing.
Fairness ==
  /\ WF_vars(CheckThread)
  /\ WF_vars(CleanupThread)
  /\ \A i \in Instances : WF_vars(MonitorThread(i))

Spec == Init /\ [][Next]_vars

FairSpec == Spec /\ Fairness

----------------------------------------------------------------------------
(* Properties. *)

\* Every variable has its type; the threads are where their code can be.
TypeOK ==
  /\ task \in [Pids -> TaskState]
  /\ life \in [Pids -> 0 .. MaxLives]
  /\ fifo \in [Pids -> 0 .. MaxLives]
  /\ writers \subseteq Pids \X (1 .. MaxLives)
  /\ up \in BOOLEAN
  /\ isTaskBeingTraced \in [Instances -> BOOLEAN]
  /\ monitorPid \in [Instances -> Pids \cup {NoPid}]
  /\ monitor \in [Instances -> MonitorState]
  /\ reading \in [Instances -> 0 .. MaxLives]
  /\ ckPc \in {"opendir", "entries", "reserve", "setPid", "create"}
  /\ ckList \subseteq Pids
  /\ ckPid \in Pids \cup {NoPid}
  /\ ckInstance \in Instances
  /\ clPc \in {"readdir", "entries", "exist", "remove"}
  /\ clList \subseteq Pids
  /\ clPid \in Pids \cup {NoPid}
  /\ kills \in 0 .. MaxKills
  /\ createFailures \in 0 .. MaxCreateFailures

\* No two monitor threads read the same FIFO (each would get some of the
\* telegrams of the task), although the pid is written outside the mutex.
OneReader ==
  \A i, j \in Instances :
    /\ i # j
    /\ monitor[i] \in {"opening", "reading"} /\ monitor[j] \in {"opening", "reading"}
    => monitorPid[i] # monitorPid[j] \/ reading[i] # reading[j]

\* The check thread looks for an untraced task, waits for an instance and fills
\* it in at its leisure, and is killed at any point; the table shows nothing of
\* that but what module Table promises the other threads.
TheTable == INSTANCE Table WITH
  ckPid <- IF ckPc = "setPid" THEN ckPid ELSE NoPid

ImplementsTable == TheTable!TableSpec

\* The cleanup thread checks that a task is dead and removes its region in two
\* steps.  However late the removal comes, it never takes the region of a task
\* that is running, also not of a later task with the same id.
RunningTaskKeepsRegion ==
  \A p \in Pids : task[p] \in {"made", "open"} => fifo[p] = life[p]

\* A monitor that lost the race for the region (it spins on access(), or reads
\* from descriptor -1 for ever) has no running task to trace as long as thread
\* ids are not used again.
OnlyDeadTasksLoseMonitor ==
  \A i \in Instances :
    \/ monitor[i] = "badfd"
    \/ monitor[i] = "access" /\ fifo[monitorPid[i]] = NoFifo
    => task[monitorPid[i]] \in {"none", "zombie"}

Full == FreeInstances = {}

Monitored(p) ==
  \E i \in Instances : monitor[i] = "reading" /\ monitorPid[i] = p /\ reading[i] = life[p]

\* The task of p, once it has opened its region and if it goes on running, gets a
\* monitor, unless the instances are used up or the supervisor is down.
GetsMonitored(p) ==
  task[p] = "open" ~> Monitored(p) \/ task[p] # "open" \/ Full \/ ~up

\* When the check thread waits for an instance for ever, the cleanup thread goes
\* on: the region of p is removed if its task is dead and no instance holds it.
CleanedThoughFull(p) ==
  (Full /\ ckPc = "reserve" /\ fifo[p] # NoFifo /\ ~Exists(p) /\ ~Traced(p))
    ~> (fifo[p] = NoFifo \/ Exists(p) \/ ~up)

\* Supervisor.c:206: regions that are still being monitored are not removed,
\* even if the user process does not exist any more.
MonitoredRegionStays ==
  [][\A p \in Pids : fifo[p] # NoFifo /\ fifo'[p] = NoFifo => ~Traced(p)]_vars

\* SharedMem.c:38: the supervisor removes regions that are not used.
UnusedRegionRemoved ==
  \A p \in Pids :
    (fifo[p] # NoFifo /\ ~Exists(p) /\ up) ~> (fifo[p] = NoFifo \/ Exists(p) \/ ~up)

=============================================================================
