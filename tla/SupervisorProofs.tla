-------------------------- MODULE SupervisorProofs --------------------------
(***************************************************************************)
(* What holds of the supervisor for any number of tasks, instances, kills  *)
(* and reuses of thread ids: the types, that a running task keeps its      *)
(* region, and that no FIFO has two readers.                               *)
(***************************************************************************)
EXTENDS Supervisor, TLAPS

----------------------------------------------------------------------------
(* Types. *)

\* A thread that acts on a task knows an id: the zeroed pid of an instance and
\* of the two searching threads is never used as one.
KnowsPid ==
  /\ \A i \in Instances : monitor[i] # "none" => monitorPid[i] \in Pids
  /\ ckPc \in {"reserve", "setPid", "create"} => ckPid \in Pids
  /\ ckPc = "create" => monitorPid[ckInstance] \in Pids
  /\ clPc \in {"exist", "remove"} => clPid \in Pids

\* One step of a task, the process or one of its threads keeps the types.
LEMMA TypeStep ==
  ASSUME TypeOK, KnowsPid, [Next]_vars
  PROVE  TypeOK'
<1> USE SharedMemAssumption, SupervisorAssumption
    DEF TypeOK, TaskState, Running, MonitorState, Instances, NoFifo, Regions,
        FreeInstances
<1> USE DEF shmVars, supVars, tableVars, monVars, ckVars, clVars, countVars
<1>1. ASSUME NEW p \in Pids, TaskStart(p), UNCHANGED <<supVars, countVars>>
      PROVE  TypeOK'
  BY <1>1 DEF TaskStart
<1>2. ASSUME NEW p \in Pids, TaskMkfifo(p), UNCHANGED <<supVars, countVars>>
      PROVE  TypeOK'
  <2>1. task' \in [Pids -> TaskState]
    BY <1>2 DEF TaskMkfifo
  <2>2. fifo' \in [Pids -> 0 .. MaxLives]
    <3>1. life[p] \in 0 .. MaxLives
      OBVIOUS
    <3>2. CASE fifo[p] = NoFifo
      BY <1>2, <3>1, <3>2 DEF TaskMkfifo
    <3>3. CASE fifo[p] # NoFifo
      BY <1>2, <3>3 DEF TaskMkfifo
    <3>4. QED
      BY <3>2, <3>3
  <2>3. QED
    BY <1>2, <2>1, <2>2 DEF TaskMkfifo
<1>3. ASSUME NEW p \in Pids, ProcessDies(p), UNCHANGED <<supVars, countVars>>
      PROVE  TypeOK'
  BY <1>3 DEF ProcessDies
<1>4. ASSUME NEW p \in Pids, ProcessReaped(p), UNCHANGED <<supVars, countVars>>
      PROVE  TypeOK'
  BY <1>4 DEF ProcessReaped
<1>5. ASSUME NEW p \in Pids, ThreadExits(p), UNCHANGED <<supVars, countVars>>
      PROVE  TypeOK'
  BY <1>5 DEF ThreadExits
<1>6. ASSUME NEW p \in Pids, ProcessExits(p), UNCHANGED <<supVars, countVars>>
      PROVE  TypeOK'
  BY <1>6 DEF ProcessExits
<1>7. ASSUME NEW p \in Pids, UserOpen(p)
      PROVE  TypeOK'
  <2>1. task' \in [Pids -> TaskState] /\ monitor' \in [Instances -> MonitorState]
    BY <1>7 DEF UserOpen, TaskOpen
  <2>2. writers' \subseteq Pids \X (1 .. MaxLives)
    <3>1. CASE fifo[p] = NoFifo
      BY <1>7, <3>1 DEF UserOpen, TaskOpen
    <3>2. CASE fifo[p] # NoFifo
      <4>1. fifo[p] \in 1 .. MaxLives
        BY <3>2
      <4>2. writers' = writers \cup {<<p, fifo[p]>>}
        BY <1>7, <3>2 DEF UserOpen, TaskOpen
      <4>3. QED
        BY <4>1, <4>2
    <3>3. QED
      BY <3>1, <3>2
  <2>3. UNCHANGED <<life, fifo, up, tableVars, reading, ckVars, clVars, countVars>>
    BY <1>7 DEF UserOpen, TaskOpen
  <2>4. QED
    BY <2>1, <2>2, <2>3
<1>8. CASE Start
  BY <1>8 DEF Start
<1>9. CASE Kill
  <2>1. /\ isTaskBeingTraced' \in [Instances -> BOOLEAN]
        /\ monitorPid' \in [Instances -> Pids \cup {NoPid}]
        /\ monitor' \in [Instances -> MonitorState]
        /\ reading' \in [Instances -> 0 .. MaxLives]
    BY <1>9 DEF Kill
  <2>2. kills' \in 0 .. MaxKills /\ 0 \in Instances
    BY <1>9 DEF Kill
  <2>3. up' \in BOOLEAN
    BY <1>9 DEF Kill
  <2>4. QED
    BY <1>9, <2>1, <2>2, <2>3 DEF Kill
<1>10. CASE CheckScan
  BY <1>10 DEF CheckScan
<1>11. CASE CheckNoMoreEntries
  BY <1>11 DEF CheckNoMoreEntries
<1>12. CASE CheckReserve
  BY <1>12 DEF CheckReserve
<1>13. CASE CheckSetPid
  BY <1>13 DEF CheckSetPid
<1>14. CASE CheckCreate
  BY <1>14 DEF CheckCreate
<1>15. CASE CheckCreateFails
  BY <1>15, SMTT(30) DEF CheckCreateFails
<1>16. ASSUME NEW p \in Pids, CheckEntry(p)
      PROVE  TypeOK'
  BY <1>16 DEF CheckEntry
<1>17. CASE CleanupScan
  BY <1>17 DEF CleanupScan
<1>18. CASE CleanupExist
  BY <1>18 DEF CleanupExist
<1>19. CASE CleanupRemove
  <2>1. clPid \in Pids /\ 0 \in 0 .. MaxLives
    BY <1>19 DEF CleanupRemove, KnowsPid
  <2>2. fifo' \in [Pids -> 0 .. MaxLives]
    BY <1>19, <2>1 DEF CleanupRemove
  <2>3. QED
    BY <1>19, <2>2 DEF CleanupRemove
<1>20. CASE CleanupRewind
  BY <1>20 DEF CleanupRewind
<1>21. ASSUME NEW p \in Pids, CleanupEntry(p)
      PROVE  TypeOK'
  BY <1>21 DEF CleanupEntry
<1>22. ASSUME NEW i \in Instances, MonitorAccess(i)
      PROVE  TypeOK'
  BY <1>22 DEF MonitorAccess, SetMonitor
<1>23. ASSUME NEW i \in Instances, MonitorOpen(i)
      PROVE  TypeOK'
  <2>1. /\ monitor' \in [Instances -> MonitorState]
        /\ reading' \in [Instances -> 0 .. MaxLives]
    <3>1. monitorPid[i] \in Pids
      BY <1>23 DEF MonitorOpen, KnowsPid
    <3>2. QED
      BY <1>23, <3>1 DEF MonitorOpen, SetMonitor
  <2>2. QED
    BY <1>23, <2>1 DEF MonitorOpen
<1>24. ASSUME NEW i \in Instances, MonitorEof(i)
      PROVE  TypeOK'
  BY <1>24 DEF MonitorEof, SetMonitor
<1>25. CASE UNCHANGED vars
  BY <1>25 DEF vars, shmVars
<1>26. QED
  BY <1>1, <1>2, <1>3, <1>4, <1>5, <1>6, <1>7, <1>8, <1>9, <1>10, <1>11,
     <1>12, <1>13, <1>14, <1>15, <1>16, <1>17, <1>18, <1>19, <1>20, <1>21,
     <1>22, <1>23, <1>24, <1>25
  DEF Next, UserStep, TaskStep, CheckThread, CleanupThread, MonitorThread

\* One step keeps the pid that a thread works on known: whoever acts on an id or
\* an instance has one.
LEMMA KnowsPidStep ==
  ASSUME TypeOK, KnowsPid, [Next]_vars
  PROVE  KnowsPid'
<1> USE DEF TypeOK, KnowsPid
<1> USE DEF shmVars, supVars, tableVars, monVars, ckVars, clVars, countVars
<1>1. ASSUME NEW p \in Pids, TaskStart(p), UNCHANGED <<supVars, countVars>>
      PROVE  KnowsPid'
  BY <1>1 DEF TaskStart
<1>2. ASSUME NEW p \in Pids, TaskMkfifo(p), UNCHANGED <<supVars, countVars>>
      PROVE  KnowsPid'
  BY <1>2 DEF TaskMkfifo
<1>3. ASSUME NEW p \in Pids, ProcessDies(p), UNCHANGED <<supVars, countVars>>
      PROVE  KnowsPid'
  BY <1>3 DEF ProcessDies
<1>4. ASSUME NEW p \in Pids, ProcessReaped(p), UNCHANGED <<supVars, countVars>>
      PROVE  KnowsPid'
  BY <1>4 DEF ProcessReaped
<1>5. ASSUME NEW p \in Pids, ThreadExits(p), UNCHANGED <<supVars, countVars>>
      PROVE  KnowsPid'
  BY <1>5 DEF ThreadExits
<1>6. ASSUME NEW p \in Pids, ProcessExits(p), UNCHANGED <<supVars, countVars>>
      PROVE  KnowsPid'
  BY <1>6 DEF ProcessExits
<1>7. ASSUME NEW p \in Pids, UserOpen(p)
      PROVE  KnowsPid'
  BY <1>7 DEF UserOpen, TaskOpen
<1>8. CASE Start
  BY <1>8 DEF Start
<1>9. CASE Kill
  BY <1>9 DEF Kill
<1>10. CASE CheckScan
  BY <1>10 DEF CheckScan
<1>11. CASE CheckNoMoreEntries
  BY <1>11 DEF CheckNoMoreEntries
<1>12. CASE CheckReserve
  BY <1>12 DEF CheckReserve
<1>13. CASE CheckSetPid
  BY <1>13 DEF CheckSetPid
<1>14. CASE CheckCreate
  BY <1>14 DEF CheckCreate
<1>15. CASE CheckCreateFails
  BY <1>15 DEF CheckCreateFails
<1>16. ASSUME NEW p \in Pids, CheckEntry(p)
      PROVE  KnowsPid'
  BY <1>16 DEF CheckEntry
<1>17. CASE CleanupScan
  BY <1>17 DEF CleanupScan
<1>18. CASE CleanupExist
  BY <1>18 DEF CleanupExist
<1>19. CASE CleanupRemove
  BY <1>19 DEF CleanupRemove
<1>20. CASE CleanupRewind
  BY <1>20 DEF CleanupRewind
<1>21. ASSUME NEW p \in Pids, CleanupEntry(p)
      PROVE  KnowsPid'
  BY <1>21 DEF CleanupEntry
<1>22. ASSUME NEW i \in Instances, MonitorAccess(i)
      PROVE  KnowsPid'
  BY <1>22 DEF MonitorAccess, SetMonitor
<1>23. ASSUME NEW i \in Instances, MonitorOpen(i)
      PROVE  KnowsPid'
  BY <1>23 DEF MonitorOpen, SetMonitor
<1>24. ASSUME NEW i \in Instances, MonitorEof(i)
      PROVE  KnowsPid'
  BY <1>24 DEF MonitorEof, SetMonitor
<1>25. CASE UNCHANGED vars
  BY <1>25 DEF vars, shmVars
<1>26. QED
  BY <1>1, <1>2, <1>3, <1>4, <1>5, <1>6, <1>7, <1>8, <1>9, <1>10, <1>11,
     <1>12, <1>13, <1>14, <1>15, <1>16, <1>17, <1>18, <1>19, <1>20, <1>21,
     <1>22, <1>23, <1>24, <1>25
  DEF Next, UserStep, TaskStep, CheckThread, CleanupThread, MonitorThread

\* Types and known pids are invariants together.
LEMMA TypesAndPids == Spec => [](TypeOK /\ KnowsPid)
<1>1. Init => TypeOK
  <2>1. SUFFICES ASSUME Init PROVE TypeOK
    OBVIOUS
  <2>2. /\ task \in [Pids -> TaskState] /\ monitor \in [Instances -> MonitorState]
        /\ isTaskBeingTraced \in [Instances -> BOOLEAN]
        /\ monitorPid \in [Instances -> Pids \cup {NoPid}]
    BY <2>1, Zenon DEF Init, ShmInit, Fresh, TaskState, MonitorState
  <2>3. /\ life \in [Pids -> 0 .. MaxLives] /\ fifo \in [Pids -> 0 .. MaxLives]
        /\ reading \in [Instances -> 0 .. MaxLives]
    BY <2>1, SharedMemAssumption DEF Init, ShmInit, Fresh, NoFifo
  <2>4. ckInstance \in Instances /\ kills \in 0 .. MaxKills
        /\ createFailures \in 0 .. MaxCreateFailures
    BY <2>1, SupervisorAssumption DEF Init, Fresh, Instances
  <2>5. /\ writers = {} /\ up = FALSE /\ ckPc = "opendir" /\ ckList = {}
        /\ ckPid = NoPid /\ clPc = "readdir" /\ clList = {} /\ clPid = NoPid
    BY <2>1, Zenon DEF Init, ShmInit, Fresh
  <2>6. QED
    BY <2>2, <2>3, <2>4, <2>5, Zenon DEF TypeOK
<1>2. Init => KnowsPid
  <2>1. Init => /\ ckPc = "opendir" /\ clPc = "readdir"
                /\ \A i \in Instances : monitor[i] = "none"
    BY Zenon DEF Init, Fresh
  <2>2. QED
    BY <2>1 DEF KnowsPid
<1>3. TypeOK /\ KnowsPid /\ [Next]_vars => TypeOK' /\ KnowsPid'
  BY TypeStep, KnowsPidStep
<1>4. QED
  BY <1>1, <1>2, <1>3, PTL DEF Spec

\* Every variable keeps its type.
THEOREM SupervisorTypes == Spec => []TypeOK
BY TypesAndPids, PTL

----------------------------------------------------------------------------
(* A running task keeps its region. *)

\* From the listing to the removal the path of an entry names a FIFO, since
\* the cleanup thread alone removes them.  A task that starts meanwhile under
\* the id of a dead one is refused, so none is using the path at the removal.
RegionsHeld ==
  /\ RunningTaskKeepsRegion
  /\ \A p \in clList : fifo[p] # NoFifo
  /\ clPc \in {"exist", "remove"} => fifo[clPid] # NoFifo /\ clPid \notin clList
  /\ clPc = "remove" => task[clPid] \in {"none", "zombie", "refused"}

\* One step keeps the regions of running tasks.  What makes it inductive is that
\* no running task uses the path the cleanup thread is about to remove.
LEMMA RegionsStep ==
  ASSUME TypeOK, KnowsPid, RegionsHeld, [Next]_vars
  PROVE  RegionsHeld'
<1> USE DEF TypeOK, TaskState, Running, KnowsPid, RegionsHeld, RunningTaskKeepsRegion, NoFifo
<1> USE DEF shmVars, supVars, tableVars, monVars, ckVars, clVars, countVars
<1>1. ASSUME NEW p \in Pids, TaskStart(p), UNCHANGED <<supVars, countVars>>
      PROVE  RegionsHeld'
  BY <1>1 DEF TaskStart
<1>2. ASSUME NEW p \in Pids, TaskMkfifo(p), UNCHANGED <<supVars, countVars>>
      PROVE  RegionsHeld'
  BY <1>2 DEF TaskMkfifo
<1>3. ASSUME NEW p \in Pids, ProcessDies(p), UNCHANGED <<supVars, countVars>>
      PROVE  RegionsHeld'
  BY <1>3 DEF ProcessDies
<1>4. ASSUME NEW p \in Pids, ProcessReaped(p), UNCHANGED <<supVars, countVars>>
      PROVE  RegionsHeld'
  BY <1>4 DEF ProcessReaped
<1>5. ASSUME NEW p \in Pids, ThreadExits(p), UNCHANGED <<supVars, countVars>>
      PROVE  RegionsHeld'
  BY <1>5 DEF ThreadExits
<1>6. ASSUME NEW p \in Pids, ProcessExits(p), UNCHANGED <<supVars, countVars>>
      PROVE  RegionsHeld'
  BY <1>6 DEF ProcessExits
<1>7. ASSUME NEW p \in Pids, UserOpen(p)
      PROVE  RegionsHeld'
  BY <1>7 DEF UserOpen, TaskOpen
<1>8. CASE Start
  BY <1>8 DEF Start
<1>9. CASE Kill
  BY <1>9 DEF Kill
<1>10. CASE CheckScan
  BY <1>10 DEF CheckScan
<1>11. CASE CheckNoMoreEntries
  BY <1>11 DEF CheckNoMoreEntries
<1>12. CASE CheckReserve
  BY <1>12 DEF CheckReserve
<1>13. CASE CheckSetPid
  BY <1>13 DEF CheckSetPid
<1>14. CASE CheckCreate
  BY <1>14 DEF CheckCreate
<1>15. CASE CheckCreateFails
  BY <1>15 DEF CheckCreateFails
<1>16. ASSUME NEW p \in Pids, CheckEntry(p)
      PROVE  RegionsHeld'
  BY <1>16 DEF CheckEntry
<1>17. CASE CleanupScan
  BY <1>17 DEF CleanupScan, Regions
<1>18. CASE CleanupExist
  BY <1>18 DEF CleanupExist, Exists
<1>19. CASE CleanupRemove
  BY <1>19 DEF CleanupRemove
<1>20. CASE CleanupRewind
  BY <1>20 DEF CleanupRewind
<1>21. ASSUME NEW p \in Pids, CleanupEntry(p)
      PROVE  RegionsHeld'
  BY <1>21 DEF CleanupEntry
<1>22. ASSUME NEW i \in Instances, MonitorAccess(i)
      PROVE  RegionsHeld'
  BY <1>22 DEF MonitorAccess, SetMonitor
<1>23. ASSUME NEW i \in Instances, MonitorOpen(i)
      PROVE  RegionsHeld'
  BY <1>23 DEF MonitorOpen, SetMonitor
<1>24. ASSUME NEW i \in Instances, MonitorEof(i)
      PROVE  RegionsHeld'
  BY <1>24 DEF MonitorEof, SetMonitor
<1>25. CASE UNCHANGED vars
  BY <1>25 DEF vars, shmVars
<1>26. QED
  BY <1>1, <1>2, <1>3, <1>4, <1>5, <1>6, <1>7, <1>8, <1>9, <1>10, <1>11,
     <1>12, <1>13, <1>14, <1>15, <1>16, <1>17, <1>18, <1>19, <1>20, <1>21,
     <1>22, <1>23, <1>24, <1>25
  DEF Next, UserStep, TaskStep, CheckThread, CleanupThread, MonitorThread

\* The removal of a region never takes it from a running task, however many
\* tasks, reuses of ids and restarts of the supervisor there are.
THEOREM SupervisorKeepsRegions == Spec => []RunningTaskKeepsRegion
<1>1. Init => RegionsHeld
  <2>1. SUFFICES ASSUME Init PROVE RegionsHeld
    OBVIOUS
  <2>2. clList = {} /\ clPc = "readdir" /\ \A p \in Pids : task[p] = "none"
    BY <2>1, Zenon DEF Init, ShmInit, Fresh
  <2>3. QED
    BY <2>2 DEF RegionsHeld, RunningTaskKeepsRegion
<1>2. TypeOK /\ KnowsPid /\ RegionsHeld /\ [Next]_vars => RegionsHeld'
  BY RegionsStep
<1>3. RegionsHeld => RunningTaskKeepsRegion
  BY DEF RegionsHeld
<1>4. QED
  BY <1>1, <1>2, <1>3, TypesAndPids, PTL DEF Spec

----------------------------------------------------------------------------
(* No FIFO has two readers. *)

\* No two instances in use have the same task.  The gap between the mutex and
\* the pid does no harm because the one thread that looks for untraced tasks
\* is the one that fills the gap.
OneInstancePerTask ==
  /\ \A i, j \in Instances : i # j /\ monitorPid[i] \in Pids => monitorPid[i] # monitorPid[j]
  /\ \A i \in Instances : monitorPid[i] \in Pids => isTaskBeingTraced[i]
  /\ ckPc \in {"reserve", "setPid"} => \A i \in Instances : monitorPid[i] # ckPid
  /\ ckPc = "setPid" => isTaskBeingTraced[ckInstance]

\* One step keeps the tasks to one instance each: the check thread is the only
\* one that reserves, so no second instance gets the pid it is about to write.
LEMMA OneInstanceStep ==
  ASSUME TypeOK, KnowsPid, OneInstancePerTask, [Next]_vars
  PROVE  OneInstancePerTask'
<1> USE SupervisorAssumption DEF TypeOK, KnowsPid, OneInstancePerTask
<1> USE DEF shmVars, supVars, tableVars, monVars, ckVars, clVars, countVars
<1>1. ASSUME NEW p \in Pids, TaskStart(p), UNCHANGED <<supVars, countVars>>
      PROVE  OneInstancePerTask'
  BY <1>1 DEF TaskStart
<1>2. ASSUME NEW p \in Pids, TaskMkfifo(p), UNCHANGED <<supVars, countVars>>
      PROVE  OneInstancePerTask'
  BY <1>2 DEF TaskMkfifo
<1>3. ASSUME NEW p \in Pids, ProcessDies(p), UNCHANGED <<supVars, countVars>>
      PROVE  OneInstancePerTask'
  BY <1>3 DEF ProcessDies
<1>4. ASSUME NEW p \in Pids, ProcessReaped(p), UNCHANGED <<supVars, countVars>>
      PROVE  OneInstancePerTask'
  BY <1>4 DEF ProcessReaped
<1>5. ASSUME NEW p \in Pids, ThreadExits(p), UNCHANGED <<supVars, countVars>>
      PROVE  OneInstancePerTask'
  BY <1>5 DEF ThreadExits
<1>6. ASSUME NEW p \in Pids, ProcessExits(p), UNCHANGED <<supVars, countVars>>
      PROVE  OneInstancePerTask'
  BY <1>6 DEF ProcessExits
<1>7. ASSUME NEW p \in Pids, UserOpen(p)
      PROVE  OneInstancePerTask'
  BY <1>7 DEF UserOpen, TaskOpen
<1>8. CASE Start
  BY <1>8 DEF Start
<1>9. CASE Kill
  BY <1>9 DEF Kill
<1>10. CASE CheckScan
  BY <1>10 DEF CheckScan
<1>11. CASE CheckNoMoreEntries
  BY <1>11 DEF CheckNoMoreEntries
<1>12. CASE CheckReserve
  BY <1>12 DEF CheckReserve, FreeInstances
<1>13. CASE CheckSetPid
  BY <1>13 DEF CheckSetPid
<1>14. CASE CheckCreate
  BY <1>14 DEF CheckCreate
<1>15. CASE CheckCreateFails
  BY <1>15 DEF CheckCreateFails
<1>16. ASSUME NEW p \in Pids, CheckEntry(p)
      PROVE  OneInstancePerTask'
  <2>1. CASE Traced(p)
    BY <1>16, <2>1 DEF CheckEntry
  <2>2. CASE ~Traced(p)
    <3>1. \A i \in Instances : monitorPid[i] # p
      BY <2>2 DEF Traced
    <3>2. QED
      BY <1>16, <2>2, <3>1 DEF CheckEntry
  <2>3. QED
    BY <2>1, <2>2
<1>17. CASE CleanupScan
  BY <1>17 DEF CleanupScan
<1>18. CASE CleanupExist
  BY <1>18 DEF CleanupExist
<1>19. CASE CleanupRemove
  BY <1>19 DEF CleanupRemove
<1>20. CASE CleanupRewind
  BY <1>20 DEF CleanupRewind
<1>21. ASSUME NEW p \in Pids, CleanupEntry(p)
      PROVE  OneInstancePerTask'
  BY <1>21 DEF CleanupEntry
<1>22. ASSUME NEW i \in Instances, MonitorAccess(i)
      PROVE  OneInstancePerTask'
  BY <1>22 DEF MonitorAccess, SetMonitor
<1>23. ASSUME NEW i \in Instances, MonitorOpen(i)
      PROVE  OneInstancePerTask'
  BY <1>23 DEF MonitorOpen, SetMonitor
<1>24. ASSUME NEW i \in Instances, MonitorEof(i)
      PROVE  OneInstancePerTask'
  BY <1>24 DEF MonitorEof, SetMonitor
<1>25. CASE UNCHANGED vars
  BY <1>25 DEF vars, shmVars
<1>26. QED
  BY <1>1, <1>2, <1>3, <1>4, <1>5, <1>6, <1>7, <1>8, <1>9, <1>10, <1>11,
     <1>12, <1>13, <1>14, <1>15, <1>16, <1>17, <1>18, <1>19, <1>20, <1>21,
     <1>22, <1>23, <1>24, <1>25
  DEF Next, UserStep, TaskStep, CheckThread, CleanupThread, MonitorThread

\* So it is in every state.
LEMMA SupervisorOneInstance == Spec => []OneInstancePerTask
<1>1. Init => OneInstancePerTask
  <2>1. SUFFICES ASSUME Init PROVE OneInstancePerTask
    OBVIOUS
  <2>2. ckPc = "opendir" /\ \A i \in Instances : monitorPid[i] = NoPid
    BY <2>1, Zenon DEF Init, Fresh
  <2>3. QED
    BY <2>2, SupervisorAssumption DEF OneInstancePerTask
<1>2. TypeOK /\ KnowsPid /\ OneInstancePerTask /\ [Next]_vars => OneInstancePerTask'
  BY OneInstanceStep
<1>3. QED
  BY <1>1, <1>2, TypesAndPids, PTL DEF Spec

\* Whatever the interleaving of the supervisor's threads, two monitors never
\* read one FIFO.
THEOREM SupervisorOneReader == Spec => []OneReader
<1>1. TypeOK /\ KnowsPid /\ OneInstancePerTask => OneReader
  BY DEF TypeOK, KnowsPid, OneInstancePerTask, OneReader, MonitorState
<1>2. QED
  BY <1>1, TypesAndPids, SupervisorOneInstance, PTL

----------------------------------------------------------------------------
(* The table the other threads see. *)

\* A step of the supervisor, of whichever thread, is one of the table or none: the
\* search of the check thread (Supervisor.c:131) and its wait for an instance
\* (:160) are invisible, and what it found is still true when it reserves.
LEMMA TableRefinementStep ==
  ASSUME TypeOK, KnowsPid, OneInstancePerTask, [Next]_vars
  PROVE  [TheTable!TableNext]_(TheTable!tableVars)
<1> USE DEF TheTable!TableNext, TheTable!tableVars
<1> USE DEF shmVars, supVars, tableVars, monVars, ckVars, clVars, countVars
<1>1. ASSUME UNCHANGED <<isTaskBeingTraced, monitorPid, ckPid, ckInstance>>,
             (ckPc = "setPid") <=> (ckPc' = "setPid")
      PROVE  [TheTable!TableNext]_(TheTable!tableVars)
  BY <1>1
<1>2. ASSUME UNCHANGED <<isTaskBeingTraced, monitorPid, ckInstance>>,
             ckPc # "setPid", ckPc' # "setPid"
      PROVE  [TheTable!TableNext]_(TheTable!tableVars)
  BY <1>2
<1>3. CASE \E p \in Pids : UserStep(p)
  BY <1>1, <1>3 DEF UserStep
<1>4. CASE \E p \in Pids : UserOpen(p)
  BY <1>1, <1>4 DEF UserOpen
<1>5. CASE Start
  BY <1>1, <1>5 DEF Start
<1>6. CASE Kill
  <2>1. TheTable!Restart
    BY <1>6 DEF Kill, TheTable!Restart, TheTable!Instances, Instances
  <2>2. QED
    BY <2>1
<1>7. CASE CheckScan \/ CheckNoMoreEntries \/ CheckCreate \/ CheckCreateFails
  BY <1>2, <1>7 DEF CheckScan, CheckNoMoreEntries, CheckCreate, CheckCreateFails
<1>8. ASSUME NEW p \in Pids, CheckEntry(p)
      PROVE  [TheTable!TableNext]_(TheTable!tableVars)
  BY <1>2, <1>8 DEF CheckEntry
<1>9. CASE CheckReserve
  <2>1. /\ ckPc = "reserve" /\ ckPc' = "setPid" /\ ckPid' = ckPid /\ monitorPid' = monitorPid
        /\ ckPid \in Pids
    BY <1>9 DEF CheckReserve, KnowsPid
  <2>2. ~TheTable!Traced(ckPid)
    BY <2>1 DEF OneInstancePerTask, TheTable!Traced, TheTable!Instances, Instances
  <2>3. \E i \in TheTable!FreeInstances :
          /\ \A j \in TheTable!FreeInstances : i <= j
          /\ isTaskBeingTraced' = [isTaskBeingTraced EXCEPT ![i] = TRUE]
          /\ ckInstance' = i
    BY <1>9 DEF CheckReserve, FreeInstances, Instances,
                TheTable!FreeInstances, TheTable!Instances
  <2>4. TheTable!Reserve(ckPid)
    BY <2>1, <2>2, <2>3 DEF TheTable!Reserve
  <2>5. QED
    BY <2>1, <2>4
<1>10. CASE CheckSetPid
  <2>1. /\ ckPc = "setPid" /\ ckPc' = "create" /\ ckPid \in Pids
        /\ monitorPid' = [monitorPid EXCEPT ![ckInstance] = ckPid]
        /\ UNCHANGED <<isTaskBeingTraced, ckInstance>>
    BY <1>10 DEF CheckSetPid, KnowsPid
  <2>2. TheTable!SetPid
    BY <2>1, SupervisorAssumption DEF TheTable!SetPid
  <2>3. QED
    BY <2>2
<1>11. CASE CleanupThread
  BY <1>1, <1>11 DEF CleanupThread, CleanupScan, CleanupEntry, CleanupExist, CleanupRemove,
                     CleanupRewind
<1>12. CASE \E i \in Instances : MonitorThread(i)
  BY <1>1, <1>12 DEF MonitorThread, MonitorAccess, MonitorOpen, MonitorEof
<1>13. CASE UNCHANGED vars
  BY <1>1, <1>13 DEF vars
<1>14. QED
  BY <1>3, <1>4, <1>5, <1>6, <1>7, <1>8, <1>9, <1>10, <1>11, <1>12, <1>13
  DEF Next, CheckThread

\* With any number of tasks, reuses of ids, instances, kills and failures to create
\* a thread, the supervisor gives its other threads the table of module Table.
THEOREM SupervisorImplementsTable == Spec => ImplementsTable
<1>1. Init => TheTable!TableInit
  BY Zenon DEF Init, Fresh, TheTable!TableInit, TheTable!Instances, Instances
<1>2. TypeOK /\ KnowsPid /\ OneInstancePerTask /\ [Next]_vars
        => [TheTable!TableNext]_(TheTable!tableVars)
  BY TableRefinementStep
<1>3. QED
  BY <1>1, <1>2, TypesAndPids, SupervisorOneInstance, PTL
     DEF Spec, ImplementsTable, TheTable!TableSpec

----------------------------------------------------------------------------
(* A monitor without a region has no running task. *)

\* The supervisor has a trace of p: its region, or the id in one of its threads.
Known(p) ==
  \/ fifo[p] # NoFifo
  \/ p \in ckList
  \/ ckPc \in {"reserve", "setPid", "create"} /\ ckPid = p
  \/ \E i \in Instances : monitorPid[i] = p

\* If ids are not used again a task that is not yet past its access() is known
\* to nobody, and no task is refused.  What the threads know of is a task that
\* has made its region, and an instance gets its pid before it has a thread.
OneLife ==
  /\ \A p \in Pids : task[p] # "none" \/ Known(p) => life[p] # 0
  /\ \A p \in Pids : task[p] # "refused" /\ (task[p] = "checked" => ~Known(p))
  /\ \A i \in Instances : monitor[i] = "badfd" => task[monitorPid[i]] \in {"none", "zombie"}
  /\ \A i \in Instances : ~isTaskBeingTraced[i] => monitor[i] = "none"
  /\ ckPc \in {"setPid", "create"} =>
       isTaskBeingTraced[ckInstance] /\ monitor[ckInstance] = "none"

\* A task known to the supervisor whose region is gone is dead, since the cleanup
\* thread takes no region from a running task (Supervisor.c:216).
LEMMA WithoutRegionDead ==
  ASSUME TypeOK, RunningTaskKeepsRegion, OneLife, NEW p \in Pids, Known(p), fifo[p] = NoFifo
  PROVE  task[p] \in {"none", "zombie"}
BY DEF TypeOK, TaskState, Running, RunningTaskKeepsRegion, OneLife, NoFifo

\* One step keeps an id that is known from getting a second task.
LEMMA OneLifeStep ==
  ASSUME MaxLives = 1, TypeOK, KnowsPid, RunningTaskKeepsRegion, OneLife, [Next]_vars
  PROVE  OneLife'
<1> USE SharedMemAssumption, SupervisorAssumption
    DEF TypeOK, TaskState, Running, KnowsPid, RunningTaskKeepsRegion, OneLife, Known, NoFifo
<1> USE DEF shmVars, supVars, tableVars, monVars, ckVars, clVars, countVars
<1>1. ASSUME NEW p \in Pids, TaskStart(p), UNCHANGED <<supVars, countVars>>
      PROVE  OneLife'
  BY <1>1 DEF TaskStart
<1>2. ASSUME NEW p \in Pids, TaskMkfifo(p), UNCHANGED <<supVars, countVars>>
      PROVE  OneLife'
  BY <1>2 DEF TaskMkfifo
<1>3. ASSUME NEW p \in Pids, ProcessDies(p), UNCHANGED <<supVars, countVars>>
      PROVE  OneLife'
  BY <1>3 DEF ProcessDies
<1>4. ASSUME NEW p \in Pids, ProcessReaped(p), UNCHANGED <<supVars, countVars>>
      PROVE  OneLife'
  BY <1>4 DEF ProcessReaped
<1>5. ASSUME NEW p \in Pids, ThreadExits(p), UNCHANGED <<supVars, countVars>>
      PROVE  OneLife'
  BY <1>5 DEF ThreadExits
<1>6. ASSUME NEW p \in Pids, ProcessExits(p), UNCHANGED <<supVars, countVars>>
      PROVE  OneLife'
  BY <1>6 DEF ProcessExits
<1>7. ASSUME NEW p \in Pids, UserOpen(p)
      PROVE  OneLife'
  BY <1>7 DEF UserOpen, TaskOpen
<1>8. CASE Start
  BY <1>8 DEF Start
<1>9. CASE Kill
  BY <1>9 DEF Kill
<1>10. CASE CheckScan
  BY <1>10 DEF CheckScan, Regions
<1>11. CASE CheckNoMoreEntries
  BY <1>11 DEF CheckNoMoreEntries
<1>12. CASE CheckReserve
  BY <1>12 DEF CheckReserve, FreeInstances
<1>13. CASE CheckSetPid
  BY <1>13 DEF CheckSetPid
<1>14. CASE CheckCreate
  BY <1>14 DEF CheckCreate
<1>15. CASE CheckCreateFails
  BY <1>15 DEF CheckCreateFails
<1>16. ASSUME NEW p \in Pids, CheckEntry(p)
      PROVE  OneLife'
  BY <1>16 DEF CheckEntry
<1>17. CASE CleanupScan
  BY <1>17 DEF CleanupScan
<1>18. CASE CleanupExist
  BY <1>18 DEF CleanupExist
<1>19. CASE CleanupRemove
  BY <1>19 DEF CleanupRemove
<1>20. CASE CleanupRewind
  BY <1>20 DEF CleanupRewind
<1>21. ASSUME NEW p \in Pids, CleanupEntry(p)
      PROVE  OneLife'
  BY <1>21 DEF CleanupEntry
<1>22. ASSUME NEW i \in Instances, MonitorAccess(i)
      PROVE  OneLife'
  BY <1>22 DEF MonitorAccess, SetMonitor
<1>23. ASSUME NEW i \in Instances, MonitorOpen(i)
      PROVE  OneLife'
  BY <1>23 DEF MonitorOpen, SetMonitor
<1>24. ASSUME NEW i \in Instances, MonitorEof(i)
      PROVE  OneLife'
  BY <1>24 DEF MonitorEof, SetMonitor
<1>25. CASE UNCHANGED vars
  BY <1>25 DEF vars, shmVars
<1>26. QED
  BY <1>1, <1>2, <1>3, <1>4, <1>5, <1>6, <1>7, <1>8, <1>9, <1>10, <1>11,
     <1>12, <1>13, <1>14, <1>15, <1>16, <1>17, <1>18, <1>19, <1>20, <1>21,
     <1>22, <1>23, <1>24, <1>25
  DEF Next, UserStep, TaskStep, CheckThread, CleanupThread, MonitorThread

\* As long as ids are not used again, a monitor that lost the race for its region
\* has no running task to trace, for any number of tasks, instances and restarts.
THEOREM SupervisorOnlyDeadLoseMonitor == Spec => [](MaxLives = 1 => OnlyDeadTasksLoseMonitor)
<1>1. Init => OneLife
  <2>1. SUFFICES ASSUME Init PROVE OneLife
    OBVIOUS
  <2>2. /\ \A p \in Pids : task[p] = "none" /\ fifo[p] = NoFifo
        /\ ckList = {} /\ ckPc = "opendir"
        /\ \A i \in Instances : monitor[i] = "none" /\ monitorPid[i] = NoPid
    BY <2>1, Zenon DEF Init, ShmInit, Fresh
  <2>3. QED
    BY <2>2, SupervisorAssumption DEF OneLife, Known
<1>2. TypeOK /\ KnowsPid /\ RunningTaskKeepsRegion /\ (MaxLives = 1 => OneLife) /\ [Next]_vars
        => (MaxLives = 1 => OneLife)'
  BY OneLifeStep
<1>3. TypeOK /\ KnowsPid /\ RunningTaskKeepsRegion /\ (MaxLives = 1 => OneLife)
        => (MaxLives = 1 => OnlyDeadTasksLoseMonitor)
  <2>1. SUFFICES ASSUME TypeOK, KnowsPid, RunningTaskKeepsRegion, OneLife,
                        NEW i \in Instances, monitor[i] = "access", fifo[monitorPid[i]] = NoFifo
                 PROVE  task[monitorPid[i]] \in {"none", "zombie"}
    BY DEF OnlyDeadTasksLoseMonitor, OneLife
  <2>2. monitorPid[i] \in Pids
    BY <2>1 DEF KnowsPid
  <2>3. Known(monitorPid[i])
    BY DEF Known
  <2>4. QED
    BY <2>1, <2>2, <2>3, WithoutRegionDead
<1>4. QED
  BY <1>1, <1>2, <1>3, TypesAndPids, SupervisorKeepsRegions, PTL DEF Spec

=============================================================================
