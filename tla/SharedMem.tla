----------------------------- MODULE SharedMem -----------------------------
(***************************************************************************)
(* The named pipes under /tmp/udesc/taskMonitor/ and the tasks that make   *)
(* them (Common/SharedMem/SharedMem.c, Common/Process/Process.c).  A task  *)
(* has one region, a FIFO named after its thread id; the supervisor knows  *)
(* a task by the name of its FIFO alone.                                   *)
(*                                                                         *)
(* The kernel gives a thread id to a new task once the last task that had  *)
(* it is gone.  `life` numbers the tasks that had an id, and a FIFO is     *)
(* known by the life of the task that made it: the path may name a FIFO    *)
(* of an earlier life, or a reader may still hold one the path no longer   *)
(* names.                                                                  *)
(***************************************************************************)
EXTENDS Integers

CONSTANTS
  Pids,       \* thread ids of traced tasks
  MaxLives    \* bound: tasks that get the same id, one after the other

ASSUME SharedMemAssumption == MaxLives \in Nat

VARIABLES
  task,       \* per id: where its task is in SharedMem_userInit, or its end
  life,       \* per id: the number of tasks that have had it
  fifo,       \* per id: the life that made the FIFO its path names, or NoFifo
  writers     \* the FIFOs <<id, life>> some process has open for writing

shmVars == <<task, life, fifo, writers>>

NoFifo == 0

\* States of an id whose task is running.
Running == {"checked", "made", "open", "refused"}

TaskState == {"none", "zombie"} \cup Running

ShmInit ==
  /\ task = [p \in Pids |-> "none"]
  /\ life = [p \in Pids |-> 0]
  /\ fifo = [p \in Pids |-> NoFifo]
  /\ writers = {}

\* PID_checkIfExist: kill(pid, 0) finds a running task and also a process that
\* is dead and not reaped.
Exists(p) == task[p] # "none"

----------------------------------------------------------------------------
(* SharedMem_userInit, called by a task of its own accord. *)

\* A new task gets the id, and its access() finds the path free or taken.
TaskStart(p) ==
  /\ task[p] = "none" /\ life[p] < MaxLives
  /\ life' = [life EXCEPT ![p] = life[p] + 1]
  /\ task' = [task EXCEPT ![p] = IF fifo[p] = NoFifo THEN "checked" ELSE "refused"]
  /\ UNCHANGED <<fifo, writers>>

\* mkfifoat fails if the path has been taken since access().
TaskMkfifo(p) ==
  /\ task[p] = "checked"
  /\ IF fifo[p] = NoFifo
       THEN /\ fifo' = [fifo EXCEPT ![p] = life[p]]
            /\ task' = [task EXCEPT ![p] = "made"]
       ELSE /\ task' = [task EXCEPT ![p] = "refused"]
            /\ UNCHANGED fifo
  /\ UNCHANGED <<life, writers>>

\* open(O_RDWR | O_NONBLOCK) never waits; it fails if the path is gone.
TaskOpen(p) ==
  /\ task[p] = "made"
  /\ IF fifo[p] # NoFifo
       THEN /\ writers' = writers \cup {<<p, fifo[p]>>}
            /\ task' = [task EXCEPT ![p] = "open"]
       ELSE /\ task' = [task EXCEPT ![p] = "refused"]
            /\ UNCHANGED writers
  /\ UNCHANGED <<life, fifo>>

----------------------------------------------------------------------------
(* The end of a task.  Nothing removes the FIFO: TaskTrace_deinit does not  *)
(* reach SharedMem_userDeinit.                                              *)

\* The process ends, by itself or killed: its descriptors are closed first.
ProcessDies(p) ==
  /\ task[p] \in Running
  /\ task' = [task EXCEPT ![p] = "zombie"]
  /\ writers' = writers \ {<<p, life[p]>>}
  /\ UNCHANGED <<life, fifo>>

\* Its parent waits for it, and the id is free.
ProcessReaped(p) ==
  /\ task[p] = "zombie"
  /\ task' = [task EXCEPT ![p] = "none"]
  /\ UNCHANGED <<life, fifo, writers>>

\* The traced task was one thread of a process that goes on: the id is free at
\* once and the descriptor stays open.
ThreadExits(p) ==
  /\ task[p] \in Running
  /\ task' = [task EXCEPT ![p] = "none"]
  /\ UNCHANGED <<life, fifo, writers>>

\* The process of a thread that exited ends.
ProcessExits(p) ==
  /\ \E l \in 1 .. MaxLives :
       /\ <<p, l>> \in writers
       /\ l < life[p] \/ task[p] = "none"
       /\ writers' = writers \ {<<p, l>>}
  /\ UNCHANGED <<task, life, fifo>>

\* What tasks do without a reader noticing.
TaskStep(p) ==
  \/ TaskStart(p)
  \/ TaskMkfifo(p)
  \/ ProcessDies(p)
  \/ ProcessReaped(p)
  \/ ThreadExits(p)
  \/ ProcessExits(p)

=============================================================================
