------------------------------ MODULE Pipeline ------------------------------
(***************************************************************************)
(* The way of a telegram from a traced task to its FIFO: the task's calls  *)
(* of TaskTrace (TaskTrace/TaskTrace.c), which put telegrams in the queue  *)
(* of module Queue, the gateway thread that takes them out                 *)
(* (TaskTrace/Gateway/Gateway.c), and the FIFO between the gateway thread  *)
(* and the monitor (the last two functions of Common/SharedMem).           *)
(*                                                                         *)
(* The specification starts when TaskTrace_init has returned 0: the FIFO   *)
(* is open for reading and writing, so a write to it can only fail for     *)
(* want of room, and a telegram is small enough to be written whole or     *)
(* not at all.                                                             *)
(***************************************************************************)
EXTENDS Queue, Sequences

CONSTANT FIFO_SIZE      \* telegrams the kernel's buffer of a FIFO holds

ASSUME FifoAssumption == FIFO_SIZE \in Nat

VARIABLES
  isRecording,    \* TaskTrace.isRecording
  inJob,          \* the task is between the start and the stop of a job
  startRet,       \* what TaskTrace_traceExecutionStart returned last
  switchedOn,     \* history: recording was enabled since that call
  gateway,        \* where the gateway thread is in gateway_task
  fifo,           \* the telegrams in the FIFO, oldest first
  got             \* history: the telegram the monitor read last

taskVars == <<isRecording, inJob, startRet, switchedOn>>
wayVars  == <<gateway, fifo, got>>
allVars  == <<vars, taskVars, wayVars>>

PipelineInit ==
  /\ Init
  /\ isRecording = FALSE
  /\ inJob = FALSE /\ startRet = -1 /\ switchedOn = FALSE
  /\ gateway = "start"
  /\ fifo = <<>>
  /\ got = Whole(Blank)

----------------------------------------------------------------------------
(* The task's calls.  One thread makes them, so never inside Queue_add. *)

EnableRecording ==
  /\ adder = "idle" /\ ~isRecording
  /\ isRecording' = TRUE
  /\ switchedOn' = inJob
  /\ UNCHANGED <<inJob, startRet, vars, wayVars>>

DisableRecording ==
  /\ adder = "idle" /\ isRecording
  /\ isRecording' = FALSE
  /\ UNCHANGED <<inJob, startRet, switchedOn, vars, wayVars>>

\* The start of a job.  Only a return of 0 has written telegram.t1; the others
\* leave the start of an earlier job in it.  -2 is a failure of clock_gettime.
ExecutionStart ==
  /\ adder = "idle" /\ ~inJob
  /\ inJob' = TRUE
  /\ startRet' \in (IF isRecording THEN {0, -2} ELSE {-1})
  /\ switchedOn' = FALSE
  /\ UNCHANGED <<isRecording, vars, wayVars>>

\* Seeded fault: a stop that does not look at isRecording.
ExecutionStopUnchecked ==
  /\ adder = "idle" /\ inJob
  /\ AddCheck \/ AddFull
  /\ inJob' = FALSE
  /\ UNCHANGED <<isRecording, startRet, switchedOn, wayVars>>

\* The stop of a job: the call of Queue_add.
ExecutionStop ==
  /\ adder = "idle" /\ inJob /\ isRecording
  /\ AddCheck \/ AddFull
  /\ inJob' = FALSE
  /\ UNCHANGED <<isRecording, startRet, switchedOn, wayVars>>

\* The early returns of the stop: no recording, or a failure of clock_gettime.
ExecutionStopFails ==
  /\ adder = "idle" /\ inJob
  /\ inJob' = FALSE
  /\ UNCHANGED <<isRecording, startRet, switchedOn, vars, wayVars>>

TaskCalls ==
  \/ EnableRecording \/ DisableRecording
  \/ ExecutionStart \/ ExecutionStop \/ ExecutionStopFails

\* What is left of Queue_add once it has begun.
TaskQueues == Queue_add /\ UNCHANGED <<taskVars, wayVars>>

----------------------------------------------------------------------------
(* The gateway thread. *)

\* sched_setscheduler; without the permission for it the thread returns.
GatewaySched ==
  /\ gateway = "start"
  /\ gateway' \in {"next", "gone"}
  /\ UNCHANGED <<vars, taskVars, fifo, got>>

\* Seeded fault: the telegram is written before count is decremented.
GatewayNextWritesEarly ==
  /\ gateway = "next"
  /\ Queue_getNext
  /\ gateway' = IF getter = "copyHi" THEN "write" ELSE "next"
  /\ UNCHANGED <<taskVars, fifo, got>>

\* Queue_getNext in Gateway_update; after a failure the loop calls it again.
GatewayNext ==
  /\ gateway = "next"
  /\ Queue_getNext
  /\ gateway' = IF getter = "store" THEN "write" ELSE "next"
  /\ UNCHANGED <<taskVars, fifo, got>>

\* A write to the FIFO; with no room for the telegram it fails with EAGAIN.
AfterUserWrite(telegram) ==
  IF Len(fifo) < FIFO_SIZE THEN Append(fifo, telegram) ELSE fifo

\* Seeded fault: a write that succeeded is taken for a failure and repeated.
GatewayWriteRepeats ==
  /\ gateway = "write"
  /\ gateway' = IF Len(fifo) < FIFO_SIZE THEN "write" ELSE "next"
  /\ fifo' = AfterUserWrite(rx)
  /\ UNCHANGED <<vars, taskVars, got>>

\* Gateway_update's write of the telegram it was handed.  A failure with EAGAIN
\* is passed over, so the telegram is then gone.
GatewayWrite ==
  /\ gateway = "write"
  /\ gateway' = "next"
  /\ fifo' = AfterUserWrite(rx)
  /\ UNCHANGED <<vars, taskVars, got>>

GatewayTask == GatewaySched \/ GatewayNext \/ GatewayWrite

\* The monitor thread reads a telegram.
MonitorRead ==
  /\ fifo # <<>>
  /\ got' = Head(fifo)
  /\ fifo' = Tail(fifo)
  /\ UNCHANGED <<vars, taskVars, gateway>>

PipelineNext == TaskCalls \/ TaskQueues \/ GatewayTask \/ MonitorRead

PipelineSpec == PipelineInit /\ [][PipelineNext]_allVars

\* Queue_add runs to its end once called, and the gateway thread runs and
\* loops for ever.  The task need not queue another telegram and the monitor
\* need not read.
PipelineFairSpec ==
  PipelineSpec /\ WF_allVars(TaskQueues) /\ WF_allVars(GatewayTask)

----------------------------------------------------------------------------
(* Properties. *)

\* The types of the pipeline's own variables: the FIFO keeps its size, and the
\* gateway thread is inside Queue_getNext only while its loop is.
PipelineTypeOK ==
  /\ isRecording \in BOOLEAN /\ inJob \in BOOLEAN /\ switchedOn \in BOOLEAN
  /\ startRet \in {0, -1, -2}
  /\ gateway \in {"start", "next", "write", "gone"}
  /\ fifo \in Seq(Halves) /\ Len(fifo) <= FIFO_SIZE
  /\ got \in Halves
  /\ gateway # "next" => getter = "wait"

\* A telegram that is queued has the start of its own job, unless recording was
\* enabled inside the job: a caller that never does so need not look at what
\* the start returned, but for a failure of the clock.
OldStartOnlyIfSwitchedOn ==
  adder # "idle" => startRet \in {0, -2} \/ switchedOn

\* While the gateway thread has not begun to read, or when it gave up
\* (Gateway.c:64), a full ring is noticed: no more telegrams are accepted than
\* it has slots, and each further stop of the task returns -3.
FullRingRefuses == gateway \in {"start", "gone"} => sent <= QUEUE_SIZE

\* The telegram the gateway thread has taken and not yet written.
InHand  == getter \in {"load", "store"} \/ gateway = "write"
InRing  == [i \in 1 .. sent - received |-> Whole(received + i - 1)]

TheLink == INSTANCE Link WITH
  CAPACITY <- FIFO_SIZE,
  Telegram <- Whole,
  link     <- fifo \o (IF InHand THEN <<rx>> ELSE <<>>) \o InRing,
  put      <- sent

\* Until an increment of count is lost, the queue, the gateway thread and the
\* FIFO together keep the promise of module Link: what the monitor reads comes
\* whole, in order and once, and a telegram is dropped only behind a full FIFO
\* (Gateway.c:46), never because of the ring or of a failed Queue_getNext.
ImplementsLinkUntilLow ==
  TheLink!Init /\ [][low' \/ TheLink!Next]_(TheLink!lvars)

\* When no update of count is lost and the gateway thread did not give up, it
\* passes every telegram to the FIFO, which takes it or is full.
Passed == received - (IF InHand THEN 1 ELSE 0)
AllPassedUnlessLost ==
  [](Drift = 0 /\ gateway # "gone") =>
    \A k \in 1 .. MaxSent : sent >= k ~> Passed >= k

=============================================================================
