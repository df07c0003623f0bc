# TLA+ models of taskTrace

taskTrace watches real-time tasks on Linux, `SCHED_DEADLINE` tasks above all: a task links the
`TaskTrace` library and marks the start and the end of each job; a supervisor process works out
response times, latencies and lost deadlines from those marks. This directory models the program's
concurrent core in TLA+, checks it with TLC and proves the central invariants with TLAPS.

## The system

| part | state | operations | talks to |
|---|---|---|---|
| `TaskTrace` (TaskTrace.c) | recording flag, the telegram being filled | init, enable, disable, start, stop | the gateway, by call |
| `Gateway` (Gateway.c) | queue, FIFO descriptor | `Gateway_write` in the task; a thread that loops over `Gateway_update` | the queue, the FIFO |
| `Queue` (Queue.c) | ring, `head`, `tail`, `count`, semaphore | `Queue_add` in the task, `Queue_getNext` in the gateway thread | shared memory of the two threads |
| `SharedMem` (SharedMem.c) | FIFOs `/tmp/udesc/taskMonitor/<tid>` | user init, supervisor init, write, read | task, monitor, and the two supervisor threads that list the directory |
| `Process` (Process.c) | none | existence, policy and attributes of a task | the kernel |
| `Supervisor` (Supervisor.c) | table of instances, a mutex | check thread, cleanup thread | the directory, the process list, one monitor thread per instance |
| `Monitor` (Monitor.c) | policy, last telegram, metrics | one loop: read, evaluate | its FIFO, the kernel, its log |
| `Log`, `List`, `Data` (Log.c, List.c, Data.c) | ring of five points, exception flag, CSV file | remove an old file and start a new one, add a point, write the ring if due | called by the monitor |
| `TerminalInterface` | the section and the line it prints | every second three sections, by policy, each under the mutex | reads the table, the metrics another thread writes, the kernel's policies |
| `UserInputs`, `main` | the `--log` switch | one pass over the arguments, then the threads | starts the supervisor and the interface |

What makes it hard: `count` is a plain `int` that two threads change; the mutex covers the search of
the table but not what is done with the answer; directory, process list and table are read one after
the other while tasks start, end and reuse thread ids; the supervisor can be killed and restarted with
old regions lying about; the monitor evaluates a job some time after it ran, with the policy and the
parameters the task has by then, and from an estimate of a release it never sees; the screen is put
together from pids, metrics and policies that change meanwhile.

Correctness, part by part: telegrams leave the queue in order, whole and all of them; every running
task gets one monitor and keeps its region, regions of dead tasks go; reported deadline losses match
what happened; exceptions reach the log, and its lines agree with each other; a traced task is on the
screen, once.

## Modules

| module | models | extends |
|---|---|---|
| `Queue` | Queue.c, one action per access to shared memory | |
| `QueueProofs` | theorems about `Queue` | `Queue`, `TLAPS` |
| `Link` | what the way from the task to the monitor promises, without queue, thread or FIFO | |
| `Pipeline` | TaskTrace.c, Gateway.c, the telegrams in a FIFO; implements `Link` until an increment is lost | `Queue` |
| `PipelineProofs` | theorems about `Pipeline` | `Pipeline`, `QueueProofs` |
| `SharedMem` | SharedMem_userInit and the end of tasks, PID_checkIfExist | |
| `Supervisor` | Supervisor.c and the monitor threads as users of an instance and a region | `SharedMem` |
| `SupervisorProofs` | theorems about `Supervisor` | `Supervisor`, `TLAPS` |
| `Table` | the table of instances as other threads see it, without the check thread; `Supervisor` implements it, `Program` builds on it | |
| `TableProofs` | theorems about `Table` | `Table`, `TLAPS` |
| `LogWindow` | what the log promises, without a ring | |
| `Log` | Log.c, List.c and what Data.c keeps; implements `LogWindow` | |
| `LogProofs` | theorems about `Log` | `Log`, `TLAPS`, `SequenceTheorems` |
| `Monitor` | Monitor.c and the timing of the task | `Log` |
| `MonitorProofs` | theorems about `Monitor` | `Monitor`, `LogProofs`, `FiniteSetTheorems` |
| `Program` | UserInputs.c, main.c and TerminalInterface.c | `Table` |
| `ProgramProofs` | theorems about `Program` | `Program`, `TableProofs`, `SequenceTheorems` |
| `MC...` | the instances TLC checks; `MCSupervisorLive` also has the two starts its liveness is checked from | their module |

**Queue.** `adder` and `getter` are the program counters of the task in `Queue_add` and of the gateway
thread in `Queue_getNext`. `count++` is a load (`AddLoad`) and a store (`AddStore`), as the Makefile
compiles it (`-g`, no optimisation), and likewise `count--`; a `memcpy` moves a telegram in two halves,
so that one overwritten while it is copied is torn. `head` and `tail` each belong to one thread and
change with the step before. Telegrams are numbered; `sent`, `received`, `failed` and `low` are history.

**Link and Pipeline.** `Pipeline` composes the task's calls of TaskTrace with the queue and the gateway
thread. `ExecutionStop` is the part of `TaskTrace_traceExecutionStop` before `Queue_add` and its check for
room; `TaskQueues` is the rest, during which the task does nothing else. `gateway` is where the thread is in
`gateway_task`: before `sched_setscheduler`, in `Queue_getNext`, at the write, or gone because it may not
be `SCHED_FIFO`. `AfterUserWrite` drops the telegram when the FIFO is full, as `Gateway_update` does by
passing over `EAGAIN`. `telegram.t1` keeps the start of an earlier job unless the start of this one
returned 0 (`startRet`). A write cannot fail for another reason, since the gateway has the FIFO open for
reading too (SharedMem.c:55), and a telegram is small enough to be written whole or not at all.
`Link` states the promise to the monitor: whole telegrams, in order, once, and a loss only
behind `CAPACITY` earlier ones. The refinement mapping is the FIFO, then the telegram in the gateway
thread's hand, then the ring.

**SharedMem and Supervisor.** A region is the `life` of the task that made it, since ids are used again.
Each call of the kernel and each critical section of the mutex is an action: `CheckReserve` and
`CheckSetPid` are two because the pid is written after the unlock; `CleanupEntry`, `CleanupExist` and
`CleanupRemove` are three because anything may happen in between. `Kill` clears the supervisor's memory
and leaves the directory. A directory listing is taken as a whole when it is started or rewound;
entries added or removed during it may or may not be seen by the real `readdir`, and a removed one that
is still in the list is the case that matters here. The speed of the polling loops (500 ms, 10 s)
is left out. `Supervisor_freeInstance`, `SharedMem_userDeinit` and `SharedMem_supervisorDeinit` are never
called by the program and so have no action.

**Table.** What the terminal thread may rely on is less than what the check thread does: a task that has no
instance gets the first free one (`Reserve`), its pid follows later (`SetPid`), and only a restart takes anything
back. In `Supervisor` the search (`CheckEntry`) and `CheckReserve` are two steps with every other thread, and every
wait for a free instance, in between; in `Table` they are one. That `Supervisor` implements `Table` (`TheTable`)
therefore says that what the search found still holds when the instance is taken. The pid to be written is
shown only between the reservation and the write, which is the whole mapping.

**Log.** A point is its number, its exception flag and, of the metrics that `Data.c` copies, the two counts
of exceptions. `LogPoint` is `Log_addNewPoint` followed by `Log_generateIfNeeded`, with the outcome of
`fopen` open. `LogRestart` is the supervisor killed and started again on the same task: `Log_init` removes
the file or cuts it to its header, or, if neither `unlink` nor `fopen` works, leaves it as it is.
`LogWindow` states the promise: the last points are kept, and a full window with an exception pending is
appended as one batch, oldest first. The refinement mapping reads the window off the ring by `List_read`'s
own index arithmetic.

**Monitor.** `DeadlineJob` is a job with any start and length, followed by `sched_yield` (userTest.c:123):
the next release is the first period boundary not before the job's end, or up to `MaxDrift` later, the
lateness Monitor.c:151 speaks of. `Receive` is one read and the response times; `CheckPolicy` and `GetAttr`
are the two calls inside `PID_getDeadlinePropeties`, so that the task can change its policy or end
between them; `Evaluate` is everything from there to the end of the handling, which touches only the
thread's own memory and the log. A period of zero, which the kernel returns for a task that has just
left `SCHED_DEADLINE`, makes the loop at line 140 endless: `pc = "stuck"`. The FIFO, the gateway and the
queue are a channel that may lose telegrams (`Send`), which is what `Link` leaves of them. `Ticks` is the
number of rounds of the loop at line 140, as a division. With logging on each telegram ends in a
`LogPoint` of `Log`.
Of the history, `longJobs` counts at `Receive` the telegrams of jobs longer than the deadline that are read while
`mePolicy` is `SCHED_DEADLINE`, whatever becomes of them, and `left` the times the task has stopped being one, by
a change of policy or its end. Such a telegram is dropped unjudged if the task's properties cannot be read
(lines 82-89), or is the one the thread gets stuck with; what `LongJobsReported` and `LongJobsLogged` say is that
this happens once at most for each time counted in `left`. A telegram that comes while `mePolicy` is another
policy, be it stale or not, gets response times and nothing more (line 76); the run `policy_known` is about that.

**Program.** The pass over the arguments has one action for each argument (`ReadLog`, which takes the value with
it, `ReadHelp`, `ReadOther`, `ReadEnd`); the actions of `main` are its calls, each of which may fail, and without
its terminal thread the program goes on (main.c:25). Of the other threads `Program` has only the writes to what
the screen shows: those to the table, which are the actions of `Table`, reserving one under the mutex,
`HandleTelegram` and `UpdateWorst` for the two writes of the monitor to `lastRT` and `WCRT`, `SetPolicy` for
the tasks. The regions and the cleanup thread, which show nothing, are in
`Supervisor`. The terminal thread
holds the mutex for a section (`TiLock` to `TiUnlock`), asks for the policy of each instance (`TiScan`) and
reads the line's columns one by one, in any order, since C leaves the order of arguments open
(`TiColumn`). For pid 0, an instance reserved but not yet named, `sched_getscheduler` answers with the
caller's own policy; so an instance just reserved can be shown with pid 0, or under a section asked for one
pid and the pid of another. `ShownOnce` therefore speaks of instances that had their task when the screen was
cleared. The ids in `Restless` change the policy of their tasks, end and start without end; the others keep
theirs. A task that changes its policy for ever can be missed by every screen, of another policy while the first
section looks and `SCHED_DEADLINE` while the third does, so `TracedTaskShown` asks that the policy comes to
rest (`Settles`), whenever that is; `OddLinePutRight` asks nothing of the policies. `PassDecides` compares the
pass over the arguments, with its two indices, to a condition on the whole list (`LetPass`), which is
what the code lets through and less than its message asks for.

Operators marked "Seeded fault" are used by no specification. Each is a plausible bug in the operator that
follows it; a property is only worth checking if putting such a fault in makes it fail.

## Runs

| run | configuration | what it shows |
|---|---|---|
| `pipeline` | ring of 2, 5 telegrams, FIFO of 2 | `CountInRange`: a stale store never takes `count` out of the ring's range. `FailedGetStrandsOne`: a failed `Queue_getNext` ("Fila vazia") never meets an empty ring; it leaves exactly one telegram stranded. `SleepsOnlyWhenEmpty`: until an increment of `count` is lost the gateway thread never sleeps over a telegram. `NeverStale`: no old telegram is handed on. `FifoUntilLow` and `ImplementsLinkUntilLow`: in the ring, and on the whole way to the monitor, order and wholeness hold and only a full FIFO drops until an increment of `count` is lost. `AllPassedUnlessLost`: with no lost update every telegram gets to the FIFO. `FullRingRefuses`: a gateway thread that gave up is noticed by the task. `OldStartOnlyIfSwitchedOn`: when a telegram can carry the start of an earlier job. |
| `supervisor` | 2 ids, each used twice, 2 instances, a failed `pthread_create` | `OneReader`: no FIFO has two readers. `RunningTaskKeepsRegion`: the three-step cleanup never hits a running task. `ImplementsTable`: other threads see the table of `Table`. |
| `supervisor_live` | 2 ids used once and a third whose tasks have all ended, 2 instances, one kill and restart; or, from a later time, one instance left for both | `LiveTaskGetsMonitored`; `OnlyDeadTasksLoseMonitor`: a monitor that lost its region had a dead task; `FullStillCleans`: a check thread stuck for want of an instance does not stop the cleanup. |
| `log` | ring of 3, 10 points, two restarts, two failures of `fopen` or `unlink` | `ExceptionsKept`, `FileIsBatches`, and `ImplementsWindow`, the refinement of `LogWindow`. |
| `monitor` | runtime 1, deadline 3, period 4, late starts, jobs longer than the period, releases late by 1, one lost telegram, four periods, logging on | `LossCostsOne`: a task on time is blamed at most once for each lost telegram and each overrun, and not before one is lost. `NoLossesForever`: the correction of Monitor.c:150-162 stops a run of false reports after the first. `EstimateAccounted`. `LogAccountsForExceptions`: from line to line of the file a count grew exactly if the line is flagged, although points slide out of the ring unwritten. |
| `monitor_policy` | deadline 2, period 3, up to two policy changes, the task's end, one lost telegram, logging on, one failure of `fopen` | `LongJobsReported`: of the jobs longer than the deadline that are read while the monitor takes the task for a `SCHED_DEADLINE` one, all are counted as lost but one at most for each time the task stopped being one. `LongJobsLogged`: and so many have a point in the file, in the ring, or lost to the failure of `fopen`. `TelegramsRead`: the thread only stops reading in the endless loop. |
| `program` | 3 arguments, 2 ids, 2 instances, one of the two tasks changes its policy, ends and starts without end, one telegram | `PassDecides`: the program goes on exactly if there is an argument, every `--log` has its value and nobody asks for help, and the last `--log` decides. `ShownOnce`: a traced task that keeps its policy is on the screen in one line, in its section, and no other line shows its pid. `TracedTaskShown`: every traced task whose policy comes to rest is shown, also after its end. `OddLinePutRight`: after a line that mixes two jobs there is a screen without one of that instance. |

The type invariants also say that no index leaves its ring and, in `Monitor`, that no unsigned
subtraction of times wraps.

The bounds: two slots and five telegrams wrap the ring twice, so an overrun after a lost increment and
a ring wedged by lost tokens both occur; a FIFO of two is full while two more telegrams wait in the ring. Two ids used twice give a new task under a dead one's id at every
step of the cleanup; a second instance and a second id give two threads something to confuse. A ring of
three points and ten points give up to three batches, partly emptied rings and failures in a row, before
and after a restart. Four periods, with a deadline and a period that leave room for an overrun on time, are
what it takes for a false report to follow a lost telegram, for an overrun to follow that one, and for false
reports from late releases to build up twice. Three arguments hold a `--log` with its value next to
another argument, in any order; a task that changes its policy between any two sections, next to one that does not,
and one job between two columns are the cases `ShownOnce`, `TracedTaskShown` and `OddLinePutRight` are about.
One job is enough for the last: a line is odd only while a new maximum is being written, and the maximum of
an instance grows only `MaxRT` times. `supervisor` runs without a kill, which
would take `ImplementsTable` and its reuse of ids past what is quick to check; `SupervisorImplementsTable` below
has any number of them. The counters that would grow without limit are
bounded by `MaxSent`, `MaxLives`, `MaxKills`, `MaxCreateFailures`, `MaxPoints`, `MaxOpenFailures`,
`MaxRestarts`, `MaxTime`, `MaxLost`, `MaxChanges` and `MaxJobs`, each in the guard of the action that
counts (`MaxChanges` bounds the changes in `Monitor`; in `Program` they have no bound, and `Restless` says whose task makes them); `MaxArgs`, `MaxRT`, `MaxLatency`, `MaxWork` and `MaxDrift` bound what may be chosen.

**Fairness.** `Pipeline`: a call of `Queue_add` that has begun runs to its end, and the gateway thread
starts and loops for ever (Gateway.c:72); the task need not start another job, nor the monitor read. `Supervisor`: the check thread, the cleanup thread and each monitor thread take a
step when they can (their loops have no exit but the one modelled, and the kernel schedules them); tasks,
the starting and killing of the supervisor and a failure of `pthread_create` owe nothing. `Monitor`: the
monitor thread alone. `Program`: the terminal thread, whose loop has no exit (TerminalInterface.c:55), and the
second half of the handling of a telegram that has begun. The terminal thread's wait for the mutex needs
only weak fairness here, because the other two threads release it inside one action. All of it is weak fairness.

### Where the code and its comments disagree

| run | comment | the code |
|---|---|---|
| `queue_count` | Queue.h:14, `count` is the number of elements | an update of the other thread is lost and `count` is wrong from then on |
| `region_stays` | Supervisor.c:206, monitored regions are not removed | the table is looked up two steps before the removal |
| `region_removed` | SharedMem.c:38, the supervisor removes unused regions | an instance is never freed, so a monitored task's region stays after the task has ended and refuses a new task with its id |
| `min_rt` | MonitorMetrics.h:23, `minRT` is the minimum | the `else if` of Monitor.c:71 leaves out the first job and every new maximum |
| `policy_known` | Monitor.h:20, `policy` tells whether the task is a deadline task | it is read once, and TaskTrace.c:18 makes users start monitoring before the task is one |

One more, which has no run of its own because `LetPass` states it: UserInputs.c:11 tells the user to pass at least
the log configuration, but nothing asks for it. `UserInputs_read` refuses an empty list only, so that
`Supervisor else` starts, with logging off. `PassDecides` and its theorem speak of what the code lets through and
show nothing about that message.

Two limits of the monitor that are not contradictions of a comment, found while its properties were
worked out. A task that starts its first job late and once overruns a period boundary can be blamed for a
job that met its deadline, so `LossCostsOne` asks that all jobs are on time. And one lost telegram leaves the
estimate periods behind; the next job is then blamed, and corrects the estimate only if it did not overrun
its runtime (Monitor.c:159), so that every job in a row that overruns after a loss can be blamed though it
was on time. That is why `LossCostsOne` counts overruns.

## Proofs

TLC shows the properties on the instances above; TLAPS proves these for every value of the constants.

| theorem | states | argument |
|---|---|---|
| `QueueTypes` | `TypeOK` | by action |
| `QueueCountInRange` | `CountInRange` | not inductive alone: a store writes a register loaded earlier. `RegistersInRange` adds that a task past its check has `count < QUEUE_SIZE` until its load, and a register below `QUEUE_SIZE` until its store, and the mirror image for the gateway thread |
| `QueueFailedGetStrandsOne` | `FailedGetStrandsOne` | inductive with the types: telegrams posted = taken + stranded + tokens |
| `QueueNeverStale` | `NeverStale` | `SlotsFresh`: the indices are `sent` and `received` modulo the size, and the slot of each telegram between them holds it or a later one; the lemmas on remainders carry it round the ring. From `FailedGetStrandsOne` there is a telegram whenever one is copied |
| `PipelineUsesQueue` | `PipelineSpec => Spec` of `Queue` | each step is a step of the queue or leaves it alone; with it `PipelineKeepsQueue` carries the theorems above over to the pipeline |
| `PipelineTypes` | `PipelineTypeOK` | with the queue's types, by action |
| `PipelineStartOfSameJob` | `OldStartOnlyIfSwitchedOn` | `StartKnown`: a job that is recorded now was recorded at its start or had recording enabled since |
| `PipelineFullRingRefuses` | `FullRingRefuses` | `CountExact`: with nobody to decrement it `count` is the number of telegrams, and a task that passed its check still has room |
| `SupervisorTypes` | `TypeOK` | with `KnowsPid`: a thread that acts on an id has one |
| `SupervisorKeepsRegions` | `RunningTaskKeepsRegion` | `RegionsHeld`: from the listing to the removal the path names a FIFO, since the cleanup thread alone removes them; a task that gets the id meanwhile is refused at its `access()`, so the path belongs to no running task when it is removed |
| `SupervisorOneReader` | `OneReader` | `OneInstancePerTask`: no two instances have one pid, the pid to be written next among them; one thread both searches and reserves |
| `SupervisorOnlyDeadLoseMonitor` | `OnlyDeadTasksLoseMonitor`, where no id is used twice | `OneLife`: a task not yet past its `access()` is known to no thread, and nobody else's instance has its pid, so a region that is missing was removed, and `RunningTaskKeepsRegion` says of whom |
| `QueueFifoUntilLow` | `FifoUntilLow` | `RoomLeft`: until an increment is lost, `count` with the updates under way is never below the number of telegrams, so a task past its check overwrites nothing; then `SlotsExact`: the slot of each telegram in the ring holds it, whole |
| `PipelineImplementsLink` | `ImplementsLinkUntilLow`, the refinement of `Link` | `OnItsWay`, the FIFO, the telegram in the gateway thread's hand and the numbers from `received` to `sent`, is `Link`'s sequence; by action, adding appends to it, getting moves the boundary, a write moves or drops the one behind a full FIFO |
| `LogTypes` | `LogTypeOK` | by action |
| `LogKeepsWindow` | `ImplementsWindow`, the refinement of `LogWindow` | `ContentsSlide`: adding a point to the ring slides what `List_read` returns, wrapped or not |
| `LogExceptionsKept` | `ExceptionsKept` | `FullNotPending`: after each call a full ring has no exception pending, so no pending one slides out |
| `LogFileIsBatches` | `FileIsBatches` | `WindowInv`: the ring holds the last points in order, all later than the file; a batch appended to whole batches gives whole batches |
| `MonitorTypes` | `TypeOK` | with `TimesOK`: starts before stops in the channel and in hand, and the time to subtract from is never before the estimate |
| `MonitorLongJobsReported` | `LongJobsReported` | the estimate a job is judged by is never after its start, so a long job that is judged is late (`LongJobIsLate`). `LongSpare`: while the monitor takes a task for `SCHED_DEADLINE` that is not, one departure has cost no telegram yet; the telegram that is dropped takes it up, and the policy is then read again |
| `MonitorEstimateAccounted` | `EstimateAccounted` | `EstimateInv`: outside the handling, or before the first one |
| `MonitorNoLossesForever` | `NoLossesForever` | `PromptInv`: the telegrams of a prompt task are far enough apart, and after a correction the estimate is close enough to the next start |
| `MonitorLossCostsOne` | `LossCostsOne` | `LossInv`: every release is a boundary of the period, each telegram is the job of its own boundary, and the estimate is behind the boundary that is due by no more than losses account for |
| `MonitorLogAccounts` | `LogAccountsForExceptions` | `AccountInv`: the flags of ring and file are right against the counts before them, and the last of them has the metrics' counts |
| `QueueSleepsOnlyWhenEmpty` | `SleepsOnlyWhenEmpty` | `TokenMeansCounted`: until an increment is lost, a token taken from the semaphore has its telegram counted by the time `count` is read, so no call fails; then the tokens are the telegrams in the ring |
| `PipelineKeepsQueue` | the theorems of `QueueProofs`, for `PipelineSpec` | from `PipelineUsesQueue` |
| `MonitorKeepsLog` | `LogTypeOK`, `ExceptionsKept` and `FileIsBatches` in `Monitor` | the step lemmas of `LogProofs`, for whatever data the monitor puts into a point |
| `MonitorKeepsWindow` | `Monitor` implements `LogWindow` | the same lemmas, for the refinement |
| `MonitorStuckOnlyAfterChange` | the thread is in its endless loop only if the task's policy was changed, the safety part of `TelegramsRead` | from the two modes of a task that keeps its policy: `OtherMode`, in which no telegram is judged, and `DeadlineMode`, in which the kernel gives a period |
| `MonitorLongJobsLogged` | `LongJobsLogged` | the same step (`LongBoundStep`) with the points logged as exceptions in place of the count: each has a number of its own (`LongInv`), and `ExceptionsKept` says where it is |
| `TableOneInstance` | no task has two instances, in `Table` | inductive: nor has any the task whose pid is still to be written |
| `SupervisorImplementsTable` | `ImplementsTable`, the refinement of `Table` | by action, from `OneInstancePerTask`: the task found untraced is still so when the instance is reserved; every other step of the check thread, and every step of the others but a kill, is a stutter |
| `ProgramUsesTable` | `Spec => TableSpec` | each step is one of the table or leaves it alone, so `TableOneInstance` holds for the screen |
| `ProgramShownOnce` | `ShownOnce` | `SteadyTraced` and `PidStays`: an instance keeps its pid; `Lines`: an instance that had its task when the screen was cleared has no line until its section has passed it, then exactly one; `PidsShown`: a pid on the screen is still the one of its instance, so by `OneInstance` no other line has it |
| `ProgramPassDecides` | `PassDecides` | `PassedOver`: the arguments before the one to be read next had their values, and the switch is what the last `--log` among them said; a jump over a value adds two at once |
| `ProgramTypes` | `TypeOK` | the types of the arguments, of the terminal thread and of the rest, each by action |

The proofs rest on the named assumptions of the modules: a ring of at least one slot (`QueueAssumption`,
`LogAssumption`), at least one instance and a `NoPid` that is no thread's id (`SupervisorAssumption`,
`TableAssumption`), `0 < RUNTIME <= DEADLINE <= PERIOD`, which the kernel asks of a `SCHED_DEADLINE` task,
and an `UINT64_MAX` beyond all times (`MonitorAssumption`); the rest say that bounds are natural numbers.

Every safety property of the passing runs, and every refinement, is proved. Only model-checked are the
liveness properties (`AllPassedUnlessLost`, `LiveTaskGetsMonitored`, `FullStillCleans`, `TelegramsRead`,
`TracedTaskShown`, `OddLinePutRight`), since fairness is out of the prover's reach, and the five disagreements with a
run in the table above, which TLC refutes.

## Not modelled, and what comes next

- The other columns of `Data.c`: copies of fields, some divided by 1000, and names and units of the columns.
- The performance mark telegrams (Monitor.c:166-175): the library sends none. (The handling of an end keeps its
  time in one element and works out the total from the one before, which is never written.)
- Telegrams with another pid or of another length (Monitor.c:43-57): only the task's own gateway thread
  writes to its FIFO, and a write of a telegram is whole.
- `PID_setDeadline` and `PID_getPriority`: one system call each. The example tasks use the first, whose effect is
  `SetDeadline` of `Monitor`; the second only fills a column of the screen.
- `userTest.c` and the scripts: users of the library. What is modelled of them is the `sched_yield` at the end
  of a job. (Two slips there: userTest.c:97 copies `t_cur.tv_sec` to itself before it is set, and the branch
  that waits for the timer tests `useNanosleep` a second time and is never taken.)
- `sem_wait` that returns without a token (Queue.c:29 does not look at its result): on a semaphore that is
  initialised it does so only when a signal handler of the user's process interrupts it, and the library installs
  none. The call then finds a `count` of 0 or takes a telegram before its token.
- A kill in the middle of a batch that is being written to the log (Log.c:62-84): a restart is between two points.
- The screen while a task goes on changing its policy for ever: nothing keeps it on any (TerminalInterface.c:61, 106, 134).
- Long jobs read while the monitor takes the task for one of another policy: none of them is judged (Monitor.c:76),
  so nothing is said of them.
- The wording and layout of the screen, and the waiting times of the loops.

What would come next:

1. `Monitor` fed by `Link` in place of its own channel, so that `LossCostsOne` counts the telegrams dropped at
   a full FIFO.
2. The terminal thread composed with the whole of `Supervisor`, if instances come to be freed: an instance then
   changes its task while it is shown.
3. The performance mark telegrams, if the library comes to send them.
