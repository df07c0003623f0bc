------------------------------ MODULE Monitor ------------------------------
(***************************************************************************)
(* The monitoring of one task (Supervisor/Monitor/Monitor.c): the task's   *)
(* jobs, the telegrams about them, and the monitor thread that works out   *)
(* response times, latencies and lost deadlines from the telegrams.        *)
(*                                                                         *)
(* The monitor never sees when a job was released.  It estimates that time *)
(* from the first start it is told of, the period, and corrections.  The   *)
(* task is modelled from what sched_yield gives a SCHED_DEADLINE task: the *)
(* next job is released at the first period boundary that is not before    *)
(* the end of the job, or a little later (Monitor.c:151).  The policy and  *)
(* its parameters are read when a telegram is handled, not when its job    *)
(* ran.                                                                    *)
(*                                                                         *)
(* Every subtraction of the code has its result in range: the estimate is  *)
(* never after the start when it is subtracted, nor the start after the    *)
(* stop.  The one conversion that changes a value is that of minLatency.   *)
(***************************************************************************)
EXTENDS Log, FiniteSets

CONSTANTS
  RUNTIME, DEADLINE, PERIOD,  \* parameters of the task while SCHED_DEADLINE
  EnableLogging,  \* the supervisor was started with --log on
  UINT64_MAX,     \* later than any time
  MaxTime,        \* bound: the end of the last job
  MaxLatency,     \* bound: from the release to the start of a job
  MaxWork,        \* bound: from the start to the end of a job
  MaxDrift,       \* bound: from a period boundary to the release
  MaxLost,        \* bound: telegrams lost before the monitor reads them
  MaxChanges      \* bound: changes of the task's policy

ASSUME MonitorAssumption ==
  /\ RUNTIME \in Nat \ {0} /\ DEADLINE \in Nat /\ PERIOD \in Nat
  /\ RUNTIME <= DEADLINE /\ DEADLINE <= PERIOD
  /\ EnableLogging \in BOOLEAN
  /\ MaxTime \in Nat /\ UINT64_MAX \in Nat /\ MaxTime < UINT64_MAX
  /\ MaxLatency \in Nat /\ MaxWork \in Nat /\ MaxDrift \in Nat
  /\ MaxLost \in Nat /\ MaxChanges \in Nat

VARIABLES
  policy,     \* the task's scheduling policy, "gone" once the task does not exist
  release,    \* when its next job is released, while SCHED_DEADLINE
  lastEnd,    \* the end of its last job
  onTime,     \* history: every job ended by its deadline, every release on a boundary
  prompt,     \* history: every job kept to RUNTIME and ended MaxDrift before its deadline
  lostCount,  \* telegrams lost so far
  changes,    \* changes of policy so far
  left,       \* history: times the task stopped being SCHED_DEADLINE, its end among them
  channel,    \* telegrams on their way: the queue, the gateway and the FIFO
  pc,         \* where the monitor thread is
  mePolicy,   \* MonitorThread.policy
  telegram,   \* MonitorThread.telegram
  metrics,    \* MonitorThread.metrics
  longJobs,   \* history: jobs longer than DEADLINE read while mePolicy is "deadline"
  inARow,     \* history: jobs reported, one after the other, as lost deadlines
  firstReady  \* history: the first estimate

taskVars == <<policy, release, lastEnd, onTime, prompt, lostCount, changes, left>>
monHist  == <<inARow, firstReady>>
monVars  == <<pc, mePolicy, telegram, metrics, longJobs, monHist>>
vars     == <<taskVars, channel, monVars, logVars>>

Policy == {"other", "deadline", "gone"}

One(b) == IF b THEN 1 ELSE 0

\* Telegrams carry t1 and t2; under is the policy their job ran under.
Telegram == [t1 : 0 .. MaxTime, t2 : 0 .. MaxTime, under : {"other", "deadline"}]

\* (uint64_t) -1 assigned to an int64_t.
MinLatencyInit == -1

\* MonitorMetrics_init.
MetricsInit ==
  [lastCyclicTaskReadyTime |-> 0, totalAltoAdjust |-> 0,
   maxLatency |-> 0, minLatency |-> MinLatencyInit, lastLatency |-> 0,
   deadlineLostCount |-> 0, runtimeOverrunCount |-> 0, taskDepletedCount |-> 0,
   cycleCount |-> 0,
   lastStartRunTime |-> 0, lastStopRunTime |-> 0,
   lastRT |-> 0, minRT |-> UINT64_MAX, WCRT |-> 0]

Init ==
  /\ policy \in {"other", "deadline"}
  /\ release = 1 /\ lastEnd = 0 /\ onTime = TRUE /\ prompt = TRUE
  /\ lostCount = 0 /\ changes = 0 /\ left = 0
  /\ channel = <<>>
  /\ pc = "init" /\ mePolicy = "other"
  /\ telegram = [t1 |-> 0, t2 |-> 0, under |-> "other"]
  /\ metrics = MetricsInit
  /\ longJobs = 0 /\ inARow = 0 /\ firstReady = 0
  /\ LogInit

----------------------------------------------------------------------------
(* The task. *)

\* Its telegram is on its way, or is lost because the queue or the FIFO is full.
Send(s, e) ==
  \/ channel' = Append(channel, [t1 |-> s, t2 |-> e, under |-> policy])
     /\ UNCHANGED lostCount
  \/ lostCount < MaxLost /\ lostCount' = lostCount + 1 /\ UNCHANGED channel

\* The fewest periods that make up the time t.
Periods(t, period) == (t + period - 1) \div period

\* The first period boundary after r that is not before e.
NextRelease(r, e) ==
  r + (PERIOD * (IF e <= r + PERIOD THEN 1 ELSE Periods(e - r, PERIOD)))

\* One job from TaskTrace_traceExecutionStart to TaskTrace_traceExecutionStop.
DeadlineJob ==
  /\ policy = "deadline"
  /\ \E l \in 0 .. MaxLatency, w \in 1 .. MaxWork, d \in 0 .. MaxDrift :
       LET s == release + l  e == release + l + w IN
         /\ e <= MaxTime
         /\ Send(s, e)
         /\ lastEnd' = e
         /\ release' = NextRelease(release, e) + d
         /\ onTime' = (onTime /\ e <= release + DEADLINE /\ d = 0)
         /\ prompt' = (prompt /\ w <= RUNTIME /\ e + MaxDrift <= release + DEADLINE)
  /\ UNCHANGED <<policy, changes, left, monVars, logVars>>

\* A job of the task while it has another policy.
OtherJob ==
  /\ policy = "other"
  /\ \E w \in 1 .. MaxWork :
       LET s == lastEnd + 1  e == lastEnd + 1 + w IN
         /\ e <= MaxTime
         /\ Send(s, e)
         /\ lastEnd' = e
  /\ UNCHANGED <<policy, release, onTime, prompt, changes, left, monVars, logVars>>

\* The task is made SCHED_DEADLINE; its first job is released at once.
SetDeadline ==
  /\ policy = "other" /\ changes < MaxChanges
  /\ policy' = "deadline" /\ release' = lastEnd + 1 /\ changes' = changes + 1
  /\ UNCHANGED <<lastEnd, onTime, prompt, lostCount, left, channel, monVars, logVars>>

LeaveDeadline ==
  /\ policy = "deadline" /\ changes < MaxChanges
  /\ policy' = "other" /\ changes' = changes + 1 /\ left' = left + 1
  /\ UNCHANGED <<release, lastEnd, onTime, prompt, lostCount, channel, monVars, logVars>>

\* The task ends while telegrams of it may still be on their way.
Exit ==
  /\ policy # "gone"
  /\ policy' = "gone"
  /\ left' = left + One(policy = "deadline")
  /\ UNCHANGED <<release, lastEnd, onTime, prompt, lostCount, changes, channel, monVars, logVars>>

----------------------------------------------------------------------------
(* Monitor_task, once the FIFO is open. *)

\* Monitor_init reads the policy once.
MonitorInit ==
  /\ pc = "init"
  /\ mePolicy' = policy
  /\ pc' = "read"
  /\ UNCHANGED <<taskVars, channel, telegram, metrics, longJobs, monHist, logVars>>

\* Response times, for a task of any policy.
ResponseTime(m, t) ==
  LET rt == t.t2 - t.t1 IN
    [m EXCEPT !.lastStartRunTime = t.t1, !.lastStopRunTime = t.t2, !.lastRT = rt,
              !.WCRT = IF rt > m.WCRT THEN rt ELSE @,
              !.minRT = IF rt > m.WCRT THEN @ ELSE IF rt < m.minRT THEN rt ELSE @]

\* A telegram is read.  Only for a task taken to be SCHED_DEADLINE is there more.
Receive ==
  /\ pc = "read" /\ channel # <<>>
  /\ telegram' = Head(channel)
  /\ channel' = Tail(channel)
  /\ metrics' = ResponseTime(metrics, Head(channel))
  /\ pc' = IF mePolicy = "deadline" THEN "checkPolicy" ELSE "read"
  /\ longJobs' = longJobs + One(mePolicy = "deadline" /\ metrics'.lastRT > DEADLINE)
  /\ UNCHANGED <<taskVars, mePolicy, monHist, logVars>>

\* Seeded fault: the thread waits until the task is SCHED_DEADLINE.
CheckPolicyWaits ==
  /\ pc = "checkPolicy" /\ policy = "deadline"
  /\ pc' = "getAttr"
  /\ UNCHANGED <<taskVars, channel, mePolicy, telegram, metrics, longJobs, monHist, logVars>>

\* PID_getDeadlinePropeties asks for the policy first.
CheckPolicy ==
  /\ pc = "checkPolicy"
  /\ pc' = IF policy = "deadline" THEN "getAttr" ELSE "policyAgain"
  /\ UNCHANGED <<taskVars, channel, mePolicy, telegram, metrics, longJobs, monHist, logVars>>

\* Seeded fault: the policy is not read again.
PolicyAgainKept ==
  /\ pc = "policyAgain"
  /\ pc' = "read"
  /\ UNCHANGED <<taskVars, channel, mePolicy, telegram, metrics, longJobs, monHist, logVars>>

\* It failed: the policy is read again.
PolicyAgain ==
  /\ pc = "policyAgain"
  /\ mePolicy' = policy
  /\ pc' = "read"
  /\ UNCHANGED <<taskVars, channel, telegram, metrics, longJobs, monHist, logVars>>

\* The kernel's answer to sched_getattr: a task of another policy has zeros.
Attr ==
  IF policy = "deadline"
    THEN [runtime |-> RUNTIME, deadline |-> DEADLINE, period |-> PERIOD]
    ELSE [runtime |-> 0, deadline |-> 0, period |-> 0]

\* Seeded fault: a start before the estimate leaves the estimate alone.
ReadyTimeKept(m) ==
  IF m.lastCyclicTaskReadyTime = 0
    THEN [m EXCEPT !.lastCyclicTaskReadyTime = m.lastStartRunTime]
  ELSE m

\* The estimate of the release is set once, and moved back to the start of a
\* job that started before it.
ReadyTime(m) ==
  IF m.lastCyclicTaskReadyTime = 0
    THEN [m EXCEPT !.lastCyclicTaskReadyTime = m.lastStartRunTime]
  ELSE IF m.lastStartRunTime < m.lastCyclicTaskReadyTime
    THEN [m EXCEPT !.lastCyclicTaskReadyTime = m.lastStartRunTime,
                   !.totalAltoAdjust = @ - (m.lastCyclicTaskReadyTime - m.lastStartRunTime)]
  ELSE m

Latency(m) ==
  LET l == m.lastStartRunTime - m.lastCyclicTaskReadyTime IN
    [m EXCEPT !.lastLatency = l,
              !.maxLatency = IF l > m.maxLatency THEN l ELSE @,
              !.minLatency = IF l > m.maxLatency THEN @ ELSE IF l < m.minLatency THEN l ELSE @]

LostDeadline(m, a) == m.lastStopRunTime - m.lastCyclicTaskReadyTime > a.deadline

Overrun(m, a) == m.lastRT > a.runtime

Count(m, a) ==
  [m EXCEPT !.deadlineLostCount = @ + One(LostDeadline(m, a)),
            !.runtimeOverrunCount = @ + One(Overrun(m, a)),
            !.taskDepletedCount = @ + One(Overrun(m, a) /\ m.lastRT > a.period)]

\* The loop to the next release: the first tick not before the stop.
LoopEnds(m, a) == a.period > 0 \/ m.lastCyclicTaskReadyTime >= m.lastStopRunTime

Ticks(m, a) ==
  IF m.lastCyclicTaskReadyTime >= m.lastStopRunTime THEN 0
    ELSE Periods(m.lastStopRunTime - m.lastCyclicTaskReadyTime, a.period)

NextTick(m, a) ==
  [m EXCEPT !.lastCyclicTaskReadyTime = @ + Ticks(m, a) * a.period,
            !.cycleCount = @ + Ticks(m, a)]

\* Seeded fault: the correction is not added to the corrections.
AdjustForgets(m, a, late) ==
  IF late /\ ~Overrun(m, a)
    THEN [m EXCEPT !.lastCyclicTaskReadyTime = @ + m.lastLatency]
    ELSE m

\* Seeded fault: no correction after a lost deadline.
AdjustNever(m, a, late) == m

\* After a lost deadline that is not the task's own fault the estimate is moved
\* by the latency.
Adjust(m, a, late) ==
  IF late /\ ~Overrun(m, a)
    THEN [m EXCEPT !.lastCyclicTaskReadyTime = @ + m.lastLatency,
                   !.totalAltoAdjust = @ + m.lastLatency]
    ELSE m

\* Seeded fault: the counts of the telegram before are logged.
LoggedDataOld(m) ==
  [deadlineLostCount |-> metrics.deadlineLostCount, runtimeOverrunCount |-> m.runtimeOverrunCount]

\* Data_fillMonitorMetricsData, of which the counts are kept.
LoggedData(m) ==
  [deadlineLostCount |-> m.deadlineLostCount, runtimeOverrunCount |-> m.runtimeOverrunCount]

\* Everything is worked out from the telegram and the attributes.  A period of
\* zero makes the loop endless: the thread is stuck in it for ever.
Evaluate ==
  LET a == Attr
      m == Count(Latency(ReadyTime(metrics)), a)
      late == LostDeadline(m, a)
  IN
    /\ inARow' = IF late THEN inARow + 1 ELSE 0
    /\ firstReady' = IF firstReady = 0 THEN metrics.lastStartRunTime ELSE firstReady
    /\ IF LoopEnds(m, a)
         THEN /\ metrics' = Adjust(NextTick(m, a), a, late)
              /\ pc' = "read"
              /\ IF EnableLogging THEN LogPoint(late \/ Overrun(m, a), LoggedData(m))
                                  ELSE UNCHANGED logVars
         ELSE /\ metrics' = m
              /\ pc' = "stuck"
              /\ UNCHANGED logVars
    /\ UNCHANGED <<taskVars, channel, mePolicy, telegram, longJobs>>

\* sched_getattr fails if the task has gone since its policy was read.
GetAttr ==
  /\ pc = "getAttr"
  /\ IF policy = "gone"
       THEN /\ pc' = "policyAgain"
            /\ UNCHANGED <<taskVars, channel, mePolicy, telegram, metrics, longJobs, monHist, logVars>>
       ELSE Evaluate

Monitor_task == MonitorInit \/ Receive \/ CheckPolicy \/ PolicyAgain \/ GetAttr

Next ==
  \/ DeadlineJob
  \/ OtherJob
  \/ SetDeadline
  \/ LeaveDeadline
  \/ Exit
  \/ Monitor_task

Spec == Init /\ [][Next]_vars

\* The monitor thread takes a step when it can; the task owes nothing.
FairSpec == Spec /\ WF_vars(Monitor_task)

----------------------------------------------------------------------------
(* Properties. *)

\* Every variable has its type; latencies and response times are never negative,
\* so no unsigned subtraction of the code wraps.
TypeOK ==
  /\ policy \in Policy
  /\ release \in Nat /\ lastEnd \in 0 .. MaxTime
  /\ onTime \in BOOLEAN /\ prompt \in BOOLEAN
  /\ lostCount \in 0 .. MaxLost /\ changes \in 0 .. MaxChanges /\ left \in Nat
  /\ channel \in Seq(Telegram)
  /\ pc \in {"init", "read", "checkPolicy", "policyAgain", "getAttr", "stuck"}
  /\ mePolicy \in Policy
  /\ telegram \in Telegram
  /\ metrics \in [lastCyclicTaskReadyTime : Nat, totalAltoAdjust : Int,
                   maxLatency : Nat, minLatency : Int, lastLatency : Nat,
                   deadlineLostCount : Nat, runtimeOverrunCount : Nat,
                   taskDepletedCount : Nat, cycleCount : Nat,
                   lastStartRunTime : Nat, lastStopRunTime : Nat,
                   lastRT : Nat, minRT : Nat, WCRT : Nat]
  /\ longJobs \in Nat /\ inARow \in Nat /\ firstReady \in 0 .. MaxTime

\* A task whose jobs all end by their deadlines, and which keeps its policy, is
\* not blamed for a lost one as long as every telegram arrives and the kernel
\* releases on time, however late each job starts: the estimate of the release,
\* which the monitor never sees, is then never too early.  If telegrams are lost
\* it is blamed once for each at most, and besides only at jobs that overran,
\* after which the estimate is not corrected (Monitor.c:159).
LossCostsOne ==
  onTime /\ changes = 0 =>
    /\ metrics.deadlineLostCount <= lostCount + metrics.runtimeOverrunCount
    /\ lostCount = 0 => metrics.deadlineLostCount = 0

\* The telegram in hand is one of a long job, and may still be judged.
LongInHand == pc \in {"checkPolicy", "getAttr"} /\ metrics.lastRT > DEADLINE

\* Of the jobs whose response time alone exceeds the deadline, and which the
\* monitor reads while it takes the task for a SCHED_DEADLINE one, each is reported
\* as a lost deadline, whatever the corrections and lost telegrams have made of the
\* estimate, but for one at most for each time the task has left SCHED_DEADLINE or
\* has ended: its telegram meets a task whose properties cannot be read, and is
\* dropped (Monitor.c:82-89), and the monitor has learnt of the change by the next
\* (Monitor.c:87).  Jobs it reads while it takes the task for another one are never
\* judged (Monitor.c:76).
LongJobsReported == longJobs <= metrics.deadlineLostCount + left + One(LongInHand)

\* When each release is a little later than the period says, the monitor comes
\* to report lost deadlines that were none (Monitor.c:150-153).  The correction
\* ends that at once: a task that is prompt is not reported twice in a row.
NoLossesForever ==
  prompt /\ changes = 0 /\ lostCount = 0 => inARow <= 1

\* The estimate is accounted for: the first one, a period for every cycle
\* counted, and the corrections.  cycleCount and totalAltoAdjust lose nothing.
EstimateAccounted ==
  firstReady # 0 =>
    metrics.lastCyclicTaskReadyTime
      = firstReady + PERIOD * metrics.cycleCount + metrics.totalAltoAdjust

\* The file accounts for every exception: from one line to the next a count of
\* lost deadlines or overruns grew exactly if the line is flagged, also where
\* points in between slid out of the ring unwritten.
LogAccountsForExceptions ==
  openFailures = 0 =>
    \A j \in 1 .. Len(file) :
      file[j].isException <=> file[j].data # (IF j = 1 THEN NoData ELSE file[j - 1].data)

\* The same of the log: of those long jobs each has a point in the file or on its
\* way to it, but for one at most for each time the task has left SCHED_DEADLINE or
\* has ended.  That is also the job at which the thread gets stuck in the endless
\* loop (Monitor.c:82-89, 119-148, Log.c:39-85).
LongJobsLogged ==
  EnableLogging =>
    longJobs <= Cardinality({e \in exceptions : Kept(e)}) + left + One(LongInHand)

\* The monitor thread reads every telegram that comes, whatever the task does to
\* its policy meanwhile and also after the task has ended.  The one exception is
\* the endless loop, which needs a task that left SCHED_DEADLINE.
TelegramsRead ==
  channel # <<>> ~> channel = <<>> \/ (pc = "stuck" /\ changes > 0)

\* Monitor.h:20: the policy in the monitor tells whether the task is a deadline
\* task.  A job under SCHED_DEADLINE of a task that still has that policy when
\* the telegram has been handled was handled as one.
PolicyIsKnown ==
  pc = "read" /\ telegram.under = "deadline" /\ policy = "deadline"
    => mePolicy = "deadline"

\* MonitorMetrics.h:23: minRT is the minimum response time.
MinRTIsMinimum ==
  metrics.lastRT # 0 => metrics.minRT <= metrics.lastRT

=============================================================================
