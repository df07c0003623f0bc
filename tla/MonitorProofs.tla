--------------------------- MODULE MonitorProofs ---------------------------
(***************************************************************************)
(* What holds of the monitoring of a task for every runtime, deadline and  *)
(* period, every timing of its jobs and any number of lost telegrams: the  *)
(* types, with no subtraction of times that wraps, the account of the      *)
(* estimate, and what the monitor reports and never reports.               *)
(***************************************************************************)
EXTENDS Monitor, LogProofs, FiniteSetTheorems

MetricsType ==
  [lastCyclicTaskReadyTime : Nat, totalAltoAdjust : Int,
   maxLatency : Nat, minLatency : Int, lastLatency : Nat,
   deadlineLostCount : Nat, runtimeOverrunCount : Nat,
   taskDepletedCount : Nat, cycleCount : Nat,
   lastStartRunTime : Nat, lastStopRunTime : Nat,
   lastRT : Nat, minRT : Nat, WCRT : Nat]

AttrType == [runtime : Nat, deadline : Nat, period : Nat]

----------------------------------------------------------------------------
(* Arithmetic. *)

\* A quotient and what it leaves.
LEMMA DivBounds ==
  ASSUME NEW a \in Nat, NEW p \in Nat \ {0}
  PROVE  /\ a \div p \in Nat
         /\ p * (a \div p) <= a
         /\ a < (p * (a \div p)) + p
  OBVIOUS

\* The loop of Monitor.c:140 ends at the first tick not before the stop.
LEMMA PeriodsBounds ==
  ASSUME NEW t \in Nat \ {0}, NEW p \in Nat \ {0}
  PROVE  /\ Periods(t, p) \in Nat \ {0}
         /\ p * Periods(t, p) >= t
<1> DEFINE a == t + p - 1
           q == a \div p
<1>1. a \in Nat /\ a >= p
  OBVIOUS
<1>2. q \in Nat /\ p * q <= a /\ a < (p * q) + p
  BY <1>1, DivBounds
<1>3. q # 0
  <2>1. SUFFICES ASSUME q = 0 PROVE FALSE
    OBVIOUS
  <2>2. p * q = 0
    BY <2>1
  <2>3. QED
    BY <1>1, <1>2, <2>2
<1>4. p * q \in Int
  BY <1>2
<1>5. p * q >= t
  BY <1>2, <1>4
<1>6. QED
  BY <1>2, <1>3, <1>5 DEF Periods

\* The release after a job (userTest.c:123): a period later, or more if the job
\* ended after that.
LEMMA NextReleaseBounds ==
  ASSUME NEW r \in Nat, NEW e \in Nat
  PROVE  /\ NextRelease(r, e) \in Nat
         /\ NextRelease(r, e) >= r + PERIOD
         /\ e <= r + PERIOD => NextRelease(r, e) = r + PERIOD
<1>1. PERIOD \in Nat \ {0}
  BY MonitorAssumption
<1>2. CASE e <= r + PERIOD
  BY <1>1, <1>2 DEF NextRelease
<1>3. CASE ~(e <= r + PERIOD)
  <2> DEFINE n == Periods(e - r, PERIOD)
  <2>1. e - r \in Nat \ {0} /\ e - r > PERIOD
    BY <1>1, <1>3
  <2>2. n \in Nat \ {0} /\ PERIOD * n >= e - r
    BY <1>1, <2>1, PeriodsBounds
  <2>3. PERIOD * n \in Nat
    BY <1>1, <2>2
  <2>4. NextRelease(r, e) = r + (PERIOD * n)
    BY <1>3 DEF NextRelease
  <2> HIDE DEF n
  <2>5. QED
    BY <1>1, <1>3, <2>1, <2>2, <2>3, <2>4
<1>4. QED
  BY <1>2, <1>3

----------------------------------------------------------------------------
(* One telegram evaluated (Monitor.c:92-163). *)

\* A telegram has been received and not yet been evaluated.
InHand == pc \in {"checkPolicy", "policyAgain", "getAttr"}

\* Jobs have a length, and the metrics are those of the telegram in hand.
TimesOK ==
  /\ release >= 1
  /\ \A i \in 1 .. Len(channel) : 1 <= channel[i].t1 /\ channel[i].t1 < channel[i].t2
  /\ InHand =>
       /\ 1 <= telegram.t1 /\ telegram.t1 < telegram.t2
       /\ metrics.lastStartRunTime = telegram.t1
       /\ metrics.lastStopRunTime = telegram.t2
       /\ metrics.lastRT = telegram.t2 - telegram.t1

\* The estimate the telegram in hand is judged by, and the two judgements.
Estimate ==
  IF metrics.lastCyclicTaskReadyTime = 0 \/ telegram.t1 < metrics.lastCyclicTaskReadyTime
    THEN telegram.t1 ELSE metrics.lastCyclicTaskReadyTime

Late == telegram.t2 - Estimate > Attr.deadline

Overran == telegram.t2 - telegram.t1 > Attr.runtime

\* What the correction adds (Monitor.c:159-162).
Moved == IF Late /\ ~Overran THEN telegram.t1 - Estimate ELSE 0

\* What the telegrams' starts take off the estimate (Monitor.c:104-107).
TakenBack == IF metrics.lastCyclicTaskReadyTime = 0 THEN 0
               ELSE metrics.lastCyclicTaskReadyTime - Estimate

\* The estimate is set or moved back (Monitor.c:99-107).
LEMMA ReadyTimeFacts ==
  ASSUME TypeOK, TimesOK, InHand
  PROVE  /\ ReadyTime(metrics) \in MetricsType
         /\ Estimate \in Nat \ {0} /\ Estimate <= telegram.t1 /\ TakenBack \in Nat
         /\ ReadyTime(metrics).lastCyclicTaskReadyTime = Estimate
         /\ ReadyTime(metrics).totalAltoAdjust = metrics.totalAltoAdjust - TakenBack
         /\ \A f \in {"lastStartRunTime", "lastStopRunTime", "lastRT", "deadlineLostCount",
                      "runtimeOverrunCount", "cycleCount"} : ReadyTime(metrics)[f] = metrics[f]
<1>1. metrics \in MetricsType
  BY DEF TypeOK, MetricsType
<1>2. telegram.t1 \in Nat /\ 1 <= telegram.t1 /\ metrics.lastStartRunTime = telegram.t1
  BY DEF TypeOK, TimesOK, Telegram
<1>3. metrics.lastCyclicTaskReadyTime \in Nat /\ metrics.totalAltoAdjust \in Int
  BY <1>1 DEF MetricsType
<1>4. Estimate \in Nat \ {0} /\ Estimate <= telegram.t1 /\ TakenBack \in Nat
  BY <1>2, <1>3 DEF Estimate, TakenBack
<1>5. CASE metrics.lastCyclicTaskReadyTime = 0
  <2>1. ReadyTime(metrics) = [metrics EXCEPT !.lastCyclicTaskReadyTime = telegram.t1]
    BY <1>2, <1>5 DEF ReadyTime
  <2>2. Estimate = telegram.t1 /\ TakenBack = 0
    BY <1>5 DEF Estimate, TakenBack
  <2>3. QED
    BY <1>1, <1>2, <1>4, <2>1, <2>2 DEF MetricsType
<1>6. CASE metrics.lastCyclicTaskReadyTime # 0 /\ telegram.t1 < metrics.lastCyclicTaskReadyTime
  <2>1. ReadyTime(metrics) =
          [metrics EXCEPT !.lastCyclicTaskReadyTime = telegram.t1,
             !.totalAltoAdjust = metrics.totalAltoAdjust
                                   - (metrics.lastCyclicTaskReadyTime - telegram.t1)]
    BY <1>1, <1>2, <1>6 DEF ReadyTime, MetricsType
  <2>2. Estimate = telegram.t1 /\ TakenBack = metrics.lastCyclicTaskReadyTime - telegram.t1
    BY <1>6 DEF Estimate, TakenBack
  <2>3. metrics.totalAltoAdjust - (metrics.lastCyclicTaskReadyTime - telegram.t1) \in Int
    BY <1>2, <1>3
  <2>4. QED
    BY <1>1, <1>2, <1>4, <2>1, <2>2, <2>3 DEF MetricsType
<1>7. CASE metrics.lastCyclicTaskReadyTime # 0 /\ ~(telegram.t1 < metrics.lastCyclicTaskReadyTime)
  <2>1. ReadyTime(metrics) = metrics
    BY <1>2, <1>7 DEF ReadyTime
  <2>2. Estimate = metrics.lastCyclicTaskReadyTime /\ TakenBack = 0
    BY <1>3, <1>7 DEF Estimate, TakenBack
  <2>3. QED
    BY <1>1, <1>3, <1>4, <2>1, <2>2 DEF MetricsType
<1>8. QED
  BY <1>5, <1>6, <1>7

\* The latency is never negative and disturbs nothing else (Monitor.c:110-116).
LEMMA LatencyFacts ==
  ASSUME NEW m \in MetricsType, m.lastCyclicTaskReadyTime <= m.lastStartRunTime
  PROVE  /\ Latency(m) \in MetricsType
         /\ Latency(m).lastLatency = m.lastStartRunTime - m.lastCyclicTaskReadyTime
         /\ \A f \in {"lastCyclicTaskReadyTime", "totalAltoAdjust", "lastStartRunTime",
                      "lastStopRunTime", "lastRT", "deadlineLostCount", "runtimeOverrunCount",
                      "cycleCount"} : Latency(m)[f] = m[f]
<1> DEFINE l == m.lastStartRunTime - m.lastCyclicTaskReadyTime
           hi == IF l > m.maxLatency THEN l ELSE m.maxLatency
           lo == IF l > m.maxLatency THEN m.minLatency
                 ELSE IF l < m.minLatency THEN l ELSE m.minLatency
<1>1. m.lastStartRunTime \in Nat /\ m.lastCyclicTaskReadyTime \in Nat
      /\ m.maxLatency \in Nat /\ m.minLatency \in Int
  BY DEF MetricsType
<1>2. l \in Nat /\ hi \in Nat /\ lo \in Int
  BY <1>1
<1>3. Latency(m) = [m EXCEPT !.lastLatency = l, !.maxLatency = hi, !.minLatency = lo]
  BY DEF Latency, MetricsType
<1> HIDE DEF hi, lo
<1>4. QED
  BY <1>2, <1>3 DEF MetricsType

\* Every judgement counts once (Monitor.c:118-136).
LEMMA CountFacts ==
  ASSUME NEW m \in MetricsType, NEW a \in AttrType
  PROVE  /\ Count(m, a) \in MetricsType
         /\ Count(m, a).deadlineLostCount = m.deadlineLostCount + One(LostDeadline(m, a))
         /\ Count(m, a).runtimeOverrunCount = m.runtimeOverrunCount + One(Overrun(m, a))
         /\ \A f \in {"lastCyclicTaskReadyTime", "totalAltoAdjust", "lastStartRunTime",
                      "lastStopRunTime", "lastRT", "lastLatency", "cycleCount"} :
              Count(m, a)[f] = m[f]
<1> DEFINE x == m.deadlineLostCount + One(LostDeadline(m, a))
           y == m.runtimeOverrunCount + One(Overrun(m, a))
           z == m.taskDepletedCount + One(Overrun(m, a) /\ m.lastRT > a.period)
<1>1. m.deadlineLostCount \in Nat /\ m.runtimeOverrunCount \in Nat /\ m.taskDepletedCount \in Nat
  BY DEF MetricsType
<1>2. One(LostDeadline(m, a)) \in Nat /\ One(Overrun(m, a)) \in Nat
      /\ One(Overrun(m, a) /\ m.lastRT > a.period) \in Nat
  BY DEF One
<1>3. x \in Nat /\ y \in Nat /\ z \in Nat
  BY <1>1, <1>2
<1>4. Count(m, a) = [m EXCEPT !.deadlineLostCount = x, !.runtimeOverrunCount = y,
                              !.taskDepletedCount = z]
  BY DEF Count, MetricsType
<1> HIDE DEF x, y, z
<1>5. Count(m, a) \in MetricsType
  <2> DEFINE o == [m EXCEPT !.deadlineLostCount = x, !.runtimeOverrunCount = y]
  <2>1. o \in MetricsType
    BY <1>3 DEF MetricsType
  <2>2. Count(m, a) = [o EXCEPT !.taskDepletedCount = z]
    BY <1>4
  <2> HIDE DEF o
  <2>3. [o EXCEPT !.taskDepletedCount = z] \in MetricsType
    BY <1>3, <2>1 DEF MetricsType
  <2>4. QED
    BY <2>2, <2>3
<1>6. Count(m, a).deadlineLostCount = x /\ Count(m, a).runtimeOverrunCount = y
  BY <1>4 DEF MetricsType
<1>7. \A f \in {"lastCyclicTaskReadyTime", "totalAltoAdjust", "lastStartRunTime",
               "lastStopRunTime", "lastRT", "lastLatency", "cycleCount"} :
        Count(m, a)[f] = m[f]
  BY <1>4 DEF MetricsType
<1>8. QED
  BY <1>5, <1>6, <1>7 DEF x, y

\* What the kernel says of the task has its type (Process.c:99-119).
LEMMA AttrFacts ==
  /\ Attr \in AttrType
  /\ Attr.deadline <= DEADLINE
  /\ policy = "deadline" =>
       Attr.runtime = RUNTIME /\ Attr.deadline = DEADLINE /\ Attr.period = PERIOD
  /\ policy # "deadline" => Attr.period = 0
  BY MonitorAssumption DEF Attr, AttrType

\* The metrics when the loop of Monitor.c:140 is reached.
Judged == Count(Latency(ReadyTime(metrics)), Attr)

\* All of it up to the loop (Monitor.c:92-136).
LEMMA JudgedFacts ==
  ASSUME TypeOK, TimesOK, InHand
  PROVE  /\ Judged \in MetricsType
         /\ Judged.lastCyclicTaskReadyTime = Estimate
         /\ Judged.totalAltoAdjust = metrics.totalAltoAdjust - TakenBack
         /\ Judged.lastStartRunTime = telegram.t1 /\ Judged.lastStopRunTime = telegram.t2
         /\ Judged.lastRT = telegram.t2 - telegram.t1
         /\ Judged.lastLatency = telegram.t1 - Estimate
         /\ Judged.cycleCount = metrics.cycleCount
         /\ Judged.deadlineLostCount = metrics.deadlineLostCount + One(Late)
         /\ Judged.runtimeOverrunCount = metrics.runtimeOverrunCount + One(Overran)
         /\ LostDeadline(Judged, Attr) <=> Late
         /\ Overrun(Judged, Attr) <=> Overran
<1> DEFINE r == ReadyTime(metrics)
           l == Latency(r)
<1>1. metrics.lastStartRunTime = telegram.t1 /\ metrics.lastStopRunTime = telegram.t2
      /\ metrics.lastRT = telegram.t2 - telegram.t1
  BY DEF TimesOK
<1>2. /\ r \in MetricsType
      /\ r.lastCyclicTaskReadyTime = Estimate /\ Estimate <= telegram.t1
      /\ r.totalAltoAdjust = metrics.totalAltoAdjust - TakenBack
      /\ \A f \in {"lastStartRunTime", "lastStopRunTime", "lastRT", "deadlineLostCount",
                   "runtimeOverrunCount", "cycleCount"} : r[f] = metrics[f]
  BY ReadyTimeFacts
<1> HIDE DEF r
<1>3. r.lastCyclicTaskReadyTime <= r.lastStartRunTime
  BY <1>1, <1>2
<1>4. /\ l \in MetricsType
      /\ l.lastLatency = r.lastStartRunTime - r.lastCyclicTaskReadyTime
      /\ \A f \in {"lastCyclicTaskReadyTime", "totalAltoAdjust", "lastStartRunTime",
                   "lastStopRunTime", "lastRT", "deadlineLostCount", "runtimeOverrunCount",
                   "cycleCount"} : l[f] = r[f]
  BY <1>2, <1>3, LatencyFacts
<1> HIDE DEF l
<1>5. /\ Count(l, Attr) \in MetricsType
      /\ Count(l, Attr).deadlineLostCount = l.deadlineLostCount + One(LostDeadline(l, Attr))
      /\ Count(l, Attr).runtimeOverrunCount = l.runtimeOverrunCount + One(Overrun(l, Attr))
      /\ \A f \in {"lastCyclicTaskReadyTime", "totalAltoAdjust", "lastStartRunTime",
                   "lastStopRunTime", "lastRT", "lastLatency", "cycleCount"} :
           Count(l, Attr)[f] = l[f]
  BY <1>4, AttrFacts, CountFacts
<1>6. Judged = Count(l, Attr)
  BY DEF Judged, l, r
<1>7. /\ Judged.lastCyclicTaskReadyTime = Estimate
      /\ Judged.totalAltoAdjust = metrics.totalAltoAdjust - TakenBack
      /\ Judged.lastStartRunTime = telegram.t1 /\ Judged.lastStopRunTime = telegram.t2
      /\ Judged.lastRT = telegram.t2 - telegram.t1
      /\ Judged.lastLatency = telegram.t1 - Estimate
      /\ Judged.cycleCount = metrics.cycleCount
  BY <1>1, <1>2, <1>4, <1>5, <1>6
<1>8. (LostDeadline(l, Attr) <=> Late) /\ (Overrun(l, Attr) <=> Overran)
  BY <1>1, <1>2, <1>4 DEF LostDeadline, Overrun, Late, Overran
<1>9. One(LostDeadline(l, Attr)) = One(Late) /\ One(Overrun(l, Attr)) = One(Overran)
  BY <1>8 DEF One
<1>10. (LostDeadline(Judged, Attr) <=> Late) /\ (Overrun(Judged, Attr) <=> Overran)
  BY <1>7 DEF LostDeadline, Overrun, Late, Overran
<1>11. QED
  BY <1>2, <1>4, <1>5, <1>6, <1>7, <1>9, <1>10

\* The loop counts every period it adds (Monitor.c:138-143).
LEMMA NextTickFacts ==
  ASSUME NEW m \in MetricsType, NEW a \in AttrType, NEW n \in Nat, Ticks(m, a) = n
  PROVE  /\ NextTick(m, a) \in MetricsType
         /\ NextTick(m, a).lastCyclicTaskReadyTime
              = m.lastCyclicTaskReadyTime + (n * a.period)
         /\ NextTick(m, a).cycleCount = m.cycleCount + n
         /\ \A f \in {"totalAltoAdjust", "lastLatency", "deadlineLostCount",
                      "runtimeOverrunCount", "lastStartRunTime"} :
              NextTick(m, a)[f] = m[f]
<1> DEFINE x == m.lastCyclicTaskReadyTime + (n * a.period)
           y == m.cycleCount + n
<1>1. n * a.period \in Nat
  BY DEF AttrType
<1>2. m.lastCyclicTaskReadyTime \in Nat /\ m.cycleCount \in Nat
  BY DEF MetricsType
<1>3. x \in Nat /\ y \in Nat
  BY <1>1, <1>2
<1>4. NextTick(m, a) = [m EXCEPT !.lastCyclicTaskReadyTime = x, !.cycleCount = y]
  BY DEF NextTick, MetricsType
<1> HIDE DEF x, y
<1>5. /\ NextTick(m, a) \in MetricsType
      /\ NextTick(m, a).lastCyclicTaskReadyTime = x /\ NextTick(m, a).cycleCount = y
      /\ \A f \in {"totalAltoAdjust", "lastLatency", "deadlineLostCount",
                   "runtimeOverrunCount", "lastStartRunTime"} : NextTick(m, a)[f] = m[f]
  BY <1>3, <1>4 DEF MetricsType
<1>6. QED
  BY <1>5 DEF x, y

\* The correction moves the estimate and is added up (Monitor.c:154-162).
LEMMA AdjustFacts ==
  ASSUME NEW m \in MetricsType, NEW a, NEW late
  PROVE  LET by == IF late /\ ~Overrun(m, a) THEN m.lastLatency ELSE 0 IN
           /\ Adjust(m, a, late) \in MetricsType
           /\ Adjust(m, a, late).lastCyclicTaskReadyTime = m.lastCyclicTaskReadyTime + by
           /\ Adjust(m, a, late).totalAltoAdjust = m.totalAltoAdjust + by
           /\ \A f \in {"deadlineLostCount", "runtimeOverrunCount", "cycleCount"} :
                Adjust(m, a, late)[f] = m[f]
<1>1. m.lastLatency \in Nat /\ m.lastCyclicTaskReadyTime \in Nat /\ m.totalAltoAdjust \in Int
  BY DEF MetricsType
<1>2. CASE late /\ ~Overrun(m, a)
  <2> DEFINE x == m.lastCyclicTaskReadyTime + m.lastLatency
             y == m.totalAltoAdjust + m.lastLatency
  <2>1. x \in Nat /\ y \in Int
    BY <1>1
  <2>2. Adjust(m, a, late) = [m EXCEPT !.lastCyclicTaskReadyTime = x, !.totalAltoAdjust = y]
    BY <1>2 DEF Adjust, MetricsType
  <2> HIDE DEF x, y
  <2>3. /\ Adjust(m, a, late) \in MetricsType
        /\ Adjust(m, a, late).lastCyclicTaskReadyTime = x
        /\ Adjust(m, a, late).totalAltoAdjust = y
        /\ \A f \in {"deadlineLostCount", "runtimeOverrunCount", "cycleCount"} :
             Adjust(m, a, late)[f] = m[f]
    BY <2>1, <2>2 DEF MetricsType
  <2>4. QED
    BY <1>2, <2>3 DEF x, y
<1>3. CASE ~(late /\ ~Overrun(m, a))
  BY <1>1, <1>3 DEF Adjust
<1>4. QED
  BY <1>2, <1>3

\* One telegram evaluated while the task is SCHED_DEADLINE: the estimate goes on
\* by whole periods past the stop and by the correction (Monitor.c:92-163).
LEMMA EvaluateFacts ==
  ASSUME TypeOK, TimesOK, InHand, Evaluate
  PROVE  /\ metrics' \in MetricsType
         /\ metrics'.deadlineLostCount = metrics.deadlineLostCount + One(Late)
         /\ metrics'.runtimeOverrunCount = metrics.runtimeOverrunCount + One(Overran)
         /\ inARow' = IF Late THEN inARow + 1 ELSE 0
         /\ UNCHANGED <<taskVars, channel, mePolicy, telegram>>
         /\ policy # "deadline" =>
              /\ pc' = "stuck" /\ UNCHANGED logVars
              /\ metrics'.lastCyclicTaskReadyTime = Estimate
              /\ metrics'.totalAltoAdjust = metrics.totalAltoAdjust - TakenBack
              /\ metrics'.cycleCount = metrics.cycleCount
         /\ policy = "deadline" =>
              /\ pc' = "read"
              /\ \E n \in Nat \ {0} :
                   /\ Estimate + (PERIOD * n) >= telegram.t2
                   /\ metrics'.lastCyclicTaskReadyTime = Estimate + (PERIOD * n) + Moved
                   /\ metrics'.totalAltoAdjust = metrics.totalAltoAdjust - TakenBack + Moved
                   /\ metrics'.cycleCount = metrics.cycleCount + n
<1> DEFINE a == Attr
           m == Judged
           late == LostDeadline(m, a)
<1>1. /\ m \in MetricsType
      /\ m.lastCyclicTaskReadyTime = Estimate
      /\ m.totalAltoAdjust = metrics.totalAltoAdjust - TakenBack
      /\ m.lastStopRunTime = telegram.t2
      /\ m.lastLatency = telegram.t1 - Estimate
      /\ m.cycleCount = metrics.cycleCount
      /\ m.deadlineLostCount = metrics.deadlineLostCount + One(Late)
      /\ m.runtimeOverrunCount = metrics.runtimeOverrunCount + One(Overran)
      /\ late <=> Late
      /\ Overrun(m, a) <=> Overran
  BY JudgedFacts
<1>2. telegram.t1 \in Nat /\ telegram.t2 \in Nat /\ Estimate \in Nat
      /\ Estimate <= telegram.t1 /\ telegram.t1 < telegram.t2
  BY ReadyTimeFacts DEF TypeOK, Telegram, TimesOK
<1>3. UNCHANGED <<taskVars, channel, mePolicy, telegram>>
  BY DEF Evaluate
<1>4. inARow' = IF Late THEN inARow + 1 ELSE 0
  BY <1>1 DEF Evaluate, Judged
<1>5. ASSUME policy # "deadline"
      PROVE  metrics' = m /\ pc' = "stuck" /\ UNCHANGED logVars
  <2>1. ~LoopEnds(m, a)
    BY <1>1, <1>2, <1>5, AttrFacts DEF LoopEnds
  <2>2. QED
    BY <2>1 DEF Evaluate, Judged
<1>6. ASSUME policy = "deadline"
      PROVE  metrics' = Adjust(NextTick(m, a), a, late) /\ pc' = "read"
  <2>1. LoopEnds(m, a)
    BY <1>6, AttrFacts, MonitorAssumption DEF LoopEnds
  <2>2. QED
    BY <2>1 DEF Evaluate, Judged
<1> HIDE DEF m
<1>7. ASSUME policy = "deadline"
      PROVE  \E n \in Nat \ {0} :
               /\ metrics' \in MetricsType
               /\ metrics'.deadlineLostCount = m.deadlineLostCount
               /\ metrics'.runtimeOverrunCount = m.runtimeOverrunCount
               /\ Estimate + (PERIOD * n) >= telegram.t2
               /\ metrics'.lastCyclicTaskReadyTime = Estimate + (PERIOD * n) + Moved
               /\ metrics'.totalAltoAdjust = metrics.totalAltoAdjust - TakenBack + Moved
               /\ metrics'.cycleCount = metrics.cycleCount + n
  <2> DEFINE n == Periods(telegram.t2 - Estimate, PERIOD)
             t == NextTick(m, a)
  <2>1. a \in AttrType /\ a.period = PERIOD /\ PERIOD \in Nat \ {0}
    BY <1>7, AttrFacts, MonitorAssumption
  <2>2. telegram.t2 - Estimate \in Nat \ {0}
    BY <1>2
  <2>3. n \in Nat \ {0} /\ PERIOD * n >= telegram.t2 - Estimate
    BY <2>1, <2>2, PeriodsBounds
  <2>4. Ticks(m, a) = n
    BY <1>1, <1>2, <2>1 DEF Ticks
  <2> HIDE DEF n
  <2>5. PERIOD * n \in Nat /\ n * a.period = PERIOD * n
    BY <2>1, <2>3
  <2>6. /\ t \in MetricsType
        /\ t.lastCyclicTaskReadyTime = Estimate + (PERIOD * n)
        /\ t.cycleCount = m.cycleCount + n
        /\ \A f \in {"totalAltoAdjust", "lastLatency", "deadlineLostCount",
                     "runtimeOverrunCount", "lastStartRunTime"} : t[f] = m[f]
    BY <1>1, <2>1, <2>3, <2>4, <2>5, NextTickFacts
  <2>7. Overrun(t, a) <=> Overran
    <3>1. t.lastRT = m.lastRT
      BY <1>1 DEF NextTick, MetricsType
    <3>2. QED
      BY <3>1, <1>1 DEF Overrun
  <2>8. (IF late /\ ~Overrun(t, a) THEN t.lastLatency ELSE 0) = Moved
    BY <1>1, <2>6, <2>7 DEF Moved
  <2> HIDE DEF t
  <2>9. /\ Adjust(t, a, late) \in MetricsType
        /\ Adjust(t, a, late).lastCyclicTaskReadyTime = t.lastCyclicTaskReadyTime + Moved
        /\ Adjust(t, a, late).totalAltoAdjust = t.totalAltoAdjust + Moved
        /\ \A f \in {"deadlineLostCount", "runtimeOverrunCount", "cycleCount"} :
             Adjust(t, a, late)[f] = t[f]
    BY <2>6, <2>8, AdjustFacts
  <2>10. metrics' = Adjust(t, a, late)
    BY <1>6, <1>7 DEF t
  <2>11. Estimate + (PERIOD * n) >= telegram.t2
    BY <1>2, <2>3, <2>5
  <2>12. QED
    BY <1>1, <2>3, <2>6, <2>9, <2>10, <2>11
<1>8. CASE policy = "deadline"
  BY <1>1, <1>3, <1>4, <1>6, <1>7, <1>8
<1>9. CASE policy # "deadline"
  BY <1>1, <1>3, <1>4, <1>5, <1>9
<1>10. QED
  BY <1>8, <1>9

----------------------------------------------------------------------------
(* The types. *)

\* A telegram sent comes last, or is lost (Gateway.c:43-56 drops it).
LEMMA SendFacts ==
  ASSUME TypeOK, NEW s \in Nat, NEW e \in Nat, s < e, e <= MaxTime,
         policy \in {"other", "deadline"}, Send(s, e)
  PROVE  LET t == [t1 |-> s, t2 |-> e, under |-> policy] IN
           /\ t \in Telegram
           /\ channel' \in Seq(Telegram) /\ lostCount' \in 0 .. MaxLost
           /\ \/ /\ lostCount' = lostCount /\ Len(channel') = Len(channel) + 1
                 /\ \A i \in 1 .. Len(channel) : channel'[i] = channel[i]
                 /\ channel'[Len(channel) + 1] = t
              \/ lostCount' = lostCount + 1 /\ channel' = channel
<1> DEFINE t == [t1 |-> s, t2 |-> e, under |-> policy]
<1>1. t \in Telegram
  BY MonitorAssumption DEF Telegram
<1>2. channel \in Seq(Telegram) /\ lostCount \in 0 .. MaxLost /\ MaxLost \in Nat
  BY MonitorAssumption DEF TypeOK
<1>3. CASE channel' = Append(channel, t) /\ lostCount' = lostCount
  <2> HIDE DEF t
  <2>1. /\ channel' \in Seq(Telegram) /\ Len(channel') = Len(channel) + 1
        /\ \A i \in 1 .. Len(channel) : channel'[i] = channel[i]
        /\ channel'[Len(channel) + 1] = t
    BY <1>1, <1>2, <1>3
  <2>2. QED
    BY <1>1, <1>2, <1>3, <2>1 DEF t
<1>4. CASE lostCount < MaxLost /\ lostCount' = lostCount + 1 /\ channel' = channel
  BY <1>1, <1>2, <1>4
<1>5. QED
  BY <1>3, <1>4 DEF Send

\* The telegrams on their way keep their times when one more is sent.
LEMMA SendTimes ==
  ASSUME TypeOK, TimesOK, NEW s \in Nat, NEW e \in Nat, 1 <= s, s < e, e <= MaxTime,
         policy \in {"other", "deadline"}, Send(s, e)
  PROVE  \A i \in 1 .. Len(channel') : 1 <= channel'[i].t1 /\ channel'[i].t1 < channel'[i].t2
<1> DEFINE t == [t1 |-> s, t2 |-> e, under |-> policy]
<1>1. \/ /\ Len(channel') = Len(channel) + 1
         /\ \A i \in 1 .. Len(channel) : channel'[i] = channel[i]
         /\ channel'[Len(channel) + 1] = t
      \/ channel' = channel
  BY SendFacts
<1>2. t.t1 = s /\ t.t2 = e
  OBVIOUS
<1>3. Len(channel) \in Nat
  BY DEF TypeOK
<1>4. \A i \in 1 .. Len(channel) : 1 <= channel[i].t1 /\ channel[i].t1 < channel[i].t2
  BY DEF TimesOK
<1> HIDE DEF t
<1>5. QED
  BY <1>1, <1>2, <1>3, <1>4

\* Response times disturb no other metric (Monitor.c:62-73).
LEMMA ResponseTimeFacts ==
  ASSUME NEW m \in MetricsType, NEW t \in Telegram, t.t1 < t.t2
  PROVE  /\ ResponseTime(m, t) \in MetricsType
         /\ ResponseTime(m, t).lastStartRunTime = t.t1
         /\ ResponseTime(m, t).lastStopRunTime = t.t2
         /\ ResponseTime(m, t).lastRT = t.t2 - t.t1
         /\ \A f \in {"lastCyclicTaskReadyTime", "totalAltoAdjust", "cycleCount",
                      "deadlineLostCount", "runtimeOverrunCount"} : ResponseTime(m, t)[f] = m[f]
<1> DEFINE rt == t.t2 - t.t1
           hi == IF rt > m.WCRT THEN rt ELSE m.WCRT
           lo == IF rt > m.WCRT THEN m.minRT ELSE IF rt < m.minRT THEN rt ELSE m.minRT
<1>1. t.t1 \in Nat /\ t.t2 \in Nat /\ m.WCRT \in Nat /\ m.minRT \in Nat
  BY MonitorAssumption DEF MetricsType, Telegram
<1>2. rt \in Nat /\ hi \in Nat /\ lo \in Nat
  BY <1>1
<1>3. ResponseTime(m, t) =
        [m EXCEPT !.lastStartRunTime = t.t1, !.lastStopRunTime = t.t2, !.lastRT = rt,
                  !.WCRT = hi, !.minRT = lo]
  BY DEF ResponseTime, MetricsType
<1> HIDE DEF rt, hi, lo
<1>4. ResponseTime(m, t) \in MetricsType
  <2>1. [m EXCEPT !.lastStartRunTime = t.t1, !.lastStopRunTime = t.t2, !.lastRT = rt]
          \in MetricsType
    BY <1>1, <1>2 DEF MetricsType
  <2> DEFINE n == [m EXCEPT !.lastStartRunTime = t.t1, !.lastStopRunTime = t.t2, !.lastRT = rt]
  <2>2. ResponseTime(m, t) = [n EXCEPT !.WCRT = hi, !.minRT = lo]
    BY <1>3
  <2> HIDE DEF n
  <2>3. [n EXCEPT !.WCRT = hi, !.minRT = lo] \in MetricsType
    BY <1>2, <2>1 DEF MetricsType, n
  <2>4. QED
    BY <2>2, <2>3
<1>5. /\ ResponseTime(m, t).lastStartRunTime = t.t1
      /\ ResponseTime(m, t).lastStopRunTime = t.t2
      /\ ResponseTime(m, t).lastRT = rt
      /\ \A f \in {"lastCyclicTaskReadyTime", "totalAltoAdjust", "cycleCount",
                   "deadlineLostCount", "runtimeOverrunCount"} : ResponseTime(m, t)[f] = m[f]
  BY <1>3 DEF MetricsType
<1>6. QED
  BY <1>4, <1>5 DEF rt

\* What a read takes from the channel (Monitor.c:40-78).
LEMMA ReceiveFacts ==
  ASSUME TypeOK, TimesOK, Receive
  PROVE  /\ telegram' = channel[1] /\ telegram' \in Telegram /\ Len(channel) \in Nat \ {0}
         /\ channel' \in Seq(Telegram) /\ Len(channel') = Len(channel) - 1
         /\ \A i \in 1 .. Len(channel') : channel'[i] = channel[i + 1]
         /\ 1 <= telegram'.t1 /\ telegram'.t1 < telegram'.t2
         /\ metrics' \in MetricsType
         /\ metrics'.lastStartRunTime = telegram'.t1
         /\ metrics'.lastStopRunTime = telegram'.t2
         /\ metrics'.lastRT = telegram'.t2 - telegram'.t1
         /\ \A f \in {"lastCyclicTaskReadyTime", "totalAltoAdjust", "cycleCount",
                      "deadlineLostCount", "runtimeOverrunCount"} : metrics'[f] = metrics[f]
<1>1. channel \in Seq(Telegram) /\ channel # <<>>
  BY DEF TypeOK, Receive
<1>2. Len(channel) \in Nat \ {0} /\ Head(channel) = channel[1]
  BY <1>1
<1>3. /\ Head(channel) \in Telegram /\ Tail(channel) \in Seq(Telegram)
      /\ Len(Tail(channel)) = Len(channel) - 1
      /\ \A i \in 1 .. Len(Tail(channel)) : Tail(channel)[i] = channel[i + 1]
  BY <1>1, HeadTailProperties, Zenon
<1>4. /\ telegram' = Head(channel) /\ channel' = Tail(channel)
      /\ metrics' = ResponseTime(metrics, Head(channel))
  BY DEF Receive
<1>5. 1 <= Head(channel).t1 /\ Head(channel).t1 < Head(channel).t2
  BY <1>2 DEF TimesOK
<1>6. metrics \in MetricsType
  BY DEF TypeOK, MetricsType
<1>7. QED
  BY <1>2, <1>3, <1>4, <1>5, <1>6, ResponseTimeFacts

\* The first step of the types.
LEMMA MonitorInitType == Init => TypeOK /\ TimesOK
<1> SUFFICES ASSUME Init PROVE TypeOK /\ TimesOK
  OBVIOUS
<1>1. metrics \in MetricsType
  BY MonitorAssumption DEF Init, MetricsInit, MinLatencyInit, MetricsType
<1>2. channel \in Seq(Telegram) /\ Len(channel) = 0
  BY DEF Init
<1>3. telegram \in Telegram
  BY MonitorAssumption DEF Init, Telegram
<1>4. lastEnd \in 0 .. MaxTime /\ lostCount \in 0 .. MaxLost /\ changes \in 0 .. MaxChanges
      /\ firstReady \in 0 .. MaxTime
  BY MonitorAssumption DEF Init
<1>5. TypeOK
  BY <1>1, <1>2, <1>3, <1>4 DEF Init, TypeOK, Policy, MetricsType
<1>6. TimesOK
  BY <1>2 DEF Init, TimesOK, InHand
<1>7. QED
  BY <1>5, <1>6

\* A job that ends keeps the types (userTest.c:90-124 and :159-176 through the gateway).
LEMMA JobType ==
  ASSUME TypeOK, TimesOK, DeadlineJob \/ OtherJob
  PROVE  TypeOK' /\ TimesOK'
<1>1. UNCHANGED <<policy, changes, left, monVars, logVars>>
  BY DEF DeadlineJob, OtherJob
<1>2. MaxLatency \in Nat /\ MaxWork \in Nat /\ MaxDrift \in Nat /\ MaxTime \in Nat
  BY MonitorAssumption
<1>3. PICK s \in Nat, e \in Nat :
        /\ 1 <= s /\ s < e /\ e <= MaxTime
        /\ policy \in {"other", "deadline"} /\ Send(s, e) /\ lastEnd' = e
  <2>1. CASE DeadlineJob
    <3>1. PICK l \in 0 .. MaxLatency, w \in 1 .. MaxWork :
            /\ release + l + w <= MaxTime /\ Send(release + l, release + l + w)
            /\ lastEnd' = release + l + w
      BY <2>1 DEF DeadlineJob
    <3>2. release \in Nat /\ release >= 1
      BY DEF TypeOK, TimesOK
    <3>3. release + l \in Nat /\ release + l + w \in Nat
          /\ 1 <= release + l /\ release + l < release + l + w
      BY <1>2, <3>2
    <3>4. QED
      BY <2>1, <3>1, <3>3 DEF DeadlineJob
  <2>2. CASE OtherJob
    <3>1. PICK w \in 1 .. MaxWork :
            /\ lastEnd + 1 + w <= MaxTime /\ Send(lastEnd + 1, lastEnd + 1 + w)
            /\ lastEnd' = lastEnd + 1 + w
      BY <2>2 DEF OtherJob
    <3>2. lastEnd + 1 \in Nat /\ lastEnd + 1 + w \in Nat
          /\ 1 <= lastEnd + 1 /\ lastEnd + 1 < lastEnd + 1 + w
      BY <1>2 DEF TypeOK
    <3>3. QED
      BY <2>2, <3>1, <3>2 DEF OtherJob
  <2>3. QED
    BY <2>1, <2>2
<1>4. release' \in Nat /\ release' >= 1 /\ onTime' \in BOOLEAN /\ prompt' \in BOOLEAN
  <2>1. CASE DeadlineJob
    <3>1. PICK l \in 0 .. MaxLatency, w \in 1 .. MaxWork, d \in 0 .. MaxDrift :
            /\ release' = NextRelease(release, release + l + w) + d
            /\ onTime' = (onTime /\ release + l + w <= release + DEADLINE /\ d = 0)
            /\ prompt' = (prompt /\ w <= RUNTIME
                            /\ release + l + w + MaxDrift <= release + DEADLINE)
      BY <2>1 DEF DeadlineJob
    <3>2. release \in Nat /\ release >= 1
      BY DEF TypeOK, TimesOK
    <3>3. release + l + w \in Nat
      BY <1>2, <3>2
    <3>4. /\ NextRelease(release, release + l + w) \in Nat
          /\ NextRelease(release, release + l + w) >= release + PERIOD
      BY <3>2, <3>3, NextReleaseBounds
    <3>5. release' \in Nat /\ release' >= 1
      BY <1>2, <3>1, <3>2, <3>4, MonitorAssumption
    <3>6. QED
      BY <3>1, <3>5
  <2>2. CASE OtherJob
    BY <2>2 DEF OtherJob, TypeOK, TimesOK
  <2>3. QED
    BY <2>1, <2>2
<1>5. channel' \in Seq(Telegram) /\ lostCount' \in 0 .. MaxLost
  BY <1>3, SendFacts
<1>6. lastEnd' \in 0 .. MaxTime
  BY <1>2, <1>3
<1>7. TypeOK'
  BY <1>1, <1>4, <1>5, <1>6 DEF TypeOK, monVars, monHist
<1>8. \A i \in 1 .. Len(channel') : 1 <= channel'[i].t1 /\ channel'[i].t1 < channel'[i].t2
  BY <1>3, SendTimes
<1>9. TimesOK'
  BY <1>1, <1>4, <1>8 DEF TimesOK, InHand, monVars, monHist
<1>10. QED
  BY <1>7, <1>9

\* A change of policy, or the end of the task, keeps the types.
LEMMA PolicyType ==
  ASSUME TypeOK, TimesOK, SetDeadline \/ LeaveDeadline \/ Exit
  PROVE  TypeOK' /\ TimesOK'
<1>1. UNCHANGED <<lastEnd, onTime, prompt, lostCount, channel, monVars, logVars>>
  BY DEF SetDeadline, LeaveDeadline, Exit
<1>2. policy' \in Policy
  BY DEF SetDeadline, LeaveDeadline, Exit, Policy
<1>3. changes \in 0 .. MaxChanges /\ MaxChanges \in Nat /\ lastEnd \in Nat /\ release \in Nat
      /\ release >= 1
  BY MonitorAssumption DEF TypeOK, TimesOK
<1>4. /\ changes' = changes \/ (changes < MaxChanges /\ changes' = changes + 1)
      /\ release' = release \/ release' = lastEnd + 1
  BY DEF SetDeadline, LeaveDeadline, Exit
<1>5. changes' \in 0 .. MaxChanges
  BY <1>3, <1>4
<1>6. release' \in Nat /\ release' >= 1 /\ left' \in Nat
  <2>1. left \in Nat
    BY DEF TypeOK
  <2>2. left' \in {left, left + 1}
    BY <2>1 DEF SetDeadline, LeaveDeadline, Exit, One
  <2>3. QED
    BY <1>3, <1>4, <2>1, <2>2
<1>7. TypeOK'
  BY <1>1, <1>2, <1>5, <1>6 DEF TypeOK, monVars, monHist
<1>8. TimesOK'
  BY <1>1, <1>6 DEF TimesOK, InHand, monVars, monHist
<1>9. QED
  BY <1>7, <1>8

\* The monitor thread's steps keep the types; latencies and response times are
\* never negative (Monitor.c:30-163).
LEMMA MonitorTaskType ==
  ASSUME TypeOK, TimesOK, Monitor_task
  PROVE  TypeOK' /\ TimesOK'
<1>1. CASE MonitorInit \/ CheckPolicy \/ PolicyAgain \/ (GetAttr /\ policy = "gone")
  <2>1. UNCHANGED <<taskVars, channel, telegram, metrics, longJobs, monHist, logVars>>
    BY <1>1 DEF MonitorInit, CheckPolicy, PolicyAgain, GetAttr
  <2>2. mePolicy' \in {mePolicy, policy}
        /\ pc' \in {"read", "checkPolicy", "policyAgain", "getAttr"}
        /\ (pc' = "read" \/ InHand)
    BY <1>1 DEF MonitorInit, CheckPolicy, PolicyAgain, GetAttr, InHand
  <2>3. TypeOK'
    BY <2>1, <2>2 DEF TypeOK, taskVars, monHist
  <2>4. TimesOK'
    BY <2>1, <2>2 DEF TimesOK, InHand, taskVars, monHist
  <2>5. QED
    BY <2>3, <2>4
<1>2. CASE Receive
  <2>1. UNCHANGED <<taskVars, mePolicy, monHist, logVars>> /\ pc' \in {"checkPolicy", "read"}
    BY <1>2 DEF Receive
  <2>2. /\ telegram' \in Telegram /\ channel' \in Seq(Telegram) /\ metrics' \in MetricsType
        /\ Len(channel) \in Nat \ {0} /\ Len(channel') = Len(channel) - 1
        /\ \A i \in 1 .. Len(channel') : channel'[i] = channel[i + 1]
        /\ 1 <= telegram'.t1 /\ telegram'.t1 < telegram'.t2
        /\ metrics'.lastStartRunTime = telegram'.t1
        /\ metrics'.lastStopRunTime = telegram'.t2
        /\ metrics'.lastRT = telegram'.t2 - telegram'.t1
    BY <1>2, ReceiveFacts
  <2>3. TypeOK'
    <3>1. longJobs' = longJobs + One(mePolicy = "deadline" /\ metrics'.lastRT > DEADLINE)
      BY <1>2 DEF Receive
    <3>2. One(mePolicy = "deadline" /\ metrics'.lastRT > DEADLINE) \in {0, 1}
      BY DEF One
    <3>3. longJobs \in Nat
      BY DEF TypeOK
    <3> DEFINE o == One(mePolicy = "deadline" /\ metrics'.lastRT > DEADLINE)
    <3> HIDE DEF o
    <3>4. longJobs' = longJobs + o /\ o \in {0, 1}
      BY <3>1, <3>2 DEF o
    <3>5. longJobs' \in Nat
      BY <3>3, <3>4
    <3>6. QED
      BY <2>1, <2>2, <3>5 DEF TypeOK, taskVars, monHist, MetricsType
  <2>4. ASSUME NEW i \in 1 .. Len(channel')
        PROVE  1 <= channel'[i].t1 /\ channel'[i].t1 < channel'[i].t2
    <3>1. i + 1 \in 1 .. Len(channel) /\ channel'[i] = channel[i + 1]
      BY <2>2
    <3>2. QED
      BY <3>1 DEF TimesOK
  <2>5. TimesOK'
    BY <2>1, <2>2, <2>4 DEF TimesOK, taskVars
  <2>6. QED
    BY <2>3, <2>5
<1>3. CASE GetAttr /\ policy # "gone"
  <2>1. Evaluate /\ InHand
    BY <1>3 DEF GetAttr, InHand
  <2>2. /\ UNCHANGED <<taskVars, channel, mePolicy, telegram>>
        /\ metrics' \in MetricsType /\ pc' \in {"read", "stuck"}
        /\ inARow' = IF Late THEN inARow + 1 ELSE 0
    BY <2>1, EvaluateFacts
  <2>3. longJobs' = longJobs
        /\ firstReady' = IF firstReady = 0 THEN metrics.lastStartRunTime ELSE firstReady
    BY <2>1 DEF Evaluate
  <2>4. metrics.lastStartRunTime \in 0 .. MaxTime
    BY <2>1 DEF TimesOK, TypeOK, Telegram
  <2>5. longJobs' \in Nat /\ inARow' \in Nat /\ firstReady' \in 0 .. MaxTime
    BY <2>2, <2>3, <2>4 DEF TypeOK
  <2>6. TypeOK'
    BY <2>2, <2>5 DEF TypeOK, taskVars, MetricsType
  <2>7. TimesOK'
    BY <2>2 DEF TimesOK, InHand, taskVars
  <2>8. QED
    BY <2>6, <2>7
<1>4. QED
  BY <1>1, <1>2, <1>3 DEF Monitor_task

\* Every step keeps the types.
LEMMA MonitorStepType == TypeOK /\ TimesOK /\ [Next]_vars => TypeOK' /\ TimesOK'
<1> SUFFICES ASSUME TypeOK, TimesOK, [Next]_vars PROVE TypeOK' /\ TimesOK'
  OBVIOUS
<1>1. CASE UNCHANGED vars
  BY <1>1 DEF vars, taskVars, monVars, monHist, TypeOK, TimesOK, InHand
<1>2. QED
  BY <1>1, JobType, PolicyType, MonitorTaskType DEF Next

\* For every timing of the jobs, loss of telegrams and change of policy every
\* variable keeps its type, so no unsigned subtraction of Monitor.c:66, :105,
\* :110 and :119 wraps.
THEOREM MonitorTypes == Spec => []TypeOK
<1>1. Spec => [](TypeOK /\ TimesOK)
  BY MonitorInitType, MonitorStepType, PTL DEF Spec
<1>2. QED
  BY <1>1, PTL

----------------------------------------------------------------------------
(* What is reported, and the account of the estimate. *)

\* All steps but that of a telegram evaluated leave alone what was found so far.
LEMMA OnlyEvaluateJudges ==
  ASSUME TypeOK, TimesOK, [Next]_vars
  PROVE  \/ /\ UNCHANGED monHist
            /\ \A f \in {"lastCyclicTaskReadyTime", "totalAltoAdjust", "cycleCount",
                         "deadlineLostCount", "runtimeOverrunCount"} : metrics'[f] = metrics[f]
         \/ Evaluate /\ InHand /\ pc = "getAttr"
<1>1. CASE UNCHANGED vars
  BY <1>1 DEF vars, monVars
<1>2. CASE DeadlineJob \/ OtherJob \/ SetDeadline \/ LeaveDeadline \/ Exit
  BY <1>2 DEF DeadlineJob, OtherJob, SetDeadline, LeaveDeadline, Exit, monVars
<1>3. CASE MonitorInit \/ CheckPolicy \/ PolicyAgain \/ (GetAttr /\ policy = "gone")
  BY <1>3 DEF MonitorInit, CheckPolicy, PolicyAgain, GetAttr
<1>4. CASE Receive
  BY <1>4, ReceiveFacts DEF Receive
<1>5. CASE GetAttr /\ policy # "gone"
  BY <1>5 DEF GetAttr, InHand
<1>6. QED
  BY <1>1, <1>2, <1>3, <1>4, <1>5 DEF Next, Monitor_task

\* A bound on the long jobs of Monitor.c:119 survives when its terms grow,
LEMMA BoundKept ==
  ASSUME NEW j \in Nat, NEW c \in Nat, NEW d \in Nat, NEW l \in Nat, NEW m \in Nat,
         NEW h \in Nat, c <= d, l <= m, j <= c + l + h
  PROVE  j <= d + m + h
  OBVIOUS

\* also one with a departure to spare (Monitor.c:82-89), when what it may lose of that
\* is made up for.
LEMMA BoundGrows ==
  ASSUME NEW j \in Nat, NEW c \in Nat, NEW d \in Nat, NEW l \in Nat, NEW m \in Nat,
         NEW h \in Nat, NEW q \in Nat, NEW w \in Nat,
         c <= d, m + q >= l + w, j + q <= c + l + h
  PROVE  j + w <= d + m + h
  OBVIOUS

\* Nothing is counted before the policy is known, and only a task taken for
\* SCHED_DEADLINE has its telegrams looked at further (Monitor.c:76).
LongBase ==
  /\ pc = "init" => longJobs = 0
  /\ InHand => mePolicy = "deadline"

\* Of the long jobs all but c are accounted for by the times the task has left
\* SCHED_DEADLINE and the telegram in hand.
LongWithin(c) == longJobs <= c + left + One(LongInHand)

\* Not inductive alone: while the monitor still takes a task for SCHED_DEADLINE
\* that is not, one departure has yet cost no telegram.
LongSpare(c) ==
  mePolicy = "deadline" /\ pc \notin {"policyAgain", "stuck"}
    => longJobs + One(policy # "deadline") <= c + left + One(LongInHand)

\* It is kept, since a telegram in hand has a policy to thank (Monitor.c:76-89).
LEMMA LongBaseStep ==
  ASSUME LongBase, [Next]_vars
  PROVE  LongBase'
<1>1. CASE UNCHANGED vars
  BY <1>1 DEF vars, monVars, LongBase, InHand
<1>2. CASE DeadlineJob \/ OtherJob \/ SetDeadline \/ LeaveDeadline \/ Exit
  BY <1>2 DEF DeadlineJob, OtherJob, SetDeadline, LeaveDeadline, Exit, monVars, LongBase, InHand
<1>3. CASE MonitorInit \/ PolicyAgain
  BY <1>3 DEF MonitorInit, PolicyAgain, LongBase, InHand
<1>4. CASE Receive
  BY <1>4 DEF Receive, LongBase, InHand
<1>5. CASE CheckPolicy
  BY <1>5 DEF CheckPolicy, LongBase, InHand
<1>6. CASE GetAttr /\ policy = "gone"
  BY <1>6 DEF GetAttr, LongBase, InHand
<1>7. CASE GetAttr /\ policy # "gone"
  <2>1. pc' \in {"read", "stuck"}
    BY <1>7 DEF GetAttr, Evaluate
  <2>2. QED
    BY <2>1 DEF LongBase, InHand
<1>8. QED
  BY <1>1, <1>2, <1>3, <1>4, <1>5, <1>6, <1>7 DEF Next, Monitor_task

\* One step keeps the account, if the evaluation of a long job of a SCHED_DEADLINE
\* task (Monitor.c:119) makes the c of before a greater d: a telegram is dropped, or
\* the thread gets stuck, only after a departure that has cost none yet.
LEMMA LongBoundStep ==
  ASSUME NEW c \in Nat, NEW d \in Nat, c <= d,
         TypeOK, TimesOK, LongBase, LongWithin(c), LongSpare(c), [Next]_vars,
         Evaluate /\ InHand /\ policy = "deadline" /\ metrics.lastRT > DEADLINE => c < d
  PROVE  /\ longJobs' <= d + left' + One(LongInHand')
         /\ mePolicy' = "deadline" /\ pc' \notin {"policyAgain", "stuck"}
              => longJobs' + One(policy' # "deadline") <= d + left' + One(LongInHand')
<1> DEFINE h == One(LongInHand)
           q == One(policy # "deadline")
           k == One(LongInHand')
           w == One(policy' # "deadline")
           Known == mePolicy = "deadline" /\ pc \notin {"policyAgain", "stuck"}
           KnownNext == mePolicy' = "deadline" /\ pc' \notin {"policyAgain", "stuck"}
<1>1. longJobs \in Nat /\ left \in Nat
  BY DEF TypeOK
<1>2. h \in {0, 1} /\ q \in {0, 1} /\ k \in {0, 1} /\ w \in {0, 1}
      /\ (policy = "deadline" <=> q = 0) /\ (policy' = "deadline" <=> w = 0)
      /\ (LongInHand <=> h = 1) /\ (LongInHand' <=> k = 1)
  BY DEF One
<1>3. longJobs <= c + left + h /\ (Known => longJobs + q <= c + left + h)
  BY DEF LongWithin, LongSpare
<1> HIDE DEF h, q, k, w
<1>4. SUFFICES longJobs' <= d + left' + k /\ (KnownNext => longJobs' + w <= d + left' + k)
  BY DEF k, w
<1>5. CASE UNCHANGED <<policy, left, longJobs, pc, mePolicy, metrics>>
  <2>1. (LongInHand' <=> LongInHand) /\ (KnownNext <=> Known) /\ (policy' = policy)
    BY <1>5 DEF LongInHand
  <2>2. k = h /\ w = q
    BY <1>2, <2>1
  <2>3. QED
    BY <1>1, <1>2, <1>3, <1>5, <2>1, <2>2
<1>6. CASE UNCHANGED vars \/ DeadlineJob \/ OtherJob
  BY <1>5, <1>6 DEF DeadlineJob, OtherJob, vars, taskVars, monVars
<1>7. CASE SetDeadline \/ LeaveDeadline \/ Exit
  <2>1. UNCHANGED <<longJobs, pc, mePolicy, metrics>>
    BY <1>7 DEF SetDeadline, LeaveDeadline, Exit, monVars
  <2>2. (LongInHand' <=> LongInHand) /\ (KnownNext <=> Known)
    BY <2>1 DEF LongInHand
  <2>3. k = h
    BY <1>2, <2>2
  <2>4. left' >= left /\ left' + q >= left + w
    <3>1. CASE SetDeadline
      <4>1. left' = left /\ w = 0
        BY <1>2, <3>1 DEF SetDeadline
      <4>2. QED
        BY <1>1, <1>2, <4>1
    <3>2. CASE LeaveDeadline
      <4>1. left' = left + 1
        BY <3>2 DEF LeaveDeadline
      <4>2. QED
        BY <1>1, <1>2, <4>1
    <3>3. CASE Exit /\ policy = "deadline"
      <4>1. left' = left + 1
        BY <3>3 DEF Exit, One
      <4>2. QED
        BY <1>1, <1>2, <4>1
    <3>4. CASE Exit /\ policy # "deadline"
      <4>1. left' = left + 0
        BY <3>4 DEF Exit, One
      <4>2. q = 1
        BY <1>2, <3>4
      <4>3. QED
        BY <1>1, <1>2, <4>1, <4>2
    <3>5. QED
      BY <1>7, <3>1, <3>2, <3>3, <3>4
  <2>5. left' \in Nat
    <3>1. left' \in {left, left + 1}
      BY <1>1, <1>7 DEF SetDeadline, LeaveDeadline, Exit, One
    <3>2. QED
      BY <1>1, <3>1
  <2>6. h \in Nat /\ q \in Nat /\ w \in Nat
    BY <1>2
  <2>7. longJobs <= d + left' + h
    <3>1. longJobs <= c + left + h
      BY <1>3
    <3>2. left' >= left
      BY <2>4
    <3>3. QED
      BY <1>1, <2>5, <2>6, <3>1, <3>2, BoundKept
  <2>8. ASSUME KnownNext PROVE longJobs + w <= d + left' + h
    <3>1. longJobs + q <= c + left + h
      BY <1>3, <2>2, <2>8
    <3>2. QED
      BY <1>1, <2>4, <2>5, <2>6, <3>1, BoundGrows
  <2>9. QED
    BY <2>1, <2>3, <2>7, <2>8
<1>8. CASE MonitorInit
  <2>1. longJobs' = 0 /\ left' = left /\ pc' = "read" /\ mePolicy' = policy /\ policy' = policy
    BY <1>8 DEF MonitorInit, LongBase, taskVars
  <2>2. KnownNext => w = 0
    BY <1>2, <2>1
  <2>3. QED
    BY <1>1, <1>2, <2>1, <2>2
<1>9. CASE Receive
  <2>1. /\ UNCHANGED <<policy, left, mePolicy>> /\ pc = "read"
        /\ longJobs' = longJobs + One(mePolicy = "deadline" /\ metrics'.lastRT > DEADLINE)
        /\ pc' = IF mePolicy = "deadline" THEN "checkPolicy" ELSE "read"
    BY <1>9 DEF Receive, taskVars
  <2>2. h = 0 /\ w = q /\ (KnownNext => Known)
    BY <1>2, <2>1 DEF LongInHand
  <2>3. LongInHand' <=> mePolicy = "deadline" /\ metrics'.lastRT > DEADLINE
    BY <2>1 DEF LongInHand
  <2>4. longJobs' = longJobs + k
    BY <1>2, <2>1, <2>3 DEF One
  <2>5. QED
    BY <1>1, <1>2, <1>3, <2>1, <2>2, <2>4
<1>10. CASE CheckPolicy
  <2>1. UNCHANGED <<policy, left, mePolicy, longJobs, metrics>> /\ pc = "checkPolicy"
        /\ pc' = IF policy = "deadline" THEN "getAttr" ELSE "policyAgain"
    BY <1>10 DEF CheckPolicy, taskVars
  <2>2. CASE policy = "deadline"
    <3>1. (LongInHand' <=> LongInHand) /\ (KnownNext => Known) /\ pc' = "getAttr"
      BY <2>1, <2>2 DEF LongInHand
    <3>2. k = h /\ w = q
      BY <1>2, <2>1, <3>1
    <3>3. QED
      BY <1>1, <1>2, <1>3, <2>1, <3>1, <3>2
  <2>3. CASE policy # "deadline"
    <3>1. q = 1 /\ k = 0 /\ ~KnownNext
      BY <1>2, <2>1, <2>3 DEF LongInHand
    <3>2. Known
      BY <2>1 DEF LongBase, InHand
    <3>3. QED
      BY <1>1, <1>2, <1>3, <2>1, <3>1, <3>2
  <2>4. QED
    BY <2>2, <2>3
<1>11. CASE PolicyAgain
  <2>1. /\ UNCHANGED <<policy, left, longJobs>> /\ pc = "policyAgain" /\ pc' = "read"
        /\ mePolicy' = policy
    BY <1>11 DEF PolicyAgain, taskVars
  <2>2. h = 0 /\ (KnownNext => w = 0)
    BY <1>2, <2>1 DEF LongInHand
  <2>3. QED
    BY <1>1, <1>2, <1>3, <2>1, <2>2
<1>12. CASE GetAttr /\ policy = "gone"
  <2>1. UNCHANGED <<policy, left, mePolicy, longJobs>> /\ pc = "getAttr" /\ pc' = "policyAgain"
    BY <1>12 DEF GetAttr, taskVars
  <2>2. q = 1 /\ ~KnownNext /\ Known
    BY <1>2, <1>12, <2>1 DEF LongBase, InHand
  <2>3. QED
    BY <1>1, <1>2, <1>3, <2>1, <2>2
<1>13. CASE GetAttr /\ policy # "gone"
  <2>1. /\ UNCHANGED <<policy, left, mePolicy, longJobs>> /\ pc = "getAttr"
        /\ Evaluate /\ pc' \in {"read", "stuck"}
    BY <1>13 DEF GetAttr, Evaluate, taskVars
  <2>2. Known /\ w = q /\ k = 0
    BY <1>2, <2>1 DEF LongBase, InHand, LongInHand
  <2>3. LongInHand => metrics.lastRT > DEADLINE
    BY DEF LongInHand
  <2>4. CASE policy = "deadline"
    <3>1. h = 1 => c < d
      BY <1>2, <2>1, <2>3, <2>4 DEF InHand
    <3>2. QED
      BY <1>1, <1>2, <1>3, <2>1, <2>2, <3>1
  <2>5. CASE policy # "deadline"
    <3>1. pc' = "stuck"
      BY <2>1, <2>5, EvaluateFacts DEF InHand
    <3>2. q = 1 /\ ~KnownNext
      BY <1>2, <2>5, <3>1
    <3>3. QED
      BY <1>1, <1>2, <1>3, <2>1, <2>2, <3>2
  <2>6. QED
    BY <2>4, <2>5
<1>14. QED
  BY <1>6, <1>7, <1>8, <1>9, <1>10, <1>11, <1>12, <1>13 DEF Next, Monitor_task

\* The estimate a job is judged by is never after its start, so a job longer than
\* the deadline is late (Monitor.c:104-107, 119).
LEMMA LongJobIsLate ==
  ASSUME TypeOK, TimesOK, InHand, metrics.lastRT > DEADLINE
  PROVE  Late
<1>1. Attr.deadline \in Nat /\ Attr.deadline <= DEADLINE /\ DEADLINE \in Nat
  BY AttrFacts, MonitorAssumption DEF AttrType
<1>2. /\ Estimate \in Nat /\ Estimate <= telegram.t1 /\ telegram.t1 \in Nat
      /\ telegram.t2 \in Nat /\ metrics.lastRT = telegram.t2 - telegram.t1
  BY ReadyTimeFacts DEF TypeOK, Telegram, TimesOK
<1>3. QED
  BY <1>1, <1>2 DEF Late

\* Whatever the corrections and lost telegrams have made of the estimate, a job
\* longer than the deadline that is read while the monitor takes its task for a
\* SCHED_DEADLINE one is reported (Monitor.c:119), but for one at most for each time
\* the task has left SCHED_DEADLINE or has ended (Monitor.c:82-89).
THEOREM MonitorLongJobsReported == Spec => []LongJobsReported
<1> DEFINE Inv == /\ LongBase
                  /\ LongWithin(metrics.deadlineLostCount)
                  /\ LongSpare(metrics.deadlineLostCount)
<1>1. Init => Inv
  <2> SUFFICES ASSUME Init PROVE Inv
    OBVIOUS
  <2>1. longJobs = 0 /\ left = 0 /\ pc = "init" /\ mePolicy = "other"
        /\ metrics.deadlineLostCount = 0
    BY DEF Init, MetricsInit
  <2>2. One(LongInHand) \in {0, 1}
    BY DEF One
  <2>3. QED
    BY <2>1, <2>2 DEF LongBase, LongWithin, LongSpare, InHand
<1>2. ASSUME TypeOK, TimesOK, Inv, [Next]_vars
      PROVE  Inv'
  <2> DEFINE c == metrics.deadlineLostCount
             d == metrics'.deadlineLostCount
  <2>1. c \in Nat
    BY <1>2 DEF TypeOK
  <2>2. d \in Nat /\ c <= d
        /\ (Evaluate /\ InHand /\ policy = "deadline" /\ metrics.lastRT > DEADLINE => c < d)
    <3>1. CASE d = c /\ ~(Evaluate /\ InHand)
      BY <2>1, <3>1
    <3>2. CASE Evaluate /\ InHand
      <4>1. d = c + One(Late)
        BY <1>2, <3>2, EvaluateFacts
      <4>2. metrics.lastRT > DEADLINE => One(Late) = 1
        BY <1>2, <3>2, LongJobIsLate DEF One
      <4>3. One(Late) \in {0, 1}
        BY DEF One
      <4>4. QED
        BY <2>1, <4>1, <4>2, <4>3
    <3>3. QED
      BY <1>2, <3>1, <3>2, OnlyEvaluateJudges
  <2> HIDE DEF c, d
  <2>3. LongWithin(c) /\ LongSpare(c) /\ LongBase
    BY <1>2 DEF c
  <2>4. /\ longJobs' <= d + left' + One(LongInHand')
        /\ mePolicy' = "deadline" /\ pc' \notin {"policyAgain", "stuck"}
              => longJobs' + One(policy' # "deadline") <= d + left' + One(LongInHand')
    BY <1>2, <2>1, <2>2, <2>3, LongBoundStep
  <2>5. LongBase'
    BY <1>2, <2>3, LongBaseStep
  <2>6. QED
    BY <2>4, <2>5 DEF LongWithin, LongSpare, d
<1>3. Inv => LongJobsReported
  BY DEF LongWithin, LongJobsReported
<1>4. QED
  BY <1>1, <1>2, <1>3, MonitorInitType, MonitorStepType, PTL DEF Spec

\* Until the first telegram is evaluated there is no estimate; from then on it is
\* never again 0, which the code takes for none (Monitor.c:99).
EstimateInv ==
  /\ firstReady = 0 =>
       /\ metrics.lastCyclicTaskReadyTime = 0
       /\ metrics.cycleCount = 0 /\ metrics.totalAltoAdjust = 0
  /\ firstReady # 0 => metrics.lastCyclicTaskReadyTime >= 1
  /\ EstimateAccounted

\* The evaluation of one telegram keeps the account (Monitor.c:99-163).
LEMMA EvaluateKeepsAccount ==
  ASSUME TypeOK, TimesOK, EstimateInv, InHand, Evaluate
  PROVE  EstimateInv'
<1> DEFINE r == metrics.lastCyclicTaskReadyTime
           c == metrics.cycleCount
           adj == metrics.totalAltoAdjust
<1>1. r \in Nat /\ c \in Nat /\ adj \in Int /\ firstReady \in Nat /\ PERIOD \in Nat
  BY MonitorAssumption DEF TypeOK
<1>2. /\ telegram.t1 \in Nat /\ telegram.t1 >= 1 /\ metrics.lastStartRunTime = telegram.t1
      /\ Estimate \in Nat \ {0} /\ Estimate <= telegram.t1 /\ TakenBack \in Nat
  BY ReadyTimeFacts DEF TypeOK, Telegram, TimesOK
<1>3. firstReady' = IF firstReady = 0 THEN telegram.t1 ELSE firstReady
  BY <1>2 DEF Evaluate
<1>4. /\ firstReady' \in Nat \ {0}
      /\ PERIOD * c \in Nat
      /\ Estimate = firstReady' + (PERIOD * c) + (adj - TakenBack)
  <2>1. CASE firstReady = 0
    <3>1. r = 0 /\ c = 0 /\ adj = 0
      BY <2>1 DEF EstimateInv
    <3>2. Estimate = telegram.t1 /\ TakenBack = 0 /\ PERIOD * c = 0
      BY <1>1, <3>1 DEF Estimate, TakenBack
    <3>3. QED
      BY <1>2, <1>3, <2>1, <3>1, <3>2
  <2>2. CASE firstReady # 0
    <3>1. r >= 1 /\ r = firstReady + (PERIOD * c) + adj
      BY <2>2 DEF EstimateInv, EstimateAccounted
    <3>2. TakenBack = r - Estimate
      BY <1>1, <3>1 DEF TakenBack
    <3>3. PERIOD * c \in Nat
      BY <1>1
    <3>4. QED
      BY <1>1, <1>2, <1>3, <2>2, <3>1, <3>2, <3>3
  <2>3. QED
    BY <2>1, <2>2
<1>5. CASE policy # "deadline"
  <2>1. /\ metrics'.lastCyclicTaskReadyTime = Estimate
        /\ metrics'.totalAltoAdjust = adj - TakenBack
        /\ metrics'.cycleCount = c
    BY <1>5, EvaluateFacts
  <2>2. QED
    BY <1>2, <1>4, <2>1 DEF EstimateInv, EstimateAccounted
<1>6. CASE policy = "deadline"
  <2>1. PICK n \in Nat \ {0} :
          /\ metrics'.lastCyclicTaskReadyTime = Estimate + (PERIOD * n) + Moved
          /\ metrics'.totalAltoAdjust = adj - TakenBack + Moved
          /\ metrics'.cycleCount = c + n
    BY <1>6, EvaluateFacts
  <2>2. PERIOD * (c + n) = (PERIOD * c) + (PERIOD * n) /\ PERIOD * n \in Nat
    BY <1>1
  <2>3. Moved \in Nat
    BY <1>2 DEF Moved
  <2>4. metrics'.lastCyclicTaskReadyTime
          = firstReady' + (PERIOD * (c + n)) + (adj - TakenBack + Moved)
    BY <1>1, <1>2, <1>4, <2>1, <2>2, <2>3
  <2>5. metrics'.lastCyclicTaskReadyTime >= 1
    BY <1>2, <2>1, <2>2, <2>3
  <2>6. QED
    BY <1>4, <2>1, <2>4, <2>5 DEF EstimateInv, EstimateAccounted
<1>7. QED
  BY <1>5, <1>6

\* cycleCount and totalAltoAdjust (Monitor.c:99-107, :143, :161) account for
\* where the estimate is, whatever the task and its telegrams do.
THEOREM MonitorEstimateAccounted == Spec => []EstimateAccounted
<1>1. Init => EstimateInv
  BY DEF Init, MetricsInit, EstimateInv, EstimateAccounted
<1>2. ASSUME TypeOK, TimesOK, EstimateInv, [Next]_vars
      PROVE  EstimateInv'
  <2>1. CASE /\ UNCHANGED monHist
             /\ \A f \in {"lastCyclicTaskReadyTime", "totalAltoAdjust", "cycleCount"} :
                  metrics'[f] = metrics[f]
    BY <1>2, <2>1 DEF monHist, EstimateInv, EstimateAccounted
  <2>2. CASE Evaluate /\ InHand
    BY <1>2, <2>2, EvaluateKeepsAccount
  <2>3. QED
    BY <1>2, <2>1, <2>2, OnlyEvaluateJudges
<1>3. Spec => [](TypeOK /\ TimesOK /\ EstimateInv)
  BY <1>1, <1>2, MonitorInitType, MonitorStepType, PTL DEF Spec
<1>4. EstimateInv => EstimateAccounted
  BY DEF EstimateInv
<1>5. QED
  BY <1>3, <1>4, PTL

----------------------------------------------------------------------------
(* A task that keeps its policy. *)

\* It is not SCHED_DEADLINE: no telegram is evaluated.
OtherMode ==
  /\ policy \in {"other", "gone"} /\ mePolicy \in {"other", "gone"}
  /\ pc \in {"init", "read"}
  /\ inARow = 0 /\ metrics.deadlineLostCount = 0

\* It is SCHED_DEADLINE: the monitor takes it for that from Monitor_init until it
\* finds that the task has gone.
DeadlineMode ==
  /\ policy \in {"deadline", "gone"}
  /\ pc # "stuck"
  /\ pc = "init" => mePolicy = "other"
  /\ pc # "init" => mePolicy \in {"deadline", "gone"}
  /\ mePolicy = "gone" => policy = "gone"
  /\ InHand => mePolicy = "deadline"
  /\ pc = "policyAgain" => policy = "gone"

\* A step of the monitor that reads and judges no telegram, or the end of the task.
Quiet ==
  /\ UNCHANGED <<release, onTime, prompt, lostCount, channel, telegram, metrics, monHist>>
  /\ mePolicy' # "gone" => mePolicy # "gone" /\ (InHand' <=> InHand)

\* A task that is not SCHED_DEADLINE is never judged (Monitor.c:77).
LEMMA OtherModeStays ==
  ASSUME TypeOK, TimesOK, OtherMode, [Next]_vars, changes = 0, changes' = 0
  PROVE  OtherMode'
<1>1. CASE UNCHANGED vars
  BY <1>1 DEF vars, taskVars, monVars, monHist, OtherMode
<1>2. CASE DeadlineJob \/ OtherJob \/ Exit
  BY <1>2 DEF DeadlineJob, OtherJob, Exit, monVars, monHist, OtherMode
<1>3. CASE SetDeadline \/ LeaveDeadline
  BY <1>3 DEF SetDeadline, LeaveDeadline
<1>4. CASE MonitorInit
  BY <1>4 DEF MonitorInit, taskVars, monHist, OtherMode
<1>5. CASE Receive
  <2>1. metrics'.deadlineLostCount = metrics.deadlineLostCount
    BY <1>5, ReceiveFacts
  <2>2. QED
    BY <1>5, <2>1 DEF Receive, taskVars, monHist, OtherMode
<1>6. CASE CheckPolicy \/ PolicyAgain \/ GetAttr
  BY <1>6 DEF CheckPolicy, PolicyAgain, GetAttr, OtherMode
<1>7. QED
  BY <1>1, <1>2, <1>3, <1>4, <1>5, <1>6 DEF Next, Monitor_task

\* What can happen to a SCHED_DEADLINE task that keeps its policy: a job, a
\* telegram read, a telegram judged, or nothing that matters (Monitor.c:30-96).
LEMMA DeadlineModeSteps ==
  ASSUME TypeOK, TimesOK, DeadlineMode, [Next]_vars, changes = 0, changes' = 0
  PROVE  /\ DeadlineMode'
         /\ \/ DeadlineJob
            \/ Quiet
            \/ Receive
            \/ Evaluate /\ pc = "getAttr" /\ pc' = "read" /\ policy = "deadline"
<1>1. CASE UNCHANGED vars
  BY <1>1 DEF vars, taskVars, monVars, monHist, DeadlineMode, InHand, Quiet
<1>2. CASE DeadlineJob
  BY <1>2 DEF DeadlineJob, monVars, DeadlineMode, InHand
<1>3. CASE Exit
  BY <1>3 DEF Exit, monVars, monHist, DeadlineMode, InHand, Quiet
<1>4. CASE OtherJob \/ SetDeadline \/ LeaveDeadline
  BY <1>4 DEF OtherJob, SetDeadline, LeaveDeadline, DeadlineMode
<1>5. CASE MonitorInit
  BY <1>5 DEF MonitorInit, taskVars, monHist, DeadlineMode, InHand, Quiet
<1>6. CASE Receive
  BY <1>6 DEF Receive, taskVars, DeadlineMode, InHand
<1>7. CASE CheckPolicy
  BY <1>7 DEF CheckPolicy, taskVars, monHist, DeadlineMode, InHand, Quiet
<1>8. CASE PolicyAgain
  BY <1>8 DEF PolicyAgain, taskVars, monHist, DeadlineMode, InHand, Quiet
<1>9. CASE GetAttr /\ policy = "gone"
  BY <1>9 DEF GetAttr, taskVars, monHist, DeadlineMode, InHand, Quiet
<1>10. CASE GetAttr /\ policy # "gone"
  <2>1. Evaluate /\ InHand /\ pc = "getAttr" /\ policy = "deadline"
    BY <1>10 DEF GetAttr, InHand, DeadlineMode
  <2>2. pc' = "read" /\ UNCHANGED <<taskVars, channel, mePolicy, telegram>>
    BY <2>1, EvaluateFacts
  <2>3. DeadlineMode'
    BY <2>1, <2>2 DEF DeadlineMode, InHand, taskVars
  <2>4. QED
    BY <2>1, <2>2, <2>3
<1>11. QED
  BY <1>1, <1>2, <1>3, <1>4, <1>5, <1>6, <1>7, <1>8, <1>9, <1>10 DEF Next, Monitor_task

\* The first state is in one of the two modes.
LEMMA ModeInit == Init => OtherMode \/ DeadlineMode
  BY DEF Init, MetricsInit, OtherMode, DeadlineMode, InHand

\* Histories only turn for the worse.
LEMMA HistoryMonotone ==
  ASSUME TypeOK, [Next]_vars
  PROVE  /\ changes' = 0 => changes = 0
         /\ lostCount' = 0 => lostCount = 0
         /\ prompt' => prompt
         /\ onTime' => onTime
<1>1. changes \in Nat /\ lostCount \in Nat
  BY MonitorAssumption DEF TypeOK
<1>2. CASE UNCHANGED vars
  BY <1>2 DEF vars, taskVars
<1>3. CASE DeadlineJob \/ OtherJob
  <2>1. changes' = changes /\ (prompt' => prompt) /\ (onTime' => onTime)
    <3>1. CASE DeadlineJob
      <4>1. changes' = changes
        BY <3>1 DEF DeadlineJob
      <4>2. \E l \in 0 .. MaxLatency, w \in 1 .. MaxWork, d \in 0 .. MaxDrift :
              /\ onTime' = (onTime /\ release + l + w <= release + DEADLINE /\ d = 0)
              /\ prompt' = (prompt /\ w <= RUNTIME
                              /\ release + l + w + MaxDrift <= release + DEADLINE)
        BY <3>1 DEF DeadlineJob
      <4>3. (prompt' => prompt) /\ (onTime' => onTime)
        BY <4>2, Zenon
      <4>4. QED
        BY <4>1, <4>3
    <3>2. CASE OtherJob
      BY <3>2 DEF OtherJob
    <3>3. QED
      BY <1>3, <3>1, <3>2
  <2>2. lostCount' = lostCount \/ lostCount' = lostCount + 1
    BY <1>3 DEF DeadlineJob, OtherJob, Send
  <2>3. QED
    BY <1>1, <2>1, <2>2
<1>4. CASE SetDeadline \/ LeaveDeadline \/ Exit
  BY <1>1, <1>4 DEF SetDeadline, LeaveDeadline, Exit
<1>5. CASE Monitor_task
  BY <1>5 DEF Monitor_task, MonitorInit, Receive, CheckPolicy, PolicyAgain, GetAttr,
              Evaluate, taskVars
<1>6. QED
  BY <1>2, <1>3, <1>4, <1>5 DEF Next

\* The thread stops reading only for a task whose policy was changed: the endless
\* loop of Monitor.c:140 needs a period of 0, which a task that keeps its policy
\* never gives it, whatever it does otherwise and also when it ends.
THEOREM MonitorStuckOnlyAfterChange == Spec => [](pc = "stuck" => changes > 0)
<1> DEFINE ModeInv == changes = 0 => OtherMode \/ DeadlineMode
<1>1. Init => ModeInv
  BY ModeInit
<1>2. ASSUME TypeOK, TimesOK, ModeInv, [Next]_vars
      PROVE  ModeInv'
  <2>1. SUFFICES ASSUME changes' = 0 PROVE OtherMode' \/ DeadlineMode'
    OBVIOUS
  <2>2. changes = 0
    BY <1>2, <2>1, HistoryMonotone
  <2>3. QED
    BY <1>2, <2>1, <2>2, OtherModeStays, DeadlineModeSteps
<1>3. TypeOK /\ ModeInv => (pc = "stuck" => changes > 0)
  BY DEF TypeOK, OtherMode, DeadlineMode
<1> HIDE DEF ModeInv
<1>4. Spec => [](TypeOK /\ TimesOK)
  BY MonitorInitType, MonitorStepType, PTL DEF Spec
<1>5. QED
  BY <1>1, <1>2, <1>3, <1>4, PTL DEF Spec

----------------------------------------------------------------------------
(* No false report twice in a row. *)

\* The last telegram sent.
LastStart == IF Len(channel) = 0 THEN telegram.t1 ELSE channel[Len(channel)].t1

\* The telegrams of prompt jobs, none lost: each job keeps to RUNTIME and ends
\* less than a period and a deadline after the start of the one before.
PromptTelegrams ==
  /\ telegram.t2 - telegram.t1 <= RUNTIME
  /\ release <= LastStart + PERIOD + MaxDrift
  /\ Len(channel) > 0 => channel[1].t2 <= telegram.t1 + PERIOD + DEADLINE
  /\ \A i \in 1 .. Len(channel) : channel[i].t2 - channel[i].t1 <= RUNTIME
  /\ \A i \in 1 .. Len(channel) - 1 :
       channel[i + 1].t2 <= channel[i].t1 + PERIOD + DEADLINE

\* After a false report the estimate is a period past the start of the job it was
\* about, which the end of the next job is within a deadline of.
Corrected ==
  /\ inARow <= 1
  /\ inARow = 1 /\ mePolicy # "gone" =>
       IF InHand THEN telegram.t2 <= metrics.lastCyclicTaskReadyTime + DEADLINE
                 ELSE metrics.lastCyclicTaskReadyTime >= telegram.t1 + PERIOD

\* A prompt job ends before the next boundary, and at most DEADLINE after a
\* release that is at most MaxDrift late (userTest.c:90-124).
LEMMA JobIsPrompt ==
  ASSUME TypeOK, TimesOK, PromptTelegrams, DeadlineJob, prompt', lostCount = 0, lostCount' = 0
  PROVE  PromptTelegrams'
<1>1. PICK l \in 0 .. MaxLatency, w \in 1 .. MaxWork, d \in 0 .. MaxDrift :
        /\ release + l + w <= MaxTime
        /\ Send(release + l, release + l + w)
        /\ release' = NextRelease(release, release + l + w) + d
        /\ w <= RUNTIME /\ release + l + w + MaxDrift <= release + DEADLINE
  BY DEF DeadlineJob
<1> DEFINE s == release + l
           e == release + l + w
           n == Len(channel)
<1>2. /\ RUNTIME \in Nat /\ DEADLINE \in Nat /\ PERIOD \in Nat /\ MaxDrift \in Nat
      /\ DEADLINE <= PERIOD /\ MaxLatency \in Nat /\ MaxWork \in Nat
  BY MonitorAssumption
<1>3. release \in Nat /\ l \in Nat /\ w \in Nat /\ d \in Nat /\ d <= MaxDrift /\ w >= 1
  BY <1>2 DEF TypeOK
<1>4. s \in Nat /\ e \in Nat /\ release <= s /\ s < e /\ e - s <= RUNTIME
      /\ e + MaxDrift <= release + DEADLINE
  BY <1>1, <1>2, <1>3
<1>5. NextRelease(release, e) = release + PERIOD
  BY <1>2, <1>3, <1>4, NextReleaseBounds
<1>6. release' <= s + PERIOD + MaxDrift
  BY <1>1, <1>2, <1>3, <1>4, <1>5
<1>7. policy = "deadline" /\ telegram' = telegram
  BY DEF DeadlineJob, monVars
<1> HIDE DEF s, e
<1>8. /\ Len(channel') = n + 1 /\ n \in Nat
      /\ \A i \in 1 .. n : channel'[i] = channel[i]
      /\ channel'[n + 1] = [t1 |-> s, t2 |-> e, under |-> policy]
  <2>1. s < e /\ e <= MaxTime /\ Send(s, e)
    BY <1>1, <1>4 DEF s, e
  <2>2. \/ /\ lostCount' = lostCount /\ Len(channel') = Len(channel) + 1
           /\ \A i \in 1 .. Len(channel) : channel'[i] = channel[i]
           /\ channel'[Len(channel) + 1] = [t1 |-> s, t2 |-> e, under |-> policy]
        \/ lostCount' = lostCount + 1
    BY <1>4, <1>7, <2>1, SendFacts
  <2>3. n \in Nat
    BY DEF TypeOK
  <2>4. QED
    BY <2>2, <2>3
<1>9. channel'[n + 1].t1 = s /\ channel'[n + 1].t2 = e
  BY <1>8
<1>10. LastStart \in Nat /\ release <= LastStart + PERIOD + MaxDrift
  <2>1. telegram.t1 \in Nat /\ \A i \in 1 .. n : channel[i].t1 \in Nat
    <3>1. telegram \in Telegram /\ channel \in Seq(Telegram)
      BY DEF TypeOK
    <3>2. \A x \in Telegram : x.t1 \in Nat
      BY MonitorAssumption DEF Telegram
    <3>3. \A i \in 1 .. n : channel[i] \in Telegram
      BY <3>1
    <3>4. QED
      BY <3>1, <3>2, <3>3
  <2>2. n = 0 \/ n \in 1 .. n
    BY <1>8
  <2>3. LastStart \in Nat
    BY <2>1, <2>2 DEF LastStart
  <2>4. QED
    BY <2>3 DEF PromptTelegrams
<1>11. e <= LastStart + PERIOD + DEADLINE
  BY <1>2, <1>3, <1>4, <1>10
<1>12. LastStart' = s
  BY <1>8, <1>9 DEF LastStart
<1>13. release' <= LastStart' + PERIOD + MaxDrift
  BY <1>6, <1>12
<1>14. channel'[1].t2 <= telegram'.t1 + PERIOD + DEADLINE
  <2>1. CASE n = 0
    BY <1>7, <1>9, <1>11, <2>1 DEF LastStart
  <2>2. CASE n # 0
    BY <1>7, <1>8, <2>2 DEF PromptTelegrams
  <2>3. QED
    BY <2>1, <2>2
<1>15. ASSUME NEW i \in 1 .. Len(channel')
       PROVE  channel'[i].t2 - channel'[i].t1 <= RUNTIME
  <2>1. CASE i = n + 1
    BY <1>4, <1>9, <2>1
  <2>2. CASE i # n + 1
    <3>1. i \in 1 .. n /\ channel'[i] = channel[i]
      BY <1>8, <2>2
    <3>2. QED
      BY <3>1 DEF PromptTelegrams
  <2>3. QED
    BY <2>1, <2>2
<1>16. ASSUME NEW i \in 1 .. Len(channel') - 1
       PROVE  channel'[i + 1].t2 <= channel'[i].t1 + PERIOD + DEADLINE
  <2>1. CASE i = n
    BY <1>8, <1>9, <1>11, <2>1 DEF LastStart
  <2>2. CASE i # n
    <3>1. i \in 1 .. Len(channel) - 1 /\ i \in 1 .. n /\ i + 1 \in 1 .. n
      BY <1>8, <2>2
    <3>2. QED
      BY <1>8, <3>1 DEF PromptTelegrams
  <2>3. QED
    BY <2>1, <2>2
<1>17. QED
  BY <1>7, <1>13, <1>14, <1>15, <1>16 DEF PromptTelegrams

\* The telegram read is the next in the chain (Monitor.c:40-78).
LEMMA ReceiveIsPrompt ==
  ASSUME TypeOK, TimesOK, PromptTelegrams, Receive
  PROVE  /\ PromptTelegrams'
         /\ telegram'.t2 <= telegram.t1 + PERIOD + DEADLINE
<1>1. /\ telegram' = channel[1] /\ Len(channel) \in Nat \ {0}
      /\ Len(channel') = Len(channel) - 1
      /\ \A i \in 1 .. Len(channel') : channel'[i] = channel[i + 1]
  BY ReceiveFacts
<1>2. release' = release
  BY DEF Receive, taskVars
<1>3. LastStart' = LastStart
  <2>1. CASE Len(channel) = 1
    BY <1>1, <2>1 DEF LastStart
  <2>2. CASE Len(channel) # 1
    <3>1. Len(channel') \in 1 .. Len(channel') /\ Len(channel') + 1 = Len(channel)
      BY <1>1, <2>2
    <3>2. QED
      BY <1>1, <3>1 DEF LastStart
  <2>3. QED
    BY <2>1, <2>2
<1>4. telegram'.t2 - telegram'.t1 <= RUNTIME
      /\ telegram'.t2 <= telegram.t1 + PERIOD + DEADLINE
  BY <1>1 DEF PromptTelegrams
<1>5. Len(channel') > 0 => channel'[1].t2 <= telegram'.t1 + PERIOD + DEADLINE
  <2>1. SUFFICES ASSUME Len(channel') > 0
                 PROVE  channel'[1].t2 <= telegram'.t1 + PERIOD + DEADLINE
    OBVIOUS
  <2>2. 1 \in 1 .. Len(channel') /\ 1 \in 1 .. Len(channel) - 1
    BY <1>1, <2>1
  <2>3. channel'[1] = channel[2] /\ channel[1 + 1] = channel[2]
    BY <1>1, <2>2
  <2>4. channel[1 + 1].t2 <= channel[1].t1 + PERIOD + DEADLINE
    BY <2>2 DEF PromptTelegrams
  <2>5. QED
    BY <1>1, <2>3, <2>4
<1>6. ASSUME NEW i \in 1 .. Len(channel')
      PROVE  channel'[i].t2 - channel'[i].t1 <= RUNTIME
  <2>1. i + 1 \in 1 .. Len(channel)
    BY <1>1
  <2>2. QED
    BY <1>1, <2>1 DEF PromptTelegrams
<1>7. ASSUME NEW i \in 1 .. Len(channel') - 1
      PROVE  channel'[i + 1].t2 <= channel'[i].t1 + PERIOD + DEADLINE
  <2>1. /\ i + 1 \in 1 .. Len(channel) - 1
        /\ channel'[i] = channel[i + 1] /\ channel'[i + 1] = channel[i + 1 + 1]
    BY <1>1
  <2>2. channel[i + 1 + 1].t2 <= channel[i + 1].t1 + PERIOD + DEADLINE
    BY <2>1 DEF PromptTelegrams
  <2>3. QED
    BY <2>1, <2>2
<1>8. QED
  BY <1>2, <1>3, <1>4, <1>5, <1>6, <1>7 DEF PromptTelegrams

\* The correction puts the estimate right (Monitor.c:154-162).
LEMMA EvaluateCorrects ==
  ASSUME TypeOK, TimesOK, InHand, Evaluate, policy = "deadline", mePolicy # "gone",
         pc' = "read", telegram.t2 - telegram.t1 <= RUNTIME, Corrected
  PROVE  Corrected'
<1> DEFINE r == metrics.lastCyclicTaskReadyTime
<1>1. /\ r \in Nat /\ telegram.t1 \in Nat /\ telegram.t2 \in Nat /\ inARow \in Nat
      /\ RUNTIME \in Nat /\ DEADLINE \in Nat /\ PERIOD \in Nat /\ RUNTIME <= DEADLINE
      /\ Attr.runtime = RUNTIME /\ Attr.deadline = DEADLINE
  BY MonitorAssumption, AttrFacts DEF TypeOK, Telegram
<1>2. /\ inARow' = IF Late THEN inARow + 1 ELSE 0
      /\ telegram' = telegram
  BY EvaluateFacts
<1>3. ~Overran
  BY <1>1 DEF Overran
<1>4. CASE ~Late
  BY <1>2, <1>4 DEF Corrected
<1>5. CASE Late
  <2>1. Estimate = r
    BY <1>1, <1>5 DEF Late, Estimate
  <2>2. inARow = 0
    BY <1>1, <1>5, <2>1 DEF Late, Corrected
  <2>3. PICK n \in Nat \ {0} :
          metrics'.lastCyclicTaskReadyTime = Estimate + (PERIOD * n) + Moved
    BY EvaluateFacts
  <2>4. Moved = telegram.t1 - Estimate
    BY <1>3, <1>5 DEF Moved
  <2>5. PERIOD * n >= PERIOD /\ PERIOD * n \in Nat
    <3>1. PICK k \in Nat : n = k + 1
      BY <2>3
    <3>2. PERIOD * (k + 1) = (PERIOD * k) + PERIOD /\ PERIOD * k \in Nat
      BY <1>1
    <3>3. QED
      BY <1>1, <3>1, <3>2
  <2>6. metrics'.lastCyclicTaskReadyTime >= telegram'.t1 + PERIOD
    BY <1>1, <1>2, <2>1, <2>3, <2>4, <2>5
  <2>7. ~InHand'
    BY DEF InHand
  <2>8. QED
    BY <1>2, <1>5, <2>2, <2>6, <2>7 DEF Corrected
<1>6. QED
  BY <1>4, <1>5

\* What holds while every job has been prompt and no telegram is lost.
PromptInv ==
  prompt /\ changes = 0 /\ lostCount = 0 =>
    OtherMode \/ (DeadlineMode /\ PromptTelegrams /\ Corrected)

\* It is inductive: the telegrams keep their distances, the correction its effect.
LEMMA PromptStep == TypeOK /\ TimesOK /\ PromptInv /\ [Next]_vars => PromptInv'
<1> SUFFICES ASSUME TypeOK, TimesOK, PromptInv, [Next]_vars,
                    prompt', changes' = 0, lostCount' = 0
             PROVE  OtherMode' \/ (DeadlineMode' /\ PromptTelegrams' /\ Corrected')
  BY DEF PromptInv
<1>1. prompt /\ changes = 0 /\ lostCount = 0
  BY HistoryMonotone
<1>2. CASE OtherMode
  BY <1>1, <1>2, OtherModeStays
<1>3. CASE DeadlineMode /\ PromptTelegrams /\ Corrected
  <2>1. DeadlineMode'
    BY <1>1, <1>3, DeadlineModeSteps
  <2>2. CASE DeadlineJob
    <3>1. Corrected'
      BY <1>3, <2>2 DEF DeadlineJob, monVars, monHist, Corrected, InHand
    <3>2. QED
      BY <1>1, <1>3, <2>1, <2>2, <3>1, JobIsPrompt
  <2>3. CASE Quiet
    BY <1>3, <2>1, <2>3 DEF Quiet, monHist, PromptTelegrams, LastStart, Corrected
  <2>4. CASE Receive
    <3>1. PromptTelegrams' /\ telegram'.t2 <= telegram.t1 + PERIOD + DEADLINE
      BY <1>3, <2>4, ReceiveIsPrompt
    <3>2. /\ metrics'.lastCyclicTaskReadyTime = metrics.lastCyclicTaskReadyTime
          /\ telegram'.t2 \in Nat /\ telegram.t1 \in Nat
          /\ metrics.lastCyclicTaskReadyTime \in Nat /\ PERIOD \in Nat /\ DEADLINE \in Nat
      BY <2>4, ReceiveFacts, MonitorAssumption DEF TypeOK, Telegram
    <3>3. /\ inARow' = inARow /\ mePolicy' = mePolicy /\ pc = "read"
          /\ (mePolicy # "gone" => pc' = "checkPolicy")
      BY <1>3, <2>4 DEF Receive, monHist, DeadlineMode
    <3>4. Corrected'
      BY <1>3, <3>1, <3>2, <3>3 DEF Corrected, InHand
    <3>5. QED
      BY <2>1, <3>1, <3>4
  <2>5. CASE Evaluate /\ pc = "getAttr" /\ pc' = "read" /\ policy = "deadline"
    <3>1. InHand /\ mePolicy # "gone"
      BY <1>3, <2>5 DEF InHand, DeadlineMode
    <3>2. UNCHANGED <<taskVars, channel, telegram>>
      BY <2>5 DEF Evaluate
    <3>3. PromptTelegrams'
      BY <1>3, <3>2 DEF PromptTelegrams, LastStart, taskVars
    <3>4. Corrected'
      BY <1>3, <2>5, <3>1, EvaluateCorrects DEF PromptTelegrams
    <3>5. QED
      BY <2>1, <3>3, <3>4
  <2>6. QED
    BY <1>1, <1>3, <2>2, <2>3, <2>4, <2>5, DeadlineModeSteps
<1>4. QED
  BY <1>1, <1>2, <1>3 DEF PromptInv

\* However late each release is, within a bound, the correction of
\* Monitor.c:154-162 ends the false reports: of a prompt task there are never two
\* in a row.
THEOREM MonitorNoLossesForever == Spec => []NoLossesForever
<1>1. Init => PromptInv
  <2>1. SUFFICES ASSUME Init, DeadlineMode PROVE PromptTelegrams /\ Corrected
    BY ModeInit DEF PromptInv
  <2>2. Len(channel) = 0 /\ LastStart = 0 /\ telegram.t1 = 0 /\ telegram.t2 = 0
    BY <2>1 DEF Init, LastStart
  <2>3. QED
    BY <2>1, <2>2, MonitorAssumption DEF Init, PromptTelegrams, Corrected
<1>2. Spec => [](TypeOK /\ TimesOK /\ PromptInv)
  BY <1>1, PromptStep, MonitorInitType, MonitorStepType, PTL DEF Spec
<1>3. PromptInv => NoLossesForever
  BY DEF PromptInv, OtherMode, Corrected, NoLossesForever
<1>4. QED
  BY <1>2, <1>3, PTL

----------------------------------------------------------------------------
(* The blame for lost telegrams. *)

\* The number of the job that was released last before time t > 0, when releases
\* are on the boundaries; no job for t = 0.
JobOf(t) == IF t = 0 THEN -1 ELSE (t - 1) \div PERIOD

\* The boundary a job was released on.
Boundary(j) == 1 + (PERIOD * j)

\* The number of jobs so far, and of the job the telegram in hand, or else the
\* last one evaluated, is about.
Jobs    == JobOf(release)
Handled == JobOf(telegram.t1)

\* The telegrams of jobs that end by their deadlines: they come in the order of
\* their jobs, and no more of them are on their way than there were jobs.
OnTimeTelegrams ==
  /\ Jobs \in Nat /\ release = Boundary(Jobs)
  /\ InHand => telegram.t2 <= Boundary(Handled) + DEADLINE
  /\ Handled <= Jobs - 1 - Len(channel)
  /\ Len(channel) > 0 => Handled < JobOf(channel[1].t1)
  /\ \A i \in 1 .. Len(channel) :
       /\ channel[i].t2 <= Boundary(JobOf(channel[i].t1)) + DEADLINE
       /\ JobOf(channel[i].t1) <= Jobs - 1 - (Len(channel) - i)
  /\ \A i \in 1 .. Len(channel) - 1 : JobOf(channel[i].t1) < JobOf(channel[i + 1].t1)

\* How many telegrams of jobs before the one handled are lost.
LostBefore == lostCount - (Jobs - 1 - Handled - Len(channel))

\* The boundary the estimate should have reached.
Due == Boundary(IF InHand THEN Handled ELSE Handled + 1)

\* The estimate is where it should be, or it is behind, and then one of the lost
\* telegrams or overruns has not yet cost a false report.
Blamed ==
  LET r == metrics.lastCyclicTaskReadyTime
      reported == metrics.deadlineLostCount
      mayBe == metrics.runtimeOverrunCount + LostBefore
  IN
    /\ LostBefore >= 0
    /\ reported <= mayBe
    /\ LostBefore = 0 => reported = 0
    /\ r = 0 => reported = 0
    /\ r # 0 /\ mePolicy # "gone" =>
         /\ r >= Due \/ reported + 1 <= mayBe
         /\ LostBefore = 0 => r >= Due

\* A whole period is one job further.
LEMMA JobOfBoundary ==
  ASSUME NEW k \in Nat, NEW l \in Nat, l < PERIOD
  PROVE  JobOf(Boundary(k) + l) = k
<1> DEFINE a == (PERIOD * k) + l
           q == a \div PERIOD
<1>1. PERIOD \in Nat \ {0}
  BY MonitorAssumption
<1>2. PERIOD * k \in Nat
  BY <1>1
<1>3. a \in Nat
  BY <1>2
<1>4. q \in Nat /\ PERIOD * q <= a /\ a < (PERIOD * q) + PERIOD
  BY <1>1, <1>3, DivBounds
<1> HIDE DEF q
<1>5. ~(q > k)
  <2>1. SUFFICES ASSUME q > k PROVE FALSE
    OBVIOUS
  <2>2. PICK z \in Nat : q = k + 1 + z
    <3>1. q - (k + 1) \in Nat /\ q = k + 1 + (q - (k + 1))
      BY <1>4, <2>1
    <3>2. QED
      BY <3>1
  <2>3. PERIOD * q = (PERIOD * k) + PERIOD + (PERIOD * z) /\ PERIOD * z \in Nat
    BY <1>1, <2>2
  <2>4. QED
    BY <1>1, <1>2, <1>4, <2>3
<1>6. ~(q < k)
  <2>1. SUFFICES ASSUME q < k PROVE FALSE
    OBVIOUS
  <2>2. PICK z \in Nat : k = q + 1 + z
    <3>1. k - (q + 1) \in Nat /\ k = q + 1 + (k - (q + 1))
      BY <1>4, <2>1
    <3>2. QED
      BY <3>1
  <2>3. PERIOD * k = (PERIOD * q) + PERIOD + (PERIOD * z) /\ PERIOD * z \in Nat
        /\ PERIOD * q \in Nat
    BY <1>1, <1>4, <2>2
  <2>4. QED
    BY <1>1, <1>4, <2>3
<1>7. q = k
  BY <1>4, <1>5, <1>6
<1>8. Boundary(k) + l # 0 /\ (Boundary(k) + l) - 1 = a
  BY <1>2 DEF Boundary
<1>9. QED
  BY <1>7, <1>8 DEF JobOf, q

\* The boundary before a time, and the one after that.
LEMMA BoundaryFacts ==
  /\ \A t \in Nat : JobOf(t) \in Int
  /\ \A t \in Nat \ {0} :
       JobOf(t) \in Nat /\ Boundary(JobOf(t)) \in Nat \ {0} /\ Boundary(JobOf(t)) <= t
  /\ \A j \in Int : Boundary(j) \in Int /\ Boundary(j + 1) = Boundary(j) + PERIOD
<1>1. PERIOD \in Nat \ {0}
  BY MonitorAssumption
<1>2. ASSUME NEW t \in Nat \ {0}
      PROVE  JobOf(t) \in Nat /\ Boundary(JobOf(t)) \in Nat \ {0} /\ Boundary(JobOf(t)) <= t
  <2> DEFINE q == (t - 1) \div PERIOD
  <2>1. t - 1 \in Nat
    OBVIOUS
  <2>2. q \in Nat /\ PERIOD * q <= t - 1
    BY <1>1, <2>1, DivBounds
  <2>3. JobOf(t) = q
    BY DEF JobOf
  <2> HIDE DEF q
  <2>4. PERIOD * q \in Nat
    BY <1>1, <2>2
  <2>5. QED
    BY <2>2, <2>3, <2>4 DEF Boundary
<1>3. ASSUME NEW j \in Int
      PROVE  Boundary(j) \in Int /\ Boundary(j + 1) = Boundary(j) + PERIOD
  <2>1. PERIOD * (j + 1) = (PERIOD * j) + PERIOD /\ PERIOD * j \in Int
    BY <1>1
  <2>2. QED
    BY <1>1, <2>1 DEF Boundary
<1>4. ASSUME NEW t \in Nat PROVE JobOf(t) \in Int
  <2>1. CASE t = 0
    BY <2>1 DEF JobOf
  <2>2. CASE t # 0
    BY <1>2, <2>2
  <2>3. QED
    BY <2>1, <2>2
<1>5. QED
  BY <1>2, <1>3, <1>4

\* The numbers of the jobs are numbers.
LEMMA LossTypes ==
  ASSUME TypeOK, TimesOK
  PROVE  /\ Jobs \in Nat /\ Handled \in Int /\ Len(channel) \in Nat /\ lostCount \in Nat
         /\ LostBefore \in Int
         /\ \A i \in 1 .. Len(channel) :
              JobOf(channel[i].t1) \in Nat /\ channel[i].t1 \in Nat /\ channel[i].t2 \in Nat
         /\ metrics.lastCyclicTaskReadyTime \in Nat
         /\ metrics.deadlineLostCount \in Nat /\ metrics.runtimeOverrunCount \in Nat
         /\ PERIOD \in Nat \ {0} /\ DEADLINE \in Nat /\ DEADLINE <= PERIOD /\ RUNTIME \in Nat
<1>1. \A x \in Telegram : x.t1 \in Nat /\ x.t2 \in Nat
  BY MonitorAssumption DEF Telegram
<1>2. release \in Nat \ {0} /\ telegram \in Telegram /\ channel \in Seq(Telegram)
      /\ lostCount \in Nat
  BY MonitorAssumption DEF TypeOK, TimesOK
<1>3. Jobs \in Nat
  BY <1>2, BoundaryFacts DEF Jobs
<1>4. Handled \in Int
  BY <1>1, <1>2, BoundaryFacts DEF Handled
<1>5. Len(channel) \in Nat
  BY <1>2
<1>6. ASSUME NEW i \in 1 .. Len(channel)
      PROVE  JobOf(channel[i].t1) \in Nat /\ channel[i].t1 \in Nat /\ channel[i].t2 \in Nat
  <2>1. channel[i] \in Telegram
    BY <1>2
  <2>2. channel[i].t1 \in Nat \ {0} /\ channel[i].t2 \in Nat
    BY <1>1, <2>1 DEF TimesOK
  <2>3. QED
    BY <2>2, BoundaryFacts
<1>7. LostBefore \in Int
  BY <1>2, <1>3, <1>4, <1>5 DEF LostBefore
<1>8. QED
  BY <1>2, <1>3, <1>4, <1>5, <1>6, <1>7, MonitorAssumption DEF TypeOK

\* A job on time is one more job, and its telegram is on its way or lost
\* (userTest.c:90-124, Gateway.c:43-56).
LEMMA JobIsOnTime ==
  ASSUME TypeOK, TimesOK, OnTimeTelegrams, DeadlineJob, onTime'
  PROVE  OnTimeTelegrams' /\ LostBefore' = LostBefore
<1>1. PICK l \in 0 .. MaxLatency, w \in 1 .. MaxWork, d \in 0 .. MaxDrift :
        /\ release + l + w <= MaxTime
        /\ Send(release + l, release + l + w)
        /\ release' = NextRelease(release, release + l + w) + d
        /\ release + l + w <= release + DEADLINE /\ d = 0
  BY DEF DeadlineJob
<1> DEFINE s == release + l
           e == release + l + w
           n == Len(channel)
           t == [t1 |-> s, t2 |-> e, under |-> policy]
<1>2. /\ Jobs \in Nat /\ Handled \in Int /\ n \in Nat /\ lostCount \in Nat
      /\ PERIOD \in Nat \ {0} /\ DEADLINE \in Nat /\ DEADLINE <= PERIOD
  BY LossTypes
<1>3. release \in Nat \ {0} /\ l \in Nat /\ w \in Nat \ {0} /\ release = Boundary(Jobs)
  <2>1. release \in Nat \ {0}
    BY DEF TypeOK, TimesOK
  <2>2. l \in Nat /\ w \in Nat \ {0}
    BY MonitorAssumption
  <2>3. QED
    BY <2>1, <2>2 DEF OnTimeTelegrams
<1>4. s \in Nat /\ e \in Nat /\ s < e /\ e <= release + DEADLINE /\ l < PERIOD
  BY <1>1, <1>2, <1>3
<1>5. JobOf(s) = Jobs
  BY <1>2, <1>3, <1>4, JobOfBoundary
<1>6. release' = release + PERIOD
  <2>1. e <= release + PERIOD
    BY <1>2, <1>3, <1>4
  <2>2. NextRelease(release, e) = release + PERIOD
    BY <1>3, <1>4, <2>1, NextReleaseBounds
  <2>3. release' = release + PERIOD + 0
    BY <1>1, <2>2
  <2>4. release + PERIOD + 0 = release + PERIOD
    BY <1>2, <1>3
  <2>5. QED
    BY <2>3, <2>4
<1>7. release' = Boundary(Jobs + 1) /\ Jobs' = Jobs + 1
  <2>1. Boundary(Jobs + 1) = Boundary(Jobs) + PERIOD /\ Boundary(Jobs + 1) \in Int
    <3>1. Jobs \in Int /\ Jobs + 1 \in Int
      BY <1>2
    <3>2. \A j \in Int : Boundary(j) \in Int /\ Boundary(j + 1) = Boundary(j) + PERIOD
      BY BoundaryFacts
    <3>3. QED
      BY <3>1, <3>2, Zenon
  <2>2. release' = Boundary(Jobs + 1) + 0
    BY <1>3, <1>6, <2>1
  <2>3. JobOf(Boundary(Jobs + 1) + 0) = Jobs + 1
    BY <1>2, JobOfBoundary
  <2>4. QED
    BY <2>1, <2>2, <2>3 DEF Jobs
<1>8. policy = "deadline" /\ telegram' = telegram /\ (InHand' <=> InHand) /\ Handled' = Handled
  BY DEF DeadlineJob, monVars, InHand, Handled
<1> HIDE DEF s, e
<1>9. \/ /\ lostCount' = lostCount /\ Len(channel') = n + 1
         /\ \A i \in 1 .. n : channel'[i] = channel[i]
         /\ channel'[n + 1] = t
      \/ lostCount' = lostCount + 1 /\ channel' = channel
  <2>1. e <= MaxTime /\ Send(s, e)
    BY <1>1 DEF s, e
  <2>2. policy \in {"other", "deadline"}
    BY <1>8
  <2>3. s \in Nat /\ e \in Nat /\ s < e
    BY <1>4
  <2>4. QED
    BY <2>1, <2>2, <2>3, SendFacts
<1>10. CASE lostCount' = lostCount + 1 /\ channel' = channel
  <2>1. ASSUME NEW i \in 1 .. n
        PROVE  /\ channel'[i].t2 <= Boundary(JobOf(channel'[i].t1)) + DEADLINE
               /\ JobOf(channel'[i].t1) <= Jobs' - 1 - (n - i)
    <3>1. JobOf(channel[i].t1) \in Nat
      BY LossTypes
    <3>2. /\ channel[i].t2 <= Boundary(JobOf(channel[i].t1)) + DEADLINE
          /\ JobOf(channel[i].t1) <= Jobs - 1 - (n - i)
      BY DEF OnTimeTelegrams
    <3>3. QED
      BY <1>2, <1>7, <1>10, <3>1, <3>2
  <2>2. OnTimeTelegrams'
    BY <1>2, <1>7, <1>8, <1>10, <2>1 DEF OnTimeTelegrams
  <2>3. LostBefore' = LostBefore
    BY <1>2, <1>7, <1>8, <1>10 DEF LostBefore
  <2>4. QED
    BY <2>2, <2>3
<1>11. CASE /\ lostCount' = lostCount /\ Len(channel') = n + 1
            /\ \A i \in 1 .. n : channel'[i] = channel[i]
            /\ channel'[n + 1] = t
  <2>1. channel'[n + 1].t1 = s /\ channel'[n + 1].t2 = e
    BY <1>11
  <2>2. ASSUME NEW i \in 1 .. n + 1
        PROVE  /\ channel'[i].t2 <= Boundary(JobOf(channel'[i].t1)) + DEADLINE
               /\ JobOf(channel'[i].t1) <= Jobs' - 1 - (n + 1 - i)
    <3>1. CASE i = n + 1
      <4>1. JobOf(channel'[i].t1) = Jobs /\ channel'[i].t2 = e
        BY <1>5, <2>1, <3>1
      <4>2. Jobs <= Jobs' - 1 - (n + 1 - i)
        BY <1>2, <1>7, <3>1
      <4>3. e <= Boundary(Jobs) + DEADLINE
        BY <1>3, <1>4
      <4>4. QED
        BY <4>1, <4>2, <4>3
    <3>2. CASE i # n + 1
      <4>1. i \in 1 .. n /\ channel'[i] = channel[i]
        BY <1>2, <1>11, <3>2
      <4>2. /\ channel[i].t2 <= Boundary(JobOf(channel[i].t1)) + DEADLINE
            /\ JobOf(channel[i].t1) <= Jobs - 1 - (n - i)
            /\ JobOf(channel[i].t1) \in Nat
        BY <4>1, LossTypes DEF OnTimeTelegrams
      <4>3. QED
        BY <1>2, <1>7, <4>1, <4>2
    <3>3. QED
      BY <3>1, <3>2
  <2>3. ASSUME NEW i \in 1 .. n
        PROVE  JobOf(channel'[i].t1) < JobOf(channel'[i + 1].t1)
    <3>1. CASE i = n
      <4>1. JobOf(channel[i].t1) <= Jobs - 1 - (n - i) /\ JobOf(channel[i].t1) \in Nat
        BY LossTypes DEF OnTimeTelegrams
      <4>2. QED
        BY <1>2, <1>5, <1>11, <2>1, <3>1, <4>1
    <3>2. CASE i # n
      <4>1. i \in 1 .. n - 1 /\ i + 1 \in 1 .. n
        BY <1>2, <3>2
      <4>2. QED
        BY <1>11, <4>1 DEF OnTimeTelegrams
    <3>3. QED
      BY <3>1, <3>2
  <2>4. Handled < JobOf(channel'[1].t1)
    <3>1. CASE n = 0
      BY <1>2, <1>5, <2>1, <3>1 DEF OnTimeTelegrams
    <3>2. CASE n # 0
      BY <1>2, <1>11, <3>2 DEF OnTimeTelegrams
    <3>3. QED
      BY <3>1, <3>2
  <2>5. Handled <= Jobs' - 1 - (n + 1)
    BY <1>2, <1>7 DEF OnTimeTelegrams
  <2>6. InHand' => telegram'.t2 <= Boundary(Handled') + DEADLINE
    BY <1>8 DEF OnTimeTelegrams
  <2>7. (n + 1) - 1 = n /\ Jobs' \in Nat
    BY <1>2, <1>7
  <2>8. OnTimeTelegrams'
    BY <1>7, <1>8, <1>11, <2>2, <2>3, <2>4, <2>5, <2>6, <2>7 DEF OnTimeTelegrams
  <2>9. LostBefore' = LostBefore
    BY <1>2, <1>7, <1>8, <1>11 DEF LostBefore
  <2>10. QED
    BY <2>8, <2>9
<1>12. QED
  BY <1>9, <1>10, <1>11

\* The telegram read is about a later job; those in between were lost, and only
\* they can have left the estimate behind (Monitor.c:40-78).
LEMMA ReceiveIsOnTime ==
  ASSUME TypeOK, TimesOK, DeadlineMode, OnTimeTelegrams, Blamed, Receive
  PROVE  OnTimeTelegrams' /\ Blamed'
<1> DEFINE n == Len(channel)
<1>1. /\ telegram' = channel[1] /\ n \in Nat \ {0} /\ Len(channel') = n - 1
      /\ \A i \in 1 .. Len(channel') : channel'[i] = channel[i + 1]
      /\ \A f \in {"lastCyclicTaskReadyTime", "deadlineLostCount", "runtimeOverrunCount"} :
           metrics'[f] = metrics[f]
  BY ReceiveFacts
<1>2. /\ release' = release /\ lostCount' = lostCount /\ mePolicy' = mePolicy
      /\ pc = "read" /\ ~InHand
      /\ pc' = IF mePolicy = "deadline" THEN "checkPolicy" ELSE "read"
  BY DEF Receive, taskVars, InHand
<1>3. /\ Jobs \in Nat /\ Handled \in Int /\ lostCount \in Nat
      /\ \A i \in 1 .. n : JobOf(channel[i].t1) \in Nat
  BY LossTypes
<1>4. /\ Jobs' = Jobs /\ Handled' = JobOf(channel[1].t1) /\ Handled' \in Nat
      /\ Handled' >= Handled + 1 /\ Handled' <= Jobs - 1 - (n - 1)
  <2>1. Jobs' = Jobs /\ Handled' = JobOf(channel[1].t1)
    BY <1>1, <1>2 DEF Jobs, Handled
  <2>2. 1 \in 1 .. n /\ n > 0
    BY <1>1
  <2>3. Handled < JobOf(channel[1].t1) /\ JobOf(channel[1].t1) <= Jobs - 1 - (n - 1)
    BY <2>2 DEF OnTimeTelegrams
  <2>4. JobOf(channel[1].t1) \in Nat
    BY <1>3, <2>2
  <2>5. QED
    BY <1>3, <2>1, <2>3, <2>4
<1>5. ASSUME NEW i \in 1 .. Len(channel')
      PROVE  /\ channel'[i].t2 <= Boundary(JobOf(channel'[i].t1)) + DEADLINE
             /\ JobOf(channel'[i].t1) <= Jobs' - 1 - (Len(channel') - i)
  <2>1. i + 1 \in 1 .. n /\ channel'[i] = channel[i + 1] /\ n - (i + 1) = Len(channel') - i
    BY <1>1
  <2>2. /\ channel[i + 1].t2 <= Boundary(JobOf(channel[i + 1].t1)) + DEADLINE
        /\ JobOf(channel[i + 1].t1) <= Jobs - 1 - (n - (i + 1))
    BY <2>1 DEF OnTimeTelegrams
  <2>3. QED
    BY <1>4, <2>1, <2>2
<1>6. ASSUME NEW i \in 1 .. Len(channel') - 1
      PROVE  JobOf(channel'[i].t1) < JobOf(channel'[i + 1].t1)
  <2>1. /\ i + 1 \in 1 .. n - 1
        /\ channel'[i] = channel[i + 1] /\ channel'[i + 1] = channel[i + 1 + 1]
    BY <1>1
  <2>2. JobOf(channel[i + 1].t1) < JobOf(channel[i + 1 + 1].t1)
    BY <2>1 DEF OnTimeTelegrams
  <2>3. QED
    BY <2>1, <2>2
<1>7. Len(channel') > 0 => Handled' < JobOf(channel'[1].t1)
  <2>1. SUFFICES ASSUME Len(channel') > 0 PROVE Handled' < JobOf(channel'[1].t1)
    OBVIOUS
  <2>2. 1 \in 1 .. n - 1 /\ 1 \in 1 .. Len(channel')
    BY <1>1, <2>1
  <2>3. JobOf(channel[1].t1) < JobOf(channel[1 + 1].t1) /\ channel'[1] = channel[1 + 1]
    BY <1>1, <2>2 DEF OnTimeTelegrams
  <2>4. QED
    BY <1>4, <2>3
<1>8. telegram'.t2 <= Boundary(Handled') + DEADLINE
  <2>1. 1 \in 1 .. n
    BY <1>1
  <2>2. QED
    BY <1>1, <1>4, <2>1 DEF OnTimeTelegrams
<1>9. OnTimeTelegrams'
  <2>1. release' = Boundary(Jobs') /\ Jobs' \in Nat
    BY <1>2, <1>3, <1>4 DEF OnTimeTelegrams
  <2>2. Handled' <= Jobs' - 1 - Len(channel')
    BY <1>1, <1>4
  <2>3. QED
    BY <1>5, <1>6, <1>7, <1>8, <2>1, <2>2 DEF OnTimeTelegrams
<1>10. LostBefore \in Int /\ LostBefore' = LostBefore + (Handled' - Handled - 1)
  BY <1>1, <1>2, <1>3, <1>4 DEF LostBefore
<1> DEFINE r == metrics.lastCyclicTaskReadyTime
           reported == metrics.deadlineLostCount
           mayBe == metrics.runtimeOverrunCount + LostBefore
<1>11. r \in Nat /\ reported \in Nat /\ metrics.runtimeOverrunCount \in Nat
  BY LossTypes
<1>12. /\ LostBefore >= 0 /\ reported <= mayBe
       /\ LostBefore = 0 => reported = 0
       /\ r = 0 => reported = 0
       /\ r # 0 /\ mePolicy # "gone" =>
            /\ r >= Due \/ reported + 1 <= mayBe
            /\ LostBefore = 0 => r >= Due
  BY DEF Blamed
<1>13. Due = Boundary(Handled + 1)
  BY <1>2 DEF Due
<1>14. mePolicy # "gone" => Due' = Boundary(Handled')
  <2>1. mePolicy # "gone" => mePolicy = "deadline"
    BY <1>2 DEF DeadlineMode
  <2>2. mePolicy # "gone" => InHand'
    BY <1>2, <2>1 DEF InHand
  <2>3. QED
    BY <2>2 DEF Due
<1>15. Handled' = Handled + 1 \/ LostBefore' >= LostBefore + 1
  <2> DEFINE gap == Handled' - Handled - 1
  <2>1. gap \in Nat /\ (gap = 0 => Handled' = Handled + 1)
    BY <1>3, <1>4
  <2>2. LostBefore \in Int /\ LostBefore' = LostBefore + gap
    BY <1>10
  <2> HIDE DEF gap
  <2>3. gap = 0 \/ gap >= 1
    BY <2>1
  <2>4. gap >= 1 => LostBefore' >= LostBefore + 1
    BY <2>1, <2>2
  <2>5. QED
    BY <2>1, <2>3, <2>4
<1> DEFINE mayBeNow == metrics.runtimeOverrunCount + LostBefore'
<1>16. LostBefore' >= LostBefore /\ LostBefore' \in Int
  BY <1>3, <1>4, <1>10
<1>17. LostBefore' >= 0 /\ reported <= mayBeNow /\ (LostBefore' = 0 => reported = 0)
  BY <1>10, <1>11, <1>12, <1>16
<1>18. ASSUME r # 0, mePolicy # "gone"
       PROVE  /\ r >= Due' \/ reported + 1 <= mayBeNow
              /\ LostBefore' = 0 => r >= Due'
  <2>1. CASE Handled' = Handled + 1
    <3>1. LostBefore' = LostBefore
      BY <1>3, <1>10, <2>1
    <3>2. Due' = Due
      BY <1>13, <1>14, <1>18, <2>1
    <3>3. QED
      BY <1>12, <1>18, <3>1, <3>2
  <2>2. CASE LostBefore' >= LostBefore + 1
    BY <1>10, <1>11, <1>12, <1>16, <2>2
  <2>3. QED
    BY <1>15, <2>1, <2>2
<1>19. Blamed'
  BY <1>1, <1>2, <1>12, <1>17, <1>18 DEF Blamed
<1>20. QED
  BY <1>9, <1>19

\* A job is blamed only if the estimate is behind; then the correction puts it
\* right, unless the job overran (Monitor.c:119, :159).
LEMMA EvaluateIsBlamed ==
  ASSUME TypeOK, TimesOK, OnTimeTelegrams, Blamed, InHand, Evaluate, policy = "deadline",
         mePolicy # "gone", pc' = "read"
  PROVE  OnTimeTelegrams' /\ Blamed'
<1> DEFINE r == metrics.lastCyclicTaskReadyTime
           reported == metrics.deadlineLostCount
           overruns == metrics.runtimeOverrunCount
           rNow == metrics'.lastCyclicTaskReadyTime
           b == Boundary(Handled)
<1>1. /\ Handled \in Int /\ LostBefore \in Int /\ r \in Nat /\ reported \in Nat
      /\ overruns \in Nat /\ PERIOD \in Nat \ {0} /\ DEADLINE \in Nat
  BY LossTypes
<1>2. /\ UNCHANGED <<taskVars, channel, mePolicy, telegram>>
      /\ metrics'.deadlineLostCount = reported + One(Late)
      /\ metrics'.runtimeOverrunCount = overruns + One(Overran)
  BY EvaluateFacts
<1>3. /\ Jobs' = Jobs /\ Handled' = Handled /\ LostBefore' = LostBefore /\ ~InHand'
      /\ release' = release /\ channel' = channel /\ telegram' = telegram
      /\ mePolicy' = mePolicy
  BY <1>2 DEF Jobs, Handled, LostBefore, InHand, taskVars
<1>4. OnTimeTelegrams'
  BY <1>3 DEF OnTimeTelegrams
<1>5. telegram.t1 \in Nat /\ telegram.t2 \in Nat /\ 1 <= telegram.t1
      /\ Estimate \in Nat \ {0} /\ Estimate <= telegram.t1
  BY ReadyTimeFacts DEF TypeOK, TimesOK, Telegram
<1>6. b \in Int /\ b <= telegram.t1 /\ telegram.t2 <= b + DEADLINE
      /\ Due' = b + PERIOD /\ Due = b
  <2>1. b \in Nat /\ b <= telegram.t1 /\ Boundary(Handled + 1) = b + PERIOD
    BY <1>1, <1>5, BoundaryFacts DEF Handled
  <2>2. Due = b /\ Due' = Boundary(Handled + 1)
    BY <1>3 DEF Due
  <2>3. QED
    BY <2>1, <2>2 DEF OnTimeTelegrams
<1> HIDE DEF b
<1>7. PICK n \in Nat \ {0} : rNow = Estimate + (PERIOD * n) + Moved
  BY EvaluateFacts
<1>8. PERIOD * n >= PERIOD /\ PERIOD * n \in Nat
  <2>1. n - 1 \in Nat /\ PERIOD * n = (PERIOD * (n - 1)) + PERIOD
    BY <1>1, <1>7
  <2>2. PERIOD * (n - 1) \in Nat
    BY <1>1, <2>1
  <2>3. QED
    BY <1>1, <2>1, <2>2
<1>9. Late <=> telegram.t2 - Estimate > DEADLINE
  BY AttrFacts DEF Late
<1>10. Moved \in Nat /\ (~Late => Moved = 0)
       /\ (Late /\ ~Overran => Moved = telegram.t1 - Estimate)
  BY <1>5 DEF Moved
<1>11. rNow \in Nat \ {0}
  BY <1>5, <1>7, <1>8, <1>10
<1>12. /\ LostBefore >= 0 /\ reported <= overruns + LostBefore
       /\ LostBefore = 0 => reported = 0
       /\ r = 0 => reported = 0
       /\ r # 0 => (r >= b \/ reported + 1 <= overruns + LostBefore)
                    /\ (LostBefore = 0 => r >= b)
  BY <1>6 DEF Blamed
<1>13. /\ reported + One(Late) <= overruns + One(Overran) + LostBefore
       /\ LostBefore = 0 => reported + One(Late) = 0
       /\ rNow >= Due'
            \/ reported + One(Late) + 1 <= overruns + One(Overran) + LostBefore
       /\ LostBefore = 0 => rNow >= Due'
  <2>1. CASE Estimate = telegram.t1
    <3>1. ~Late
      BY <1>1, <1>5, <1>6, <1>9, <2>1
    <3>2. rNow >= Due'
      BY <1>1, <1>5, <1>6, <1>7, <1>8, <1>10, <2>1
    <3>3. QED
      BY <1>1, <1>12, <3>1, <3>2 DEF One
  <2>2. CASE r # 0 /\ Estimate = r /\ ~Late
    <3>1. r >= b => rNow >= Due'
      BY <1>1, <1>6, <1>7, <1>8, <1>10, <2>2
    <3>2. QED
      BY <1>1, <1>12, <2>2, <3>1 DEF One
  <2>3. CASE r # 0 /\ Estimate = r /\ Late
    <3>1. r < b
      BY <1>1, <1>5, <1>6, <1>9, <2>3
    <3>2. reported + 1 <= overruns + LostBefore /\ LostBefore # 0
      BY <1>1, <1>6, <1>12, <2>3, <3>1
    <3>3. CASE Overran
      BY <1>1, <2>3, <3>2, <3>3 DEF One
    <3>4. CASE ~Overran
      <4>1. rNow >= Due'
        BY <1>1, <1>5, <1>6, <1>7, <1>8, <1>10, <2>3, <3>4
      <4>2. QED
        BY <1>1, <2>3, <3>2, <3>4, <4>1 DEF One
    <3>5. QED
      BY <3>3, <3>4
  <2>4. QED
    BY <2>1, <2>2, <2>3 DEF Estimate
<1>14. Blamed'
  BY <1>2, <1>3, <1>11, <1>12, <1>13 DEF Blamed
<1>15. QED
  BY <1>4, <1>14

\* What holds while every job has been on time.
LossInv ==
  onTime /\ changes = 0 =>
    OtherMode \/ (DeadlineMode /\ OnTimeTelegrams /\ Blamed)

\* It is inductive.
LEMMA LossStep == TypeOK /\ TimesOK /\ LossInv /\ [Next]_vars => LossInv'
<1> SUFFICES ASSUME TypeOK, TimesOK, LossInv, [Next]_vars, onTime', changes' = 0
             PROVE  OtherMode' \/ (DeadlineMode' /\ OnTimeTelegrams' /\ Blamed')
  BY DEF LossInv
<1>1. onTime /\ changes = 0
  BY HistoryMonotone
<1>2. CASE OtherMode
  BY <1>1, <1>2, OtherModeStays
<1>3. CASE DeadlineMode /\ OnTimeTelegrams /\ Blamed
  <2>1. DeadlineMode'
    BY <1>1, <1>3, DeadlineModeSteps
  <2>2. CASE DeadlineJob
    <3>1. OnTimeTelegrams' /\ LostBefore' = LostBefore
      BY <1>3, <2>2, JobIsOnTime
    <3>2. UNCHANGED monVars
      BY <2>2 DEF DeadlineJob
    <3>3. Due' = Due
      BY <3>2 DEF Due, InHand, Handled, monVars
    <3>4. Blamed'
      BY <1>3, <3>1, <3>2, <3>3 DEF Blamed, monVars
    <3>5. QED
      BY <2>1, <3>1, <3>4
  <2>3. CASE Quiet
    <3>1. Jobs' = Jobs /\ Handled' = Handled /\ LostBefore' = LostBefore
          /\ release' = release /\ channel' = channel /\ telegram' = telegram
          /\ metrics' = metrics
      BY <2>3 DEF Quiet, Jobs, Handled, LostBefore
    <3>2. mePolicy' # "gone" => mePolicy # "gone" /\ (InHand' <=> InHand) /\ Due' = Due
      BY <2>3, <3>1 DEF Quiet, Due
    <3>3. InHand' => InHand
      BY <2>1, <3>2 DEF DeadlineMode
    <3>4. OnTimeTelegrams'
      BY <1>3, <3>1, <3>3 DEF OnTimeTelegrams
    <3>5. Blamed'
      BY <1>3, <3>1, <3>2 DEF Blamed
    <3>6. QED
      BY <2>1, <3>4, <3>5
  <2>4. CASE Receive
    BY <1>3, <2>1, <2>4, ReceiveIsOnTime
  <2>5. CASE Evaluate /\ pc = "getAttr" /\ pc' = "read" /\ policy = "deadline"
    <3>1. InHand /\ mePolicy # "gone"
      BY <1>3, <2>5 DEF InHand, DeadlineMode
    <3>2. QED
      BY <1>3, <2>1, <2>5, <3>1, EvaluateIsBlamed
  <2>6. QED
    BY <1>1, <1>3, <2>2, <2>3, <2>4, <2>5, DeadlineModeSteps
<1>4. QED
  BY <1>1, <1>2, <1>3 DEF LossInv

\* A task whose jobs are on time is blamed (Monitor.c:119-126) at most once for
\* each telegram lost and each job that overran, and never before one is lost.
THEOREM MonitorLossCostsOne == Spec => []LossCostsOne
<1>1. Init => LossInv
  <2>1. SUFFICES ASSUME Init, DeadlineMode PROVE OnTimeTelegrams /\ Blamed
    BY ModeInit DEF LossInv
  <2>2. /\ Len(channel) = 0 /\ release = 1 /\ telegram.t1 = 0 /\ lostCount = 0
        /\ metrics.lastCyclicTaskReadyTime = 0 /\ metrics.deadlineLostCount = 0
        /\ metrics.runtimeOverrunCount = 0 /\ ~InHand
    BY <2>1 DEF Init, MetricsInit, InHand
  <2>3. PERIOD \in Nat \ {0}
    BY MonitorAssumption
  <2>4. Boundary(0) + 0 = 1 /\ JobOf(Boundary(0) + 0) = 0
    BY <2>3, JobOfBoundary DEF Boundary
  <2>5. Jobs = 0 /\ Handled = -1 /\ release = Boundary(Jobs)
    BY <2>2, <2>3, <2>4 DEF Jobs, Handled, JobOf, Boundary
  <2>6. OnTimeTelegrams
    BY <2>2, <2>5 DEF OnTimeTelegrams
  <2>7. Blamed
    BY <2>2, <2>5 DEF Blamed, LostBefore
  <2>8. QED
    BY <2>6, <2>7
<1>2. Spec => [](TypeOK /\ TimesOK /\ LossInv)
  BY <1>1, LossStep, MonitorInitType, MonitorStepType, PTL DEF Spec
<1>3. TypeOK /\ TimesOK /\ LossInv => LossCostsOne
  <2> SUFFICES ASSUME TypeOK, TimesOK, LossInv, onTime, changes = 0
               PROVE  /\ metrics.deadlineLostCount <= lostCount + metrics.runtimeOverrunCount
                      /\ lostCount = 0 => metrics.deadlineLostCount = 0
    BY DEF LossCostsOne
  <2>1. /\ Jobs \in Nat /\ Handled \in Int /\ Len(channel) \in Nat /\ lostCount \in Nat
        /\ LostBefore \in Int
        /\ metrics.deadlineLostCount \in Nat /\ metrics.runtimeOverrunCount \in Nat
    BY LossTypes
  <2>2. CASE OtherMode
    BY <2>1, <2>2 DEF OtherMode
  <2>3. CASE OnTimeTelegrams /\ Blamed
    <3>1. Handled <= Jobs - 1 - Len(channel)
      BY <2>3 DEF OnTimeTelegrams
    <3>2. LostBefore <= lostCount
      BY <2>1, <3>1 DEF LostBefore
    <3>3. /\ LostBefore >= 0
          /\ metrics.deadlineLostCount <= metrics.runtimeOverrunCount + LostBefore
          /\ LostBefore = 0 => metrics.deadlineLostCount = 0
      BY <2>3 DEF Blamed
    <3>4. QED
      BY <2>1, <3>2, <3>3
  <2>4. QED
    BY <2>2, <2>3 DEF LossInv
<1>4. QED
  BY <1>2, <1>3, PTL

----------------------------------------------------------------------------
(* The log of the exceptions. *)

\* A telegram evaluated is logged with the counts it leads to and is flagged if it
\* added to them (Monitor.c:145-148).
LEMMA EvaluateLogs ==
  ASSUME TypeOK, TimesOK, InHand, Evaluate, policy = "deadline", EnableLogging
  PROVE  /\ LogPoint(Late \/ Overran, LoggedData(metrics'))
         /\ LoggedData(metrics') \in Data
         /\ (Late \/ Overran) <=> LoggedData(metrics') # LoggedData(metrics)
<1>1. /\ Judged.lastCyclicTaskReadyTime = Estimate
      /\ Judged.deadlineLostCount = metrics.deadlineLostCount + One(Late)
      /\ Judged.runtimeOverrunCount = metrics.runtimeOverrunCount + One(Overran)
      /\ LostDeadline(Judged, Attr) <=> Late
      /\ Overrun(Judged, Attr) <=> Overran
  BY JudgedFacts
<1>2. LoopEnds(Judged, Attr)
  BY AttrFacts, MonitorAssumption DEF LoopEnds
<1>3. LogPoint(LostDeadline(Judged, Attr) \/ Overrun(Judged, Attr), LoggedData(Judged))
  BY <1>2 DEF Evaluate, Judged
<1>4. (LostDeadline(Judged, Attr) \/ Overrun(Judged, Attr)) = (Late \/ Overran)
  BY <1>1
<1>5. /\ metrics'.deadlineLostCount = metrics.deadlineLostCount + One(Late)
      /\ metrics'.runtimeOverrunCount = metrics.runtimeOverrunCount + One(Overran)
  BY EvaluateFacts
<1>6. LoggedData(Judged) = LoggedData(metrics')
  BY <1>1, <1>5 DEF LoggedData
<1>7. metrics.deadlineLostCount \in Nat /\ metrics.runtimeOverrunCount \in Nat
  BY DEF TypeOK
<1>8. One(Late) \in Nat /\ One(Overran) \in Nat /\ (Late <=> One(Late) # 0)
      /\ (Overran <=> One(Overran) # 0)
  BY DEF One
<1>9. LoggedData(metrics') \in Data
  BY <1>5, <1>7, <1>8 DEF LoggedData, Data
<1>10. (Late \/ Overran) <=> LoggedData(metrics') # LoggedData(metrics)
  <2>1. LoggedData(metrics') = LoggedData(metrics) <=>
          /\ metrics'.deadlineLostCount = metrics.deadlineLostCount
          /\ metrics'.runtimeOverrunCount = metrics.runtimeOverrunCount
    BY DEF LoggedData
  <2>2. QED
    BY <1>5, <1>7, <1>8, <2>1
<1>11. QED
  BY <1>3, <1>4, <1>6, <1>9, <1>10

\* Nothing else logs, and a thread that is stuck stays so.
LEMMA OnlyEvaluateLogs ==
  ASSUME [Next]_vars
  PROVE  \/ UNCHANGED logVars /\ (pc = "stuck" => pc' = "stuck")
         \/ Evaluate /\ InHand
<1>1. CASE UNCHANGED vars
  BY <1>1 DEF vars, monVars
<1>2. CASE DeadlineJob \/ OtherJob \/ SetDeadline \/ LeaveDeadline \/ Exit
  BY <1>2 DEF DeadlineJob, OtherJob, SetDeadline, LeaveDeadline, Exit, monVars
<1>3. CASE MonitorInit \/ Receive \/ CheckPolicy \/ PolicyAgain
  BY <1>3 DEF MonitorInit, Receive, CheckPolicy, PolicyAgain
<1>4. CASE GetAttr
  BY <1>4 DEF GetAttr, InHand
<1>5. QED
  BY <1>1, <1>2, <1>3, <1>4 DEF Next, Monitor_task

\* What holds of the log of one monitor.
AccountInv ==
  /\ LogTypeOK /\ FullNotPending /\ ExceptionsKept
  /\ openFailures = 0 => FlagsRight(file, NoData)
  /\ openFailures = 0 /\ EnableLogging /\ pc # "stuck" =>
       FlagsInv /\ CurrentData = LoggedData(metrics)

\* It is inductive: what is logged last are the counts that the monitor has now.
LEMMA AccountStep == TypeOK /\ TimesOK /\ AccountInv /\ [Next]_vars => AccountInv'
<1> SUFFICES ASSUME TypeOK, TimesOK, AccountInv, [Next]_vars PROVE AccountInv'
  OBVIOUS
<1>1. LogTypeOK /\ FullNotPending /\ ExceptionsKept
  BY DEF AccountInv
<1>2. ASSUME UNCHANGED logVars
      PROVE  /\ LogTypeOK' /\ FullNotPending' /\ ExceptionsKept'
             /\ CurrentData' = CurrentData /\ (FlagsInv => FlagsInv')
             /\ openFailures' = openFailures /\ file' = file
  <2>1. /\ list' = list /\ file' = file /\ added' = added /\ fileSince' = fileSince
        /\ exceptions' = exceptions /\ lost' = lost /\ openFailures' = openFailures
        /\ restarts' = restarts
    BY <1>2 DEF logVars
  <2>2. Contents(list)' = Contents(list) /\ InRing(list)' = InRing(list)
    BY <2>1 DEF Contents, Oldest, InRing
  <2>3. LogTypeOK' /\ FullNotPending'
    BY <1>1, <2>1 DEF LogTypeOK, FullNotPending
  <2>4. ExceptionsKept'
    BY <1>1, <2>1, <2>2 DEF ExceptionsKept, Kept
  <2>5. CurrentData' = CurrentData /\ (FlagsInv => FlagsInv')
    BY <2>1, <2>2 DEF CurrentData, FlagsInv
  <2>6. QED
    BY <2>1, <2>3, <2>4, <2>5
<1>3. CASE UNCHANGED logVars /\ (pc = "stuck" => pc' = "stuck") /\ ~(Evaluate /\ InHand)
  <2>1. LoggedData(metrics') = LoggedData(metrics)
    BY <1>3, OnlyEvaluateJudges DEF LoggedData
  <2>2. QED
    BY <1>2, <1>3, <2>1 DEF AccountInv
<1>4. CASE Evaluate /\ InHand /\ (policy # "deadline" \/ ~EnableLogging)
  <2>1. UNCHANGED logVars /\ (EnableLogging => pc' = "stuck")
    <3>1. CASE policy # "deadline"
      BY <1>4, <3>1, EvaluateFacts
    <3>2. CASE ~EnableLogging
      BY <1>4, <3>2 DEF Evaluate
    <3>3. QED
      BY <1>4, <3>1, <3>2
  <2>2. QED
    BY <1>2, <2>1 DEF AccountInv
<1>5. CASE Evaluate /\ InHand /\ policy = "deadline" /\ EnableLogging
  <2> DEFINE e == Late \/ Overran
             data == LoggedData(metrics')
  <2>1. /\ LogPoint(e, data) /\ data \in Data /\ e \in BOOLEAN
        /\ e <=> data # LoggedData(metrics)
    BY <1>5, EvaluateLogs
  <2> HIDE DEF e, data
  <2>2. LogTypeOK'
    BY <1>1, <2>1, LogPointType
  <2>3. FullNotPending' /\ ExceptionsKept'
    BY <1>1, <2>1, LogPointKeeps
  <2>4. ASSUME openFailures' = 0
        PROVE  FlagsInv' /\ CurrentData' = data
    <3>1. openFailures = 0
      <4>1. openFailures' = openFailures \/ openFailures' = openFailures + 1
        BY <1>1, <2>1, LogPointSlides
      <4>2. QED
        BY <1>1, <2>4, <4>1, LogAssumption DEF LogTypeOK
    <3>2. pc # "stuck"
      BY <1>5 DEF InHand
    <3>3. FlagsInv /\ CurrentData = LoggedData(metrics)
      BY <1>5, <3>1, <3>2 DEF AccountInv
    <3>4. QED
      BY <1>1, <2>1, <2>4, <3>3, LogPointAccounts
  <2>5. QED
    BY <2>2, <2>3, <2>4 DEF AccountInv, FlagsInv, data
<1>6. QED
  BY <1>2, <1>3, <1>4, <1>5, OnlyEvaluateLogs

\* What holds of the log holds from the first point to the last (Log.c:39-85).
LEMMA MonitorAccountInv == Spec => [](TypeOK /\ TimesOK /\ AccountInv)
<1>1. Init => AccountInv
  <2> SUFFICES ASSUME Init PROVE AccountInv
    OBVIOUS
  <2>1. LogInit /\ metrics = MetricsInit
    BY DEF Init
  <2>2. list = EmptyList /\ file = <<>> /\ Contents(list) = <<>> /\ exceptions = {}
        /\ list.exceptionHappend = FALSE /\ LogTypeOK
    BY <2>1, EmptyListType, LogInitType DEF LogInit, EmptyList
  <2>3. FullNotPending /\ ExceptionsKept
    BY <2>2 DEF FullNotPending, ExceptionsKept, Kept
  <2>4. FlagsRight(<<>>, NoData) /\ LastData(<<>>, NoData) = NoData /\ NoFlag(<<>>)
    BY DEF FlagsRight, LastData, NoFlag
  <2>5. FlagsInv /\ CurrentData = NoData
    BY <2>2, <2>4 DEF FlagsInv, CurrentData
  <2>6. LoggedData(metrics) = NoData
    BY <2>1 DEF LoggedData, MetricsInit, NoData
  <2>7. QED
    BY <2>2, <2>3, <2>4, <2>5, <2>6 DEF AccountInv
<1>2. QED
  BY <1>1, AccountStep, MonitorInitType, MonitorStepType, PTL DEF Spec

\* A telegram evaluated for a task that is not SCHED_DEADLINE, or without --log on,
\* logs nothing, and in the first case leaves the thread stuck (Monitor.c:140-148).
LEMMA EvaluateOrNoLog ==
  ASSUME TypeOK, TimesOK, InHand, Evaluate, policy # "deadline" \/ ~EnableLogging
  PROVE  UNCHANGED logVars /\ (EnableLogging => pc' = "stuck")
<1>1. CASE policy # "deadline"
  BY <1>1, EvaluateFacts
<1>2. CASE ~EnableLogging
  BY <1>2 DEF Evaluate
<1>3. QED
  BY <1>1, <1>2

\* From one line of the file to the next a count grew exactly if the line is
\* flagged (Monitor.c:145-148, Data.c:16-37), for every size of the ring, as
\* long as the file can be opened.
THEOREM MonitorLogAccounts == Spec => []LogAccountsForExceptions
<1>1. AccountInv => LogAccountsForExceptions
  BY DEF AccountInv, FlagsRight, LogAccountsForExceptions
<1>2. QED
  BY <1>1, MonitorAccountInv, PTL

\* Every invariant of the log holds in a monitored task's log as well, whatever
\* the counts its points carry: no exception is forgotten, and the file is made of
\* whole batches (Monitor.c:145-148, Log.c:39-85).
THEOREM MonitorKeepsLog == Spec => [](LogTypeOK /\ ExceptionsKept /\ FileIsBatches)
<1>1. Init => WindowInv /\ FileIsBatches
  BY LogBatchesInit DEF Init
<1>2. ASSUME TypeOK, TimesOK, AccountInv, WindowInv, FileIsBatches, [Next]_vars
      PROVE  WindowInv' /\ FileIsBatches'
  <2>1. CASE UNCHANGED logVars
    <3>1. list' = list /\ file' = file /\ added' = added /\ fileSince' = fileSince
      BY <2>1 DEF logVars
    <3>2. Contents(list)' = Contents(list)
      BY <3>1 DEF Contents, Oldest
    <3>3. QED
      BY <1>2, <3>1, <3>2 DEF WindowInv, FileIsBatches
  <2>2. CASE Evaluate /\ InHand /\ (policy # "deadline" \/ ~EnableLogging)
    BY <1>2, <2>1, <2>2, EvaluateOrNoLog
  <2>3. CASE Evaluate /\ InHand /\ policy = "deadline" /\ EnableLogging
    <3>1. LogTypeOK /\ FullNotPending
      BY <1>2 DEF AccountInv
    <3>2. /\ LogPoint(Late \/ Overran, LoggedData(metrics'))
          /\ LoggedData(metrics') \in Data /\ (Late \/ Overran) \in BOOLEAN
      BY <1>2, <2>3, EvaluateLogs
    <3>3. QED
      BY <1>2, <3>1, <3>2, LogPointBatches
  <2>4. QED
    BY <1>2, <2>1, <2>2, <2>3, OnlyEvaluateLogs
<1>3. Spec => [](TypeOK /\ TimesOK /\ AccountInv)
  BY MonitorAccountInv
<1>4. AccountInv => LogTypeOK /\ ExceptionsKept
  BY DEF AccountInv
<1>5. QED
  BY <1>1, <1>2, <1>3, <1>4, PTL DEF Spec

\* The log of a monitored task as module LogWindow promises it, for points with
\* any counts.
TheWindow == INSTANCE LogWindow WITH
  Points <- [n : 1 .. MaxPoints, isException : BOOLEAN, data : Data],
  window <- Contents(list), pending <- list.exceptionHappend

\* The monitor thread implements the window of the last points: what it does to
\* the log of its task is to keep a point or to write a batch (Monitor.c:145-148,
\* Log.c:39-85), for every size of the ring.
THEOREM MonitorKeepsWindow == Spec => TheWindow!Spec
<1>1. Init => TheWindow!Init
  BY EmptyListType DEF Init, LogInit, TheWindow!Init, EmptyList
<1>2. ASSUME TypeOK, TimesOK, AccountInv, [Next]_vars
      PROVE  [TheWindow!Next]_TheWindow!wvars
  <2>1. CASE UNCHANGED logVars
    BY <2>1 DEF logVars, TheWindow!wvars, Contents, Oldest
  <2>2. CASE Evaluate /\ InHand /\ (policy # "deadline" \/ ~EnableLogging)
    BY <1>2, <2>1, <2>2, EvaluateOrNoLog
  <2>3. CASE Evaluate /\ InHand /\ policy = "deadline" /\ EnableLogging
    <3> DEFINE data == LoggedData(metrics')
    <3>1. LogPoint(Late \/ Overran, data) /\ data \in Data /\ (Late \/ Overran) \in BOOLEAN
      BY <1>2, <2>3, EvaluateLogs
    <3> HIDE DEF data
    <3>2. LogTypeOK
      BY <1>2 DEF AccountInv
    <3>3. PICK d \in [n : 1 .. MaxPoints, isException : BOOLEAN, data : {data}] :
            Window!Keep(d) \/ Window!Write(d)
      BY <3>1, <3>2, LogPointWindow
    <3>4. d \in [n : 1 .. MaxPoints, isException : BOOLEAN, data : Data]
      BY <3>1, <3>3
    <3>5. TheWindow!Keep(d) \/ TheWindow!Write(d)
      BY <3>3 DEF Window!Keep, Window!Write, Window!Slide,
                  TheWindow!Keep, TheWindow!Write, TheWindow!Slide
    <3>6. QED
      BY <3>4, <3>5 DEF TheWindow!Next
  <2>4. QED
    BY <1>2, <2>1, <2>2, <2>3, OnlyEvaluateLogs
<1>3. QED
  BY <1>1, <1>2, MonitorAccountInv, PTL DEF Spec, TheWindow!Spec

----------------------------------------------------------------------------
(* The long jobs in the log. *)

\* The points of long jobs have numbers of their own, so they can be counted.
LongInv ==
  EnableLogging =>
    /\ exceptions \subseteq 1 .. added
    /\ LongWithin(Cardinality(exceptions)) /\ LongSpare(Cardinality(exceptions))

\* One step keeps the account: a long job of a SCHED_DEADLINE task that is evaluated
\* gets a flagged point (Monitor.c:119-148).
LEMMA LongStep ==
  ASSUME TypeOK, TimesOK, AccountInv, LongBase, LongInv, [Next]_vars
  PROVE  LongInv'
<1> DEFINE c == Cardinality(exceptions)
           d == Cardinality(exceptions')
<1>1. SUFFICES ASSUME EnableLogging
               PROVE  /\ exceptions' \subseteq 1 .. added'
                      /\ LongWithin(Cardinality(exceptions))' /\ LongSpare(Cardinality(exceptions))'
  BY DEF LongInv
<1>2. exceptions \subseteq 1 .. added /\ LongWithin(c) /\ LongSpare(c)
  BY <1>1 DEF LongInv
<1>3. added \in Nat
  BY LogAssumption DEF AccountInv, LogTypeOK
<1>4. IsFiniteSet(exceptions) /\ c \in Nat
  <2>1. IsFiniteSet(1 .. added)
    BY <1>3, FS_Interval
  <2>2. QED
    BY <1>2, <2>1, FS_Subset, FS_CardinalityType
<1>5. /\ exceptions' \subseteq 1 .. added' /\ d \in Nat /\ c <= d
      /\ Evaluate /\ InHand /\ policy = "deadline" /\ metrics.lastRT > DEADLINE => c < d
  <2>1. CASE UNCHANGED logVars /\ ~(Evaluate /\ InHand /\ policy = "deadline")
    <3>1. exceptions' = exceptions /\ added' = added
      BY <2>1 DEF logVars
    <3>2. QED
      BY <1>2, <1>4, <2>1, <3>1
  <2>2. CASE Evaluate /\ InHand /\ policy # "deadline"
    <3>1. UNCHANGED logVars
      BY <2>2, EvaluateFacts
    <3>2. QED
      BY <2>1, <2>2, <3>1
  <2>3. CASE Evaluate /\ InHand /\ policy = "deadline"
    <3> DEFINE e == Late \/ Overran
    <3>1. LogPoint(e, LoggedData(metrics'))
      BY <1>1, <2>3, EvaluateLogs
    <3>2. metrics.lastRT > DEADLINE => e
      BY <2>3, LongJobIsLate
    <3> HIDE DEF e
    <3>3. added' = added + 1
          /\ exceptions' = IF e THEN exceptions \cup {added + 1} ELSE exceptions
      BY <3>1 DEF LogPoint
    <3>4. CASE e
      <4>1. exceptions' = exceptions \cup {added + 1} /\ added + 1 \notin exceptions
        BY <1>2, <1>3, <3>3, <3>4
      <4>2. d = c + 1
        BY <1>4, <4>1, FS_AddElement
      <4>3. exceptions' \subseteq 1 .. added'
        BY <1>2, <1>3, <3>3, <4>1
      <4>4. QED
        BY <1>4, <4>2, <4>3
    <3>5. CASE ~e
      <4>1. exceptions' = exceptions /\ ~(metrics.lastRT > DEADLINE)
        BY <3>2, <3>3, <3>5
      <4>2. exceptions' \subseteq 1 .. added'
        BY <1>2, <1>3, <3>3, <4>1
      <4>3. QED
        BY <1>4, <4>1, <4>2
    <3>6. QED
      BY <3>4, <3>5
  <2>4. QED
    BY <2>1, <2>2, <2>3, OnlyEvaluateLogs
<1> HIDE DEF c, d
<1>6. /\ longJobs' <= d + left' + One(LongInHand')
      /\ mePolicy' = "deadline" /\ pc' \notin {"policyAgain", "stuck"}
            => longJobs' + One(policy' # "deadline") <= d + left' + One(LongInHand')
  BY <1>2, <1>4, <1>5, LongBoundStep
<1>7. QED
  BY <1>5, <1>6 DEF LongWithin, LongSpare, d

\* For every size of the ring, every timing of the jobs and every loss of telegrams:
\* a job longer than the deadline that is read while the monitor takes its task for a
\* SCHED_DEADLINE one comes to the log as an exception and is kept by it, but for one
\* at most for each time the task has left SCHED_DEADLINE or has ended
\* (Monitor.c:76-89, 119-148, Log.c:39-85).
THEOREM MonitorLongJobsLogged == Spec => []LongJobsLogged
<1>1. Init => LongBase /\ LongInv
  <2> SUFFICES ASSUME Init PROVE LongBase /\ LongInv
    OBVIOUS
  <2>1. /\ exceptions = {} /\ added = 0 /\ longJobs = 0 /\ left = 0
        /\ pc = "init" /\ mePolicy = "other"
    BY DEF Init, LogInit
  <2>2. Cardinality(exceptions) = 0
    BY <2>1, FS_EmptySet
  <2>3. One(LongInHand) \in {0, 1}
    BY DEF One
  <2>4. QED
    BY <2>1, <2>2, <2>3 DEF LongInv, LongBase, LongWithin, LongSpare, InHand
<1>2. TypeOK /\ TimesOK /\ AccountInv /\ LongBase /\ LongInv /\ [Next]_vars
        => LongBase' /\ LongInv'
  BY LongStep, LongBaseStep
<1>3. AccountInv /\ LongInv => LongJobsLogged
  <2> SUFFICES ASSUME AccountInv, LongInv, EnableLogging
               PROVE  longJobs <= Cardinality({e \in exceptions : Kept(e)}) + left
                                    + One(LongInHand)
    BY DEF LongJobsLogged
  <2>1. {e \in exceptions : Kept(e)} = exceptions
    BY DEF AccountInv, ExceptionsKept
  <2>2. QED
    BY <2>1 DEF LongInv, LongWithin
<1>4. QED
  BY <1>1, <1>2, <1>3, MonitorAccountInv, PTL DEF Spec

=============================================================================
