--------------------------- MODULE PipelineProofs ---------------------------
(***************************************************************************)
(* What holds of the whole way of a telegram for every size of the ring    *)
(* and of the FIFO: it uses the queue as module Queue specifies it, so     *)
(* that what is proved of the queue holds in it; the FIFO keeps its size;  *)
(* and a telegram has the start of its own job.                            *)
(***************************************************************************)
EXTENDS Pipeline, QueueProofs, SequenceTheorems

----------------------------------------------------------------------------
(* The pipeline and the queue. *)

\* A step of the pipeline (TaskTrace.c, Gateway.c) is a step of the queue, or
\* leaves the queue as it is: the library does nothing to the ring but through
\* Queue_add and Queue_getNext, each in the thread it is meant for.
LEMMA QueueStep == [PipelineNext]_allVars => [Next]_vars
<1> SUFFICES ASSUME [PipelineNext]_allVars PROVE [Next]_vars
  OBVIOUS
<1>1. CASE TaskCalls
  BY <1>1 DEF TaskCalls, EnableRecording, DisableRecording, ExecutionStart,
              ExecutionStop, ExecutionStopFails, Next
<1>2. CASE TaskQueues
  BY <1>2 DEF TaskQueues, Next
<1>3. CASE GatewayTask
  BY <1>3 DEF GatewayTask, GatewaySched, GatewayNext, GatewayWrite, Next
<1>4. CASE MonitorRead
  BY <1>4 DEF MonitorRead
<1>5. CASE UNCHANGED allVars
  BY <1>5 DEF allVars
<1>6. QED
  BY <1>1, <1>2, <1>3, <1>4, <1>5 DEF PipelineNext

\* The pipeline (TaskTrace.c, Gateway.c) implements the queue's specification.
THEOREM PipelineUsesQueue == PipelineSpec => Spec
<1>1. PipelineInit => Init
  BY DEF PipelineInit
<1>2. [PipelineNext]_allVars => [Next]_vars
  BY QueueStep
<1>3. QED
  BY <1>1, <1>2, PTL DEF PipelineSpec, Spec

\* So all that Queue_add and Queue_getNext keep, they keep under the library's
\* own calls: the range of count, the account of the tokens, no old telegram, and,
\* until an increment is lost, the order of the telegrams and no sleep over one.
THEOREM PipelineKeepsQueue ==
  PipelineSpec =>
    [](CountInRange /\ FailedGetStrandsOne /\ NeverStale /\ FifoUntilLow
         /\ SleepsOnlyWhenEmpty)
BY PipelineUsesQueue, QueueCountInRange, QueueFailedGetStrandsOne,
   QueueNeverStale, QueueFifoUntilLow, QueueSleepsOnlyWhenEmpty, PTL

----------------------------------------------------------------------------
(* Types. *)

\* Inside Queue_getNext only while the loop of gateway_task is (Gateway.c:72).
\* The step of one action from a typed state is typed.
LEMMA PipelineTypeStep ==
  ASSUME TypeOK, PipelineTypeOK, [PipelineNext]_allVars
  PROVE  PipelineTypeOK'
<1> USE FifoAssumption
<1>1. CASE TaskCalls
  <2>1. getter' = getter
    BY <1>1 DEF TaskCalls, EnableRecording, DisableRecording, ExecutionStart,
                ExecutionStop, ExecutionStopFails, AddCheck, AddFull, getVars, vars
  <2>2. UNCHANGED wayVars
    BY <1>1 DEF TaskCalls, EnableRecording, DisableRecording, ExecutionStart,
                ExecutionStop, ExecutionStopFails
  <2>3. /\ isRecording' \in BOOLEAN /\ inJob' \in BOOLEAN /\ switchedOn' \in BOOLEAN
        /\ startRet' \in {0, -1, -2}
    BY <1>1 DEF TaskCalls, EnableRecording, DisableRecording, ExecutionStart,
                ExecutionStop, ExecutionStopFails, PipelineTypeOK
  <2>4. QED
    BY <2>1, <2>2, <2>3 DEF PipelineTypeOK, wayVars
<1>2. CASE TaskQueues
  <2>1. getter' = getter
    BY <1>2 DEF TaskQueues, Queue_add, AddCopyLo, AddCopyHi, AddLoad, AddStore,
                AddPost, getVars
  <2>2. QED
    BY <1>2, <2>1 DEF TaskQueues, taskVars, wayVars, PipelineTypeOK
<1>3. CASE GatewaySched
  BY <1>3 DEF GatewaySched, PipelineTypeOK, taskVars, vars
<1>4. CASE GatewayNext
  <2>1. getter = "store" => getter' = "wait"
    BY <1>4 DEF GatewayNext, Queue_getNext, GetWait, GetEmpty, GetCheck,
                GetCopyLo, GetCopyHi, GetLoad, GetStore
  <2>2. gateway' \in {"next", "write"} /\ (gateway' # "next" => getter' = "wait")
    BY <1>4, <2>1 DEF GatewayNext
  <2>3. QED
    BY <1>4, <2>2 DEF GatewayNext, PipelineTypeOK, taskVars
<1>5. CASE GatewayWrite
  <2>1. fifo' \in Seq(Halves) /\ Len(fifo') <= FIFO_SIZE
    <3>1. CASE Len(fifo) < FIFO_SIZE
      <4>1. fifo' = Append(fifo, rx) /\ rx \in Halves /\ fifo \in Seq(Halves)
        BY <1>5, <3>1 DEF GatewayWrite, AfterUserWrite, TypeOK, PipelineTypeOK
      <4>2. QED
        BY <4>1, <3>1
    <3>2. CASE ~(Len(fifo) < FIFO_SIZE)
      BY <1>5, <3>2 DEF GatewayWrite, AfterUserWrite, PipelineTypeOK
    <3>3. QED
      BY <3>1, <3>2
  <2>2. QED
    BY <1>5, <2>1 DEF GatewayWrite, PipelineTypeOK, taskVars, vars
<1>6. CASE MonitorRead
  <2>1. fifo' \in Seq(Halves) /\ Len(fifo') <= FIFO_SIZE /\ got' \in Halves
    <3>1. fifo # <<>> /\ fifo \in Seq(Halves) /\ Len(fifo) <= FIFO_SIZE
      BY <1>6 DEF MonitorRead, PipelineTypeOK
    <3>2. /\ Head(fifo) \in Halves /\ Tail(fifo) \in Seq(Halves)
          /\ Len(Tail(fifo)) = Len(fifo) - 1 /\ Len(fifo) \in Nat
      BY <3>1
    <3>3. QED
      BY <1>6, <3>1, <3>2 DEF MonitorRead
  <2>2. QED
    BY <1>6, <2>1 DEF MonitorRead, PipelineTypeOK, taskVars, vars
<1>7. CASE UNCHANGED allVars
  BY <1>7 DEF allVars, vars, taskVars, wayVars, PipelineTypeOK
<1>8. QED
  BY <1>1, <1>2, <1>3, <1>4, <1>5, <1>6, <1>7 DEF PipelineNext, GatewayTask

\* The FIFO keeps its size, and Gateway_update writes only what a finished
\* Queue_getNext has handed it (Gateway.c:39-43).
THEOREM PipelineTypes == PipelineSpec => []PipelineTypeOK
<1>1. PipelineInit => PipelineTypeOK
  <2>1. Whole(Blank) \in Halves
    BY DEF Whole, Halves, Number, Blank
  <2>2. <<>> \in Seq(Halves) /\ Len(<<>>) = 0
    OBVIOUS
  <2> SUFFICES ASSUME PipelineInit PROVE PipelineTypeOK
    OBVIOUS
  <2>3. /\ isRecording \in BOOLEAN /\ inJob \in BOOLEAN /\ switchedOn \in BOOLEAN
        /\ gateway \in {"start", "next", "write", "gone"}
    BY DEF PipelineInit
  <2>4. startRet \in {0, -1, -2}
    BY DEF PipelineInit
  <2>5. fifo \in Seq(Halves) /\ Len(fifo) <= FIFO_SIZE
    BY <2>2, FifoAssumption DEF PipelineInit
  <2>6. got \in Halves /\ getter = "wait"
    BY <2>1 DEF PipelineInit, Init
  <2>7. QED
    BY <2>3, <2>4, <2>5, <2>6 DEF PipelineTypeOK
<1>2. TypeOK /\ PipelineTypeOK /\ [PipelineNext]_allVars => PipelineTypeOK'
  BY PipelineTypeStep
<1>3. QED
  BY <1>1, <1>2, PipelineUsesQueue, QueueTypes, PTL DEF PipelineSpec

----------------------------------------------------------------------------
(* The start a telegram carries. *)

\* Not inductive alone: that a job which is recorded now was recorded at its
\* start, or had recording enabled since.
StartKnown ==
  /\ inJob /\ isRecording => startRet \in {0, -2} \/ switchedOn
  /\ OldStartOnlyIfSwitchedOn

\* Each call of the library keeps that, whichever order the user makes them in
\* (TaskTrace.c:43-110).
LEMMA StartKnownStep ==
  ASSUME StartKnown, [PipelineNext]_allVars
  PROVE  StartKnown'
<1> USE DEF StartKnown, OldStartOnlyIfSwitchedOn
<1>1. CASE EnableRecording
  BY <1>1 DEF EnableRecording, vars
<1>2. CASE DisableRecording
  BY <1>2 DEF DisableRecording, vars
<1>3. CASE ExecutionStart
  BY <1>3 DEF ExecutionStart, vars
<1>4. CASE ExecutionStop
  BY <1>4 DEF ExecutionStop, AddCheck, AddFull, vars
<1>5. CASE ExecutionStopFails
  BY <1>5 DEF ExecutionStopFails, vars
<1>6. CASE TaskQueues
  BY <1>6 DEF TaskQueues, Queue_add, AddCopyLo, AddCopyHi, AddLoad, AddStore,
              AddPost, taskVars
<1>7. CASE GatewayTask
  <2>1. adder' = adder
    BY <1>7 DEF GatewayTask, GatewaySched, GatewayNext, GatewayWrite,
                Queue_getNext, GetWait, GetEmpty, GetCheck, GetCopyLo,
                GetCopyHi, GetLoad, GetStore, addVars, vars
  <2>2. UNCHANGED taskVars
    BY <1>7 DEF GatewayTask, GatewaySched, GatewayNext, GatewayWrite
  <2>3. QED
    BY <2>1, <2>2 DEF taskVars
<1>8. CASE MonitorRead
  BY <1>8 DEF MonitorRead, vars, taskVars
<1>9. CASE UNCHANGED allVars
  BY <1>9 DEF allVars, vars, taskVars
<1>10. QED
  BY <1>1, <1>2, <1>3, <1>4, <1>5, <1>6, <1>7, <1>8, <1>9
  DEF PipelineNext, TaskCalls

\* A telegram has the start of an earlier job only if recording was enabled
\* inside the job it was queued for, or the clock failed (TaskTrace.c:75-84).
THEOREM PipelineStartOfSameJob == PipelineSpec => []OldStartOnlyIfSwitchedOn
<1>1. PipelineInit => StartKnown
  BY DEF PipelineInit, Init, StartKnown, OldStartOnlyIfSwitchedOn
<1>2. StartKnown /\ [PipelineNext]_allVars => StartKnown'
  BY StartKnownStep
<1>3. StartKnown => OldStartOnlyIfSwitchedOn
  BY DEF StartKnown
<1>4. QED
  BY <1>1, <1>2, <1>3, PTL DEF PipelineSpec

----------------------------------------------------------------------------
(* A ring nobody reads. *)

\* Not inductive alone: with nobody to decrement it, count is exact, and a task
\* that passed its check still has room until it has counted its telegram.
CountExact ==
  gateway \in {"start", "gone"} =>
    /\ getter = "wait" /\ received = 0
    /\ count = Increments
    /\ count <= QUEUE_SIZE
    /\ adder \in {"copyLo", "copyHi", "load", "store"} => count < QUEUE_SIZE
    /\ adder = "store" => addReg = count

\* The gateway thread leaves that state for its loop and never comes back
\* (Gateway.c:64, 72); each step of the task's calls keeps it (Queue.c:16-21).
LEMMA CountExactStep ==
  ASSUME TypeOK, PipelineTypeOK, CountExact, [PipelineNext]_allVars
  PROVE  CountExact'
<1> USE QueueAssumption DEF CountExact, Increments
<1>1. CASE EnableRecording \/ DisableRecording \/ ExecutionStart \/ ExecutionStopFails
  BY <1>1 DEF EnableRecording, DisableRecording, ExecutionStart,
              ExecutionStopFails, vars, wayVars
<1>2. CASE ExecutionStop
  BY <1>2 DEF ExecutionStop, AddCheck, AddFull, vars, getVars, wayVars, TypeOK
<1>3. CASE TaskQueues
  <2>1. gateway' = gateway
    BY <1>3 DEF TaskQueues, wayVars
  <2>2. CASE AddCopyLo
    BY <2>1, <2>2 DEF AddCopyLo, getVars, TypeOK
  <2>3. CASE AddCopyHi
    BY <2>1, <2>3 DEF AddCopyHi, getVars, TypeOK
  <2>4. CASE AddLoad
    BY <2>1, <2>4 DEF AddLoad, getVars, TypeOK
  <2>5. CASE AddStore
    BY <2>1, <2>5 DEF AddStore, getVars, TypeOK
  <2>6. CASE AddPost
    BY <2>1, <2>6 DEF AddPost, getVars, TypeOK
  <2>7. QED
    BY <1>3, <2>2, <2>3, <2>4, <2>5, <2>6 DEF TaskQueues, Queue_add
<1>4. CASE GatewaySched
  BY <1>4 DEF GatewaySched, vars
<1>5. CASE GatewayNext \/ GatewayWrite
  BY <1>5 DEF GatewayNext, GatewayWrite
<1>6. CASE MonitorRead
  BY <1>6 DEF MonitorRead, vars
<1>7. CASE UNCHANGED allVars
  BY <1>7 DEF allVars, vars, wayVars
<1>8. QED
  BY <1>1, <1>2, <1>3, <1>4, <1>5, <1>6, <1>7
  DEF PipelineNext, TaskCalls, GatewayTask

\* A ring that nobody reads takes as many telegrams as it has slots, and the
\* task is told of each one it refuses (Queue.c:16-18, TaskTrace.c:105).
THEOREM PipelineFullRingRefuses == PipelineSpec => []FullRingRefuses
<1>1. PipelineInit => CountExact
  <2> SUFFICES ASSUME PipelineInit PROVE CountExact
    OBVIOUS
  <2>1. /\ getter = "wait" /\ received = 0 /\ adder = "idle" /\ count = 0
        /\ sent = 0
    BY DEF PipelineInit, Init
  <2>2. adder \notin {"copyLo", "copyHi", "load", "store"}
    BY <2>1
  <2>3. Increments = 0
    <3>1. Increments = sent - 0
      BY <2>2 DEF Increments
    <3>2. QED
      BY <2>1, <3>1
  <2>4. 0 <= QUEUE_SIZE
    BY QueueAssumption
  <2>5. QED
    BY <2>1, <2>2, <2>3, <2>4 DEF CountExact
<1>2. TypeOK /\ PipelineTypeOK /\ CountExact /\ [PipelineNext]_allVars => CountExact'
  BY CountExactStep
<1>3. TypeOK /\ CountExact => FullRingRefuses
  BY QueueAssumption DEF TypeOK, CountExact, Increments, FullRingRefuses
<1>4. QED
  BY <1>1, <1>2, <1>3, PipelineUsesQueue, QueueTypes, PipelineTypes, PTL
  DEF PipelineSpec

----------------------------------------------------------------------------
(* The promise of module Link. *)

\* The telegrams from r to the one before s, in order.
Numbers(r, s) == [i \in 1 .. s - r |-> Whole(r + i - 1)]

\* The telegrams between the indices of the ring (Queue.c:20, 34) are a sequence.
LEMMA NumbersSeq ==
  ASSUME NEW r \in Nat, NEW s \in Nat, r <= s
  PROVE  /\ Numbers(r, s) \in Seq(Halves)
         /\ Len(Numbers(r, s)) = s - r
         /\ \A i \in 1 .. s - r : Numbers(r, s)[i] = Whole(r + i - 1)
<1>1. s - r \in Nat
  OBVIOUS
<1>2. \A i \in 1 .. s - r : Whole(r + i - 1) \in Halves
  BY DEF Whole, Halves, Number
<1>3. Numbers(r, s) \in [1 .. s - r -> Halves]
  BY <1>2 DEF Numbers
<1>4. Numbers(r, s) \in Seq(Halves)
  BY <1>1, <1>3, SeqDef
<1>5. Len(Numbers(r, s)) = s - r
  BY <1>1, <1>3, <1>4, LenProperties
<1>6. QED
  BY <1>4, <1>5 DEF Numbers

\* A telegram that Queue_add puts in the ring comes last.
LEMMA NumbersLast ==
  ASSUME NEW r \in Nat, NEW s \in Nat, r <= s
  PROVE  Numbers(r, s + 1) = Append(Numbers(r, s), Whole(s))
<1>1. Whole(s) \in Halves /\ s + 1 \in Nat /\ r <= s + 1 /\ s - r \in Nat
  BY DEF Whole, Halves, Number
<1>2. /\ Numbers(r, s + 1) \in Seq(Halves) /\ Len(Numbers(r, s + 1)) = (s - r) + 1
      /\ \A i \in 1 .. (s - r) + 1 : Numbers(r, s + 1)[i] = Whole(r + i - 1)
  <2>1. /\ Numbers(r, s + 1) \in Seq(Halves) /\ Len(Numbers(r, s + 1)) = (s + 1) - r
        /\ \A i \in 1 .. (s + 1) - r : Numbers(r, s + 1)[i] = Whole(r + i - 1)
    BY <1>1, NumbersSeq
  <2>2. (s + 1) - r = (s - r) + 1
    OBVIOUS
  <2>3. QED
    BY <2>1, <2>2, Zenon
<1>3. /\ Numbers(r, s) \in Seq(Halves) /\ Len(Numbers(r, s)) = s - r
      /\ \A i \in 1 .. s - r : Numbers(r, s)[i] = Whole(r + i - 1)
  BY NumbersSeq
<1> DEFINE new == Append(Numbers(r, s), Whole(s))
<1>4. /\ new \in Seq(Halves) /\ Len(new) = (s - r) + 1
      /\ \A i \in 1 .. s - r : new[i] = Numbers(r, s)[i]
      /\ new[(s - r) + 1] = Whole(s)
  BY <1>1, <1>3, AppendProperties
<1> HIDE DEF new
<1>5. ASSUME NEW i \in 1 .. (s - r) + 1
      PROVE  Numbers(r, s + 1)[i] = new[i]
  <2>1. CASE i \in 1 .. s - r
    BY <1>2, <1>3, <1>4, <2>1
  <2>2. CASE i = (s - r) + 1
    <3>1. r + i - 1 = s
      BY <2>2
    <3>2. QED
      BY <1>2, <1>4, <2>2, <3>1
  <2>3. QED
    BY <1>1, <2>1, <2>2
<1>6. Numbers(r, s + 1) = new
  BY <1>2, <1>4, <1>5, SeqEqual
<1>7. QED
  BY <1>6 DEF new

\* The one that Queue_getNext takes out of it is the first.
LEMMA NumbersFirst ==
  ASSUME NEW r \in Nat, NEW s \in Nat, r < s
  PROVE  Numbers(r, s) = <<Whole(r)>> \o Numbers(r + 1, s)
<1>1. Whole(r) \in Halves /\ r + 1 \in Nat /\ r + 1 <= s /\ r <= s
  BY DEF Whole, Halves, Number
<1>2. /\ Numbers(r, s) \in Seq(Halves) /\ Len(Numbers(r, s)) = s - r
      /\ \A i \in 1 .. s - r : Numbers(r, s)[i] = Whole(r + i - 1)
  BY <1>1, NumbersSeq
<1>3. /\ Numbers(r + 1, s) \in Seq(Halves) /\ Len(Numbers(r + 1, s)) = s - (r + 1)
      /\ \A i \in 1 .. s - (r + 1) : Numbers(r + 1, s)[i] = Whole((r + 1) + i - 1)
  BY <1>1, NumbersSeq
<1>4. <<Whole(r)>> \in Seq(Halves) /\ Len(<<Whole(r)>>) = 1 /\ <<Whole(r)>>[1] = Whole(r)
  BY <1>1
<1> DEFINE both == <<Whole(r)>> \o Numbers(r + 1, s)
<1>5. /\ both \in Seq(Halves)
      /\ Len(both) = 1 + (s - (r + 1))
      /\ \A i \in 1 .. 1 + (s - (r + 1)) :
           both[i] = IF i <= 1 THEN Whole(r) ELSE Numbers(r + 1, s)[i - 1]
  <2>1. /\ both \in Seq(Halves)
        /\ Len(both) = Len(<<Whole(r)>>) + Len(Numbers(r + 1, s))
        /\ \A i \in 1 .. Len(<<Whole(r)>>) + Len(Numbers(r + 1, s)) :
             both[i] = IF i <= Len(<<Whole(r)>>) THEN <<Whole(r)>>[i]
                         ELSE Numbers(r + 1, s)[i - Len(<<Whole(r)>>)]
    BY <1>3, <1>4, ConcatProperties
  <2> HIDE DEF both
  <2>2. QED
    BY <1>3, <1>4, <2>1
<1> HIDE DEF both
<1>6. ASSUME NEW i \in 1 .. s - r
      PROVE  Numbers(r, s)[i] = both[i]
  <2>1. CASE i = 1
    <3>1. r + i - 1 = r
      BY <2>1
    <3>2. QED
      BY <1>2, <1>5, <2>1, <3>1
  <2>2. CASE i > 1
    <3>1. i - 1 \in 1 .. s - (r + 1) /\ (r + 1) + (i - 1) - 1 = r + i - 1
      BY <2>2
    <3>2. QED
      BY <1>2, <1>3, <1>5, <2>2, <3>1
  <2>3. QED
    BY <2>1, <2>2
<1>7. Numbers(r, s) = both
  <2>1. Len(both) = s - r
    BY <1>5
  <2>2. QED
    BY <1>2, <1>5, <1>6, <2>1, SeqEqual
<1>8. QED
  BY <1>7 DEF both

\* What is on its way to the monitor: the FIFO, the gateway thread's hand, the ring.
Hand     == IF InHand THEN <<rx>> ELSE <<>>
OnItsWay == fifo \o Hand \o Numbers(received, sent)

\* Its three parts are sequences of telegrams: the gateway thread has taken no
\* more out of the ring than the task has put in.
LEMMA WayParts ==
  ASSUME TypeOK, PipelineTypeOK, FailedGetStrandsOne
  PROVE  /\ received \in Nat /\ sent \in Nat /\ received <= sent
         /\ fifo \in Seq(Halves) /\ Hand \in Seq(Halves)
         /\ Numbers(received, sent) \in Seq(Halves)
<1>1. received \in Nat /\ sent \in Nat /\ received <= sent
  BY DEF TypeOK, FailedGetStrandsOne, Posted, Pending
<1>2. Hand \in Seq(Halves)
  <2>1. rx \in Halves
    BY DEF TypeOK
  <2>2. <<rx>> \in Seq(Halves) /\ <<>> \in Seq(Halves)
    BY <2>1
  <2>3. QED
    BY <2>2 DEF Hand
<1>3. QED
  BY <1>1, <1>2, NumbersSeq DEF PipelineTypeOK

\* The link of the refinement is what is on its way.
LEMMA LinkIsWay ==
  /\ TheLink!lvars = <<OnItsWay, sent, got>>
  /\ TheLink!lvars' = <<OnItsWay', sent', got'>>
  /\ TheLink!Put <=> /\ OnItsWay' = Append(OnItsWay, Whole(sent))
                     /\ sent' = sent + 1 /\ got' = got
  /\ TheLink!Get <=> /\ OnItsWay # <<>>
                     /\ got' = Head(OnItsWay) /\ OnItsWay' = Tail(OnItsWay)
                     /\ sent' = sent
  /\ TheLink!Lose <=> /\ \E i \in FIFO_SIZE + 1 .. Len(OnItsWay) :
                           OnItsWay' = SubSeq(OnItsWay, 1, i - 1)
                                         \o SubSeq(OnItsWay, i + 1, Len(OnItsWay))
                      /\ UNCHANGED <<sent, got>>
BY DEF TheLink!lvars, TheLink!Put, TheLink!Get, TheLink!Lose, TheLink!RemoveAt,
       OnItsWay, Hand, InRing, Numbers

\* The first of two sequences of telegrams is the beginning of their
\* concatenation, which is how the FIFO lies in what is on its way.
LEMMA PrefixOfConcat ==
  ASSUME NEW S, NEW a \in Seq(S), NEW b \in Seq(S)
  PROVE  SubSeq(a \o b, 1, Len(a)) = a
<1>1. CASE Len(a) = 0
  BY <1>1, SubSeqEmpty, EmptySeq
<1>2. CASE Len(a) # 0
  <2>1. 1 \in 1 .. Len(a) /\ Len(a) \in 1 .. Len(a)
    BY <1>2, LenProperties
  <2>2. SubSeq(a \o b, 1, Len(a)) = SubSeq(a, 1, Len(a))
    BY <2>1, SubSeqOfConcat1
  <2>3. QED
    BY <2>2, SubSeqFull
<1>3. QED
  BY <1>1, <1>2

\* The second one is its end, which is how the ring does.
LEMMA SuffixOfConcat ==
  ASSUME NEW S, NEW a \in Seq(S), NEW b \in Seq(S)
  PROVE  SubSeq(a \o b, Len(a) + 1, Len(a) + Len(b)) = b
<1>1. Len(a) \in Nat /\ Len(b) \in Nat
  BY LenProperties
<1>2. CASE Len(b) = 0
  BY <1>1, <1>2, SubSeqEmpty, EmptySeq
<1>3. CASE Len(b) # 0
  <2>1. /\ Len(a) + 1 \in Len(a) + 1 .. Len(a) + Len(b)
        /\ Len(a) + Len(b) \in Len(a) + 1 .. Len(a) + Len(b)
    BY <1>1, <1>3
  <2>2. SubSeq(a \o b, Len(a) + 1, Len(a) + Len(b))
          = SubSeq(b, (Len(a) + 1) - Len(a), (Len(a) + Len(b)) - Len(a))
    BY <2>1, SubSeqOfConcat2
  <2>3. (Len(a) + 1) - Len(a) = 1 /\ (Len(a) + Len(b)) - Len(a) = Len(b)
    BY <1>1
  <2>4. QED
    BY <2>2, <2>3, SubSeqFull
<1>4. QED
  BY <1>2, <1>3

\* The oldest of what is on its way is the oldest in a FIFO that has some.
LEMMA HeadTailOfConcat ==
  ASSUME NEW S, NEW a \in Seq(S), NEW b \in Seq(S), a # <<>>
  PROVE  a \o b # <<>> /\ Head(a \o b) = Head(a) /\ Tail(a \o b) = Tail(a) \o b
<1>1. a \o b \in Seq(S) /\ Len(a) \in Nat \ {0} /\ Len(b) \in Nat
  BY ConcatProperties, EmptySeq, LenProperties
<1>2. /\ Len(a \o b) = Len(a) + Len(b)
      /\ \A i \in 1 .. Len(a) + Len(b) :
           (a \o b)[i] = IF i <= Len(a) THEN a[i] ELSE b[i - Len(a)]
  BY ConcatProperties
<1>3. a \o b # <<>>
  BY <1>1, <1>2
<1>4. Head(a \o b) = Head(a)
  BY <1>1, <1>2, <1>3
<1>5. /\ Tail(a) \in Seq(S) /\ Len(Tail(a)) = Len(a) - 1
      /\ \A i \in 1 .. Len(Tail(a)) : Tail(a)[i] = a[i + 1]
  BY HeadTailProperties
<1>6. /\ Tail(a \o b) \in Seq(S) /\ Len(Tail(a \o b)) = Len(a \o b) - 1
      /\ \A i \in 1 .. Len(Tail(a \o b)) : Tail(a \o b)[i] = (a \o b)[i + 1]
  BY <1>1, <1>3, HeadTailProperties
<1>7. /\ Tail(a) \o b \in Seq(S) /\ Len(Tail(a) \o b) = Len(Tail(a)) + Len(b)
      /\ \A i \in 1 .. Len(Tail(a)) + Len(b) :
           (Tail(a) \o b)[i] = IF i <= Len(Tail(a)) THEN Tail(a)[i] ELSE b[i - Len(Tail(a))]
  BY <1>5, ConcatProperties
<1>8. Len(Tail(a \o b)) = Len(Tail(a) \o b)
  BY <1>1, <1>2, <1>5, <1>6, <1>7
<1>9. ASSUME NEW i \in 1 .. Len(Tail(a \o b))
      PROVE  Tail(a \o b)[i] = (Tail(a) \o b)[i]
  <2>1. i + 1 \in 1 .. Len(a) + Len(b) /\ i \in 1 .. (Len(a) - 1) + Len(b)
    BY <1>1, <1>2, <1>6
  <2>2. Tail(a \o b)[i] = IF i + 1 <= Len(a) THEN a[i + 1] ELSE b[(i + 1) - Len(a)]
    BY <1>2, <1>6, <2>1
  <2>3. (Tail(a) \o b)[i] = IF i <= Len(a) - 1 THEN Tail(a)[i] ELSE b[i - (Len(a) - 1)]
    BY <1>5, <1>7, <2>1
  <2>4. CASE i + 1 <= Len(a)
    <3>1. i \in 1 .. Len(Tail(a)) /\ i <= Len(a) - 1
      BY <1>1, <1>5, <2>4
    <3>2. QED
      BY <1>5, <2>2, <2>3, <2>4, <3>1
  <2>5. CASE ~(i + 1 <= Len(a))
    <3>1. ~(i <= Len(a) - 1) /\ (i + 1) - Len(a) = i - (Len(a) - 1)
      BY <1>1, <2>5
    <3>2. QED
      BY <2>2, <2>3, <2>5, <3>1
  <2>6. QED
    BY <2>4, <2>5
<1>10. QED
  BY <1>3, <1>4, <1>6, <1>7, <1>8, <1>9, SeqEqual

\* Queue_add's second half of a telegram puts it on its way.
LEMMA AddPutsOnWay ==
  ASSUME TypeOK, PipelineTypeOK, FailedGetStrandsOne, TaskQueues, AddCopyHi
  PROVE  TheLink!Put
<1>1. sent' = sent + 1 /\ UNCHANGED <<received, getter, rx, gateway, fifo, got>>
  BY DEF AddCopyHi, TaskQueues, getVars, wayVars
<1>2. /\ received \in Nat /\ sent \in Nat /\ received <= sent
      /\ fifo \in Seq(Halves) /\ Hand \in Seq(Halves)
      /\ Numbers(received, sent) \in Seq(Halves)
  BY WayParts
<1>3. Hand' = Hand
  BY <1>1 DEF Hand, InHand
<1> DEFINE taken == fifo \o Hand
<1>4. Whole(sent) \in Halves
  BY <1>2 DEF Whole, Halves, Number
<1>5. <<Whole(sent)>> \in Seq(Halves)
  BY <1>4
<1>6. taken \in Seq(Halves)
  BY <1>2, ConcatProperties
<1>7. taken' = taken
  BY <1>1, <1>3
<1>8. Numbers(received, sent)' = Append(Numbers(received, sent), Whole(sent))
  <2>1. Numbers(received, sent)' = Numbers(received, sent + 1)
    BY <1>1 DEF Numbers
  <2>2. QED
    BY <1>2, <2>1, NumbersLast
<1>9. OnItsWay = taken \o Numbers(received, sent)
  BY DEF OnItsWay
<1>10. OnItsWay' = taken \o Append(Numbers(received, sent), Whole(sent))
  BY <1>7, <1>8 DEF OnItsWay
<1> HIDE DEF taken
<1>11. Append(Numbers(received, sent), Whole(sent))
         = Numbers(received, sent) \o <<Whole(sent)>>
  BY <1>2, <1>4, AppendIsConcat
<1>12. taken \o (Numbers(received, sent) \o <<Whole(sent)>>)
         = (taken \o Numbers(received, sent)) \o <<Whole(sent)>>
  BY <1>2, <1>5, <1>6, ConcatAssociative
<1>13. (taken \o Numbers(received, sent)) \o <<Whole(sent)>>
         = Append(taken \o Numbers(received, sent), Whole(sent))
  <2>1. taken \o Numbers(received, sent) \in Seq(Halves)
    BY <1>2, <1>6, ConcatProperties
  <2>2. QED
    BY <1>4, <2>1, AppendIsConcat
<1>14. QED
  BY <1>1, <1>9, <1>10, <1>11, <1>12, <1>13, LinkIsWay

\* Queue_getNext's second half moves the first of the ring into the gateway
\* thread's hand, which changes nothing of what is on its way.
LEMMA GetKeepsWay ==
  ASSUME TypeOK, PipelineTypeOK, FailedGetStrandsOne, FifoUntilLow', ~low',
         GatewayNext, GetCopyHi
  PROVE  OnItsWay' = OnItsWay
<1>1. /\ getter = "copyHi" /\ getter' = "load" /\ gateway = "next" /\ gateway' = "next"
      /\ received' = received + 1 /\ UNCHANGED <<sent, fifo>>
  BY DEF GetCopyHi, GatewayNext, addVars
<1>2. received \in Nat /\ sent \in Nat /\ received < sent
  BY <1>1, TelegramIsThere DEF TypeOK
<1>3. fifo \in Seq(Halves) /\ received + 1 <= sent
  BY <1>2 DEF PipelineTypeOK
<1>4. rx' = Whole(received)
  <2>1. rx' = Whole(received' - 1)
    BY <1>1 DEF FifoUntilLow
  <2>2. received' - 1 = received
    BY <1>1, <1>2
  <2>3. QED
    BY <2>1, <2>2, Zenon
<1>5. Hand = <<>> /\ Hand' = <<Whole(received)>>
  BY <1>1, <1>4 DEF Hand, InHand
<1>6. Numbers(received, sent)' = Numbers(received + 1, sent)
  BY <1>1 DEF Numbers
<1>7. <<Whole(received)>> \in Seq(Halves)
  <2>1. Whole(received) \in Halves
    BY <1>2 DEF Whole, Halves, Number
  <2>2. QED
    BY <2>1
<1>8. Numbers(received + 1, sent) \in Seq(Halves)
  BY <1>2, <1>3, NumbersSeq
<1>9. OnItsWay = fifo \o (<<Whole(received)>> \o Numbers(received + 1, sent))
  <2>1. fifo \o <<>> = fifo
    BY <1>3, ConcatEmptySeq
  <2>2. QED
    BY <1>2, <1>5, <2>1, NumbersFirst DEF OnItsWay
<1>10. OnItsWay' = (fifo \o <<Whole(received)>>) \o Numbers(received + 1, sent)
  BY <1>1, <1>5, <1>6 DEF OnItsWay
<1>11. QED
  BY <1>3, <1>7, <1>8, <1>9, <1>10, ConcatAssociative

\* Gateway_update's write moves the telegram into the FIFO, or drops it behind a
\* full one.
LEMMA WriteMovesOrLoses ==
  ASSUME TypeOK, PipelineTypeOK, FailedGetStrandsOne, GatewayWrite
  PROVE  OnItsWay' = OnItsWay \/ TheLink!Lose
<1>1. /\ gateway = "write" /\ gateway' = "next" /\ fifo' = AfterUserWrite(rx)
      /\ UNCHANGED <<getter, rx, received, sent, got>>
  BY DEF GatewayWrite, vars
<1>2. getter = "wait"
  BY <1>1 DEF PipelineTypeOK
<1>3. Hand = <<rx>> /\ Hand' = <<>>
  BY <1>1, <1>2 DEF Hand, InHand
<1> DEFINE ring == Numbers(received, sent)
<1>4. fifo \in Seq(Halves) /\ <<rx>> \in Seq(Halves) /\ ring \in Seq(Halves) /\ rx \in Halves
  BY <1>3, WayParts DEF TypeOK
<1>5. ring' = ring
  BY <1>1 DEF Numbers
<1>6. OnItsWay = (fifo \o <<rx>>) \o ring
  BY <1>3 DEF OnItsWay
<1>7. OnItsWay' = (fifo' \o <<>>) \o ring
  BY <1>3, <1>5 DEF OnItsWay
<1> HIDE DEF ring
<1>8. CASE Len(fifo) < FIFO_SIZE
  <2>1. fifo' = fifo \o <<rx>>
    BY <1>1, <1>4, <1>8, AppendIsConcat DEF AfterUserWrite
  <2>2. (fifo \o <<rx>>) \o <<>> = fifo \o <<rx>>
    BY <1>4, ConcatProperties, ConcatEmptySeq
  <2>3. QED
    BY <1>6, <1>7, <2>1, <2>2
<1>9. CASE ~(Len(fifo) < FIFO_SIZE)
  <2>1. fifo' = fifo /\ fifo \o <<>> = fifo
    BY <1>1, <1>4, <1>9, ConcatEmptySeq DEF AfterUserWrite
  <2>2. OnItsWay' = fifo \o ring
    BY <1>7, <2>1
  <2> DEFINE n == Len(fifo)
  <2>3. n \in Nat /\ n = FIFO_SIZE /\ Len(ring) \in Nat
    BY <1>4, <1>9, LenProperties, FifoAssumption DEF PipelineTypeOK
  <2>4. OnItsWay \in Seq(Halves) /\ Len(OnItsWay) = n + 1 + Len(ring)
    <3>1. fifo \o <<rx>> \in Seq(Halves) /\ Len(fifo \o <<rx>>) = n + 1
      BY <1>4
    <3>2. QED
      BY <1>4, <1>6, <3>1, ConcatProperties
  <2>5. SubSeq(OnItsWay, 1, n) = fifo
    <3>1. OnItsWay = fifo \o (<<rx>> \o ring)
      BY <1>4, <1>6, ConcatAssociative
    <3>2. <<rx>> \o ring \in Seq(Halves)
      BY <1>4, ConcatProperties
    <3>3. QED
      BY <1>4, <3>1, <3>2, PrefixOfConcat
  <2>6. SubSeq(OnItsWay, n + 2, Len(OnItsWay)) = ring
    <3>1. fifo \o <<rx>> \in Seq(Halves) /\ Len(fifo \o <<rx>>) = n + 1
      BY <1>4
    <3>2. SubSeq(OnItsWay, (n + 1) + 1, (n + 1) + Len(ring)) = ring
      BY <1>4, <1>6, <3>1, SuffixOfConcat
    <3>3. QED
      BY <2>3, <2>4, <3>2
  <2>7. n + 1 \in FIFO_SIZE + 1 .. Len(OnItsWay)
    BY <2>3, <2>4
  <2>8. (n + 1) - 1 = n /\ (n + 1) + 1 = n + 2
    BY <2>3
  <2>9. UNCHANGED <<sent, got>>
    BY <1>1
  <2> HIDE DEF n
  <2>10. OnItsWay' = SubSeq(OnItsWay, 1, (n + 1) - 1)
                       \o SubSeq(OnItsWay, (n + 1) + 1, Len(OnItsWay))
    BY <2>2, <2>5, <2>6, <2>8 DEF n
  <2>11. QED
    BY <2>7, <2>9, <2>10, LinkIsWay
<1>10. QED
  BY <1>8, <1>9

\* Telegrams on their way may be grouped as one likes.
LEMMA WayRegrouped ==
  ASSUME NEW a \in Seq(Halves), NEW b \in Seq(Halves), NEW c \in Seq(Halves)
  PROVE  (a \o b) \o c = a \o (b \o c)
BY ConcatAssociative

\* The monitor's read takes the oldest telegram.
LEMMA ReadGets ==
  ASSUME TypeOK, PipelineTypeOK, FailedGetStrandsOne, MonitorRead
  PROVE  TheLink!Get
<1>1. /\ fifo # <<>> /\ got' = Head(fifo) /\ fifo' = Tail(fifo)
      /\ UNCHANGED <<gateway, getter, rx, received, sent>>
  BY DEF MonitorRead, vars
<1> DEFINE rest == Hand \o Numbers(received, sent)
<1>2. /\ fifo \in Seq(Halves) /\ Hand \in Seq(Halves)
      /\ Numbers(received, sent) \in Seq(Halves)
  BY WayParts
<1>3. rest \in Seq(Halves) /\ Tail(fifo) \in Seq(Halves)
  BY <1>1, <1>2, ConcatProperties, HeadTailProperties
<1>4. Hand' = Hand /\ Numbers(received, sent)' = Numbers(received, sent)
  BY <1>1 DEF Hand, InHand, Numbers
<1>5. OnItsWay = fifo \o rest
  <2>1. (fifo \o Hand) \o Numbers(received, sent) = fifo \o (Hand \o Numbers(received, sent))
    BY <1>2, WayRegrouped, Zenon
  <2>2. QED
    BY <2>1, Zenon DEF OnItsWay
<1>6. OnItsWay' = Tail(fifo) \o rest
  <2>1. OnItsWay' = (Tail(fifo) \o Hand) \o Numbers(received, sent)
    BY <1>1, <1>4 DEF OnItsWay
  <2>2. ASSUME NEW a \in Seq(Halves)
        PROVE  (a \o Hand) \o Numbers(received, sent)
                 = a \o (Hand \o Numbers(received, sent))
    <3> HIDE DEF rest
    <3>1. QED
      BY <1>2, WayRegrouped
  <2>3. QED
    BY <1>3, <2>1, <2>2, Zenon
<1> HIDE DEF rest
<1>7. /\ fifo \o rest # <<>> /\ Head(fifo \o rest) = Head(fifo)
      /\ Tail(fifo \o rest) = Tail(fifo) \o rest
  BY <1>1, <1>2, <1>3, HeadTailOfConcat
<1>8. QED
  BY <1>1, <1>5, <1>6, <1>7, LinkIsWay

\* While no increment is lost each step of the library, the gateway thread and the
\* monitor is one of the link, or nothing that the link tells of.
LEMMA LinkStep ==
  ASSUME TypeOK, PipelineTypeOK, FailedGetStrandsOne, FifoUntilLow', ~low',
         [PipelineNext]_allVars
  PROVE  [TheLink!Next]_(TheLink!lvars)
<1>1. SUFFICES ASSUME ~TheLink!Next
               PROVE  OnItsWay' = OnItsWay /\ sent' = sent /\ got' = got
  BY LinkIsWay
<1>2. ASSUME UNCHANGED <<fifo, gateway, getter, rx, received, sent, got>>
      PROVE  OnItsWay' = OnItsWay /\ sent' = sent /\ got' = got
  BY <1>2 DEF OnItsWay, Hand, InHand, Numbers
<1>3. CASE TaskCalls
  BY <1>2, <1>3 DEF TaskCalls, EnableRecording, DisableRecording, ExecutionStart,
       ExecutionStop, ExecutionStopFails, AddCheck, AddFull, getVars, vars, wayVars
<1>4. CASE TaskQueues
  <2>1. CASE AddCopyHi
    BY <1>1, <1>4, <2>1, AddPutsOnWay DEF TheLink!Next
  <2>2. CASE AddCopyLo \/ AddLoad \/ AddStore \/ AddPost
    BY <1>2, <1>4, <2>2 DEF TaskQueues, AddCopyLo, AddLoad, AddStore, AddPost,
                            getVars, wayVars
  <2>3. QED
    BY <1>4, <2>1, <2>2 DEF TaskQueues, Queue_add
<1>5. CASE GatewaySched
  <2>1. /\ gateway = "start" /\ gateway' \in {"next", "gone"}
        /\ UNCHANGED <<fifo, getter, rx, received, sent, got>>
    BY <1>5 DEF GatewaySched, vars
  <2>2. QED
    BY <2>1 DEF OnItsWay, Hand, InHand, Numbers
<1>6. CASE GatewayNext
  <2>1. gateway = "next" /\ UNCHANGED <<fifo, got, sent>>
    BY <1>6 DEF GatewayNext, Queue_getNext, GetWait, GetEmpty, GetCheck, GetCopyLo,
                GetCopyHi, GetLoad, GetStore, addVars
  <2>2. CASE GetCopyHi
    BY <1>6, <2>1, <2>2, GetKeepsWay
  <2>3. CASE GetWait \/ GetEmpty \/ GetCheck \/ GetCopyLo
    <3>1. /\ gateway' = "next" /\ received' = received
          /\ getter \notin {"load", "store"} /\ getter' \notin {"load", "store"}
      BY <1>6, <2>3 DEF GatewayNext, GetWait, GetEmpty, GetCheck, GetCopyLo
    <3>2. Hand = <<>> /\ Hand' = <<>>
      BY <2>1, <3>1 DEF Hand, InHand
    <3>3. QED
      BY <2>1, <3>1, <3>2 DEF OnItsWay, Numbers
  <2>4. CASE GetLoad \/ GetStore
    <3>1. /\ rx' = rx /\ received' = received /\ getter \in {"load", "store"}
          /\ getter' = "store" \/ gateway' = "write"
      BY <1>6, <2>4 DEF GatewayNext, GetLoad, GetStore
    <3>2. Hand = <<rx>> /\ Hand' = <<rx>>
      BY <3>1 DEF Hand, InHand
    <3>3. QED
      BY <2>1, <3>1, <3>2 DEF OnItsWay, Numbers
  <2>5. QED
    BY <1>6, <2>2, <2>3, <2>4 DEF GatewayNext, Queue_getNext
<1>7. CASE GatewayWrite
  <2>1. OnItsWay' = OnItsWay
    BY <1>1, <1>7, WriteMovesOrLoses DEF TheLink!Next
  <2>2. QED
    BY <1>7, <2>1 DEF GatewayWrite, vars
<1>8. CASE MonitorRead
  BY <1>1, <1>8, ReadGets DEF TheLink!Next
<1>9. CASE UNCHANGED allVars
  BY <1>2, <1>9 DEF allVars, vars, wayVars
<1>10. QED
  BY <1>3, <1>4, <1>5, <1>6, <1>7, <1>8, <1>9 DEF PipelineNext, GatewayTask

\* Until an increment of count is lost, the library, the gateway thread and the
\* FIFO implement the link, for every size of the ring and of the FIFO.
THEOREM PipelineImplementsLink == PipelineSpec => ImplementsLinkUntilLow
<1>1. PipelineInit => TheLink!Init
  <2>1. SUFFICES ASSUME PipelineInit PROVE TheLink!Init
    OBVIOUS
  <2>2. /\ fifo = <<>> /\ got = Whole(-1) /\ sent = 0 /\ received = 0
        /\ getter = "wait" /\ gateway = "start"
    BY <2>1 DEF PipelineInit, Init, Blank
  <2>3. Hand = <<>>
    BY <2>2 DEF Hand, InHand
  <2>4. Numbers(received, sent) = <<>>
    BY <2>2, NumbersSeq, EmptySeq
  <2>5. OnItsWay = <<>>
    BY <2>2, <2>3, <2>4 DEF OnItsWay
  <2>6. QED
    BY <2>2, <2>5 DEF TheLink!Init, OnItsWay, Hand, InRing, Numbers
<1>2. TypeOK /\ PipelineTypeOK /\ FailedGetStrandsOne /\ FifoUntilLow' /\ [PipelineNext]_allVars
        => [low' \/ TheLink!Next]_(TheLink!lvars)
  BY LinkStep
<1>3. QED
  BY <1>1, <1>2, PipelineUsesQueue, QueueTypes, PipelineTypes, PipelineKeepsQueue, PTL
  DEF PipelineSpec, ImplementsLinkUntilLow

=============================================================================
