------------------------------- MODULE Queue -------------------------------
(***************************************************************************)
(* The ring buffer between a traced real-time task and its gateway thread  *)
(* (TaskTrace/Gateway/Queue/Queue.c).  The task runs Queue_add, the        *)
(* gateway thread runs Queue_getNext, and nothing but the semaphore orders *)
(* them: `count` is a plain int that both threads increment or decrement.  *)
(* The data race is modelled as the build compiles it (-g, no -O): count++ *)
(* and count-- are a load, an addition and a store, and a memcpy of a      *)
(* telegram is not one indivisible step.                                   *)
(*                                                                         *)
(* `head` is used by the gateway thread alone and `tail` by the task       *)
(* alone, so each is updated together with the private step before it.     *)
(* The semaphore's operations are atomic and order the accesses around     *)
(* them, and every other access is taken in program order.                 *)
(***************************************************************************)
EXTENDS Integers

CONSTANTS
  QUEUE_SIZE,   \* slots of the ring
  MaxSent       \* bound: telegrams the task queues in one behaviour

ASSUME QueueAssumption == QUEUE_SIZE \in Nat \ {0} /\ MaxSent \in Nat

VARIABLES
  slot,       \* telegram[]: the two halves a memcpy moves, slot by slot
  head,       \* index of the next telegram to read
  tail,       \* index where the next telegram goes
  count,      \* the shared counter
  sem,        \* value of the counting semaphore
  adder,      \* where the task is in Queue_add
  addReg,     \* the task's register in count++
  getter,     \* where the gateway thread is in Queue_getNext
  getReg,     \* the gateway thread's register in count--
  rx,         \* Gateway.telegram, the buffer Queue_getNext fills
  sent,       \* history: telegrams put in the ring
  received,   \* history: telegrams taken out of the ring
  failed,     \* history: calls of Queue_getNext that returned -1
  low         \* history: count has been below the updates made to it

addVars  == <<slot, tail, adder, addReg, sent>>
getVars  == <<head, getter, getReg, rx, received, failed>>
vars     == <<slot, head, tail, count, sem, adder, addReg, getter, getReg, rx,
              sent, received, failed, low>>

\* The telegrams are numbered from 0 in the order they are queued.  Blank is
\* the content of a slot TaskTrace_init's memset left zeroed.
Blank      == -1
Number     == Nat \cup {Blank}
Halves     == [lo : Number, hi : Number]
Whole(n)   == [lo |-> n, hi |-> n]

Init ==
  /\ slot = [i \in 0 .. QUEUE_SIZE - 1 |-> Whole(Blank)]
  /\ head = 0 /\ tail = 0 /\ count = 0 /\ sem = 0
  /\ adder = "idle" /\ addReg = 0
  /\ getter = "wait" /\ getReg = 0
  /\ rx = Whole(Blank)
  /\ sent = 0 /\ received = 0 /\ failed = 0 /\ low = FALSE

\* The updates of count that each thread has completed.
Increments == sent - (IF adder \in {"load", "store"} THEN 1 ELSE 0)
Decrements == received - (IF getter \in {"load", "store"} THEN 1 ELSE 0)

\* How far count is from the updates made to it: a lost increment makes it
\* negative, a lost decrement positive.
Drift == count - (Increments - Decrements)

----------------------------------------------------------------------------
(* Queue_add, run by the traced task. *)

\* Seeded fault: one telegram more than there are slots is accepted.
AddCheckOffByOne ==
  /\ adder = "idle" /\ sent < MaxSent
  /\ count <= QUEUE_SIZE
  /\ adder' = "copyLo"
  /\ UNCHANGED <<slot, tail, addReg, sent, count, sem, low, getVars>>

\* Room is left: go on to copy the telegram.
AddCheck ==
  /\ adder = "idle" /\ sent < MaxSent
  /\ count < QUEUE_SIZE
  /\ adder' = "copyLo"
  /\ UNCHANGED <<slot, tail, addReg, sent, count, sem, low, getVars>>

\* No room: return -1 and leave the queue as it is.
AddFull ==
  /\ adder = "idle" /\ sent < MaxSent
  /\ count >= QUEUE_SIZE
  /\ UNCHANGED vars

\* memcpy into the slot at tail, first half.
AddCopyLo ==
  /\ adder = "copyLo"
  /\ slot' = [slot EXCEPT ![tail].lo = sent]
  /\ adder' = "copyHi"
  /\ UNCHANGED <<tail, addReg, sent, count, sem, low, getVars>>

\* Seeded fault: tail is not advanced past the telegram.
AddCopyHiKeepsTail ==
  /\ adder = "copyHi"
  /\ slot' = [slot EXCEPT ![tail].hi = sent]
  /\ sent' = sent + 1
  /\ adder' = "load"
  /\ UNCHANGED <<tail, addReg, count, sem, low, getVars>>

\* memcpy, second half, and the step of tail.
AddCopyHi ==
  /\ adder = "copyHi"
  /\ slot' = [slot EXCEPT ![tail].hi = sent]
  /\ tail' = (tail + 1) % QUEUE_SIZE
  /\ sent' = sent + 1
  /\ adder' = "load"
  /\ UNCHANGED <<addReg, count, sem, low, getVars>>

\* count++: the load.
AddLoad ==
  /\ adder = "load"
  /\ addReg' = count
  /\ adder' = "store"
  /\ UNCHANGED <<slot, tail, sent, count, sem, low, getVars>>

\* count++: the store.
AddStore ==
  /\ adder = "store"
  /\ count' = addReg + 1
  /\ adder' = "post"
  /\ UNCHANGED <<slot, tail, addReg, sent, sem, getVars>>
  /\ low' = (low \/ Drift' < 0)

\* Seeded fault: post only when the queue looks empty before the telegram.
AddPostWhenEmpty ==
  /\ adder = "post"
  /\ sem' = IF count = 1 THEN sem + 1 ELSE sem
  /\ adder' = "idle"
  /\ UNCHANGED <<slot, tail, addReg, sent, count, low, getVars>>

\* sem_post, and return 0.
AddPost ==
  /\ adder = "post"
  /\ sem' = sem + 1
  /\ adder' = "idle"
  /\ UNCHANGED <<slot, tail, addReg, sent, count, low, getVars>>

Queue_add == AddCopyLo \/ AddCopyHi \/ AddLoad \/ AddStore \/ AddPost

----------------------------------------------------------------------------
(* Queue_getNext, run by the gateway thread. *)

\* Seeded fault: no semaphore, the thread polls count alone.
GetWaitPolls ==
  /\ getter = "wait" /\ count > 0
  /\ getter' = "check"
  /\ UNCHANGED <<sem, head, getReg, rx, received, failed, count, low, addVars>>

\* sem_wait: blocks until the semaphore is positive, then decrements it.  Its result
\* is not looked at (Queue.c:29); here it returns only with a token.
GetWait ==
  /\ getter = "wait" /\ sem > 0
  /\ sem' = sem - 1
  /\ getter' = "check"
  /\ UNCHANGED <<head, getReg, rx, received, failed, count, low, addVars>>

\* count is not positive: return -1, the token is spent.
GetEmpty ==
  /\ getter = "check" /\ count <= 0
  /\ failed' = failed + 1
  /\ getter' = "wait"
  /\ UNCHANGED <<head, getReg, rx, received, count, sem, low, addVars>>

GetCheck ==
  /\ getter = "check" /\ count > 0
  /\ getter' = "copyLo"
  /\ UNCHANGED <<head, getReg, rx, received, failed, count, sem, low, addVars>>

\* memcpy out of the slot at head, first half.
GetCopyLo ==
  /\ getter = "copyLo"
  /\ rx' = [rx EXCEPT !.lo = slot[head].lo]
  /\ getter' = "copyHi"
  /\ UNCHANGED <<head, getReg, received, failed, count, sem, low, addVars>>

\* Seeded fault: head is not wrapped.
GetCopyHiNoWrap ==
  /\ getter = "copyHi"
  /\ rx' = [rx EXCEPT !.hi = slot[head].hi]
  /\ head' = head + 1
  /\ received' = received + 1
  /\ getter' = "load"
  /\ UNCHANGED <<getReg, failed, count, sem, low, addVars>>

\* memcpy, second half, and the step of head.
GetCopyHi ==
  /\ getter = "copyHi"
  /\ rx' = [rx EXCEPT !.hi = slot[head].hi]
  /\ head' = (head + 1) % QUEUE_SIZE
  /\ received' = received + 1
  /\ getter' = "load"
  /\ UNCHANGED <<getReg, failed, count, sem, low, addVars>>

\* count--: the load.
GetLoad ==
  /\ getter = "load"
  /\ getReg' = count
  /\ getter' = "store"
  /\ UNCHANGED <<head, rx, received, failed, count, sem, low, addVars>>

\* count--: the store, and return 0.
GetStore ==
  /\ getter = "store"
  /\ count' = getReg - 1
  /\ getter' = "wait"
  /\ UNCHANGED <<head, getReg, rx, received, failed, sem, addVars>>
  /\ low' = (low \/ Drift' < 0)

Queue_getNext ==
  GetWait \/ GetEmpty \/ GetCheck \/ GetCopyLo \/ GetCopyHi \/ GetLoad \/ GetStore

Next == AddCheck \/ AddFull \/ Queue_add \/ Queue_getNext

Spec == Init /\ [][Next]_vars

----------------------------------------------------------------------------
(* Properties. *)

\* Every variable has its type; the indices stay inside the ring.
TypeOK ==
  /\ slot \in [0 .. QUEUE_SIZE - 1 -> Halves]
  /\ head \in 0 .. QUEUE_SIZE - 1
  /\ tail \in 0 .. QUEUE_SIZE - 1
  /\ count \in Int
  /\ sem \in Nat
  /\ adder \in {"idle", "copyLo", "copyHi", "load", "store", "post"}
  /\ addReg \in Int
  /\ getter \in {"wait", "check", "copyLo", "copyHi", "load", "store"}
  /\ getReg \in Int
  /\ rx \in Halves
  /\ sent \in Nat /\ received \in Nat /\ failed \in Nat
  /\ low \in BOOLEAN

\* However the loads and stores of count++ and count-- interleave, a stale
\* store never takes count out of 0 .. QUEUE_SIZE: the checks of both
\* functions keep every register inside the range.
CountInRange == count \in 0 .. QUEUE_SIZE

\* Telegrams in the ring, and tokens of the semaphore for them.  The task has
\* one telegram in the ring before it posts; the gateway thread has one token
\* before it takes a telegram out.
Posted  == sent - (IF adder \in {"load", "store", "post"} THEN 1 ELSE 0)
Pending == sem + (IF getter \in {"check", "copyLo", "copyHi"} THEN 1 ELSE 0)

\* A call of Queue_getNext that returns -1 ("Fila vazia") never finds the ring
\* empty: it spends the token of a telegram that is there, and from then on
\* exactly that many telegrams stay in the ring with no token to fetch them.
FailedGetStrandsOne == Posted = received + failed + Pending

\* As long as no increment of count was lost, every telegram in the ring has its
\* token and Queue_getNext does not fail (Queue.c:29-32): the gateway thread
\* sleeps in sem_wait only over a ring that it has emptied.
SleepsOnlyWhenEmpty ==
  ~low /\ getter = "wait" /\ sem = 0 => received = Posted

\* The gateway thread never hands on an old or an unwritten telegram: what it
\* copied is the telegram whose turn it was, or one that overwrote it later.
NeverStale ==
  getter \in {"load", "store"} => rx.lo >= received - 1 /\ rx.hi >= received - 1

\* As long as count has not been below the updates made to it (no increment
\* was lost), telegrams leave the ring one by one in the order they were
\* queued, none is overwritten in the ring and none is torn.
FifoUntilLow ==
  ~low /\ getter \in {"load", "store"} => rx = Whole(received - 1)

\* Queue.h calls count the number of elements in the queue: when neither
\* thread is inside the queue it is the number of telegrams in the ring.
CountIsNumberOfElements ==
  adder = "idle" /\ getter = "wait" => count = sent - received

=============================================================================
