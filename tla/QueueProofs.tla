---------------------------- MODULE QueueProofs ----------------------------
(***************************************************************************)
(* What holds of the queue for every ring size and every number of         *)
(* telegrams: the types, the range of count, the account of the tokens     *)
(* that failed calls spend, the order of the telegrams.                    *)
(***************************************************************************)
EXTENDS Queue, TLAPS

----------------------------------------------------------------------------
(* Arithmetic of the ring's indices. *)

\* The index of a telegram (Queue.c:20, 34): a remainder below n is the one.
LEMMA ModUnique ==
  ASSUME NEW n \in Nat \ {0}, NEW q \in Nat, NEW r \in 0 .. n - 1
  PROVE  ((q * n) + r) % n = r
  OBVIOUS

\* A number is a multiple of n and its remainder.
LEMMA ModSplit ==
  ASSUME NEW n \in Nat \ {0}, NEW a \in Nat
  PROVE  /\ a % n \in 0 .. n - 1
         /\ \E q \in Nat : a = (q * n) + (a % n)
<1>1. a % n \in 0 .. n - 1
  OBVIOUS
<1>2. a = ((a \div n) * n) + (a % n)
  OBVIOUS
<1>3. a \div n \in Nat
  OBVIOUS
<1>4. QED
  BY <1>1, <1>2, <1>3

\* Stepping the index round the ring is the index of the next number.
LEMMA ModSucc ==
  ASSUME NEW n \in Nat \ {0}, NEW a \in Nat
  PROVE  (a + 1) % n = ((a % n) + 1) % n
<1>1. PICK q \in Nat : a = (q * n) + (a % n)
  BY ModSplit
<1>2. a % n \in 0 .. n - 1
  BY ModSplit
<1>3. CASE (a % n) + 1 < n
  <2>1. ((q * n) + ((a % n) + 1)) % n = (a % n) + 1
    BY ModUnique, <1>2, <1>3
  <2>2. (a % n) + 1 = ((a % n) + 1) % n
    BY <1>2, <1>3
  <2>3. a + 1 = (q * n) + ((a % n) + 1)
    BY <1>1, <1>2
  <2>4. QED
    BY <2>1, <2>2, <2>3
<1>4. CASE (a % n) + 1 = n
  <2>1. a + 1 = ((q + 1) * n) + 0
    BY <1>1, <1>4
  <2>2. (((q + 1) * n) + 0) % n = 0
    BY ModUnique
  <2>3. n % n = 0
    OBVIOUS
  <2>4. QED
    BY <2>1, <2>2, <2>3, <1>4
<1>5. QED
  BY <1>2, <1>3, <1>4

\* Fewer than n numbers in a row have different slots of the ring.
LEMMA ModDistinct ==
  ASSUME NEW n \in Nat \ {0}, NEW a \in Nat, NEW b \in Nat, a < b, b < a + n
  PROVE  a % n # b % n
<1>1. PICK p \in Nat : a = (p * n) + (a % n)
  BY ModSplit
<1>2. PICK q \in Nat : b = (q * n) + (b % n)
  BY ModSplit
<1>3. SUFFICES ASSUME a % n = b % n PROVE FALSE
  OBVIOUS
<1>4. a % n \in 0 .. n - 1
  BY ModSplit
<1>5. b - a = (q - p) * n
  BY <1>1, <1>2, <1>3, <1>4
<1>6. q - p >= 1 \/ q - p <= 0
  OBVIOUS
<1>7. CASE q - p >= 1
  <2>1. (q - p) * n >= n
    BY <1>7
  <2>2. QED
    BY <2>1, <1>5
<1>8. CASE q - p <= 0
  <2>1. (q - p) * n <= 0
    BY <1>8
  <2>2. QED
    BY <2>1, <1>5
<1>9. QED
  BY <1>6, <1>7, <1>8

----------------------------------------------------------------------------
(* Types. *)

\* One step of either thread keeps every variable in its type.
LEMMA TypeStep ==
  ASSUME TypeOK, [Next]_vars
  PROVE  TypeOK'
<1> USE QueueAssumption DEF TypeOK, Halves, Number, Blank, Whole
<1>1. CASE AddCheck
  BY <1>1 DEF AddCheck, getVars
<1>2. CASE AddFull
  BY <1>2 DEF AddFull, vars
<1>3. CASE AddCopyLo
  BY <1>3 DEF AddCopyLo, getVars
<1>4. CASE AddCopyHi
  <2>1. tail' \in 0 .. QUEUE_SIZE - 1
    <3>1. (tail + 1) % QUEUE_SIZE \in 0 .. QUEUE_SIZE - 1
      BY ModSplit
    <3>2. QED
      BY <3>1, <1>4, Zenon DEF AddCopyHi
  <2>2. slot' \in [0 .. QUEUE_SIZE - 1 -> Halves]
    BY <1>4 DEF AddCopyHi
  <2>3. sent' = sent + 1 /\ adder' = "load" /\ UNCHANGED <<addReg, count, sem, low, getVars>>
    BY <1>4 DEF AddCopyHi
  <2>4. QED
    BY <2>1, <2>2, <2>3 DEF getVars
<1>5. CASE AddLoad
  BY <1>5 DEF AddLoad, getVars
<1>6. CASE AddStore
  BY <1>6 DEF AddStore, getVars
<1>7. CASE AddPost
  BY <1>7 DEF AddPost, getVars
<1>8. CASE GetWait
  BY <1>8 DEF GetWait, addVars
<1>9. CASE GetEmpty
  BY <1>9 DEF GetEmpty, addVars
<1>10. CASE GetCheck
  BY <1>10 DEF GetCheck, addVars
<1>11. CASE GetCopyLo
  BY <1>11 DEF GetCopyLo, addVars
<1>12. CASE GetCopyHi
  <2>1. head' \in 0 .. QUEUE_SIZE - 1
    <3>1. (head + 1) % QUEUE_SIZE \in 0 .. QUEUE_SIZE - 1
      BY ModSplit
    <3>2. QED
      BY <3>1, <1>12, Zenon DEF GetCopyHi
  <2>2. rx' \in Halves
    BY <1>12 DEF GetCopyHi
  <2>3. /\ received' = received + 1 /\ getter' = "load"
        /\ UNCHANGED <<getReg, failed, count, sem, low, addVars>>
    BY <1>12 DEF GetCopyHi
  <2>4. QED
    BY <2>1, <2>2, <2>3 DEF addVars
<1>13. CASE GetLoad
  BY <1>13 DEF GetLoad, addVars
<1>14. CASE GetStore
  BY <1>14 DEF GetStore, addVars
<1>15. CASE UNCHANGED vars
  BY <1>15 DEF vars
<1>16. QED
  BY <1>1, <1>2, <1>3, <1>4, <1>5, <1>6, <1>7, <1>8, <1>9, <1>10, <1>11,
     <1>12, <1>13, <1>14, <1>15
  DEF Next, Queue_add, Queue_getNext

\* Every variable keeps its type, whatever the size of the ring.
THEOREM QueueTypes == Spec => []TypeOK
<1>1. Init => TypeOK
  <2>1. Whole(Blank) \in Halves
    BY DEF Halves, Number, Blank, Whole
  <2>2. SUFFICES ASSUME Init PROVE TypeOK
    OBVIOUS
  <2>3. slot \in [0 .. QUEUE_SIZE - 1 -> Halves] /\ rx \in Halves
    BY <2>1, <2>2 DEF Init
  <2>4. head \in 0 .. QUEUE_SIZE - 1 /\ tail \in 0 .. QUEUE_SIZE - 1
    BY <2>2, QueueAssumption DEF Init
  <2>5. /\ count \in Int /\ sem \in Nat /\ addReg \in Int /\ getReg \in Int
        /\ sent \in Nat /\ received \in Nat /\ failed \in Nat
    <3>1. /\ count = 0 /\ sem = 0 /\ addReg = 0 /\ getReg = 0
          /\ sent = 0 /\ received = 0 /\ failed = 0
      BY <2>2 DEF Init
    <3>2. QED
      BY <3>1
  <2>6. /\ adder \in {"idle", "copyLo", "copyHi", "load", "store", "post"}
        /\ getter \in {"wait", "check", "copyLo", "copyHi", "load", "store"}
        /\ low \in BOOLEAN
    BY <2>2, Zenon DEF Init
  <2>7. QED
    BY <2>3, <2>4, <2>5, <2>6, Zenon DEF TypeOK
<1>2. TypeOK /\ [Next]_vars => TypeOK'
  BY TypeStep
<1>3. QED
  BY <1>1, <1>2, PTL DEF Spec

----------------------------------------------------------------------------
(* The range of count. *)

\* What each thread knows of count between its check and its store: the
\* other thread can only have moved count away from the limit it checked.
RegistersInRange ==
  /\ adder \in {"copyLo", "copyHi", "load"} => count < QUEUE_SIZE
  /\ adder = "store" => addReg \in 0 .. QUEUE_SIZE - 1
  /\ getter \in {"copyLo", "copyHi", "load"} => count > 0
  /\ getter = "store" => getReg \in 1 .. QUEUE_SIZE

\* One step keeps count in range.  What makes it inductive is what the checks of
\* Queue.c:16 and :30 leave in the other thread's register.
LEMMA RangeStep ==
  ASSUME TypeOK, CountInRange, RegistersInRange, [Next]_vars
  PROVE  CountInRange' /\ RegistersInRange'
<1> USE QueueAssumption DEF TypeOK, CountInRange, RegistersInRange
<1>1. CASE AddCheck
  BY <1>1 DEF AddCheck, getVars
<1>2. CASE AddFull
  BY <1>2 DEF AddFull, vars
<1>3. CASE AddCopyLo
  BY <1>3 DEF AddCopyLo, getVars
<1>4. CASE AddCopyHi
  BY <1>4 DEF AddCopyHi, getVars
<1>5. CASE AddLoad
  BY <1>5 DEF AddLoad, getVars
<1>6. CASE AddStore
  BY <1>6 DEF AddStore, getVars
<1>7. CASE AddPost
  BY <1>7 DEF AddPost, getVars
<1>8. CASE GetWait
  BY <1>8 DEF GetWait, addVars
<1>9. CASE GetEmpty
  BY <1>9 DEF GetEmpty, addVars
<1>10. CASE GetCheck
  BY <1>10 DEF GetCheck, addVars
<1>11. CASE GetCopyLo
  BY <1>11 DEF GetCopyLo, addVars
<1>12. CASE GetCopyHi
  BY <1>12 DEF GetCopyHi, addVars
<1>13. CASE GetLoad
  BY <1>13 DEF GetLoad, addVars
<1>14. CASE GetStore
  BY <1>14 DEF GetStore, addVars
<1>15. CASE UNCHANGED vars
  BY <1>15 DEF vars
<1>16. QED
  BY <1>1, <1>2, <1>3, <1>4, <1>5, <1>6, <1>7, <1>8, <1>9, <1>10, <1>11,
     <1>12, <1>13, <1>14, <1>15
  DEF Next, Queue_add, Queue_getNext

\* No interleaving of count++ and count-- takes count out of the ring's range.
THEOREM QueueCountInRange == Spec => []CountInRange
<1>1. Init => CountInRange /\ RegistersInRange
  BY QueueAssumption DEF Init, CountInRange, RegistersInRange
<1>2. TypeOK /\ CountInRange /\ RegistersInRange /\ [Next]_vars
        => CountInRange' /\ RegistersInRange'
  BY RangeStep
<1>3. QED
  BY <1>1, <1>2, QueueTypes, PTL DEF Spec

----------------------------------------------------------------------------
(* The account of telegrams and tokens. *)

\* One step keeps the account of the telegrams and their tokens.
LEMMA AccountStep ==
  ASSUME TypeOK, FailedGetStrandsOne, [Next]_vars
  PROVE  FailedGetStrandsOne'
<1> USE DEF TypeOK, FailedGetStrandsOne, Posted, Pending
<1>1. CASE AddCheck
  BY <1>1 DEF AddCheck, getVars
<1>2. CASE AddFull
  BY <1>2 DEF AddFull, vars
<1>3. CASE AddCopyLo
  BY <1>3 DEF AddCopyLo, getVars
<1>4. CASE AddCopyHi
  BY <1>4 DEF AddCopyHi, getVars
<1>5. CASE AddLoad
  BY <1>5 DEF AddLoad, getVars
<1>6. CASE AddStore
  BY <1>6 DEF AddStore, getVars
<1>7. CASE AddPost
  BY <1>7 DEF AddPost, getVars
<1>8. CASE GetWait
  BY <1>8 DEF GetWait, addVars
<1>9. CASE GetEmpty
  BY <1>9 DEF GetEmpty, addVars
<1>10. CASE GetCheck
  BY <1>10 DEF GetCheck, addVars
<1>11. CASE GetCopyLo
  BY <1>11 DEF GetCopyLo, addVars
<1>12. CASE GetCopyHi
  BY <1>12 DEF GetCopyHi, addVars
<1>13. CASE GetLoad
  BY <1>13 DEF GetLoad, addVars
<1>14. CASE GetStore
  BY <1>14 DEF GetStore, addVars
<1>15. CASE UNCHANGED vars
  BY <1>15 DEF vars
<1>16. QED
  BY <1>1, <1>2, <1>3, <1>4, <1>5, <1>6, <1>7, <1>8, <1>9, <1>10, <1>11,
     <1>12, <1>13, <1>14, <1>15
  DEF Next, Queue_add, Queue_getNext

\* A failed call of Queue_getNext always leaves one more telegram in the ring
\* than there are tokens for.
THEOREM QueueFailedGetStrandsOne == Spec => []FailedGetStrandsOne
<1>1. Init => FailedGetStrandsOne
  <2>1. SUFFICES ASSUME Init PROVE FailedGetStrandsOne
    OBVIOUS
  <2>2. /\ adder \notin {"load", "store", "post"}
        /\ getter \notin {"check", "copyLo", "copyHi"}
    BY <2>1, Zenon DEF Init
  <2>3. sent = 0 /\ received = 0 /\ failed = 0 /\ sem = 0
    BY <2>1 DEF Init
  <2>4. Posted = sent - 0 /\ Pending = sem + 0
    BY <2>2, Zenon DEF Posted, Pending
  <2>5. QED
    BY <2>3, <2>4 DEF FailedGetStrandsOne
<1>2. TypeOK /\ FailedGetStrandsOne /\ [Next]_vars => FailedGetStrandsOne'
  BY AccountStep
<1>3. QED
  BY <1>1, <1>2, QueueTypes, PTL DEF Spec

----------------------------------------------------------------------------
(* What the gateway thread reads. *)

\* There is a telegram in the ring whenever the gateway thread copies one.
LEMMA TelegramIsThere ==
  ASSUME TypeOK, FailedGetStrandsOne, getter \in {"copyLo", "copyHi"}
  PROVE  received < sent
BY DEF TypeOK, FailedGetStrandsOne, Posted, Pending

\* The indices follow the telegrams, and a slot that holds a telegram not yet
\* taken holds that one or a later one.
SlotsFresh ==
  /\ head = received % QUEUE_SIZE
  /\ tail = sent % QUEUE_SIZE
  /\ \A p \in Nat : received <= p /\ p < sent =>
       slot[p % QUEUE_SIZE].lo >= p /\ slot[p % QUEUE_SIZE].hi >= p
  /\ adder = "copyHi" => slot[tail].lo = sent
  /\ getter = "copyHi" => rx.lo >= received

\* One step keeps every slot between head and tail, and what the gateway thread
\* has copied of one, at least as new as the telegram whose turn it is.
LEMMA FreshStep ==
  ASSUME TypeOK, FailedGetStrandsOne, SlotsFresh, NeverStale, [Next]_vars
  PROVE  SlotsFresh' /\ NeverStale'
<1> USE QueueAssumption DEF TypeOK, SlotsFresh, NeverStale, Halves, Number, Blank
<1>1. CASE AddCheck
  BY <1>1 DEF AddCheck, getVars
<1>2. CASE AddFull
  BY <1>2 DEF AddFull, vars
<1>3. CASE AddCopyLo
  <2>1. slot' = [slot EXCEPT ![tail].lo = sent] /\ adder' = "copyHi"
    BY <1>3 DEF AddCopyLo
  <2>2. UNCHANGED <<head, tail, sent, received, getter, rx>>
    BY <1>3 DEF AddCopyLo, getVars
  <2>3. ASSUME NEW p \in Nat, received <= p, p < sent
        PROVE  slot'[p % QUEUE_SIZE].lo >= p /\ slot'[p % QUEUE_SIZE].hi >= p
    <3>1. p % QUEUE_SIZE \in 0 .. QUEUE_SIZE - 1
      BY ModSplit
    <3>2. QED
      BY <2>1, <2>3, <3>1
  <2>4. slot'[tail].lo = sent
    BY <2>1
  <2>5. QED
    BY <2>1, <2>2, <2>3, <2>4
<1>4. CASE AddCopyHi
  <2>1. /\ slot' = [slot EXCEPT ![tail].hi = sent] /\ adder' = "load"
        /\ sent' = sent + 1
    BY <1>4 DEF AddCopyHi
  <2>2. UNCHANGED <<head, received, getter, rx>>
    BY <1>4 DEF AddCopyHi, getVars
  <2>3. tail' = sent' % QUEUE_SIZE
    BY <1>4, ModSucc DEF AddCopyHi
  <2>4. slot[tail].lo = sent
    BY <1>4 DEF AddCopyHi
  <2>5. ASSUME NEW p \in Nat, received <= p, p < sent'
        PROVE  slot'[p % QUEUE_SIZE].lo >= p /\ slot'[p % QUEUE_SIZE].hi >= p
    <3>1. p % QUEUE_SIZE \in 0 .. QUEUE_SIZE - 1
      BY ModSplit
    <3>2. CASE p = sent
      <4>1. p % QUEUE_SIZE = tail
        BY <3>2
      <4>2. slot'[tail].lo = sent /\ slot'[tail].hi = sent
        BY <2>1, <2>4
      <4>3. QED
        BY <3>2, <4>1, <4>2
    <3>3. CASE p < sent
      <4>1. /\ slot[p % QUEUE_SIZE].lo >= p
            /\ slot[p % QUEUE_SIZE].hi >= p
        BY <3>3, <2>5, Zenon
      <4>2. QED
        BY <4>1, <3>1, <3>3, <2>1, SMTT(30)
    <3>4. p = sent \/ p < sent
      BY <2>1, <2>5, SMTT(30)
    <3>5. QED
      BY <3>2, <3>3, <3>4, Zenon
  <2>6. QED
    BY <2>1, <2>2, <2>3, <2>5
<1>5. CASE AddLoad
  BY <1>5 DEF AddLoad, getVars
<1>6. CASE AddStore
  BY <1>6 DEF AddStore, getVars
<1>7. CASE AddPost
  BY <1>7 DEF AddPost, getVars
<1>8. CASE GetWait
  BY <1>8 DEF GetWait, addVars
<1>9. CASE GetEmpty
  BY <1>9 DEF GetEmpty, addVars
<1>10. CASE GetCheck
  BY <1>10 DEF GetCheck, addVars
<1>11. CASE GetCopyLo
  <2>1. rx' = [rx EXCEPT !.lo = slot[head].lo] /\ getter' = "copyHi"
    BY <1>11 DEF GetCopyLo
  <2>2. UNCHANGED <<slot, head, tail, sent, received, adder>>
    BY <1>11 DEF GetCopyLo, addVars
  <2>3. received < sent
    BY <1>11, TelegramIsThere DEF GetCopyLo
  <2>4. slot[head].lo >= received
    <3>1. received \in Nat /\ received <= received
      OBVIOUS
    <3>2. slot[received % QUEUE_SIZE].lo >= received
      BY <2>3, <3>1, Zenon
    <3>3. QED
      BY <3>2
  <2>5. QED
    BY <2>1, <2>2, <2>4
<1>12. CASE GetCopyHi
  <2>1. /\ rx' = [rx EXCEPT !.hi = slot[head].hi] /\ getter' = "load"
        /\ received' = received + 1
    BY <1>12 DEF GetCopyHi
  <2>2. UNCHANGED <<slot, tail, sent, adder>>
    BY <1>12 DEF GetCopyHi, addVars
  <2>3. received < sent
    BY <1>12, TelegramIsThere DEF GetCopyHi
  <2>4. slot[head].hi >= received /\ rx.lo >= received
    <3>1. received \in Nat /\ received <= received
      OBVIOUS
    <3>2. slot[received % QUEUE_SIZE].hi >= received
      BY <2>3, <3>1, Zenon
    <3>3. getter = "copyHi"
      BY <1>12 DEF GetCopyHi
    <3>4. QED
      BY <3>2, <3>3
  <2>5. head' = received' % QUEUE_SIZE
    BY <1>12, ModSucc DEF GetCopyHi
  <2>6. NeverStale'
    <3>1. rx'.lo = rx.lo /\ rx'.hi = slot[head].hi
      BY <2>1
    <3>2. received' - 1 = received
      BY <2>1
    <3>3. QED
      BY <3>1, <3>2, <2>4, Zenon
  <2>7. SlotsFresh'
    <3>1. tail' = sent' % QUEUE_SIZE
      BY <2>2
    <3>2. ASSUME NEW p \in Nat, received' <= p, p < sent'
          PROVE  slot'[p % QUEUE_SIZE].lo >= p /\ slot'[p % QUEUE_SIZE].hi >= p
      <4>1. received <= p /\ p < sent
        <5>1. received' = received + 1 /\ received \in Nat /\ sent' = sent
          BY <2>1, <2>2, Zenon
        <5>2. QED
          BY <5>1, <3>2
      <4>2. QED
        BY <4>1, <2>2, Zenon
    <3>3. adder' = "copyHi" => slot'[tail'].lo = sent'
      BY <2>2, Zenon
    <3>4. getter' # "copyHi"
      BY <2>1, Zenon
    <3>5. QED
      BY <2>5, <3>1, <3>2, <3>3, <3>4, Zenon
  <2>8. QED
    BY <2>6, <2>7
<1>13. CASE GetLoad
  BY <1>13 DEF GetLoad, addVars
<1>14. CASE GetStore
  BY <1>14 DEF GetStore, addVars
<1>15. CASE UNCHANGED vars
  BY <1>15 DEF vars
<1>16. QED
  BY <1>1, <1>2, <1>3, <1>4, <1>5, <1>6, <1>7, <1>8, <1>9, <1>10, <1>11,
     <1>12, <1>13, <1>14, <1>15
  DEF Next, Queue_add, Queue_getNext

\* Nothing the gateway thread hands on is older than the telegram whose turn
\* it was, lost updates of count or not.
THEOREM QueueNeverStale == Spec => []NeverStale
<1>1. Init => SlotsFresh /\ NeverStale
  <2>1. 0 % QUEUE_SIZE = 0
    BY QueueAssumption
  <2>2. QED
    BY <2>1 DEF Init, SlotsFresh, NeverStale
<1>2. TypeOK /\ FailedGetStrandsOne /\ SlotsFresh /\ NeverStale /\ [Next]_vars
        => SlotsFresh' /\ NeverStale'
  BY FreshStep
<1>3. QED
  BY <1>1, <1>2, QueueTypes, QueueFailedGetStrandsOne, PTL DEF Spec

----------------------------------------------------------------------------
(* The order of the telegrams while no increment is lost. *)

\* While low is FALSE, count is not below the updates made to it, so a task that
\* has passed its check has room for its telegram.
RoomLeft ==
  ~low =>
    /\ Drift >= 0
    /\ adder \in {"copyLo", "copyHi"} => sent - Decrements < QUEUE_SIZE

\* One step keeps the room: Drift changes with the stores alone, and low tells
\* when it gets negative.
LEMMA RoomStep ==
  ASSUME TypeOK, RoomLeft, [Next]_vars
  PROVE  RoomLeft'
<1> USE QueueAssumption DEF TypeOK, RoomLeft, Drift, Increments, Decrements
<1>1. CASE AddCheck
  BY <1>1 DEF AddCheck, getVars
<1>2. CASE AddFull
  BY <1>2 DEF AddFull, vars
<1>3. CASE AddCopyLo
  BY <1>3 DEF AddCopyLo, getVars
<1>4. CASE AddCopyHi
  BY <1>4 DEF AddCopyHi, getVars
<1>5. CASE AddLoad
  BY <1>5 DEF AddLoad, getVars
<1>6. CASE AddStore
  <2>1. low' = (low \/ Drift' < 0)
    BY <1>6 DEF AddStore
  <2>2. Drift' \in Int
    <3>1. /\ count' = addReg + 1 /\ UNCHANGED <<sent, received>>
      BY <1>6 DEF AddStore, getVars
    <3>2. Increments' \in Int /\ Decrements' \in Int
      BY <3>1
    <3>3. QED
      BY <3>1, <3>2
  <2>3. ~low' => ~low /\ Drift' >= 0
    <3>1. ~low' => ~low /\ ~(Drift' < 0)
      BY <2>1, Zenon
    <3> HIDE DEF Drift
    <3>2. ~(Drift' < 0) => Drift' >= 0
      BY <2>2
    <3>3. QED
      BY <3>1, <3>2, Zenon
  <2>4. adder' = "post"
    BY <1>6 DEF AddStore
  <2>5. QED
    <3> HIDE DEF Drift
    <3>1. QED
      BY <2>3, <2>4
<1>7. CASE AddPost
  BY <1>7 DEF AddPost, getVars
<1>8. CASE GetWait
  BY <1>8 DEF GetWait, addVars
<1>9. CASE GetEmpty
  BY <1>9 DEF GetEmpty, addVars
<1>10. CASE GetCheck
  BY <1>10 DEF GetCheck, addVars
<1>11. CASE GetCopyLo
  BY <1>11 DEF GetCopyLo, addVars
<1>12. CASE GetCopyHi
  <2>1. /\ getter = "copyHi" /\ getter' = "load" /\ received' = received + 1
        /\ UNCHANGED <<count, adder, sent, low>>
    BY <1>12 DEF GetCopyHi, addVars
  <2>2. Decrements' = Decrements /\ Increments' = Increments
    BY <2>1
  <2>3. QED
    BY <2>1, <2>2
<1>13. CASE GetLoad
  BY <1>13 DEF GetLoad, addVars
<1>14. CASE GetStore
  <2>1. low' = (low \/ Drift' < 0)
    BY <1>14 DEF GetStore
  <2>2. /\ count' = getReg - 1 /\ getter = "store" /\ getter' = "wait"
        /\ UNCHANGED <<sent, received, adder>>
    BY <1>14 DEF GetStore, addVars
  <2>3. Decrements' = Decrements + 1 /\ Increments' = Increments
    BY <2>2
  <2>4. Drift' \in Int
    BY <2>2, <2>3
  <2>5. ~low' => ~low /\ Drift' >= 0
    <3>1. ~low' => ~low /\ ~(Drift' < 0)
      BY <2>1, Zenon
    <3> HIDE DEF Drift
    <3>2. ~(Drift' < 0) => Drift' >= 0
      BY <2>4
    <3>3. QED
      BY <3>1, <3>2, Zenon
  <2>6. ~low' /\ adder' \in {"copyLo", "copyHi"} => sent' - Decrements' < QUEUE_SIZE
    <3>1. Decrements \in Int
      OBVIOUS
    <3> HIDE DEF Drift, Decrements
    <3>2. QED
      BY <2>2, <2>3, <2>5, <3>1
  <2>7. QED
    <3> HIDE DEF Drift, Decrements
    <3>1. QED
      BY <2>5, <2>6
<1>15. CASE UNCHANGED vars
  BY <1>15 DEF vars
<1>16. QED
  BY <1>1, <1>2, <1>3, <1>4, <1>5, <1>6, <1>7, <1>8, <1>9, <1>10, <1>11,
     <1>12, <1>13, <1>14, <1>15
  DEF Next, Queue_add, Queue_getNext

\* What keeps Queue_getNext from failing: the task posts a telegram only after it
\* has counted it, so a count that is not below its updates is positive whenever
\* the gateway thread has a token (Queue.c:21-22, 29-30).
LEMMA TokenMeansCounted ==
  ASSUME TypeOK, FailedGetStrandsOne, RoomLeft, ~low, getter = "check"
  PROVE  count > 0
<1> USE DEF TypeOK
<1>1. Posted = received + failed + Pending /\ Pending = sem + 1
  BY DEF FailedGetStrandsOne, Pending
<1>2. Posted <= Increments /\ Increments \in Int
  BY DEF Posted, Increments
<1>3. Decrements = received - 0
  BY DEF Decrements
<1>4. count - (Increments - Decrements) >= 0
  BY DEF RoomLeft, Drift
<1>5. QED
  <2> HIDE DEF Increments, Decrements, Posted, Pending
  <2>1. Posted >= received + 1 /\ Posted \in Int
    BY <1>1
  <2>2. QED
    BY <1>2, <1>3, <1>4, <2>1

\* Not one call of Queue_getNext has failed while low is FALSE.
NoneFailed == ~low => failed = 0

\* One step keeps that: low is never taken back, and the failing return is the
\* one step that could break it.
LEMMA NoneFailedStep ==
  ASSUME TypeOK, FailedGetStrandsOne, RoomLeft, NoneFailed, [Next]_vars
  PROVE  NoneFailed'
<1>1. CASE GetEmpty
  <2>1. low' = low /\ getter = "check" /\ ~(count > 0)
    BY <1>1 DEF GetEmpty, TypeOK
  <2>2. QED
    BY <2>1, TokenMeansCounted DEF NoneFailed
<1>2. CASE AddCheck \/ AddFull \/ Queue_add
  BY <1>2 DEF NoneFailed, AddCheck, AddFull, Queue_add, AddCopyLo, AddCopyHi,
              AddLoad, AddStore, AddPost, getVars, vars
<1>3. CASE GetWait \/ GetCheck \/ GetCopyLo \/ GetCopyHi \/ GetLoad \/ GetStore
  BY <1>3 DEF NoneFailed, GetWait, GetCheck, GetCopyLo, GetCopyHi, GetLoad, GetStore
<1>4. CASE UNCHANGED vars
  BY <1>4 DEF NoneFailed, vars
<1>5. QED
  BY <1>1, <1>2, <1>3, <1>4 DEF Next, Queue_getNext

\* Until an increment of count is lost the gateway thread never sleeps over a
\* telegram, for every ring size and whatever decrements are lost.
THEOREM QueueSleepsOnlyWhenEmpty == Spec => []SleepsOnlyWhenEmpty
<1>1. Init => RoomLeft /\ NoneFailed
  <2> SUFFICES ASSUME Init PROVE RoomLeft /\ NoneFailed
    OBVIOUS
  <2>1. /\ count = 0 /\ sent = 0 /\ received = 0 /\ failed = 0
        /\ adder = "idle" /\ getter = "wait"
    BY DEF Init
  <2>2. QED
    BY <2>1 DEF RoomLeft, Drift, Increments, Decrements, NoneFailed
<1>2. TypeOK /\ FailedGetStrandsOne /\ RoomLeft /\ NoneFailed /\ [Next]_vars
        => RoomLeft' /\ NoneFailed'
  BY RoomStep, NoneFailedStep
<1>3. ASSUME TypeOK, FailedGetStrandsOne, NoneFailed
      PROVE  SleepsOnlyWhenEmpty
  <2> SUFFICES ASSUME ~low, getter = "wait", sem = 0 PROVE received = Posted
    BY DEF SleepsOnlyWhenEmpty
  <2>1. failed = 0 /\ Pending = 0 + 0 /\ received \in Nat
    BY <1>3 DEF NoneFailed, Pending, TypeOK
  <2>2. Posted = received + failed + Pending
    BY <1>3 DEF FailedGetStrandsOne
  <2>3. QED
    BY <2>1, <2>2
<1>4. QED
  BY <1>1, <1>2, <1>3, QueueTypes, QueueFailedGetStrandsOne, PTL DEF Spec

\* While low is FALSE, each slot between head and tail holds its own telegram
\* whole, and so does what the gateway thread has copied.
SlotsExact ==
  ~low =>
    /\ \A p \in Nat : received <= p /\ p < sent => slot[p % QUEUE_SIZE] = Whole(p)
    /\ getter = "copyHi" => rx.lo = received
    /\ getter \in {"load", "store"} => rx = Whole(received - 1)

\* One step keeps the slots: a telegram is written to a slot that none of the
\* others between head and tail has.
LEMMA ExactStep ==
  ASSUME TypeOK, FailedGetStrandsOne, SlotsFresh, RoomLeft, SlotsExact, [Next]_vars
  PROVE  SlotsExact'
<1> USE QueueAssumption DEF TypeOK, SlotsExact, Halves, Number, Blank, Whole
<1>1. CASE AddCheck
  BY <1>1 DEF AddCheck, getVars
<1>2. CASE AddFull
  BY <1>2 DEF AddFull, vars
<1>3. CASE AddCopyLo
  <2>1. slot' = [slot EXCEPT ![tail].lo = sent]
    BY <1>3 DEF AddCopyLo
  <2>2. UNCHANGED <<sent, received, getter, rx, low>>
    BY <1>3 DEF AddCopyLo, getVars
  <2>3. ASSUME ~low, NEW p \in Nat, received <= p, p < sent
        PROVE  slot'[p % QUEUE_SIZE] = Whole(p)
    <3>1. sent < received + QUEUE_SIZE
      BY <1>3, <2>3, SMTT(30) DEF AddCopyLo, RoomLeft, Decrements
    <3>2. p % QUEUE_SIZE # tail
      <4>1. sent \in Nat /\ p < sent /\ sent < p + QUEUE_SIZE
        BY <2>3, <3>1
      <4>2. p % QUEUE_SIZE # sent % QUEUE_SIZE
        BY <4>1, ModDistinct
      <4>3. QED
        BY <4>2 DEF SlotsFresh
    <3>3. p % QUEUE_SIZE \in 0 .. QUEUE_SIZE - 1
      BY ModSplit
    <3>4. slot[p % QUEUE_SIZE] = Whole(p)
      BY <2>3
    <3>5. QED
      BY <2>1, <3>2, <3>3, <3>4
  <2>4. QED
    BY <2>2, <2>3
<1>4. CASE AddCopyHi
  <2>1. slot' = [slot EXCEPT ![tail].hi = sent] /\ sent' = sent + 1
    BY <1>4 DEF AddCopyHi
  <2>2. UNCHANGED <<received, getter, rx, low>>
    BY <1>4 DEF AddCopyHi, getVars
  <2>3. ASSUME ~low, NEW p \in Nat, received <= p, p < sent + 1
        PROVE  slot'[p % QUEUE_SIZE] = Whole(p)
    <3>1. CASE p = sent
      <4>1. tail = p % QUEUE_SIZE /\ slot[tail].lo = sent
        BY <1>4, <3>1 DEF AddCopyHi, SlotsFresh
      <4>2. slot'[tail] = [slot[tail] EXCEPT !.hi = sent] /\ slot[tail] \in Halves
        BY <2>1
      <4>3. QED
        BY <3>1, <4>1, <4>2
    <3>2. CASE p < sent
      <4>1. sent < received + QUEUE_SIZE
        BY <1>4, <2>3, SMTT(30) DEF AddCopyHi, RoomLeft, Decrements
      <4>2. p % QUEUE_SIZE # tail
        <5>1. sent \in Nat /\ p < sent /\ sent < p + QUEUE_SIZE
          BY <2>3, <3>2, <4>1
        <5>2. p % QUEUE_SIZE # sent % QUEUE_SIZE
          BY <5>1, ModDistinct
        <5>3. QED
          BY <5>2 DEF SlotsFresh
      <4>3. p % QUEUE_SIZE \in 0 .. QUEUE_SIZE - 1
        BY ModSplit
      <4>4. slot[p % QUEUE_SIZE] = Whole(p)
        BY <2>3, <3>2
      <4>5. QED
        BY <2>1, <4>2, <4>3, <4>4
    <3>3. QED
      BY <2>3, <3>1, <3>2
  <2>4. QED
    BY <2>1, <2>2, <2>3
<1>5. CASE AddLoad
  BY <1>5 DEF AddLoad, getVars
<1>6. CASE AddStore
  BY <1>6 DEF AddStore, getVars
<1>7. CASE AddPost
  BY <1>7 DEF AddPost, getVars
<1>8. CASE GetWait
  BY <1>8 DEF GetWait, addVars
<1>9. CASE GetEmpty
  BY <1>9 DEF GetEmpty, addVars
<1>10. CASE GetCheck
  BY <1>10 DEF GetCheck, addVars
<1>11. CASE GetCopyLo
  <2>1. rx' = [rx EXCEPT !.lo = slot[head].lo] /\ getter' = "copyHi"
    BY <1>11 DEF GetCopyLo
  <2>2. UNCHANGED <<slot, sent, received, low>>
    BY <1>11 DEF GetCopyLo, addVars
  <2>3. ~low => slot[head] = Whole(received)
    BY <1>11, TelegramIsThere DEF GetCopyLo, SlotsFresh
  <2>4. QED
    BY <2>1, <2>2, <2>3
<1>12. CASE GetCopyHi
  <2>1. /\ rx' = [rx EXCEPT !.hi = slot[head].hi] /\ getter' = "load"
        /\ received' = received + 1
    BY <1>12 DEF GetCopyHi
  <2>2. UNCHANGED <<slot, sent, low>>
    BY <1>12 DEF GetCopyHi, addVars
  <2>3. ~low => slot[head] = Whole(received) /\ rx.lo = received
    BY <1>12, TelegramIsThere DEF GetCopyHi, SlotsFresh
  <2>4. ~low => rx' = Whole(received' - 1)
    <3>1. received' - 1 = received /\ rx \in Halves
      BY <2>1
    <3>2. QED
      BY <2>1, <2>3, <3>1, SMTT(30)
  <2>5. ASSUME ~low, NEW p \in Nat, received' <= p, p < sent
        PROVE  slot[p % QUEUE_SIZE] = Whole(p)
    <3>1. received <= p
      BY <2>1, <2>5, SMTT(30)
    <3>2. QED
      BY <2>5, <3>1, SMTT(30)
  <2>6. QED
    BY <2>1, <2>2, <2>4, <2>5
<1>13. CASE GetLoad
  BY <1>13 DEF GetLoad, addVars
<1>14. CASE GetStore
  BY <1>14 DEF GetStore, addVars
<1>15. CASE UNCHANGED vars
  BY <1>15 DEF vars
<1>16. QED
  BY <1>1, <1>2, <1>3, <1>4, <1>5, <1>6, <1>7, <1>8, <1>9, <1>10, <1>11,
     <1>12, <1>13, <1>14, <1>15
  DEF Next, Queue_add, Queue_getNext

\* As long as no increment of count has been lost, Queue_getNext hands on the
\* telegrams of Queue_add whole, in order and without a gap.
THEOREM QueueFifoUntilLow == Spec => []FifoUntilLow
<1>1. Init => SlotsFresh /\ NeverStale /\ RoomLeft /\ SlotsExact
  <2>1. SUFFICES ASSUME Init PROVE SlotsFresh /\ NeverStale /\ RoomLeft /\ SlotsExact
    OBVIOUS
  <2>2. 0 % QUEUE_SIZE = 0
    BY QueueAssumption
  <2>3. SlotsFresh /\ NeverStale
    BY <2>1, <2>2 DEF Init, SlotsFresh, NeverStale
  <2>4. /\ count = 0 /\ sent = 0 /\ received = 0
        /\ adder = "idle" /\ getter = "wait"
    BY <2>1 DEF Init
  <2>5. RoomLeft
    BY <2>4 DEF RoomLeft, Drift, Increments, Decrements
  <2>6. SlotsExact
    BY <2>4 DEF SlotsExact
  <2>7. QED
    BY <2>3, <2>5, <2>6
<1>2. TypeOK /\ FailedGetStrandsOne /\ SlotsFresh /\ NeverStale /\ RoomLeft /\ SlotsExact
      /\ [Next]_vars
        => SlotsFresh' /\ NeverStale' /\ RoomLeft' /\ SlotsExact'
  <2>1. SUFFICES ASSUME TypeOK, FailedGetStrandsOne, SlotsFresh, NeverStale, RoomLeft,
                        SlotsExact, [Next]_vars
                 PROVE  SlotsFresh' /\ NeverStale' /\ RoomLeft' /\ SlotsExact'
    OBVIOUS
  <2>2. SlotsFresh' /\ NeverStale'
    BY <2>1, FreshStep
  <2>3. RoomLeft'
    BY <2>1, RoomStep
  <2>4. SlotsExact'
    BY <2>1, ExactStep
  <2>5. QED
    BY <2>2, <2>3, <2>4
<1>3. SlotsExact => FifoUntilLow
  BY DEF SlotsExact, FifoUntilLow
<1>4. QED
  BY <1>1, <1>2, <1>3, QueueTypes, QueueFailedGetStrandsOne, PTL DEF Spec

=============================================================================
