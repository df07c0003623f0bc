----------------------------- MODULE LogProofs -----------------------------
(***************************************************************************)
(* What holds of the log for every size of the ring: the types, the window *)
(* that the ring and its two numbers stand for, the refinement of          *)
(* LogWindow, and that no exception is forgotten.                          *)
(***************************************************************************)
EXTENDS Log, SequenceTheorems, TLAPS

Slots == 0 .. NUMBER_OF_POINTS - 1

ListType ==
  [dataList : [Slots -> Point], listIndex : Slots,
   numberOfDataOnBuffer : 0 .. NUMBER_OF_POINTS, exceptionHappend : BOOLEAN]

----------------------------------------------------------------------------
(* The ring. *)

\* Every slot List_read looks at is in the ring (List.c:38-42).
LEMMA OldestInRing ==
  ASSUME NEW l \in ListType, NEW k \in 0 .. NUMBER_OF_POINTS
  PROVE  Oldest(l, k) \in Slots
  BY LogAssumption DEF Oldest, ListType, Slots

\* What List_read returns, call after call, is a sequence of as many points as
\* the ring counts (List.c:32-49).
LEMMA ContentsType ==
  ASSUME NEW l \in ListType
  PROVE  /\ Contents(l) \in Seq(Point)
         /\ Len(Contents(l)) = l.numberOfDataOnBuffer
         /\ DOMAIN Contents(l) = 1 .. l.numberOfDataOnBuffer
<1>1. l.numberOfDataOnBuffer \in 0 .. NUMBER_OF_POINTS /\ l.dataList \in [Slots -> Point]
  BY DEF ListType
<1>2. ASSUME NEW j \in 1 .. l.numberOfDataOnBuffer
      PROVE  l.dataList[Oldest(l, l.numberOfDataOnBuffer - j + 1)] \in Point
  <2>1. l.numberOfDataOnBuffer - j + 1 \in 0 .. NUMBER_OF_POINTS
    BY <1>1, LogAssumption
  <2>2. QED
    BY <2>1, <1>1, OldestInRing
<1>3. Contents(l) \in [1 .. l.numberOfDataOnBuffer -> Point]
  BY <1>2 DEF Contents
<1>4. QED
  BY <1>1, <1>3, LogAssumption

\* List_add keeps the index inside the ring and the count within its size
\* (List.c:15-30).
LEMMA ListAddType ==
  ASSUME NEW l \in ListType, NEW d \in Point
  PROVE  ListAdd(l, d) \in ListType
<1>1. d.isException \in BOOLEAN
  BY DEF Point
<1>2. l.listIndex \in Slots /\ l.numberOfDataOnBuffer \in 0 .. NUMBER_OF_POINTS
  BY DEF ListType
<1>3. (IF l.listIndex + 1 >= NUMBER_OF_POINTS THEN 0 ELSE l.listIndex + 1) \in Slots
  BY <1>2, LogAssumption DEF Slots
<1>4. (IF l.numberOfDataOnBuffer < NUMBER_OF_POINTS
         THEN l.numberOfDataOnBuffer + 1 ELSE l.numberOfDataOnBuffer) \in 0 .. NUMBER_OF_POINTS
  BY <1>2, LogAssumption
<1>5. [l.dataList EXCEPT ![l.listIndex] = d] \in [Slots -> Point]
  BY <1>2 DEF ListType
<1>6. (l.exceptionHappend \/ d.isException) \in BOOLEAN
  OBVIOUS
<1>7. QED
  BY <1>3, <1>4, <1>5, <1>6 DEF ListAdd, ListType

\* List_add slides the window: the new point comes last, and the oldest goes if
\* the ring was full (List.c:15-30 read by List.c:32-49).
LEMMA ContentsSlide ==
  ASSUME NEW l \in ListType, NEW d \in Point
  PROVE  Contents(ListAdd(l, d)) = Window!Slide(Contents(l), d)
<1> DEFINE k == l.numberOfDataOnBuffer
           m == ListAdd(l, d)
           old == Contents(l)
           new == Contents(m)
           kept == IF k < NUMBER_OF_POINTS THEN old ELSE Tail(old)
<1>1. k \in 0 .. NUMBER_OF_POINTS /\ l.listIndex \in Slots /\ l.dataList \in [Slots -> Point]
  BY DEF ListType
<1>2. m \in ListType
  BY ListAddType
<1>3. old \in Seq(Point) /\ Len(old) = k
  BY ContentsType
<1>4. new \in Seq(Point) /\ Len(new) = m.numberOfDataOnBuffer
  BY <1>2, ContentsType
<1>5. m.numberOfDataOnBuffer = IF k < NUMBER_OF_POINTS THEN k + 1 ELSE k
  BY DEF ListAdd
<1>6. /\ kept \in Seq(Point)
      /\ Len(kept) = m.numberOfDataOnBuffer - 1
      /\ \A j \in 1 .. Len(kept) : kept[j] = old[IF k < NUMBER_OF_POINTS THEN j ELSE j + 1]
  <2>1. CASE k < NUMBER_OF_POINTS
    BY <2>1, <1>1, <1>3, <1>5
  <2>2. CASE ~(k < NUMBER_OF_POINTS)
    <3>1. k = NUMBER_OF_POINTS /\ k > 0
      BY <2>2, <1>1, LogAssumption
    <3>2. old # <<>>
      BY <3>1, <1>3
    <3>3. /\ Tail(old) \in Seq(Point)
          /\ Len(Tail(old)) = Len(old) - 1
          /\ \A i \in 1 .. Len(Tail(old)) : Tail(old)[i] = old[i + 1]
      BY <1>3, <3>2, HeadTailProperties, Zenon
    <3>4. QED
      BY <2>2, <3>3, <1>3, <1>5
  <2>3. QED
    BY <2>1, <2>2
<1>7. ASSUME NEW j \in 1 .. Len(new)
      PROVE  new[j] = Append(kept, d)[j]
  <2> DEFINE slot == Oldest(m, m.numberOfDataOnBuffer - j + 1)
  <2>1. new[j] = [l.dataList EXCEPT ![l.listIndex] = d][slot]
    BY <1>4 DEF Contents, ListAdd
  <2>2. m.listIndex = IF l.listIndex + 1 >= NUMBER_OF_POINTS THEN 0 ELSE l.listIndex + 1
    BY DEF ListAdd
  <2>3. CASE j = Len(new)
    <3>1. m.numberOfDataOnBuffer - j + 1 = 1
      BY <2>3, <1>1, <1>4, <1>5, LogAssumption
    <3>2. slot = l.listIndex
      BY <3>1, <2>2, <1>1, LogAssumption DEF Oldest, Slots
    <3>3. Append(kept, d)[j] = d
      BY <1>4, <1>5, <1>6, <1>1, <2>3
    <3>4. QED
      BY <3>2, <3>3, <2>1, <1>1
  <2>4. CASE j # Len(new)
    <3> DEFINE i == IF k < NUMBER_OF_POINTS THEN j ELSE j + 1
    <3>1. j \in 1 .. Len(kept) /\ i \in 1 .. k
      BY <2>4, <1>1, <1>4, <1>5, <1>6, LogAssumption
    <3>2. slot = Oldest(l, k - i + 1) /\ slot # l.listIndex
      <4> DEFINE c == k - i + 1
      <4>1. c \in 1 .. NUMBER_OF_POINTS - 1 /\ m.numberOfDataOnBuffer - j + 1 = c + 1
        BY <2>4, <3>1, <1>1, <1>4, <1>5, LogAssumption
      <4>2. slot = Oldest(m, c + 1)
        BY <4>1
      <4> HIDE DEF c
      <4>3. Oldest(m, c + 1) = Oldest(l, c) /\ Oldest(l, c) # l.listIndex
        <5>1. /\ l.listIndex \in Nat /\ l.listIndex < NUMBER_OF_POINTS
              /\ c \in Nat /\ c >= 1 /\ c < NUMBER_OF_POINTS /\ NUMBER_OF_POINTS \in Nat
          BY <1>1, <4>1, LogAssumption DEF Slots
        <5>2. CASE l.listIndex + 1 >= NUMBER_OF_POINTS
          <6>1. m.listIndex = 0 /\ l.listIndex = NUMBER_OF_POINTS - 1
            BY <2>2, <5>1, <5>2
          <6>2. QED
            BY <5>1, <6>1, SMTT(30) DEF Oldest
        <5>3. CASE l.listIndex + 1 < NUMBER_OF_POINTS
          <6>1. m.listIndex = l.listIndex + 1
            BY <2>2, <5>1, <5>3
          <6>2. QED
            BY <5>1, <6>1, SMTT(30) DEF Oldest
        <5>4. QED
          BY <5>1, <5>2, <5>3
      <4>4. QED
        BY <4>2, <4>3 DEF c
    <3>3. slot \in Slots
      BY <3>1, <3>2, <1>1, OldestInRing, LogAssumption
    <3>4. new[j] = l.dataList[Oldest(l, k - i + 1)]
      BY <2>1, <3>2, <3>3, <1>1
    <3>5. old[i] = l.dataList[Oldest(l, k - i + 1)]
      BY <3>1 DEF Contents
    <3>6. Append(kept, d)[j] = kept[j]
      BY <3>1, <1>6
    <3>7. QED
      BY <3>1, <3>4, <3>5, <3>6, <1>6
  <2>5. QED
    BY <2>3, <2>4
<1>8. Append(kept, d) \in Seq(Point) /\ Len(Append(kept, d)) = Len(new)
  BY <1>1, <1>4, <1>5, <1>6
<1>9. new = Append(kept, d)
  BY <1>4, <1>7, <1>8, SeqEqual
<1>10. QED
  BY <1>3, <1>9 DEF Window!Slide

----------------------------------------------------------------------------
(* The types. *)

\* What Log_generateIfNeeded leaves of the ring, with and without fopen (Log.c:50-85).
LEMMA EmptiedType ==
  ASSUME NEW l \in ListType
  PROVE  /\ [l EXCEPT !.exceptionHappend = FALSE] \in ListType
         /\ [l EXCEPT !.numberOfDataOnBuffer = 0, !.exceptionHappend = FALSE] \in ListType
<1>1. 0 \in 0 .. NUMBER_OF_POINTS
  BY LogAssumption
<1>2. ASSUME NEW A, NEW B, NEW C, NEW x \in [dataList : A, listIndex : B,
             numberOfDataOnBuffer : C, exceptionHappend : BOOLEAN], 0 \in C
      PROVE  /\ [x EXCEPT !.exceptionHappend = FALSE]
                  \in [dataList : A, listIndex : B, numberOfDataOnBuffer : C,
                       exceptionHappend : BOOLEAN]
             /\ [x EXCEPT !.numberOfDataOnBuffer = 0, !.exceptionHappend = FALSE]
                  \in [dataList : A, listIndex : B, numberOfDataOnBuffer : C,
                       exceptionHappend : BOOLEAN]
  BY <1>2
<1>3. QED
  BY <1>1, <1>2 DEF ListType

\* One point logged keeps the types, whatever becomes of fopen (Log.c:39-85).
LEMMA LogPointType ==
  ASSUME LogTypeOK, NEW e \in BOOLEAN, NEW data \in Data, LogPoint(e, data)
  PROVE  LogTypeOK'
<1> DEFINE d == [n |-> added + 1, isException |-> e, data |-> data]
           l == ListAdd(list, d)
<1>1. added < MaxPoints /\ added' = added + 1 /\ UNCHANGED <<fileSince, restarts>>
  BY DEF LogPoint
<1>2. exceptions' = IF e THEN exceptions \cup {added + 1} ELSE exceptions
  BY DEF LogPoint
<1>3. NotReady(l) \/ WriteBatch(l) \/ OpenFails(l)
  BY DEF LogPoint
<1>4. added + 1 \in 1 .. MaxPoints /\ exceptions' \subseteq 1 .. MaxPoints
  BY <1>1, <1>2, LogAssumption DEF LogTypeOK
<1>5. d \in Point
  BY <1>4, LogAssumption DEF Point
<1>6. l \in ListType
  <2>1. list \in ListType
    BY DEF LogTypeOK, ListType, Slots
  <2>2. QED
    BY <2>1, <1>5, ListAddType
<1> HIDE DEF l
<1>7. [l EXCEPT !.exceptionHappend = FALSE] \in ListType
  BY <1>6, EmptiedType
<1>8. [l EXCEPT !.numberOfDataOnBuffer = 0, !.exceptionHappend = FALSE] \in ListType
  BY <1>6, EmptiedType
<1>9. Contents(l) \in Seq(Point)
  BY <1>6, ContentsType
<1>10. /\ list' \in ListType /\ file' \in Seq(Point)
       /\ lost' \subseteq 1 .. MaxPoints /\ openFailures' \in 0 .. MaxOpenFailures
  <2>1. CASE NotReady(l)
    BY <2>1, <1>6 DEF NotReady, LogTypeOK
  <2>2. CASE WriteBatch(l)
    BY <2>2, <1>8, <1>9 DEF WriteBatch, LogTypeOK
  <2>3. CASE OpenFails(l)
    <3>1. openFailures + 1 \in 0 .. MaxOpenFailures
      BY <2>3, LogAssumption DEF OpenFails, LogTypeOK
    <3>2. QED
      BY <2>3, <3>1, <1>7, <1>4 DEF OpenFails, LogTypeOK
  <2>4. QED
    BY <1>3, <2>1, <2>2, <2>3
<1>11. added' \in 0 .. MaxPoints
  BY <1>1, <1>4
<1>12. QED
  BY <1>1, <1>4, <1>10, <1>11 DEF LogTypeOK, ListType, Slots

\* The supervisor's zeroed memory holds an empty ring (Supervisor.c:29).
LEMMA EmptyListType == EmptyList \in ListType /\ Contents(EmptyList) = <<>>
<1>1. NoPoint \in Point
  BY LogAssumption DEF NoPoint, NoData, Point, Data
<1>2. EmptyList \in ListType
  BY <1>1, LogAssumption DEF EmptyList, ListType, Slots
<1>3. Contents(EmptyList) \in Seq(Point) /\ Len(Contents(EmptyList)) = 0
  BY <1>2, ContentsType DEF EmptyList
<1>4. QED
  BY <1>2, <1>3, EmptySeq

\* The first step of the types.
LEMMA LogInitType == LogInit => LogTypeOK
<1> SUFFICES ASSUME LogInit PROVE LogTypeOK
  OBVIOUS
<1>1. list \in ListType
  BY EmptyListType DEF LogInit
<1>2. file \in Seq(Point)
  BY DEF LogInit
<1>3. /\ added \in 0 .. MaxPoints /\ fileSince \in 1 .. MaxPoints + 1
      /\ openFailures \in 0 .. MaxOpenFailures /\ restarts \in 0 .. MaxRestarts
  BY LogAssumption DEF LogInit
<1>4. exceptions \subseteq 1 .. MaxPoints /\ lost \subseteq 1 .. MaxPoints
  BY DEF LogInit
<1>5. QED
  BY <1>1, <1>2, <1>3, <1>4 DEF LogTypeOK, ListType, Slots

\* Every step of the log keeps the types.
LEMMA LogStepType == LogTypeOK /\ [LogNext]_logVars => LogTypeOK'
<1> SUFFICES ASSUME LogTypeOK, [LogNext]_logVars PROVE LogTypeOK'
  OBVIOUS
<1>1. ASSUME NEW e \in BOOLEAN, LogPoint(e, NoData) PROVE LogTypeOK'
  <2>1. NoData \in Data
    BY DEF NoData, Data
  <2>2. QED
    BY <1>1, <2>1, LogPointType
<1>2. CASE LogRestart
  <2>1. list' \in ListType
    BY <1>2, EmptyListType DEF LogRestart
  <2>2. file' \in Seq(Point) /\ fileSince' \in 1 .. MaxPoints + 1
    <3>1. file' \in {<<>>, file} /\ fileSince' \in {added + 1, fileSince}
      BY <1>2 DEF LogRestart
    <3>2. added + 1 \in 1 .. MaxPoints + 1
      BY LogAssumption DEF LogTypeOK
    <3>3. QED
      BY <3>1, <3>2, EmptySeq DEF LogTypeOK
  <2>3. openFailures' \in 0 .. MaxOpenFailures /\ restarts' \in 0 .. MaxRestarts
    BY <1>2, LogAssumption DEF LogRestart, LogTypeOK
  <2>4. exceptions' \subseteq 1 .. MaxPoints /\ lost' \subseteq 1 .. MaxPoints
    BY <1>2 DEF LogRestart
  <2>5. added' \in 0 .. MaxPoints
    BY <1>2 DEF LogRestart, LogTypeOK
  <2>6. QED
    BY <2>1, <2>2, <2>3, <2>4, <2>5 DEF LogTypeOK, ListType, Slots
<1>3. CASE UNCHANGED logVars
  BY <1>3 DEF logVars, LogTypeOK
<1>4. QED
  BY <1>1, <1>2, <1>3 DEF LogNext

\* For every size of the ring its index stays inside it and every variable keeps
\* its type (List.c:15-30, Log.c:50-85).
THEOREM LogTypes == LogSpec => []LogTypeOK
  BY LogInitType, LogStepType, PTL DEF LogSpec

----------------------------------------------------------------------------
(* The refinement of LogWindow. *)

\* A point logged is a point kept or a batch written (Log.c:39-85).
LEMMA LogPointWindow ==
  ASSUME LogTypeOK, NEW e \in BOOLEAN, NEW data \in Data, LogPoint(e, data)
  PROVE  \E d \in [n : 1 .. MaxPoints, isException : BOOLEAN, data : {data}] :
           Window!Keep(d) \/ Window!Write(d)
<1> DEFINE d == [n |-> added + 1, isException |-> e, data |-> data]
           l == ListAdd(list, d)
           w == Window!Slide(Contents(list), d)
<1>1. added < MaxPoints
  BY DEF LogPoint
<1>2. d \in [n : 1 .. MaxPoints, isException : BOOLEAN, data : {data}]
  BY <1>1, LogAssumption DEF LogTypeOK
<1>4. d \in Point
  BY <1>1, LogAssumption DEF LogTypeOK, Point
<1>5. list \in ListType
  BY DEF LogTypeOK, ListType, Slots
<1>6. l \in ListType
  BY <1>4, <1>5, ListAddType
<1>7. Contents(l) = w
  BY <1>4, <1>5, ContentsSlide
<1>8. Len(w) = l.numberOfDataOnBuffer /\ Len(w) \in 0 .. NUMBER_OF_POINTS
  BY <1>6, <1>7, ContentsType DEF ListType
<1>9. l.exceptionHappend = (list.exceptionHappend \/ d.isException)
  BY DEF ListAdd
<1>10. NotReady(l) \/ WriteBatch(l) \/ OpenFails(l)
  BY DEF LogPoint
<1>11. Ready(l) <=> Len(w) = NUMBER_OF_POINTS /\ l.exceptionHappend
  BY <1>8, LogAssumption DEF Ready
<1>12. l.exceptionHappend \in BOOLEAN
  BY <1>6 DEF ListType
<1> HIDE DEF l, w, d
<1>13. Window!Keep(d) \/ Window!Write(d)
  <2>1. CASE NotReady(l)
    <3>1. list' = l /\ ~Ready(l) /\ file' = file
      BY <2>1 DEF NotReady
    <3>2. Contents(list)' = w
      BY <3>1, <1>7
    <3>3. list'.exceptionHappend
            = ((list.exceptionHappend \/ d.isException) /\ Len(w) < NUMBER_OF_POINTS)
      <4>1. CASE Len(w) < NUMBER_OF_POINTS
        BY <4>1, <3>1, <1>9, <1>12, Zenon
      <4>2. CASE ~(Len(w) < NUMBER_OF_POINTS)
        <5>1. Len(w) = NUMBER_OF_POINTS
          BY <4>2, <1>8, LogAssumption
        <5>2. l.exceptionHappend = FALSE
          BY <5>1, <3>1, <1>11, <1>12
        <5>3. QED
          BY <4>2, <5>2, <3>1
      <4>3. QED
        BY <4>1, <4>2
    <3>4. QED
      BY <3>1, <3>2, <3>3 DEF Window!Keep, w
  <2>2. CASE WriteBatch(l)
    <3>1. /\ Ready(l) /\ file' = file \o w
          /\ list' = [l EXCEPT !.numberOfDataOnBuffer = 0, !.exceptionHappend = FALSE]
      BY <2>2, <1>7 DEF WriteBatch
    <3>2. list'.exceptionHappend = FALSE /\ list'.numberOfDataOnBuffer = 0
      BY <3>1, <1>6 DEF ListType
    <3>3. list' \in ListType
      BY <3>1, <1>6, EmptiedType
    <3>4. Contents(list)' = <<>>
      <4>1. Contents(list') \in Seq(Point) /\ Len(Contents(list')) = 0
        BY <3>2, <3>3, ContentsType
      <4>2. QED
        BY <4>1, EmptySeq
    <3>5. (list.exceptionHappend \/ d.isException) /\ Len(w) = NUMBER_OF_POINTS
      BY <3>1, <1>9, <1>11
    <3>6. QED
      BY <3>1, <3>2, <3>4, <3>5 DEF Window!Write, w
  <2>3. CASE OpenFails(l)
    <3>1. Ready(l) /\ list' = [l EXCEPT !.exceptionHappend = FALSE] /\ file' = file
      BY <2>3 DEF OpenFails
    <3>2. list'.exceptionHappend = FALSE /\ Contents(list)' = Contents(l)
      BY <3>1, <1>6 DEF ListType, Contents, Oldest
    <3>3. ~(Len(w) < NUMBER_OF_POINTS)
      BY <3>1, <1>11, LogAssumption
    <3>4. QED
      BY <3>1, <3>2, <3>3, <1>7 DEF Window!Keep, w
  <2>4. QED
    BY <1>10, <2>1, <2>2, <2>3
<1>14. QED
  BY <1>2, <1>13, Zenon

\* For every size of the ring, the ring with its two indices and its flag keeps
\* the window of the last points and writes the batches that LogWindow promises
\* (Log.c, List.c).
THEOREM LogKeepsWindow == LogSpec => ImplementsWindow
<1>1. LogInit => Window!Init
  BY EmptyListType DEF LogInit, Window!Init, EmptyList
<1>2. LogTypeOK /\ [LogNext]_logVars => [Window!Next]_Window!wvars
  <2> SUFFICES ASSUME LogTypeOK, [LogNext]_logVars PROVE [Window!Next]_Window!wvars
    OBVIOUS
  <2>1. ASSUME NEW e \in BOOLEAN, LogPoint(e, NoData) PROVE Window!Next
    <3>1. NoData \in Data
      BY DEF NoData, Data
    <3>2. QED
      BY <2>1, <3>1, LogPointWindow, Zenon DEF Window!Next
  <2>2. CASE LogRestart
    <3>1. list' = EmptyList /\ file' \in {<<>>, file}
      BY <2>2 DEF LogRestart
    <3>2. Contents(list)' = <<>> /\ list'.exceptionHappend = FALSE
      BY <3>1, EmptyListType DEF EmptyList
    <3>3. QED
      BY <3>1, <3>2 DEF Window!Next, Window!Restart
  <2>3. CASE UNCHANGED logVars
    BY <2>3 DEF logVars, Window!wvars
  <2>4. QED
    BY <2>1, <2>2, <2>3 DEF LogNext
<1>3. QED
  BY <1>1, <1>2, LogTypes, PTL DEF LogSpec, ImplementsWindow, Window!Spec

----------------------------------------------------------------------------
(* No exception is forgotten. *)

\* A full ring has no exception pending: it was written, or could not be (List.c:51-59).
FullNotPending == list.numberOfDataOnBuffer = NUMBER_OF_POINTS => ~list.exceptionHappend

\* The new point is in the ring, and unless the ring was full so is every other.
LEMMA InRingSlide ==
  ASSUME NEW l \in ListType, NEW d \in Point
  PROVE  /\ d.n \in InRing(ListAdd(l, d))
         /\ l.numberOfDataOnBuffer < NUMBER_OF_POINTS => InRing(l) \subseteq InRing(ListAdd(l, d))
<1> DEFINE k == l.numberOfDataOnBuffer
           m == ListAdd(l, d)
           kept == IF k < NUMBER_OF_POINTS THEN Contents(l) ELSE Tail(Contents(l))
<1>1. k \in 0 .. NUMBER_OF_POINTS /\ m \in ListType
  BY ListAddType DEF ListType
<1>2. Contents(l) \in Seq(Point) /\ Len(Contents(l)) = k
  BY ContentsType
<1>3. Contents(m) = Append(kept, d) /\ Len(Contents(m)) = m.numberOfDataOnBuffer
  BY <1>1, <1>2, ContentsSlide, ContentsType DEF Window!Slide
<1>4. kept \in Seq(Point)
  <2>1. CASE k < NUMBER_OF_POINTS
    BY <1>2, <2>1
  <2>2. CASE ~(k < NUMBER_OF_POINTS)
    <3>1. Contents(l) # <<>>
      BY <1>1, <1>2, <2>2, LogAssumption
    <3>2. QED
      BY <1>2, <2>2, <3>1, HeadTailProperties
  <2>3. QED
    BY <2>1, <2>2
<1> HIDE DEF m
<1>5. d.n \in InRing(m)
  <2>1. /\ Len(kept) + 1 \in 1 .. m.numberOfDataOnBuffer
        /\ Contents(m)[Len(kept) + 1] = d
    <3> HIDE DEF kept
    <3>1. QED
      BY <1>3, <1>4
  <2>2. QED
    BY <2>1 DEF InRing
<1>6. ASSUME k < NUMBER_OF_POINTS, NEW j \in 1 .. k
      PROVE  Contents(l)[j].n \in InRing(m)
  <2>1. kept = Contents(l)
    BY <1>6
  <2>2. j \in 1 .. m.numberOfDataOnBuffer /\ Contents(m)[j] = Contents(l)[j]
    BY <2>1, <1>1, <1>2, <1>3
  <2>3. QED
    BY <2>2 DEF InRing
<1>7. QED
  BY <1>5, <1>6 DEF InRing, m

\* One point logged keeps the exceptions (Log.c:39-85).
LEMMA LogPointKeeps ==
  ASSUME LogTypeOK, FullNotPending, ExceptionsKept,
         NEW e \in BOOLEAN, NEW data \in Data, LogPoint(e, data)
  PROVE  FullNotPending' /\ ExceptionsKept'
<1> DEFINE d == [n |-> added + 1, isException |-> e, data |-> data]
           l == ListAdd(list, d)
<1>1. added < MaxPoints /\ (NotReady(l) \/ WriteBatch(l) \/ OpenFails(l))
  BY DEF LogPoint
<1>2. exceptions' = IF e THEN exceptions \cup {added + 1} ELSE exceptions
  BY DEF LogPoint
<1>3. d \in Point
  BY <1>1, LogAssumption DEF LogTypeOK, Point
<1>4. list \in ListType
  BY DEF LogTypeOK, ListType, Slots
<1>5. l \in ListType
  BY <1>3, <1>4, ListAddType
<1>6. l.exceptionHappend = (list.exceptionHappend \/ e)
  BY DEF ListAdd
<1>7. added + 1 \in InRing(l)
  BY <1>3, <1>4, InRingSlide
<1>8. list.exceptionHappend => InRing(list) \subseteq InRing(l)
  <2>1. list.exceptionHappend => list.numberOfDataOnBuffer < NUMBER_OF_POINTS
    BY <1>4, LogAssumption DEF FullNotPending, ListType
  <2>2. QED
    BY <2>1, <1>3, <1>4, InRingSlide
<1> HIDE DEF l, d
<1>9. \A x \in exceptions' :
        \/ \E j \in 1 .. Len(file) : file[j].n = x
        \/ x \in InRing(l) /\ l.exceptionHappend
        \/ x \in lost
  <2>1. ASSUME NEW x \in exceptions'
        PROVE  \/ \E j \in 1 .. Len(file) : file[j].n = x
               \/ x \in InRing(l) /\ l.exceptionHappend
               \/ x \in lost
    <3>1. CASE x \in exceptions
      BY <3>1, <1>6, <1>8, Zenon DEF ExceptionsKept, Kept
    <3>2. CASE x \notin exceptions
      <4>1. e /\ x = added + 1
        BY <2>1, <3>2, <1>2
      <4>2. QED
        BY <4>1, <1>6, <1>7, Zenon
    <3>3. QED
      BY <3>1, <3>2
  <2>2. QED
    BY <2>1
<1>10. l.exceptionHappend \in BOOLEAN /\ l.numberOfDataOnBuffer \in 0 .. NUMBER_OF_POINTS
  BY <1>5 DEF ListType
<1>11. CASE NotReady(l)
  <2>1. list' = l /\ file' = file /\ lost' = lost /\ ~Ready(l)
    BY <1>11 DEF NotReady
  <2>2. FullNotPending'
    BY <2>1, <1>10, LogAssumption DEF FullNotPending, Ready
  <2>3. ExceptionsKept'
    BY <2>1, <1>9 DEF ExceptionsKept, Kept
  <2>4. QED
    BY <2>2, <2>3
<1>12. CASE WriteBatch(l)
  <2>1. file' = file \o Contents(l) /\ lost' = lost
    BY <1>12 DEF WriteBatch
  <2>2. FullNotPending'
    BY <1>12, <1>5 DEF WriteBatch, FullNotPending, ListType
  <2>3. Contents(l) \in Seq(Point) /\ Len(Contents(l)) = l.numberOfDataOnBuffer
    BY <1>5, ContentsType
  <2>4. file \in Seq(Point)
    BY DEF LogTypeOK
  <2>5. /\ Len(file') = Len(file) + Len(Contents(l))
        /\ \A j \in 1 .. Len(file) : file'[j] = file[j]
        /\ \A j \in 1 .. Len(Contents(l)) : file'[Len(file) + j] = Contents(l)[j]
    BY <2>1, <2>3, <2>4
  <2>6. ASSUME NEW x \in exceptions'
        PROVE  (\E j \in 1 .. Len(file') : file'[j].n = x) \/ x \in lost'
    <3>1. CASE \E j \in 1 .. Len(file) : file[j].n = x
      <4>1. PICK j \in 1 .. Len(file) : file[j].n = x
        BY <3>1
      <4>2. j \in 1 .. Len(file') /\ file'[j].n = x
        BY <4>1, <2>3, <2>4, <2>5
      <4>3. QED
        BY <4>2
    <3>2. CASE x \in InRing(l)
      <4>1. PICK j \in 1 .. Len(Contents(l)) : Contents(l)[j].n = x
        BY <3>2, <2>3 DEF InRing
      <4>2. Len(file) + j \in 1 .. Len(file') /\ file'[Len(file) + j].n = x
        BY <4>1, <2>3, <2>4, <2>5
      <4>3. QED
        BY <4>2
    <3>3. CASE x \in lost
      BY <3>3, <2>1
    <3>4. QED
      BY <3>1, <3>2, <3>3, <1>9
  <2>7. QED
    BY <2>2, <2>6 DEF ExceptionsKept, Kept
<1>13. CASE OpenFails(l)
  <2>1. file' = file /\ lost' = lost \cup (InRing(l) \cap exceptions')
    BY <1>13 DEF OpenFails
  <2>2. FullNotPending'
    BY <1>13, <1>5 DEF OpenFails, FullNotPending, ListType
  <2>3. ExceptionsKept'
    BY <2>1, <1>9 DEF ExceptionsKept, Kept
  <2>4. QED
    BY <2>2, <2>3
<1>14. QED
  BY <1>1, <1>11, <1>12, <1>13

\* No exception since the last start of the supervisor is forgotten, for every
\* size of the ring and every sequence of failures of fopen (Log.c:39-85): it is
\* in the file, or pending in the ring, or was in the ring when fopen failed.
THEOREM LogExceptionsKept == LogSpec => []ExceptionsKept
<1>1. LogInit => FullNotPending /\ ExceptionsKept
  BY DEF LogInit, EmptyList, FullNotPending, ExceptionsKept, Kept
<1>2. LogTypeOK /\ FullNotPending /\ ExceptionsKept /\ [LogNext]_logVars
        => FullNotPending' /\ ExceptionsKept'
  <2> SUFFICES ASSUME LogTypeOK, FullNotPending, ExceptionsKept, [LogNext]_logVars
               PROVE  FullNotPending' /\ ExceptionsKept'
    OBVIOUS
  <2>1. ASSUME NEW e \in BOOLEAN, LogPoint(e, NoData)
        PROVE  FullNotPending' /\ ExceptionsKept'
    <3>1. NoData \in Data
      BY DEF NoData, Data
    <3>2. QED
      BY <2>1, <3>1, LogPointKeeps
  <2>2. CASE LogRestart
    BY <2>2 DEF LogRestart, EmptyList, FullNotPending, ExceptionsKept, Kept
  <2>3. CASE UNCHANGED logVars
    BY <2>3 DEF logVars, FullNotPending, ExceptionsKept, Kept, InRing, Contents, Oldest
  <2>4. QED
    BY <2>1, <2>2, <2>3 DEF LogNext
<1>3. QED
  BY <1>1, <1>2, LogTypes, PTL DEF LogSpec

----------------------------------------------------------------------------
(* What one point logged does to the window and the file. *)

\* The window with one more point: the oldest goes if the ring is full.
Slid(d) == Append(IF Len(Contents(list)) < NUMBER_OF_POINTS
                    THEN Contents(list) ELSE Tail(Contents(list)), d)

\* The window takes the point; then nothing is due, or the batch is written, or
\* the file cannot be opened (Log.c:39-85).
LEMMA LogPointSlides ==
  ASSUME LogTypeOK, NEW e \in BOOLEAN, NEW data \in Data, LogPoint(e, data)
  PROVE  LET d == [n |-> added + 1, isException |-> e, data |-> data]
             pending == list.exceptionHappend \/ e
         IN
           /\ d \in Point /\ Contents(list) \in Seq(Point) /\ Slid(d) \in Seq(Point)
           /\ added' = added + 1 /\ UNCHANGED <<fileSince, restarts>>
           /\ \/ /\ file' = file /\ openFailures' = openFailures
                 /\ Contents(list') = Slid(d) /\ list'.exceptionHappend = pending
              \/ /\ pending /\ Len(Slid(d)) = NUMBER_OF_POINTS
                 /\ file' = file \o Slid(d) /\ openFailures' = openFailures
                 /\ Contents(list') = <<>> /\ list'.exceptionHappend = FALSE
              \/ /\ file' = file /\ openFailures' = openFailures + 1
                 /\ Contents(list') = Slid(d) /\ list'.exceptionHappend = FALSE
<1> DEFINE d == [n |-> added + 1, isException |-> e, data |-> data]
           l == ListAdd(list, d)
           pending == list.exceptionHappend \/ e
<1>1. /\ added < MaxPoints /\ added' = added + 1 /\ UNCHANGED <<fileSince, restarts>>
      /\ NotReady(l) \/ WriteBatch(l) \/ OpenFails(l)
  BY DEF LogPoint
<1>2. d \in Point
  BY <1>1, LogAssumption DEF LogTypeOK, Point
<1>3. list \in ListType
  BY DEF LogTypeOK, ListType, Slots
<1>4. l \in ListType
  BY <1>2, <1>3, ListAddType
<1>5. Contents(list) \in Seq(Point) /\ Contents(l) \in Seq(Point)
      /\ Len(Contents(l)) = l.numberOfDataOnBuffer
  BY <1>3, <1>4, ContentsType
<1>6. Contents(l) = Slid(d)
  BY <1>2, <1>3, ContentsSlide DEF Window!Slide, Slid
<1>7. l.exceptionHappend = pending
  BY DEF ListAdd
<1>8. l.numberOfDataOnBuffer \in 0 .. NUMBER_OF_POINTS
  BY <1>4 DEF ListType
<1> DEFINE kept == /\ file' = file /\ openFailures' = openFailures
                   /\ Contents(list') = Slid(d) /\ list'.exceptionHappend = pending
           written == /\ pending /\ Len(Slid(d)) = NUMBER_OF_POINTS
                      /\ file' = file \o Slid(d) /\ openFailures' = openFailures
                      /\ Contents(list') = <<>> /\ list'.exceptionHappend = FALSE
           failed == /\ file' = file /\ openFailures' = openFailures + 1
                     /\ Contents(list') = Slid(d) /\ list'.exceptionHappend = FALSE
<1> HIDE DEF l, d, pending
<1>9. ASSUME NotReady(l) PROVE kept
  BY <1>6, <1>7, <1>9 DEF NotReady
<1>10. ASSUME WriteBatch(l) PROVE written
  <2>1. /\ file' = file \o Contents(l) /\ openFailures' = openFailures /\ Ready(l)
        /\ list' = [l EXCEPT !.numberOfDataOnBuffer = 0, !.exceptionHappend = FALSE]
    BY <1>10 DEF WriteBatch
  <2>2. list' \in ListType /\ list'.numberOfDataOnBuffer = 0 /\ list'.exceptionHappend = FALSE
    BY <1>4, <2>1, EmptiedType DEF ListType
  <2>3. Contents(list') \in Seq(Point) /\ Len(Contents(list')) = 0
    BY <2>2, ContentsType
  <2>4. Contents(list') = <<>>
    BY <2>3
  <2>5. pending /\ Len(Slid(d)) = NUMBER_OF_POINTS
    BY <1>5, <1>6, <1>7, <1>8, <2>1, LogAssumption DEF Ready
  <2>6. QED
    BY <1>6, <2>1, <2>2, <2>4, <2>5
<1>11. ASSUME OpenFails(l) PROVE failed
  <2>1. /\ file' = file /\ openFailures' = openFailures + 1
        /\ list' = [l EXCEPT !.exceptionHappend = FALSE]
    BY <1>11 DEF OpenFails
  <2>2. /\ list'.listIndex = l.listIndex /\ list'.dataList = l.dataList
        /\ list'.numberOfDataOnBuffer = l.numberOfDataOnBuffer
        /\ list'.exceptionHappend = FALSE
    BY <1>4, <2>1 DEF ListType
  <2>3. Contents(list') = Contents(l)
    BY <2>2 DEF Contents, Oldest
  <2>4. QED
    BY <1>6, <2>1, <2>2, <2>3
<1>12. kept \/ written \/ failed
  BY <1>1, <1>9, <1>10, <1>11
<1>13. Slid(d) \in Seq(Point)
  BY <1>5, <1>6
<1>14. QED
  BY <1>1, <1>2, <1>5, <1>12, <1>13 DEF d, pending

----------------------------------------------------------------------------
(* The flags and the counts. *)

\* The counts of the last of some points, or those of before them.
LastData(s, before) == IF s = <<>> THEN before ELSE s[Len(s)].data

\* A point is flagged exactly if its counts differ from those of the one before.
FlagsRight(s, before) ==
  \A j \in 1 .. Len(s) :
    s[j].isException <=> s[j].data # (IF j = 1 THEN before ELSE s[j - 1].data)

NoFlag(s) == \A j \in 1 .. Len(s) : ~s[j].isException

\* One more point.
LEMMA FlagsAppend ==
  ASSUME NEW s \in Seq(Point), NEW d \in Point, NEW x, FlagsRight(s, x),
         d.isException <=> d.data # LastData(s, x)
  PROVE  FlagsRight(Append(s, d), x) /\ LastData(Append(s, d), x) = d.data
<1> DEFINE t == Append(s, d)
           n == Len(s)
<1>1. /\ n \in Nat /\ t \in Seq(Point) /\ Len(t) = n + 1 /\ t[n + 1] = d
      /\ \A j \in 1 .. n : t[j] = s[j]
  OBVIOUS
<1>2. t # <<>>
  BY <1>1
<1>3. LastData(t, x) = d.data
  BY <1>1, <1>2 DEF LastData
<1>4. n # 0 => s # <<>>
  OBVIOUS
<1>5. n = 0 => s = <<>>
  BY <1>1
<1> HIDE DEF t
<1>6. ASSUME NEW j \in 1 .. Len(t)
      PROVE  t[j].isException <=> t[j].data # (IF j = 1 THEN x ELSE t[j - 1].data)
  <2>1. CASE j = n + 1
    <3>1. (IF j = 1 THEN x ELSE t[j - 1].data) = LastData(s, x)
      BY <1>1, <1>4, <1>5, <2>1 DEF LastData
    <3>2. QED
      BY <1>1, <2>1, <3>1
  <2>2. CASE j # n + 1
    <3>1. j \in 1 .. n /\ (j # 1 => j - 1 \in 1 .. n)
      BY <1>1, <2>2
    <3>2. QED
      BY <1>1, <3>1 DEF FlagsRight
  <2>3. QED
    BY <2>1, <2>2
<1>7. QED
  BY <1>3, <1>6 DEF FlagsRight, t

\* The oldest point goes; it was not flagged.
LEMMA FlagsTail ==
  ASSUME NEW s \in Seq(Point), s # <<>>, NEW x, FlagsRight(s, x), NoFlag(s)
  PROVE  /\ FlagsRight(Tail(s), x) /\ NoFlag(Tail(s))
         /\ LastData(Tail(s), x) = LastData(s, x)
<1> DEFINE t == Tail(s)
           n == Len(s)
<1>1. /\ n \in Nat \ {0} /\ t \in Seq(Point) /\ Len(t) = n - 1
      /\ \A j \in 1 .. n - 1 : t[j] = s[j + 1]
  BY HeadTailProperties
<1>2. s[1].data = x
  <2>1. 1 \in 1 .. n
    BY <1>1
  <2>2. QED
    BY <2>1 DEF FlagsRight, NoFlag
<1> HIDE DEF t
<1>3. ASSUME NEW j \in 1 .. Len(t)
      PROVE  /\ ~t[j].isException
             /\ t[j].isException <=> t[j].data # (IF j = 1 THEN x ELSE t[j - 1].data)
  <2>1. j + 1 \in 1 .. n /\ j + 1 # 1 /\ t[j] = s[j + 1] /\ (j + 1) - 1 = j
    BY <1>1
  <2>2. s[j + 1].isException <=> s[j + 1].data # s[j].data
    BY <2>1 DEF FlagsRight
  <2>3. ~s[j + 1].isException
    BY <2>1 DEF NoFlag
  <2>4. (IF j = 1 THEN x ELSE t[j - 1].data) = s[j].data
    <3>1. CASE j = 1
      BY <1>2, <3>1
    <3>2. CASE j # 1
      <4>1. j - 1 \in 1 .. n - 1 /\ (j - 1) + 1 = j
        BY <1>1, <3>2
      <4>2. QED
        BY <1>1, <3>2, <4>1
    <3>3. QED
      BY <3>1, <3>2
  <2>5. QED
    BY <2>1, <2>2, <2>3, <2>4
<1>4. LastData(t, x) = LastData(s, x)
  <2>1. CASE n = 1
    <3>1. t = <<>>
      BY <1>1, <2>1
    <3>2. QED
      BY <1>2, <2>1, <3>1 DEF LastData
  <2>2. CASE n # 1
    <3>1. t # <<>> /\ Len(t) \in 1 .. n - 1 /\ Len(t) + 1 = n
      BY <1>1, <2>2
    <3>2. t[Len(t)] = s[n]
      BY <1>1, <3>1
    <3>3. QED
      BY <3>1, <3>2 DEF LastData
  <2>3. QED
    BY <2>1, <2>2
<1>5. QED
  BY <1>3, <1>4 DEF FlagsRight, NoFlag, t

\* The window is written after the file.
LEMMA FlagsConcat ==
  ASSUME NEW s \in Seq(Point), NEW w \in Seq(Point), NEW x,
         FlagsRight(s, x), FlagsRight(w, LastData(s, x))
  PROVE  /\ FlagsRight(s \o w, x)
         /\ LastData(s \o w, x) = LastData(w, LastData(s, x))
<1> DEFINE t == s \o w
           n == Len(s)
           k == Len(w)
<1>1. /\ n \in Nat /\ k \in Nat /\ t \in Seq(Point) /\ Len(t) = n + k
      /\ \A j \in 1 .. n : t[j] = s[j]
      /\ \A j \in 1 .. k : t[n + j] = w[j]
  OBVIOUS
<1>2. (s = <<>> <=> n = 0) /\ (w = <<>> <=> k = 0) /\ (t = <<>> <=> n + k = 0)
  BY <1>1
<1> HIDE DEF t
<1>3. ASSUME NEW j \in 1 .. Len(t)
      PROVE  t[j].isException <=> t[j].data # (IF j = 1 THEN x ELSE t[j - 1].data)
  <2>1. CASE j \in 1 .. n
    <3>1. j # 1 => j - 1 \in 1 .. n
      BY <1>1, <2>1
    <3>2. s[j].isException <=> s[j].data # (IF j = 1 THEN x ELSE s[j - 1].data)
      BY <2>1 DEF FlagsRight
    <3>3. t[j] = s[j] /\ (j # 1 => t[j - 1] = s[j - 1])
      BY <1>1, <2>1, <3>1
    <3>4. QED
      BY <3>2, <3>3
  <2>2. CASE j \notin 1 .. n
    <3> DEFINE i == j - n
    <3>1. i \in 1 .. k /\ j = n + i
      BY <1>1, <2>2
    <3> HIDE DEF i
    <3>2. w[i].isException <=> w[i].data # (IF i = 1 THEN LastData(s, x) ELSE w[i - 1].data)
      BY <3>1 DEF FlagsRight
    <3>3. t[j] = w[i]
      BY <1>1, <3>1
    <3>4. (IF j = 1 THEN x ELSE t[j - 1].data) = (IF i = 1 THEN LastData(s, x) ELSE w[i - 1].data)
      <4>1. CASE i = 1
        <5>1. j - 1 = n /\ (j = 1 <=> n = 0) /\ (n # 0 => n \in 1 .. n)
          BY <1>1, <3>1, <4>1
        <5>2. QED
          BY <1>1, <1>2, <4>1, <5>1 DEF LastData
      <4>2. CASE i # 1
        <5>1. i - 1 \in 1 .. k /\ j - 1 = n + (i - 1) /\ j # 1
          <6>1. i \in Nat /\ i >= 1 /\ i <= k
            BY <1>1, <3>1
          <6>2. QED
            BY <1>1, <3>1, <4>2, <6>1
        <5>2. t[j - 1] = w[i - 1]
          BY <1>1, <5>1
        <5>3. QED
          BY <4>2, <5>1, <5>2
      <4>3. QED
        BY <4>1, <4>2
    <3>5. QED
      BY <3>2, <3>3, <3>4
  <2>3. QED
    BY <2>1, <2>2
<1>4. LastData(t, x) = LastData(w, LastData(s, x))
  <2>1. CASE k = 0
    <3>1. Len(t) = n /\ (n # 0 => n \in 1 .. n)
      BY <1>1, <2>1
    <3>2. QED
      BY <1>1, <1>2, <2>1, <3>1 DEF LastData
  <2>2. CASE k # 0
    <3>1. k \in 1 .. k /\ Len(t) = n + k /\ n + k # 0
      BY <1>1, <2>2
    <3>2. t[Len(t)] = w[k]
      BY <1>1, <3>1
    <3>3. QED
      BY <1>2, <2>2, <3>1, <3>2 DEF LastData
  <2>3. QED
    BY <2>1, <2>2
<1>5. QED
  BY <1>3, <1>4 DEF FlagsRight, t

\* The counts of the last point, in the ring or in the file.
CurrentData == LastData(Contents(list), LastData(file, NoData))

\* As long as fopen never failed: the flags of the file are right, those of the
\* ring go on from there, and none is set unless the ring's own flag is.
FlagsInv ==
  /\ FlagsRight(file, NoData)
  /\ FlagsRight(Contents(list), LastData(file, NoData))
  /\ list.exceptionHappend \/ NoFlag(Contents(list))

\* One point logged whose flag is right (Monitor.c:145-148, Log.c:39-85).
LEMMA LogPointAccounts ==
  ASSUME LogTypeOK, FullNotPending, FlagsInv,
         NEW e \in BOOLEAN, NEW data \in Data, LogPoint(e, data), openFailures' = 0,
         e <=> data # CurrentData
  PROVE  FlagsInv' /\ CurrentData' = data
<1> DEFINE d == [n |-> added + 1, isException |-> e, data |-> data]
           x == LastData(file, NoData)
           c == Contents(list)
           kept == IF Len(c) < NUMBER_OF_POINTS THEN c ELSE Tail(c)
<1>1. /\ d \in Point /\ c \in Seq(Point) /\ Slid(d) \in Seq(Point)
      /\ \/ /\ file' = file
            /\ Contents(list') = Slid(d) /\ list'.exceptionHappend = (list.exceptionHappend \/ e)
         \/ /\ file' = file \o Slid(d)
            /\ Contents(list') = <<>> /\ list'.exceptionHappend = FALSE
         \/ openFailures' = openFailures + 1
  BY LogPointSlides
<1>2. openFailures' # openFailures + 1
  BY LogAssumption DEF LogTypeOK
<1>3. FlagsRight(c, x) /\ (list.exceptionHappend \/ NoFlag(c))
  BY DEF FlagsInv
<1>4. kept \in Seq(Point) /\ FlagsRight(kept, x) /\ LastData(kept, x) = LastData(c, x)
      /\ (list.exceptionHappend \/ NoFlag(kept))
  <2>1. CASE Len(c) < NUMBER_OF_POINTS
    BY <1>1, <1>3, <2>1
  <2>2. CASE ~(Len(c) < NUMBER_OF_POINTS)
    <3>1. list \in ListType
      BY DEF LogTypeOK, ListType, Slots
    <3>2. Len(c) = list.numberOfDataOnBuffer /\ list.numberOfDataOnBuffer \in 0 .. NUMBER_OF_POINTS
      BY <3>1, ContentsType DEF ListType
    <3>3. Len(c) = NUMBER_OF_POINTS /\ c # <<>>
      BY <1>1, <2>2, <3>2, LogAssumption
    <3>4. NoFlag(c)
      BY <1>3, <3>2, <3>3 DEF FullNotPending
    <3>5. Tail(c) \in Seq(Point)
      BY <1>1, <3>3, HeadTailProperties
    <3>6. QED
      BY <1>1, <1>3, <2>2, <3>3, <3>4, <3>5, FlagsTail
  <2>3. QED
    BY <2>1, <2>2
<1>5. Slid(d) = Append(kept, d)
  BY DEF Slid
<1>6. d.isException = e /\ d.data = data
  OBVIOUS
<1>7. d.isException <=> d.data # LastData(kept, x)
  BY <1>4, <1>6 DEF CurrentData
<1> HIDE DEF d, c, kept
<1>8. FlagsRight(Slid(d), x) /\ LastData(Slid(d), x) = data
  BY <1>1, <1>4, <1>5, <1>6, <1>7, FlagsAppend
<1>9. list.exceptionHappend \/ e \/ NoFlag(Slid(d))
  <2>1. SUFFICES ASSUME ~list.exceptionHappend, ~e, NEW j \in 1 .. Len(Slid(d))
                 PROVE  ~Slid(d)[j].isException
    BY DEF NoFlag
  <2>2. Len(kept) \in Nat /\ Len(Slid(d)) = Len(kept) + 1
        /\ Slid(d)[Len(kept) + 1] = d /\ \A i \in 1 .. Len(kept) : Slid(d)[i] = kept[i]
    BY <1>1, <1>4, <1>5
  <2>3. j \in 1 .. Len(kept) \/ j = Len(kept) + 1
    BY <2>2
  <2>4. QED
    BY <1>4, <1>6, <2>1, <2>2, <2>3 DEF NoFlag
<1>10. CASE /\ file' = file
            /\ Contents(list') = Slid(d) /\ list'.exceptionHappend = (list.exceptionHappend \/ e)
  <2>1. Contents(list)' = Slid(d)
    BY <1>10
  <2>2. QED
    BY <1>8, <1>9, <1>10, <2>1 DEF FlagsInv, CurrentData
<1>11. CASE /\ file' = file \o Slid(d)
            /\ Contents(list') = <<>> /\ list'.exceptionHappend = FALSE
  <2>1. file \in Seq(Point) /\ FlagsRight(file, NoData)
    BY DEF LogTypeOK, FlagsInv
  <2>2. FlagsRight(file', NoData) /\ LastData(file', NoData) = data
    BY <1>1, <1>8, <1>11, <2>1, FlagsConcat
  <2>3. FlagsRight(<<>>, data) /\ NoFlag(<<>>) /\ LastData(<<>>, data) = data
    BY DEF FlagsRight, NoFlag, LastData
  <2>4. QED
    BY <1>11, <2>2, <2>3 DEF FlagsInv, CurrentData
<1>12. QED
  BY <1>1, <1>2, <1>10, <1>11

----------------------------------------------------------------------------
(* The file is made of batches. *)

\* Whole batches, and one more.
LEMMA WholeBatches ==
  ASSUME NEW a \in Nat, NEW p \in Nat \ {0}, a % p = 0
  PROVE  /\ a \div p \in Nat /\ a = p * (a \div p)
         /\ (a + p) % p = 0 /\ (a + p) \div p = (a \div p) + 1
<1>1. a \div p \in Nat /\ a = (p * (a \div p)) + (a % p)
  OBVIOUS
<1>2. a = p * (a \div p)
  BY <1>1
<1> DEFINE c == a + p
           q == c \div p
           k == (a \div p) + 1
<1>3. c \in Nat /\ k \in Nat /\ c = p * k
  <2>1. p * ((a \div p) + 1) = (p * (a \div p)) + p
    BY <1>1
  <2>2. QED
    BY <1>1, <1>2, <2>1
<1>4. q \in Nat /\ c % p \in Nat /\ c % p < p /\ c = (p * q) + (c % p)
  BY <1>3
<1> HIDE DEF c, q, k
<1>5. q = k
  <2>1. ~(q > k)
    <3>1. SUFFICES ASSUME q > k PROVE FALSE
      OBVIOUS
    <3>2. q - (k + 1) \in Nat /\ p * q = (p * k) + p + (p * (q - (k + 1)))
      BY <1>3, <1>4, <3>1
    <3>3. p * (q - (k + 1)) \in Nat /\ p * k \in Nat
      BY <1>3, <3>2
    <3>4. QED
      BY <1>3, <1>4, <3>2, <3>3
  <2>2. ~(q < k)
    <3>1. SUFFICES ASSUME q < k PROVE FALSE
      OBVIOUS
    <3>2. k - (q + 1) \in Nat /\ p * k = (p * q) + p + (p * (k - (q + 1)))
      BY <1>3, <1>4, <3>1
    <3>3. p * (k - (q + 1)) \in Nat /\ p * q \in Nat
      BY <1>4, <3>2
    <3>4. QED
      BY <1>3, <1>4, <3>2, <3>3
  <2>3. QED
    BY <1>3, <1>4, <2>1, <2>2
<1>6. c % p = 0
  <2>1. p * q = p * k /\ p * k \in Nat
    BY <1>3, <1>5
  <2>2. QED
    BY <1>3, <1>4, <2>1
<1>7. QED
  BY <1>1, <1>2, <1>5, <1>6 DEF c, q, k

\* What stands where in two sequences put together.
LEMMA ConcatFacts ==
  ASSUME NEW s \in Seq(Point), NEW w \in Seq(Point)
  PROVE  /\ Len(s \o w) = Len(s) + Len(w)
         /\ \A j \in 1 .. Len(s) : (s \o w)[j] = s[j]
         /\ \A j \in 1 .. Len(w) : (s \o w)[Len(s) + j] = w[j]
  OBVIOUS

\* The lines of the file are numbered points.
LEMMA FileNumbers ==
  ASSUME LogTypeOK
  PROVE  \A j \in 1 .. Len(file) : file[j].n \in Nat
<1>1. \A x \in Point : x.n \in Nat
  BY LogAssumption DEF Point
<1>2. file \in Seq(Point)
  BY DEF LogTypeOK
<1>3. \A j \in 1 .. Len(file) : file[j] \in Point
  BY <1>2
<1>4. QED
  BY <1>1, <1>3

\* The numbers of the points of a window that ends with point last.
Consecutive(s, last) == \A j \in 1 .. Len(s) : s[j].n = last - Len(s) + j

\* The window is consecutive, has an exception if it says so, and lies after the file.
WindowInv ==
  /\ Consecutive(Contents(list), added)
  /\ list.exceptionHappend => \E j \in 1 .. Len(Contents(list)) : Contents(list)[j].isException
  /\ \A j \in 1 .. Len(file) : file[j].n <= added - Len(Contents(list))
  /\ fileSince <= added - Len(Contents(list)) + 1

\* What the window is with one more point (List.c:15-49).
LEMMA SlidWindow ==
  ASSUME LogTypeOK, FullNotPending, WindowInv, NEW d \in Point, d.n = added + 1
  PROVE  LET w == Slid(d) IN
           /\ w \in Seq(Point) /\ Len(w) \in 1 .. NUMBER_OF_POINTS
           /\ Len(w) <= Len(Contents(list)) + 1
           /\ Consecutive(w, added + 1)
           /\ list.exceptionHappend \/ d.isException =>
                \E j \in 1 .. Len(w) : w[j].isException
<1> DEFINE c == Contents(list)
           kept == IF Len(c) < NUMBER_OF_POINTS THEN c ELSE Tail(c)
           n == Len(kept)
<1>1. list \in ListType /\ added \in Nat
  BY LogAssumption DEF LogTypeOK, ListType, Slots
<1>2. /\ c \in Seq(Point) /\ Len(c) = list.numberOfDataOnBuffer
      /\ Len(c) \in 0 .. NUMBER_OF_POINTS
  BY <1>1, ContentsType DEF ListType
<1>3. Consecutive(c, added)
  BY DEF WindowInv
<1>4. /\ kept \in Seq(Point) /\ n \in 0 .. NUMBER_OF_POINTS - 1 /\ n <= Len(c)
      /\ \A j \in 1 .. n : kept[j].n = added - n + j
      /\ list.exceptionHappend => kept = c
  <2>1. CASE Len(c) < NUMBER_OF_POINTS
    BY <1>2, <1>3, <2>1, LogAssumption DEF Consecutive
  <2>2. CASE ~(Len(c) < NUMBER_OF_POINTS)
    <3>1. Len(c) = NUMBER_OF_POINTS /\ c # <<>>
      BY <1>2, <2>2, LogAssumption
    <3>2. /\ Tail(c) \in Seq(Point) /\ Len(Tail(c)) = Len(c) - 1
          /\ \A j \in 1 .. Len(Tail(c)) : Tail(c)[j] = c[j + 1]
      BY <1>2, <3>1, HeadTailProperties, Zenon
    <3>3. kept = Tail(c) /\ n = NUMBER_OF_POINTS - 1 /\ n \in Nat
      BY <2>2, <3>1, <3>2, LogAssumption
    <3>4. ASSUME NEW j \in 1 .. n PROVE kept[j].n = added - n + j
      <4>1. j + 1 \in 1 .. Len(c) /\ kept[j] = c[j + 1]
        BY <3>1, <3>2, <3>3
      <4>2. c[j + 1].n = added - Len(c) + (j + 1)
        BY <1>3, <4>1 DEF Consecutive
      <4>3. QED
        <5>1. n + 1 = NUMBER_OF_POINTS /\ n \in Nat /\ j \in Nat
          BY <3>3, LogAssumption
        <5>2. kept[j].n = added - (n + 1) + (j + 1)
          BY <3>1, <4>1, <4>2, <5>1
        <5> HIDE DEF n
        <5>3. added - (n + 1) + (j + 1) = added - n + j
          BY <1>1, <5>1
        <5>4. QED
          BY <5>2, <5>3
    <3>5. ~list.exceptionHappend
      BY <1>2, <3>1 DEF FullNotPending
    <3>6. QED
      BY <3>1, <3>2, <3>3, <3>4, <3>5, LogAssumption
  <2>3. QED
    BY <2>1, <2>2
<1> DEFINE w == Slid(d)
<1>5. w = Append(kept, d)
  BY DEF Slid
<1> HIDE DEF w, kept
<1>6. /\ w \in Seq(Point) /\ Len(w) = n + 1 /\ w[n + 1] = d
      /\ \A j \in 1 .. n : w[j] = kept[j]
  BY <1>4, <1>5
<1>7. Len(w) \in 1 .. NUMBER_OF_POINTS /\ Len(w) <= Len(c) + 1
  BY <1>2, <1>4, <1>6, LogAssumption
<1>8. ASSUME NEW j \in 1 .. Len(w) PROVE w[j].n = (added + 1) - Len(w) + j
  <2>1. n \in Nat
    BY <1>4, LogAssumption
  <2>2. CASE j = n + 1
    BY <1>1, <1>6, <2>1, <2>2
  <2>3. CASE j # n + 1
    <3>1. j \in 1 .. n
      BY <1>6, <2>1, <2>3
    <3>2. w[j].n = added - n + j
      BY <1>4, <1>6, <3>1
    <3>3. QED
      BY <1>1, <1>6, <2>1, <3>1, <3>2
  <2>4. QED
    BY <2>2, <2>3
<1>9. d.isException => \E j \in 1 .. Len(w) : w[j].isException
  <2>1. n + 1 \in 1 .. Len(w)
    BY <1>4, <1>6, LogAssumption
  <2>2. QED
    BY <1>6, <2>1
<1>10. list.exceptionHappend => \E j \in 1 .. Len(w) : w[j].isException
  <2>1. SUFFICES ASSUME list.exceptionHappend PROVE \E j \in 1 .. Len(w) : w[j].isException
    OBVIOUS
  <2>2. PICK j \in 1 .. Len(c) : c[j].isException
    BY <2>1 DEF WindowInv
  <2>3. kept = c
    BY <1>4, <2>1
  <2>4. j \in 1 .. n
    BY <2>2, <2>3
  <2>5. j \in 1 .. Len(w) /\ w[j] = c[j]
    BY <1>4, <1>6, <2>3, <2>4, LogAssumption
  <2>6. QED
    BY <2>2, <2>5
<1>11. QED
  BY <1>6, <1>7, <1>8, <1>9, <1>10 DEF Consecutive, w

\* A batch written after whole batches (Log.c:51-85).
LEMMA OneMoreBatch ==
  ASSUME LogTypeOK, WindowInv, FileIsBatches,
         NEW w \in Seq(Point), Len(w) = NUMBER_OF_POINTS, Consecutive(w, added + 1),
         Len(w) <= Len(Contents(list)) + 1,
         \E j \in 1 .. Len(w) : w[j].isException,
         file' = file \o w, fileSince' = fileSince
  PROVE  FileIsBatches' /\ \A j \in 1 .. Len(file') : file'[j].n <= added + 1
<1> DEFINE N == NUMBER_OF_POINTS
           L == Len(file)
           q == L \div N
<1>1. /\ file \in Seq(Point) /\ L \in Nat /\ N \in Nat \ {0} /\ added \in Nat
      /\ fileSince \in Nat /\ Len(Contents(list)) \in Nat
  <2>1. list \in ListType
    BY DEF LogTypeOK, ListType, Slots
  <2>2. QED
    BY <2>1, ContentsType, LogAssumption DEF LogTypeOK
<1>2. /\ Len(file') = L + N
      /\ \A j \in 1 .. L : file'[j] = file[j]
      /\ \A j \in 1 .. N : file'[L + j] = w[j]
  BY <1>1, ConcatFacts
<1>3. q \in Nat /\ L = N * q /\ (L + N) % N = 0 /\ (L + N) \div N = q + 1
  <2>1. L % N = 0
    BY DEF FileIsBatches
  <2> HIDE DEF L, N
  <2>2. QED
    BY <1>1, <2>1, WholeBatches
<1>4. \A j \in 1 .. N : w[j].n = (added + 1) - N + j
  BY DEF Consecutive
<1>5. \A j \in 1 .. L : file[j].n <= added - Len(Contents(list)) /\ file[j].n \in Nat
  BY FileNumbers DEF WindowInv
<1>6. fileSince <= added - Len(Contents(list)) + 1
  BY DEF WindowInv
<1> HIDE DEF q
<1>7. ASSUME NEW i \in 1 .. Len(file')
      PROVE  i \in 1 .. L \/ (i - L \in 1 .. N /\ file'[i] = w[i - L])
  <2>1. CASE i > L
    <3>1. i - L \in 1 .. N /\ L + (i - L) = i
      BY <1>1, <1>2, <2>1
    <3>2. QED
      BY <1>2, <3>1
  <2>2. CASE ~(i > L)
    BY <1>1, <1>2, <2>2
  <2>3. QED
    BY <2>1, <2>2
<1>8. ASSUME NEW i \in 1 .. Len(file')
      PROVE  file'[i].n >= fileSince' /\ file'[i].n <= added + 1
  <2>1. CASE i \in 1 .. L
    <3>1. file'[i] = file[i] /\ file[i].n >= fileSince
      BY <1>2, <2>1 DEF FileIsBatches
    <3>2. QED
      BY <1>1, <1>5, <2>1, <3>1
  <2>2. CASE i - L \in 1 .. N /\ file'[i] = w[i - L]
    <3>1. file'[i].n = (added + 1) - N + (i - L)
      BY <1>4, <2>2
    <3>2. QED
      BY <1>1, <1>6, <2>2, <3>1, SMTT(30)
  <2>3. QED
    BY <1>7, <2>1, <2>2
<1>9. ASSUME NEW i \in 1 .. Len(file'), NEW j \in 1 .. Len(file'), i < j
      PROVE  file'[i].n < file'[j].n
  <2>1. CASE i \in 1 .. L /\ j \in 1 .. L
    BY <1>2, <1>9, <2>1 DEF FileIsBatches
  <2>2. CASE i \in 1 .. L /\ j - L \in 1 .. N /\ file'[j] = w[j - L]
    <3>1. file'[i].n <= added - Len(Contents(list)) /\ file'[i].n \in Nat
      BY <1>2, <1>5, <2>2
    <3>2. file'[j].n = (added + 1) - N + (j - L)
      BY <1>4, <2>2
    <3>3. QED
      BY <1>1, <2>2, <3>1, <3>2, SMTT(30)
  <2>3. CASE i - L \in 1 .. N /\ file'[i] = w[i - L] /\ j - L \in 1 .. N /\ file'[j] = w[j - L]
    <3>1. file'[i].n = (added + 1) - N + (i - L) /\ file'[j].n = (added + 1) - N + (j - L)
      BY <1>4, <2>3
    <3>2. QED
      BY <1>1, <1>9, <2>3, <3>1
  <2>4. CASE i \notin 1 .. L /\ j \in 1 .. L
    BY <1>1, <1>9, <2>4
  <2>5. QED
    BY <1>7, <2>1, <2>2, <2>3, <2>4
<1>10. ASSUME NEW b \in 1 .. q + 1
       PROVE  /\ \A j \in 1 .. N : file'[((b - 1) * N) + j].n = file'[((b - 1) * N) + 1].n + j - 1
              /\ \E j \in 1 .. N : file'[((b - 1) * N) + j].isException
  <2>1. CASE b = q + 1
    <3>1. (b - 1) * N = L
      BY <1>1, <1>3, <2>1
    <3>2. 1 \in 1 .. N
      BY <1>1
    <3>3. ASSUME NEW j \in 1 .. N PROVE file'[L + j].n = file'[L + 1].n + j - 1
      <4>1. file'[L + j].n = (added + 1) - N + j /\ file'[L + 1].n = (added + 1) - N + 1
        BY <1>2, <1>4, <3>2
      <4>2. QED
        BY <1>1, <4>1
    <3>4. \E j \in 1 .. N : file'[L + j].isException
      BY <1>2
    <3>5. QED
      BY <3>1, <3>3, <3>4
  <2>2. CASE b # q + 1
    <3> DEFINE f == (b - 1) * N
    <3>1. b \in 1 .. q
      BY <1>3, <2>2
    <3>2. f \in Nat /\ f + N <= L
      <4>1. b - 1 \in Nat /\ q - b \in Nat
        BY <1>3, <3>1
      <4>2. f \in Nat /\ N * (q - b) \in Nat
        BY <1>1, <4>1
      <4>3. N * q = f + N + (N * (q - b))
        BY <1>1, <1>3, <4>1
      <4>4. QED
        BY <1>1, <1>3, <4>2, <4>3
    <3>3. /\ \A j \in 1 .. N : file[f + j].n = file[f + 1].n + j - 1
          /\ \E j \in 1 .. N : file[f + j].isException
      BY <3>1, SMTT(30) DEF FileIsBatches, q
    <3> HIDE DEF f
    <3>4. \A j \in 1 .. N : f + j \in 1 .. L
      BY <1>1, <3>2
    <3>5. 1 \in 1 .. N /\ \A j \in 1 .. N : file'[f + j] = file[f + j]
      BY <1>1, <1>2, <3>4
    <3>6. /\ \A j \in 1 .. N : file'[f + j].n = file'[f + 1].n + j - 1
          /\ \E j \in 1 .. N : file'[f + j].isException
      BY <3>3, <3>5
    <3>7. QED
      BY <3>6 DEF f
  <2>3. QED
    BY <2>1, <2>2
<1>11. Len(file') % N = 0 /\ Len(file') \div N = q + 1
  BY <1>2, <1>3
<1>12. FileIsBatches'
  BY <1>8, <1>9, <1>10, <1>11 DEF FileIsBatches
<1>13. QED
  BY <1>8, <1>12

\* One point logged keeps the batches.
LEMMA LogPointBatches ==
  ASSUME LogTypeOK, FullNotPending, WindowInv, FileIsBatches,
         NEW e \in BOOLEAN, NEW data \in Data, LogPoint(e, data)
  PROVE  WindowInv' /\ FileIsBatches'
<1> DEFINE d == [n |-> added + 1, isException |-> e, data |-> data]
           w == Slid(d)
<1>1. /\ d \in Point /\ added' = added + 1 /\ UNCHANGED <<fileSince, restarts>>
      /\ \/ /\ file' = file /\ Contents(list') = w
            /\ (list'.exceptionHappend => list.exceptionHappend \/ e)
         \/ /\ (list.exceptionHappend \/ e) /\ Len(w) = NUMBER_OF_POINTS
            /\ file' = file \o w
            /\ Contents(list') = <<>> /\ list'.exceptionHappend = FALSE
  BY LogPointSlides
<1>2. d.n = added + 1 /\ d.isException = e
  OBVIOUS
<1> HIDE DEF d
<1>3. /\ w \in Seq(Point) /\ Len(w) \in 1 .. NUMBER_OF_POINTS
      /\ Len(w) <= Len(Contents(list)) + 1
      /\ Consecutive(w, added + 1)
      /\ list.exceptionHappend \/ e => \E j \in 1 .. Len(w) : w[j].isException
  BY <1>1, <1>2, SlidWindow
<1>4. /\ added \in Nat /\ fileSince \in Nat /\ file \in Seq(Point)
      /\ Len(Contents(list)) \in Nat /\ NUMBER_OF_POINTS \in Nat
  <2>1. list \in ListType
    BY DEF LogTypeOK, ListType, Slots
  <2>2. QED
    BY <2>1, ContentsType, LogAssumption DEF LogTypeOK
<1> HIDE DEF w
<1>5. CASE /\ file' = file /\ Contents(list') = w
           /\ (list'.exceptionHappend => list.exceptionHappend \/ e)
  <2>1. ASSUME NEW j \in 1 .. Len(file) PROVE file[j].n <= (added + 1) - Len(w)
    <3>1. file[j].n <= added - Len(Contents(list)) /\ file[j].n \in Nat
      BY FileNumbers DEF WindowInv
    <3>2. QED
      BY <1>3, <1>4, <3>1
  <2>2. fileSince <= (added + 1) - Len(w) + 1
    <3>1. fileSince <= added - Len(Contents(list)) + 1
      BY DEF WindowInv
    <3>2. QED
      BY <1>3, <1>4, <3>1
  <2>3. WindowInv'
    BY <1>1, <1>3, <1>5, <2>1, <2>2 DEF WindowInv
  <2>4. FileIsBatches'
    BY <1>1, <1>5 DEF FileIsBatches
  <2>5. QED
    BY <2>3, <2>4
<1>6. CASE /\ (list.exceptionHappend \/ e) /\ Len(w) = NUMBER_OF_POINTS
           /\ file' = file \o w
           /\ Contents(list') = <<>> /\ list'.exceptionHappend = FALSE
  <2>1. FileIsBatches' /\ \A j \in 1 .. Len(file') : file'[j].n <= added + 1
    BY <1>1, <1>3, <1>6, OneMoreBatch
  <2>2. Len(<<>>) = 0 /\ Consecutive(<<>>, added + 1)
    BY DEF Consecutive
  <2>3. \A j \in 1 .. Len(file') : file'[j].n <= added' - Len(Contents(list'))
    <3>1. added' - Len(Contents(list')) = added + 1
      BY <1>1, <1>4, <1>6, <2>2
    <3>2. QED
      BY <2>1, <3>1
  <2>4. fileSince' <= added' - Len(Contents(list')) + 1
    <3>1. fileSince <= added - Len(Contents(list)) + 1
      BY DEF WindowInv
    <3>2. QED
      BY <1>1, <1>4, <1>6, <2>2, <3>1
  <2>5. WindowInv'
    BY <1>1, <1>6, <2>2, <2>3, <2>4 DEF WindowInv
  <2>6. QED
    BY <2>1, <2>5
<1>7. QED
  BY <1>1, <1>5, <1>6

\* Log_init leaves an empty window and a file with nothing but its header.
LEMMA LogBatchesInit == LogInit => WindowInv /\ FileIsBatches
<1> SUFFICES ASSUME LogInit PROVE WindowInv /\ FileIsBatches
  OBVIOUS
<1>1. /\ Contents(list) = <<>> /\ list.exceptionHappend = FALSE /\ file = <<>>
      /\ added = 0 /\ fileSince = 1 /\ Len(file) = 0
  BY EmptyListType DEF LogInit, EmptyList
<1>2. WindowInv
  BY <1>1 DEF WindowInv, Consecutive
<1>3. 0 % NUMBER_OF_POINTS = 0 /\ 0 \div NUMBER_OF_POINTS = 0
  BY LogAssumption
<1>4. FileIsBatches
  BY <1>1, <1>3 DEF FileIsBatches
<1>5. QED
  BY <1>2, <1>4

\* For every size of the ring, and also after fopen has failed and the supervisor
\* was started again, the file holds whole batches of consecutive points, none
\* twice, each with an exception (List.c:15-59, Log.c:39-85).
THEOREM LogFileIsBatches == LogSpec => []FileIsBatches
<1>1. LogInit => WindowInv /\ FileIsBatches
  BY LogBatchesInit
<1>2. /\ LogTypeOK /\ FullNotPending /\ ExceptionsKept /\ WindowInv /\ FileIsBatches
      /\ [LogNext]_logVars
      => FullNotPending' /\ ExceptionsKept' /\ WindowInv' /\ FileIsBatches'
  <2> SUFFICES ASSUME LogTypeOK, FullNotPending, ExceptionsKept, WindowInv, FileIsBatches,
                      [LogNext]_logVars
               PROVE  FullNotPending' /\ ExceptionsKept' /\ WindowInv' /\ FileIsBatches'
    OBVIOUS
  <2>1. ASSUME NEW e \in BOOLEAN, LogPoint(e, NoData)
        PROVE  FullNotPending' /\ ExceptionsKept' /\ WindowInv' /\ FileIsBatches'
    <3>1. NoData \in Data
      BY DEF NoData, Data
    <3>2. QED
      BY <2>1, <3>1, LogPointKeeps, LogPointBatches
  <2>2. CASE LogRestart
    <3>1. FullNotPending' /\ ExceptionsKept'
      BY <2>2 DEF LogRestart, EmptyList, FullNotPending, ExceptionsKept, Kept
    <3>2. /\ Contents(list') = <<>> /\ list'.exceptionHappend = FALSE /\ added' = added
          /\ \/ file' = <<>> /\ fileSince' = added + 1
             \/ file' = file /\ fileSince' = fileSince
      BY <2>2, EmptyListType DEF LogRestart, EmptyList
    <3>3. Len(<<>>) = 0 /\ Consecutive(<<>>, added)
      BY DEF Consecutive
    <3>4. list \in ListType
      BY DEF LogTypeOK, ListType, Slots
    <3>5. added \in Nat /\ fileSince \in Nat /\ Len(Contents(list)) \in Nat /\ file \in Seq(Point)
      BY <3>4, ContentsType, LogAssumption DEF LogTypeOK
    <3>6. \A j \in 1 .. Len(file) : file[j].n \in Nat
      BY FileNumbers
    <3>7. CASE file' = <<>> /\ fileSince' = added + 1
      <4>1. WindowInv'
        BY <3>2, <3>3, <3>5, <3>7 DEF WindowInv
      <4>2. 0 % NUMBER_OF_POINTS = 0 /\ 0 \div NUMBER_OF_POINTS = 0
        BY LogAssumption
      <4>3. FileIsBatches'
        BY <3>3, <3>7, <4>2 DEF FileIsBatches
      <4>4. QED
        BY <3>1, <4>1, <4>3
    <3>8. CASE file' = file /\ fileSince' = fileSince
      <4>1. /\ \A j \in 1 .. Len(file) : file[j].n <= added
            /\ fileSince <= added + 1
        BY <3>5, <3>6 DEF WindowInv
      <4>2. added - 0 = added
        BY <3>5
      <4>3. WindowInv'
        BY <3>2, <3>3, <3>8, <4>1, <4>2 DEF WindowInv
      <4>4. FileIsBatches'
        BY <3>8 DEF FileIsBatches
      <4>5. QED
        BY <3>1, <4>3, <4>4
    <3>9. QED
      BY <3>2, <3>7, <3>8
  <2>3. CASE UNCHANGED logVars
    <3>1. /\ list' = list /\ file' = file /\ added' = added /\ fileSince' = fileSince
          /\ exceptions' = exceptions /\ lost' = lost
      BY <2>3 DEF logVars
    <3>2. Contents(list)' = Contents(list) /\ InRing(list)' = InRing(list)
      BY <3>1 DEF Contents, Oldest, InRing
    <3>3. FullNotPending' /\ ExceptionsKept'
      BY <3>1, <3>2 DEF FullNotPending, ExceptionsKept, Kept
    <3>4. WindowInv' /\ FileIsBatches'
      BY <3>1, <3>2 DEF WindowInv, FileIsBatches
    <3>5. QED
      BY <3>3, <3>4
  <2>4. QED
    BY <2>1, <2>2, <2>3 DEF LogNext
<1>3. LogInit => FullNotPending /\ ExceptionsKept
  BY DEF LogInit, EmptyList, FullNotPending, ExceptionsKept, Kept
<1>4. QED
  BY <1>1, <1>2, <1>3, LogTypes, PTL DEF LogSpec

=============================================================================
