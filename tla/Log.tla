-------------------------------- MODULE Log --------------------------------
(***************************************************************************)
(* The log of one monitored task (Supervisor/Log/Log.c and List/List.c): a *)
(* ring of the last points, and a file they are appended to once the ring  *)
(* is full and one of the points was an exception.  It is written by the   *)
(* task's monitor thread alone.                                            *)
(*                                                                         *)
(* A point carries its exception flag and, of the telegram and the metrics *)
(* (Data.c), the two counts of exceptions; it is known by the order it     *)
(* came in.                                                                *)
(***************************************************************************)
EXTENDS Integers, Sequences

CONSTANTS
  NUMBER_OF_POINTS,  \* slots of the ring
  MaxPoints,         \* bound: points added in one behaviour
  MaxOpenFailures,   \* bound: failures of fopen and unlink
  MaxRestarts        \* bound: times the supervisor is killed and started again

ASSUME LogAssumption ==
  /\ NUMBER_OF_POINTS \in Nat \ {0}
  /\ MaxPoints \in Nat /\ MaxOpenFailures \in Nat /\ MaxRestarts \in Nat

VARIABLES
  list,          \* the List: dataList, listIndex, numberOfDataOnBuffer, exceptionHappend
  file,          \* the lines of the file after the header
  added,         \* history: points added
  fileSince,     \* history: the first point that may be in the file
  exceptions,    \* history: the points since the last start that were exceptions
  lost,          \* history: exceptions in the ring when fopen failed
  openFailures, restarts  \* counters for the bounds

logVars == <<list, file, added, fileSince, exceptions, lost, openFailures, restarts>>

Data == [deadlineLostCount : Nat, runtimeOverrunCount : Nat]

Point == [n : 0 .. MaxPoints, isException : BOOLEAN, data : Data]

NoData == [deadlineLostCount |-> 0, runtimeOverrunCount |-> 0]

NoPoint == [n |-> 0, isException |-> FALSE, data |-> NoData]

\* The supervisor's memory is zeroed.
EmptyList ==
  [dataList |-> [i \in 0 .. NUMBER_OF_POINTS - 1 |-> NoPoint], listIndex |-> 0,
   numberOfDataOnBuffer |-> 0, exceptionHappend |-> FALSE]

\* Log_init writes a file with nothing but its header.
LogInit ==
  /\ list = EmptyList
  /\ file = <<>>
  /\ added = 0 /\ fileSince = 1 /\ exceptions = {} /\ lost = {}
  /\ openFailures = 0 /\ restarts = 0

\* Seeded fault: the index is wrapped one point too late.
ListAddWrapsLate(l, d) ==
  [dataList |-> [l.dataList EXCEPT ![l.listIndex] = d],
   listIndex |-> IF l.listIndex >= NUMBER_OF_POINTS THEN 0 ELSE l.listIndex + 1,
   numberOfDataOnBuffer |-> IF l.numberOfDataOnBuffer < NUMBER_OF_POINTS
                              THEN l.numberOfDataOnBuffer + 1 ELSE l.numberOfDataOnBuffer,
   exceptionHappend |-> l.exceptionHappend \/ d.isException]

\* Seeded fault: the flag of an earlier exception is overwritten.
ListAddForgets(l, d) ==
  [dataList |-> [l.dataList EXCEPT ![l.listIndex] = d],
   listIndex |-> IF l.listIndex + 1 >= NUMBER_OF_POINTS THEN 0 ELSE l.listIndex + 1,
   numberOfDataOnBuffer |-> IF l.numberOfDataOnBuffer < NUMBER_OF_POINTS
                              THEN l.numberOfDataOnBuffer + 1 ELSE l.numberOfDataOnBuffer,
   exceptionHappend |-> d.isException]

\* List_add.
ListAdd(l, d) ==
  [dataList |-> [l.dataList EXCEPT ![l.listIndex] = d],
   listIndex |-> IF l.listIndex + 1 >= NUMBER_OF_POINTS THEN 0 ELSE l.listIndex + 1,
   numberOfDataOnBuffer |-> IF l.numberOfDataOnBuffer < NUMBER_OF_POINTS
                              THEN l.numberOfDataOnBuffer + 1 ELSE l.numberOfDataOnBuffer,
   exceptionHappend |-> l.exceptionHappend \/ d.isException]

\* Seeded fault: the oldest of k points is looked for one slot too late.
OldestTooLate(l, k) ==
  LET i == l.listIndex - k + 1 IN IF i < 0 THEN i + NUMBER_OF_POINTS ELSE i % NUMBER_OF_POINTS

\* List_read with k points in the ring: the slot of the oldest one.
Oldest(l, k) ==
  LET i == l.listIndex - k IN IF i < 0 THEN i + NUMBER_OF_POINTS ELSE i

\* What List_read returns, called until it returns -1.
Contents(l) ==
  [j \in 1 .. l.numberOfDataOnBuffer |-> l.dataList[Oldest(l, l.numberOfDataOnBuffer - j + 1)]]

InRing(l) == {Contents(l)[j].n : j \in 1 .. l.numberOfDataOnBuffer}

\* Seeded fault: the ring need not be full.
ReadyEarly(l) == l.exceptionHappend

\* List_checkIfReadyToLog.
Ready(l) == l.numberOfDataOnBuffer >= NUMBER_OF_POINTS /\ l.exceptionHappend

\* Log_generateIfNeeded when the ring is not ready, when fopen works and the
\* ring is emptied into the file, and when fopen fails: the ring's flag is
\* cleared by then.
NotReady(l) ==
  /\ ~Ready(l)
  /\ list' = l
  /\ UNCHANGED <<file, lost, openFailures>>

WriteBatch(l) ==
  /\ Ready(l)
  /\ file' = file \o Contents(l)
  /\ list' = [l EXCEPT !.numberOfDataOnBuffer = 0, !.exceptionHappend = FALSE]
  /\ UNCHANGED <<lost, openFailures>>

OpenFails(l) ==
  /\ Ready(l) /\ openFailures < MaxOpenFailures
  /\ list' = [l EXCEPT !.exceptionHappend = FALSE]
  /\ lost' = lost \cup (InRing(l) \cap exceptions')
  /\ openFailures' = openFailures + 1
  /\ UNCHANGED file

\* Log_addNewPoint and then Log_generateIfNeeded, as the monitor calls them.
LogPoint(isException, data) ==
  LET d == [n |-> added + 1, isException |-> isException, data |-> data]
      l == ListAdd(list, d)
  IN
    /\ added < MaxPoints
    /\ added' = added + 1
    /\ exceptions' = IF isException THEN exceptions \cup {added + 1} ELSE exceptions
    /\ NotReady(l) \/ WriteBatch(l) \/ OpenFails(l)
    /\ UNCHANGED <<fileSince, restarts>>

\* The supervisor is killed, started again, and traces the same task: Log_init
\* removes the file of its earlier life, or at least cuts it to its header; if
\* neither unlink nor fopen works the file stays as it is.
LogRestart ==
  /\ restarts < MaxRestarts
  /\ restarts' = restarts + 1
  /\ list' = EmptyList /\ exceptions' = {} /\ lost' = {}
  /\ \/ file' = <<>> /\ fileSince' = added + 1 /\ UNCHANGED openFailures
     \/ /\ openFailures < MaxOpenFailures /\ openFailures' = openFailures + 1
        /\ UNCHANGED <<file, fileSince>>
  /\ UNCHANGED added

LogNext == (\E e \in BOOLEAN : LogPoint(e, NoData)) \/ LogRestart

LogSpec == LogInit /\ [][LogNext]_logVars

----------------------------------------------------------------------------
(* Properties. *)

\* Every variable has its type; the index stays inside the ring.
LogTypeOK ==
  /\ list \in [dataList : [0 .. NUMBER_OF_POINTS - 1 -> Point],
               listIndex : 0 .. NUMBER_OF_POINTS - 1,
               numberOfDataOnBuffer : 0 .. NUMBER_OF_POINTS,
               exceptionHappend : BOOLEAN]
  /\ file \in Seq(Point)
  /\ added \in 0 .. MaxPoints /\ fileSince \in 1 .. MaxPoints + 1
  /\ exceptions \subseteq 1 .. MaxPoints
  /\ lost \subseteq 1 .. MaxPoints
  /\ openFailures \in 0 .. MaxOpenFailures /\ restarts \in 0 .. MaxRestarts

\* The point e is in the file, or waits in the ring with the flag set, or was in
\* the ring when the file could not be opened.
Kept(e) ==
  \/ \E j \in 1 .. Len(file) : file[j].n = e
  \/ e \in InRing(list) /\ list.exceptionHappend
  \/ e \in lost

\* No exception since the last start is forgotten: each is in the file, or waits in
\* the ring with the flag set, or was in the ring when the file could not be opened.
ExceptionsKept == \A e \in exceptions : Kept(e)

\* The file is made of whole batches of consecutive points, each with an
\* exception in it, a point is never written twice, also when the file could not
\* be opened in between, and a line from before the last start is there only if
\* Log_init could neither remove nor empty the file.
FileIsBatches ==
  LET line(b, j) == file[((b - 1) * NUMBER_OF_POINTS) + j] IN
    /\ Len(file) % NUMBER_OF_POINTS = 0
    /\ \A b \in 1 .. Len(file) \div NUMBER_OF_POINTS :
         /\ \A j \in 1 .. NUMBER_OF_POINTS : line(b, j).n = line(b, 1).n + j - 1
         /\ \E j \in 1 .. NUMBER_OF_POINTS : line(b, j).isException
    /\ \A i, j \in 1 .. Len(file) : i < j => file[i].n < file[j].n
    /\ \A j \in 1 .. Len(file) : file[j].n >= fileSince

\* The ring with its two indices keeps the window the abstract log keeps.
Window == INSTANCE LogWindow WITH
  Points <- [n : 1 .. MaxPoints, isException : BOOLEAN, data : {NoData}],
  window <- Contents(list), pending <- list.exceptionHappend

ImplementsWindow == Window!Spec

=============================================================================
