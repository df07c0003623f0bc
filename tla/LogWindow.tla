----------------------------- MODULE LogWindow -----------------------------
(***************************************************************************)
(* What the log of a monitored task promises, without the ring buffer: the *)
(* last points are kept, and once there are enough of them and one of them *)
(* or an earlier one was an exception, they are appended to the file as    *)
(* one batch, oldest first, and the window starts again empty.  A restart  *)
(* of the supervisor forgets the window and at most all of the file.       *)
(***************************************************************************)
EXTENDS Integers, Sequences

CONSTANTS
  NUMBER_OF_POINTS,
  Points      \* the points that may come

VARIABLES
  window,     \* the last points not yet written, oldest first
  pending,    \* an exception waits to be written
  file        \* the points written so far

wvars == <<window, pending, file>>

Init == window = <<>> /\ pending = FALSE /\ file = <<>>

Slide(w, p) == Append(IF Len(w) < NUMBER_OF_POINTS THEN w ELSE Tail(w), p)

\* A point comes and is kept.  If a batch was due it could not be written: the
\* exception is then no longer pending, the points are.
Keep(p) ==
  /\ window' = Slide(window, p)
  /\ pending' = ((pending \/ p.isException) /\ Len(Slide(window, p)) < NUMBER_OF_POINTS)
  /\ UNCHANGED file

\* A point comes and makes a batch due, which is written.
Write(p) ==
  /\ pending \/ p.isException
  /\ Len(Slide(window, p)) = NUMBER_OF_POINTS
  /\ file' = file \o Slide(window, p)
  /\ window' = <<>>
  /\ pending' = FALSE

Restart ==
  /\ window' = <<>>
  /\ pending' = FALSE
  /\ file' \in {<<>>, file}

Next == (\E p \in Points : Keep(p) \/ Write(p)) \/ Restart

Spec == Init /\ [][Next]_wvars

=============================================================================
