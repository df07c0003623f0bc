-------------------------------- MODULE Link --------------------------------
(***************************************************************************)
(* What the way from a traced task to its monitor promises, without the    *)
(* queue, the gateway thread and the FIFO: telegrams arrive whole, in the  *)
(* order they were put in and at most once, and one can be lost only while *)
(* CAPACITY earlier ones are still on their way.                           *)
(***************************************************************************)
EXTENDS Integers, SequencesExt

CONSTANTS
  CAPACITY,
  Telegram(_)    \* the n-th telegram, n from 0

VARIABLES
  link,       \* the telegrams on their way, oldest first
  put,        \* how many were put in
  got         \* the telegram that arrived last

lvars == <<link, put, got>>

Init == link = <<>> /\ put = 0 /\ got = Telegram(-1)

Put ==
  /\ link' = Append(link, Telegram(put))
  /\ put' = put + 1
  /\ UNCHANGED got

Get ==
  /\ link # <<>>
  /\ got' = Head(link)
  /\ link' = Tail(link)
  /\ UNCHANGED put

Lose ==
  /\ \E i \in CAPACITY + 1 .. Len(link) : link' = RemoveAt(link, i)
  /\ UNCHANGED <<put, got>>

Next == Put \/ Get \/ Lose

Spec == Init /\ [][Next]_lvars

=============================================================================
