-------------------------- MODULE MCSupervisorLive --------------------------
(* The supervisor's liveness, for TLC, where one id has had all its tasks:   *)
(* from the supervisor's first start, with no region left of them, and from  *)
(* a later time, when the last of them holds an instance that is never freed *)
(* and its region is there.                                                  *)
EXTENDS Supervisor

CONSTANTS
  Old,  \* the id whose tasks have all ended
  Any   \* one of the others, which are interchangeable

Only(x) == [p \in Pids |-> IF p = Old THEN x ELSE 0]

FirstStart ==
  /\ task = [p \in Pids |-> "none"] /\ life = Only(MaxLives)
  /\ fifo = Only(NoFifo) /\ writers = {}
  /\ Fresh /\ up = FALSE /\ kills = 0 /\ createFailures = 0

Later ==
  /\ task = [p \in Pids |-> "none"] /\ life = Only(MaxLives)
  /\ fifo = Only(MaxLives) /\ writers = {}
  /\ up = TRUE /\ kills = MaxKills /\ createFailures = 0
  /\ isTaskBeingTraced = [i \in Instances |-> i = 0]
  /\ monitorPid = [i \in Instances |-> IF i = 0 THEN Old ELSE NoPid]
  /\ monitor = [i \in Instances |-> IF i = 0 THEN "gone" ELSE "none"]
  /\ reading = [i \in Instances |-> IF i = 0 THEN MaxLives ELSE NoFifo]
  /\ ckPc = "opendir" /\ ckList = {} /\ ckPid = Old /\ ckInstance = 0
  /\ clPc = "readdir" /\ clList = {} /\ clPid = NoPid

LiveSpec == (FirstStart \/ Later) /\ [][Next]_vars /\ Fairness

\* A task that opened its region and goes on running gets a monitor, unless the
\* instances are used up or the supervisor is down.
LiveTaskGetsMonitored == GetsMonitored(Any)

\* A check thread that waits for an instance for ever does not stop the cleanup
\* thread from removing the region of a dead task that no instance holds.
FullStillCleans == CleanedThoughFull(Any)

=============================================================================
