\* An instance for each of two tasks, or one instance for both when a task that
\* has ended holds the other.  Ids are not used again, monitors are always
\* created, and the supervisor is killed once and started again.
SPECIFICATION LiveSpec
CONSTANTS
  Pids = {p1, p2, old}
  Old = old
  Any = p1
  MaxLives = 1
  MAX_TRACED_TASKS = 2
  NoPid = NoPid
  MaxKills = 1
  MaxCreateFailures = 0
INVARIANT OnlyDeadTasksLoseMonitor
PROPERTIES
  LiveTaskGetsMonitored
  FullStillCleans
CHECK_DEADLOCK FALSE
