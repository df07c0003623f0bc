\* The task changes its policy and ends at any time; a telegram is lost.  The
\* monitor logs.
SPECIFICATION FairSpec
CONSTANTS
  RUNTIME = 1
  DEADLINE = 2
  PERIOD = 3
  EnableLogging = TRUE
  UINT64_MAX = 1000
  MaxTime = 9
  MaxLatency = 1
  MaxWork = 3
  MaxDrift = 0
  MaxLost = 1
  MaxChanges = 2
  NUMBER_OF_POINTS = 2
  MaxPoints = 8
  MaxRestarts = 0
  MaxOpenFailures = 1
INVARIANTS
  LongJobsReported
  LongJobsLogged
PROPERTY
  TelegramsRead
\* The bound on time stops the task.
CHECK_DEADLOCK FALSE
