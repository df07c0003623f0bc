\* Four periods.  A job may start late, run over its runtime, its deadline and
\* its period; a release may be late; a telegram may be lost.
SPECIFICATION Spec
CONSTANTS
  RUNTIME = 1
  DEADLINE = 3
  PERIOD = 4
  EnableLogging = TRUE
  UINT64_MAX = 1000
  MaxTime = 17
  MaxLatency = 2
  MaxWork = 5
  MaxDrift = 1
  MaxLost = 1
  MaxChanges = 0
  NUMBER_OF_POINTS = 2
  MaxPoints = 8
  MaxRestarts = 0
  MaxOpenFailures = 1
INVARIANTS
  TypeOK
  LossCostsOne
  NoLossesForever
  LogAccountsForExceptions
  EstimateAccounted
\* The bound on time stops the task.
CHECK_DEADLOCK FALSE
