\* Monitor.h:20 against the code.
SPECIFICATION Spec
CONSTANTS
  RUNTIME = 1
  DEADLINE = 2
  PERIOD = 3
  EnableLogging = FALSE
  UINT64_MAX = 1000
  MaxTime = 6
  MaxLatency = 1
  MaxWork = 2
  MaxDrift = 0
  MaxLost = 0
  MaxChanges = 1
  NUMBER_OF_POINTS = 2
  MaxPoints = 8
  MaxRestarts = 0
  MaxOpenFailures = 0
INVARIANT PolicyIsKnown
CHECK_DEADLOCK FALSE
