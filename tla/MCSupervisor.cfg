\* Ids are used twice and a monitor is not created.
SPECIFICATION Spec
CONSTANTS
  Pids = {p1, p2}
  MaxLives = 2
  MAX_TRACED_TASKS = 2
  NoPid = NoPid
  MaxKills = 0
  MaxCreateFailures = 1
SYMMETRY Symmetry
INVARIANTS
  TypeOK
  OneReader
  RunningTaskKeepsRegion
PROPERTY ImplementsTable
\* With no id left to start and every instance used up, the system may stop.
CHECK_DEADLOCK FALSE
