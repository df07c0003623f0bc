\* Supervisor.c:206 against the code.
SPECIFICATION FairSpec
CONSTANTS
  Pids = {p1}
  MaxLives = 1
  MAX_TRACED_TASKS = 1
  NoPid = NoPid
  MaxKills = 0
  MaxCreateFailures = 0
PROPERTY MonitoredRegionStays
CHECK_DEADLOCK FALSE
