\* One of two tasks changes its policy, ends and starts at any time and without end.
SPECIFICATION FairSpec
CONSTANTS
  Pids = {p1, p2}
  NoPid = NoPid
  MAX_TRACED_TASKS = 2
  MaxArgs = 3
  Restless = {p1}
  MaxJobs = 1
  MaxRT = 1
INVARIANTS
  TypeOK
  PassDecides
  ShownOnce
PROPERTIES
  TracedTaskShown
  OddLinePutRight
\* Arguments that are refused end the program.
CHECK_DEADLOCK FALSE
