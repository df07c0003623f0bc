\* A ring of three points and ten points in all, the file cannot be opened twice.
SPECIFICATION LogSpec
CONSTANTS
  NUMBER_OF_POINTS = 3
  MaxPoints = 10
  MaxRestarts = 2
  MaxOpenFailures = 2
INVARIANTS
  LogTypeOK
  ExceptionsKept
  FileIsBatches
PROPERTY ImplementsWindow
\* The bound on points stops the log.
CHECK_DEADLOCK FALSE
