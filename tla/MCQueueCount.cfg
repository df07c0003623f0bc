\* Queue.h:14 against the code.
SPECIFICATION Spec
CONSTANTS
  QUEUE_SIZE = 2
  MaxSent = 3
INVARIANT CountIsNumberOfElements
CHECK_DEADLOCK FALSE
