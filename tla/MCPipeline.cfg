\* A ring of two slots and five telegrams: the ring wraps twice, and a lost
\* update leaves room for an overrun, a stranded telegram and a wedged queue.
\* A FIFO of two telegrams is often full while two more wait in the ring.
SPECIFICATION PipelineFairSpec
CONSTANTS
  QUEUE_SIZE = 2
  MaxSent = 5
  FIFO_SIZE = 2
INVARIANTS
  TypeOK
  PipelineTypeOK
  CountInRange
  FailedGetStrandsOne
  SleepsOnlyWhenEmpty
  NeverStale
  FifoUntilLow
  OldStartOnlyIfSwitchedOn
  FullRingRefuses
PROPERTIES
  ImplementsLinkUntilLow
  AllPassedUnlessLost
