CONSTANTS
  t1 = t1
  t2 = t2
  t3 = t3
  Nobody = Nobody
  NumBlocks = 2
  Threads <- ThreeThreads
SPECIFICATION FairSpec
INVARIANTS TypeOK Exclusive StackSound NoBlockLost ReservedExact
PROPERTY SomeoneAcquires
CHECK_DEADLOCK FALSE
