CONSTANTS
  t1 = t1
  t2 = t2
  t3 = t3
  Nobody = Nobody
  NumBlocks = 2
  Threads <- TwoThreads
SPECIFICATION Spec
INVARIANT LinksAligned
CHECK_DEADLOCK FALSE
