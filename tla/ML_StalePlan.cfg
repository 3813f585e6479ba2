CONSTANTS
  t1 = t1
  t2 = t2
  Threads <- TwoThreads
  Main = t1
  Early <- OneEarly
  Iterations = 4
SPECIFICATION LifeSpec
INVARIANT NoGarbage
CHECK_DEADLOCK FALSE
