CONSTANTS
  t1 = t1
  t2 = t2
  Threads <- TwoThreads
  Main = t1
  Early <- OneEarly
  Iterations = 4
SPECIFICATION FairLifeSpec
INVARIANTS InitOnce ReadsInitialized MutatorsSound
PROPERTIES EveryoneReads DroppedFirst ExitCompletes
CHECK_DEADLOCK FALSE
