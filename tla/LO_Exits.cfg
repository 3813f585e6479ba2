CONSTANTS
  t1 = t1
  t2 = t2
  Threads <- TwoThreads
  Exiters <- OneExits
  LogUnits = 2
  Requests <- OneToFour
  MaxCacheable = 2
  Slop = 1
  MetaLen = 1
  LiveBound <- Uneven
SPECIFICATION Spec
INVARIANTS ObjectsSound CountersSound
PROPERTIES ImplementsRanges
CHECK_DEADLOCK FALSE
