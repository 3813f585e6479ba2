CONSTANTS
  t1 = t1
  t2 = t2
  Threads <- TwoThreads
  Enders <- OneEnds
  LogPage = 1
  MaxFrames = 4
  Levels = 4
  Pages <- SomePages
  LargePages <- OneLarge
  Values = {1}
  BoxSizes <- SmallAndLarge
  MaxBoxes = 1
SPECIFICATION TreeSpec
INVARIANTS TablesSound
PROPERTIES ImplementsMap
