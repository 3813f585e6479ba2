CONSTANTS
  t1 = t1
  t2 = t2
  b1 = b1
  b2 = b2
  Global = Global
  None = None
  NoOne = NoOne
  BlockBytes <- SuperBlockBytes
  DataBytes <- SuperBlockData
  Threads <- TwoThreads
  Exiters <- OneExits
  Blocks <- TwoBlocks
  CellBytes <- OneClass
SPECIFICATION FairSpec
INVARIANTS PoolsSound CellsConserved
PROPERTIES SomeoneGetsThrough GlobalLockReturned
