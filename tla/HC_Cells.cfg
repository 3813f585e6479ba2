CONSTANTS
  t1 = t1
  t2 = t2
  Threads <- TwoThreads
  Exiters <- OneExits
  Blocks <- TwoBlocks
  BlockUnits = 4
  MetaUnits = 1
  LogMax = 1
  LogSmall = 1
  Threshold = 3
  Layouts <- SmallLayouts
SPECIFICATION Spec
INVARIANTS CellsSound ObjectsFit
PROPERTIES ImplementsHeap
