CONSTANTS
  b1 = b1
  b2 = b2
  b3 = b3
  b4 = b4
  NoBlock = NoBlock
  SuperBlocks <- FourBlocks
  BlockBytes <- SuperBlockBytes
  DataBytes <- SuperBlockData
  CellBytes <- Class64K
SPECIFICATION BinSpec
INVARIANTS ListsSound
PROPERTIES ImplementsSets
SYMMETRY BlockSymmetry
