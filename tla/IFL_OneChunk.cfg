CONSTANTS
  l1 = l1
  l2 = l2
  l3 = l3
  Nobody = Nobody
  Lists <- ThreeLists
  Top = 2
  NumChunks = 1
  Requests = {0, 1}
SPECIFICATION Spec
INVARIANTS CellsSound
PROPERTIES ImplementsRanges
SYMMETRY ListSymmetry
