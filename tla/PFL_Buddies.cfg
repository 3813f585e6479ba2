CONSTANTS
  NumSizeClass = 4
  Requests <- PowersUpTo8
SPECIFICATION Spec
INVARIANTS FreeListSound NoFalseRefusal
PROPERTIES ImplementsRanges
