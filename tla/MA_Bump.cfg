CONSTANTS
  m1 = m1
  m2 = m2
  Mutators <- TwoMutators
  Ids <- TwoObjects
  LogChunks = 2
  ChunkWords = 4
  FieldLimit = 32
  MaxClass = 5
  MinAlign = 2
  PageWords = 4
  Sizes <- SomeSizes
  Alignments <- SomeAlignments
SPECIFICATION ApiSpec
INVARIANTS ObjectsApart RetryFits
PROPERTIES ImplementsStore
SYMMETRY MutatorSymmetry
CHECK_DEADLOCK FALSE
