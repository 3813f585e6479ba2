---------------------------- MODULE MCMallocApi ----------------------------
EXTENDS MallocApi, TLC
CONSTANTS m1, m2
TwoMutators == {m1, m2}
MutatorSymmetry == Permutations(TwoMutators)
TwoObjects == {1, 2}
\* Nothing, and what is rounded up to a whole chunk.
SomeSizes == {0, 3}
\* Below the smallest one, not a power of two, a chunk, two chunks.
SomeAlignments == {1, 3, 4, 8}
=============================================================================
