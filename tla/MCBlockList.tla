---------------------------- MODULE MCBlockList ----------------------------
(***************************************************************************)
(* Instances of BlockList for TLC, with the geometry of the code.          *)
(***************************************************************************)
EXTENDS BlockList, TLC
CONSTANTS b1, b2, b3, b4

SuperBlockBytes == 256 * 1024
SuperBlockData == SuperBlockBytes - 64
\* 3 cells per block
Class64K == 64 * 1024

FourBlocks == {b1, b2, b3, b4}
BlockSymmetry == Permutations(SuperBlocks)
=============================================================================
