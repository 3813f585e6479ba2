---------------------------- MODULE MCHoardPool ----------------------------
(***************************************************************************)
(* Instances of HoardPool for TLC, with the geometry of the code: blocks   *)
(* of 256 KiB whose first 64 bytes are metadata.                           *)
(***************************************************************************)
EXTENDS HoardPoolInv, TLC
CONSTANTS t1, t2, b1, b2

KiB == 1024
SuperBlockBytes == 256 * KiB
SuperBlockData == SuperBlockBytes - 64
\* The largest class of the space has 3 cells per block, the next one 7.
OneClass == <<64 * KiB>>
TwoClasses == <<32 * KiB, 64 * KiB>>

TwoThreads == {t1, t2}
OneExits == {t2}
NobodyExits == {}
TwoBlocks == {b1, b2}
AllSymmetry == Permutations(Blocks) \cup Permutations(Threads)
=============================================================================
