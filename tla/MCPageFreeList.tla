--------------------------- MODULE MCPageFreeList ---------------------------
(***************************************************************************)
(* Instances of PageFreeList for TLC.                                      *)
(***************************************************************************)
EXTENDS PageFreeList
PowersUpTo8 == {1, 2, 4, 8}
=============================================================================
