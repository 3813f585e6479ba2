------------------------ MODULE MCIntrusiveFreeList ------------------------
(***************************************************************************)
(* Instances of IntrusiveFreeList for TLC.                                 *)
(***************************************************************************)
EXTENDS IntrusiveFreeList, TLC
CONSTANTS l1, l2, l3
ThreeLists == {l1, l2, l3}
ListSymmetry == Permutations(Lists)
=============================================================================
