--------------------------- MODULE MCLargeObjects ---------------------------
(***************************************************************************)
(* Instances of LargeObjects for TLC.                                      *)
(***************************************************************************)
EXTENDS LargeObjects
CONSTANTS t1, t2
TwoThreads == {t1, t2}
OneExits == {t2}
OneToFour == {1, 2, 4}
Uneven == [t \in TwoThreads |-> IF t = t1 THEN 3 ELSE 2]
=============================================================================
