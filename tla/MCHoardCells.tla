---------------------------- MODULE MCHoardCells ----------------------------
EXTENDS HoardCells
CONSTANTS t1, t2
TwoThreads == {t1, t2}
OneExits == {t2}
TwoBlocks == {1, 2}
\* The second is padded to its alignment.
SmallLayouts == {<<1, 1>>, <<1, 2>>}
=============================================================================
