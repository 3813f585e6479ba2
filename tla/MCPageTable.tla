---------------------------- MODULE MCPageTable ----------------------------
EXTENDS PageTable
CONSTANTS t1, t2
TwoThreads == {t1, t2}
OneEnds == {t2}
\* Two pages of one table, and one of the table beside it.
SomePages == {0, 1, 2}
\* A page of the next level, in a table beside the one above those.
OneLarge == {<<4, 2>>}
SmallAndLarge == {1, 3}
=============================================================================
