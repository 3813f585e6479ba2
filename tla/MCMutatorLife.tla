--------------------------- MODULE MCMutatorLife ---------------------------
(***************************************************************************)
(* Instances of MutatorLife, and of Lazy below it, for TLC.                *)
(***************************************************************************)
EXTENDS MutatorLife
CONSTANTS t1, t2
TwoThreads == {t1, t2}
OneEarly == {t2}
=============================================================================
