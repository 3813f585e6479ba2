------------------------------- MODULE Totals -------------------------------
(***************************************************************************)
(* Totals of functions: what counters are compared with.                   *)
(***************************************************************************)
EXTENDS FiniteSetsExt

Total(f, S) == MapThenSumSet(LAMBDA x : f[x], S)
=============================================================================
