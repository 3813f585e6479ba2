----------------------------- MODULE PageRanges -----------------------------
(***************************************************************************)
(* What a free list of pages promises: it hands out aligned runs of a      *)
(* power-of-two number of units, never one that overlaps another, and it   *)
(* has nothing but the runs it handed out to remember.                     *)
(***************************************************************************)
EXTENDS Integers

CONSTANTS
  LogUnits,   \* 2^LogUnits units are managed
  Requests    \* the sizes of runs, in units

VARIABLE used \* the runs handed out, as <<first unit, number of units>>

Span(r) == r[1]..(r[1] + r[2] - 1)
Runs == {r \in (0..(2^LogUnits - 1)) \X Requests :
           r[1] % r[2] = 0 /\ r[1] + r[2] <= 2^LogUnits}

Init == used = {}

Allocate(r) ==
  /\ \A s \in used : Span(r) \cap Span(s) = {}
  /\ used' = used \cup {r}

Release(r) ==
  /\ r \in used
  /\ used' = used \ {r}

Next == \E r \in Runs : Allocate(r) \/ Release(r)

Spec == Init /\ [][Next]_used
=============================================================================
