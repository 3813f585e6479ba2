----------------------------- MODULE HoardHeap -----------------------------
(***************************************************************************)
(* What the hoard heap promises its clients, whatever pools, bins and      *)
(* locks it is made of: a superblock serves one size class for as long as  *)
(* any of its cells is out, and never has more cells out than it holds.    *)
(***************************************************************************)
EXTENDS Integers

CONSTANTS
  Blocks,      \* the superblocks
  Capacity     \* cells per superblock, for each size class

Unused == 0    \* the class of a superblock that never served one

VARIABLES
  out,         \* cells of each superblock the application has
  kind         \* the size class each superblock serves

vars == <<out, kind>>

Init ==
  /\ out = [b \in Blocks |-> 0]
  /\ kind = [b \in Blocks |-> Unused]

\* A superblock nobody has a cell of starts to serve a size class.
Dedicate(b, c) ==
  /\ out[b] = 0
  /\ kind' = [kind EXCEPT ![b] = c]
  /\ UNCHANGED out

Alloc(b) ==
  /\ kind[b] # Unused
  /\ out[b] < Capacity[kind[b]]
  /\ out' = [out EXCEPT ![b] = @ + 1]
  /\ UNCHANGED kind

Free(b) ==
  /\ out[b] > 0
  /\ out' = [out EXCEPT ![b] = @ - 1]
  /\ UNCHANGED kind

Next == \E b \in Blocks :
  Alloc(b) \/ Free(b) \/ \E c \in DOMAIN Capacity : Dedicate(b, c)

Spec == Init /\ [][Next]_vars
=============================================================================
