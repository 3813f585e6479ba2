------------------------------ MODULE Buddies ------------------------------
(***************************************************************************)
(* Cells of the buddy allocators: a cell of class c has 2^c units and      *)
(* starts at a multiple of them. Its sibling is the other half of the cell *)
(* of the next class, which starts at the parent.                          *)
(***************************************************************************)
EXTENDS Integers

Cell(u, c) == u..(u + 2^c - 1)
Aligned(u, c) == u % 2^c = 0
Parent(u, c) == IF (u \div 2^c) % 2 = 1 THEN u - 2^c ELSE u
Sibling(u, c) == IF (u \div 2^c) % 2 = 1 THEN u - 2^c ELSE u + 2^c
=============================================================================
