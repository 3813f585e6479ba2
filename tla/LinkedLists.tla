---------------------------- MODULE LinkedLists ----------------------------
(***************************************************************************)
(* The lists MallocKit threads through free memory: the first word of a    *)
(* free cell is the address of the next one, that of the last is `end`     *)
(* (Address::ZERO). word maps the addresses of cells to their first words. *)
(***************************************************************************)
EXTENDS Integers, FiniteSets

\* What the first links of the list lead to, from its head on. What is no
\* cell has no link.
Follow(head, word, end) ==
  LET at[n \in 0..Cardinality(DOMAIN word)] ==
        IF n = 0 THEN head
        ELSE IF at[n - 1] \in DOMAIN word THEN word[at[n - 1]] ELSE end
  IN  at

\* All they lead to. A list that does not end after as many links as there
\* are cells has a cycle.
ListCells(head, word, end) ==
  LET at == Follow(head, word, end) IN {at[n] : n \in DOMAIN at} \ {end}
ListEnds(head, word, end) ==
  Follow(head, word, end)[Cardinality(DOMAIN word)] = end
=============================================================================
