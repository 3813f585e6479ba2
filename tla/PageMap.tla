------------------------------- MODULE PageMap -------------------------------
(***************************************************************************)
(* What a page table is: a partial function from pages to values.          *)
(***************************************************************************)
CONSTANTS
  Pages, Values, NoPage, NoMeta,
  Ranges   \* the pages of the smallest size in a page of some size

VARIABLE map

Init == map = [p \in Pages |-> NoPage]

Becomes(S, from, to) ==
  /\ \A p \in S : map[p] \in from /\ map'[p] \in to
  /\ \A p \in Pages \ S : map'[p] = map[p]

\* The pages of a larger page come and go together; a page of the smallest
\* size comes with its value. No other page is affected.
Next ==
  \/ \E S \in Ranges : Becomes(S, {NoPage}, {NoMeta}) \/ Becomes(S, Values, {NoPage})
  \/ \E p \in Pages : Becomes({p}, {NoPage}, Values)

Spec == Init /\ [][Next]_map
=============================================================================
