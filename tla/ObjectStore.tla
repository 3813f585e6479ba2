----------------------------- MODULE ObjectStore -----------------------------
(***************************************************************************)
(* What the malloc interface promises about the contents of objects: they  *)
(* are the client's. Nothing but a call about an object changes what can   *)
(* be read from it, and resizing keeps what fits.                          *)
(***************************************************************************)
EXTENDS Integers, Sequences

CONSTANTS Ids, Blank, None

VARIABLE contents   \* of each object, as far as the client knows them

Init == contents = [i \in Ids |-> None]

Create(i) == contents[i] = None

Free(i) == contents[i] # None /\ contents'[i] = None

Agree(s, r) == \A k \in DOMAIN s \cap DOMAIN r : s[k] = r[k]
Resize(i) == contents[i] # None /\ contents'[i] # None /\ Agree(contents[i], contents'[i])

\* grow_zeroed gives up the old contents.
Clear(i) ==
  /\ contents[i] # None /\ contents'[i] # None
  /\ \A k \in DOMAIN contents'[i] : contents'[i][k] = Blank

Next == \E i \in Ids :
  /\ Create(i) \/ Free(i) \/ Resize(i) \/ Clear(i)
  /\ \A j \in Ids \ {i} : contents'[j] = contents[j]

Spec == Init /\ [][Next]_contents
=============================================================================
