----------------------------- MODULE BlockSets -----------------------------
(***************************************************************************)
(* What a bin of a hoard pool is to its user: a set of superblocks, one of *)
(* them possibly cached, from which cells are allocated out of the cached  *)
(* block or the emptiest other one. Module HoardPool works with bins of    *)
(* this kind; module BlockList shows that the linked lists of pool.rs      *)
(* implement them.                                                         *)
(***************************************************************************)
EXTENDS Integers

CONSTANTS Blocks, Cells, None

EmptinessClasses == 8
Bins == {"local", "global"}

VARIABLES
  cache,   \* the cached block of each bin, or None
  list,    \* the other blocks of each bin
  used,    \* cells in use of each block
  pr       \* blocks outside the bins

vars == <<cache, list, used, pr>>

Init ==
  /\ cache = [l \in Bins |-> None]
  /\ list = [l \in Bins |-> {}]
  /\ used = [b \in Blocks |-> 0]
  /\ pr = Blocks

Group(u) == IF u = 0 THEN 0 ELSE 1 + (EmptinessClasses * u) \div Cells
Members(l) == list[l] \cup ({cache[l]} \ {None})
Emptiest(l) == {b \in list[l] : /\ used[b] < Cells
                                /\ \A a \in list[l] : Group(used[b]) <= Group(used[a])}
MostEmpty(l) == IF cache[l] # None THEN {cache[l]} ELSE Emptiest(l)
CacheUsable(l) == cache[l] # None /\ used[cache[l]] < Cells

AllocFromCache ==
  /\ CacheUsable("local")
  /\ used' = [used EXCEPT ![cache["local"]] = @ + 1]
  /\ UNCHANGED <<cache, list, pr>>

AllocFromList ==
  /\ ~CacheUsable("local")
  /\ \E b \in Emptiest("local") :
       /\ cache' = [cache EXCEPT !["local"] = b]
       /\ list' = [list EXCEPT !["local"] = Members("local") \ {b}]
       /\ used' = [used EXCEPT ![b] = @ + 1]
  /\ UNCHANGED pr

\* The bin has no cell left and gets a block from the global bin or from pr.
Refill ==
  /\ ~CacheUsable("local") /\ Emptiest("local") = {}
  /\ \/ \E b \in MostEmpty("global") :
          /\ cache' = [l \in Bins |-> IF l = "local" THEN b
                                      ELSE IF cache[l] = b THEN None ELSE cache[l]]
          /\ list' = [l \in Bins |-> Members(l) \ {b}]
          /\ UNCHANGED pr
     \/ \E b \in pr :
          /\ MostEmpty("global") = {}
          /\ cache' = [cache EXCEPT !["local"] = b]
          /\ list' = [list EXCEPT !["local"] = Members("local")]
          /\ pr' = pr \ {b}
  /\ UNCHANGED used

\* No block is left anywhere: the full cached block joins the others.
Miss ==
  /\ ~CacheUsable("local") /\ Emptiest("local") = {} /\ pr = {}
  /\ cache' = [cache EXCEPT !["local"] = None]
  /\ list' = [list EXCEPT !["local"] = Members("local")]
  /\ UNCHANGED <<used, pr>>

\* A cell of b comes back; an empty block leaves the bin.
Free(l, b) ==
  /\ b \in Members(l) /\ used[b] > 0
  /\ used' = [used EXCEPT ![b] = @ - 1]
  /\ IF used[b] = 1
     THEN /\ cache' = [cache EXCEPT ![l] = IF @ = b THEN None ELSE @]
          /\ list' = [list EXCEPT ![l] = @ \ {b}]
          /\ pr' = pr \cup {b}
     ELSE UNCHANGED <<cache, list, pr>>

\* A block of the local bin moves to the global one: one of the emptiest when
\* the bin is flushed, any block when it is dropped.
Move ==
  /\ \E b \in Members("local") :
       /\ cache["local"] # None => b = cache["local"]
       /\ cache' = [cache EXCEPT !["local"] = None, !["global"] = b]
       /\ list' = [list EXCEPT !["local"] = @ \ {b}, !["global"] = Members("global")]
  /\ UNCHANGED <<used, pr>>

Next ==
  \/ AllocFromCache \/ AllocFromList \/ Refill \/ Miss \/ Move
  \/ \E l \in Bins, b \in Blocks : Free(l, b)

Spec == Init /\ [][Next]_vars
=============================================================================
