----------------------------- MODULE BlockList -----------------------------
(***************************************************************************)
(* The lists of superblocks inside a bin (BlockList and EmptyClass in      *)
(* hoard/src/pool.rs): doubly linked lists, one per emptiness group, whose *)
(* links are fields of the blocks themselves, plus one cached block        *)
(* outside the lists and the byte accounts of the bin.                     *)
(*                                                                         *)
(* Two bins of one size class, a local and the global one, exchange        *)
(* blocks: a block arrives with the links and the group its last list      *)
(* left in it, for no operation clears them. Every action is what one      *)
(* thread does under the lock of the bin; the concurrency between bins is  *)
(* module HoardPool's.                                                     *)
(*                                                                         *)
(* The fields of all blocks and both bins form one record, `heap`, because *)
(* the methods compose: each is an operator from heap to heap.             *)
(***************************************************************************)
EXTENDS LinkedLists, Totals

CONSTANTS
  SuperBlocks,  \* the superblocks
  CellBytes,    \* SizeClass::bytes of the size class of the bins
  BlockBytes,   \* SuperBlock::BYTES
  DataBytes,    \* SuperBlock::DATA_BYTES
  NoBlock

ASSUME BlockListAssumption ==
  /\ IsFiniteSet(SuperBlocks) /\ NoBlock \notin SuperBlocks
  /\ BlockBytes \in Nat /\ DataBytes \in Nat /\ CellBytes \in 1..DataBytes

EmptinessClasses == 8
Groups == 0..(EmptinessClasses + 1)
Lists == {"local", "global"}
Cells == DataBytes \div CellBytes
Refs == SuperBlocks \cup {NoBlock}

VARIABLES
  heap,      \* prev, next, group, used of each block; head, cache, ub, tb of each bin
  pr,        \* blocks of the page resource
  busy       \* the call that has the local bin locked: "no", "alloc", "flush" or "drop"

binVars == <<heap, pr, busy>>

BinInit ==
  /\ heap = [prev  |-> [b \in SuperBlocks |-> NoBlock], next |-> [b \in SuperBlocks |-> NoBlock],
             group |-> [b \in SuperBlocks |-> 0],    used |-> [b \in SuperBlocks |-> 0],
             head  |-> [l \in Lists |-> [g \in Groups |-> NoBlock]],
             cache |-> [l \in Lists |-> NoBlock],
             ub    |-> [l \in Lists |-> 0],     tb   |-> [l \in Lists |-> 0]]
  /\ pr = SuperBlocks
  /\ busy = "no"

----------------------------------------------------------------------------
\* EmptyClass

Group(h, b) == IF h.used[b] = 0 THEN 0
               ELSE 1 + (EmptinessClasses * h.used[b] * CellBytes) \div (Cells * CellBytes)

SetNext(h, b, x) == IF b = NoBlock THEN h ELSE [h EXCEPT !.next[b] = x]
SetPrev(h, b, x) == IF b = NoBlock THEN h ELSE [h EXCEPT !.prev[b] = x]

\* Mutant: next.prev is not updated.
Unlink_OneWay(h, l, g, b) ==
  LET h1 == IF h.head[l][g] = b THEN [h EXCEPT !.head[l][g] = h.next[b]] ELSE h
  IN  SetNext(h1, h.prev[b], h.next[b])

\* The first half of transfer, and remove.
Unlink(h, l, g, b) ==
  LET h1 == IF h.head[l][g] = b THEN [h EXCEPT !.head[l][g] = h.next[b]] ELSE h
      h2 == SetNext(h1, h.prev[b], h.next[b])
  IN  SetPrev(h2, h.next[b], h.prev[b])

\* The second half of transfer, and put.
Push(h, l, g, b) ==
  SetPrev([h EXCEPT !.group[b] = g, !.next[b] = h.head[l][g], !.prev[b] = NoBlock,
                    !.head[l][g] = b],
          h.head[l][g], b)

PutGroup(h, l, b) == Push(h, l, Group(h, b), b)

\* Mutant: a block whose group changed stays in the list of its old group.
Transfer_Stay(h, l, b, oldg, newg) == h

Transfer(h, l, b, oldg, newg) ==
  IF h.head[l][newg] = b \/ newg = oldg THEN h
  ELSE Push(Unlink(h, l, oldg, b), l, newg, b)

\* pop: what it leaves in the popped block's links is stale from here on.
Pop(h, l, g) ==
  LET b == h.head[l][g]
  IN  SetPrev([h EXCEPT !.head[l][g] = h.next[b]], h.next[b], NoBlock)

\* One turn of the loops of pop_most_empty_block, at group x.group: full blocks
\* are not looked at, and a block found in too low a group is put where it
\* belongs.
Turn(x, l) ==
  LET b == x.heap.head[l][x.group]
      h == Pop(x.heap, l, x.group)
  IN  IF x.block # NoBlock \/ x.group > EmptinessClasses THEN x
      ELSE IF b = NoBlock THEN [x EXCEPT !.group = @ + 1]
      ELSE IF Group(h, b) > x.group THEN [x EXCEPT !.heap = PutGroup(h, l, b)]
      ELSE [heap |-> h, group |-> x.group, block |-> b]

\* Every group but the last is left once, every block put back at most once.
Turns == EmptinessClasses + 1 + Cardinality(SuperBlocks)

Scan(h, l) ==
  LET at[n \in 0..Turns] == IF n = 0 THEN [heap |-> h, group |-> 0, block |-> NoBlock]
                            ELSE Turn(at[n - 1], l)
  IN  at

PopMostEmpty(h, l) == Scan(h, l)[Turns]

----------------------------------------------------------------------------
\* BlockList

Account(h, l, du, dt) == [h EXCEPT !.ub[l] = @ + du, !.tb[l] = @ + dt]
BytesOf(h, b) == h.used[b] * CellBytes

ListPut(h, l, b) ==
  IF h.cache[l] = b THEN h
  ELSE LET h1 == IF h.cache[l] = NoBlock THEN h ELSE PutGroup(h, l, h.cache[l])
       IN  Account([h1 EXCEPT !.cache[l] = b], l, BytesOf(h, b), DataBytes)

ListPop(h, l) ==
  LET r == IF h.cache[l] # NoBlock
           THEN [heap |-> [h EXCEPT !.cache[l] = NoBlock], block |-> h.cache[l]]
           ELSE PopMostEmpty(h, l)
  IN  [heap |-> IF r.block = NoBlock THEN r.heap
                ELSE Account(r.heap, l, -BytesOf(h, r.block), -DataBytes),
       block |-> r.block]

\* Mutant: the bytes in use are subtracted after the cell was, once too often.
ListRemove_Twice(h, l, b) ==
  LET h1 == Account(h, l, -BytesOf(h, b) - CellBytes, -DataBytes)
  IN  IF h.cache[l] = b THEN [h1 EXCEPT !.cache[l] = NoBlock]
      ELSE Unlink(h1, l, h.group[b], b)

ListRemove(h, l, b) ==
  LET h1 == Account(h, l, -BytesOf(h, b), -DataBytes)
  IN  IF h.cache[l] = b THEN [h1 EXCEPT !.cache[l] = NoBlock]
      ELSE Unlink(h1, l, h.group[b], b)

\* SuperBlock::alloc_cell out of the cached block
TakeCell(h, l) == Account([h EXCEPT !.used[h.cache[l]] = @ + 1], l, CellBytes, 0)

\* alloc_cell and alloc_cell_slow: `ok` says whether a cell was found. A block
\* that was popped is not full, so that its cell ends the loop.
ListAlloc(h, l) ==
  LET c == h.cache[l]
      h1 == IF c = NoBlock THEN h ELSE PutGroup([h EXCEPT !.cache[l] = NoBlock], l, c)
      r == PopMostEmpty(h1, l)
  IN  IF c # NoBlock /\ h.used[c] < Cells THEN [heap |-> TakeCell(h, l), ok |-> TRUE]
      ELSE IF r.block = NoBlock THEN [heap |-> r.heap, ok |-> FALSE]
      ELSE [heap |-> TakeCell([r.heap EXCEPT !.cache[l] = r.block], l), ok |-> TRUE]

\* free_cell: a block in a group may change group.
ListFree(h, l, b) ==
  LET h1 == [h EXCEPT !.used[b] = @ - 1]
      h2 == IF h.cache[l] = b THEN h1
            ELSE Transfer(h1, l, b, Group(h, b), Group(h1, b))
  IN  Account(h2, l, -CellBytes, 0)

ShouldFlush(h, l) ==
  /\ EmptinessClasses * h.ub[l] < (EmptinessClasses - 1) * h.tb[l]
  /\ h.ub[l] + (2 * BlockBytes) \div CellBytes < h.tb[l]

----------------------------------------------------------------------------
\* Pool: the blocks of a bin, by walking the links

Walk(h, l, g) == ListCells(h.head[l][g], h.next, NoBlock)
InGroups(h, l) == UNION {Walk(h, l, g) : g \in {i \in Groups : h.head[l][i] # NoBlock}}
Members(h, l) == InGroups(h, l) \cup ({h.cache[l]} \ {NoBlock})

\* Pool::alloc_cell on the local bin
Alloc ==
  /\ busy \in {"no", "alloc"}
  /\ LET r == ListAlloc(heap, "local") IN r.ok /\ heap' = r.heap
  /\ busy' = "no"
  /\ UNCHANGED pr

\* Its slow path: HoardSpace::acquire_block tries the global bin first ...
RefillFromGlobal ==
  /\ busy \in {"no", "alloc"}
  /\ LET r == ListAlloc(heap, "local")
         g == ListPop(r.heap, "global")
     IN  /\ ~r.ok
         /\ g.block # NoBlock
         /\ heap' = ListPut(g.heap, "local", g.block)
  /\ busy' = "alloc"
  /\ UNCHANGED pr

\* ... then takes a block of the page resource, whose init sets no link ...
RefillFresh ==
  /\ busy \in {"no", "alloc"}
  /\ LET r == ListAlloc(heap, "local")
         g == ListPop(r.heap, "global")
     IN  /\ ~r.ok
         /\ g.block = NoBlock
         /\ \E b \in pr :
              /\ heap' = ListPut([g.heap EXCEPT !.used[b] = 0], "local", b)
              /\ pr' = pr \ {b}
  /\ busy' = "alloc"

\* ... and the allocation fails when there is none.
AllocFails ==
  /\ busy \in {"no", "alloc"}
  /\ pr = {}
  /\ LET r == ListAlloc(heap, "local")
         g == ListPop(r.heap, "global")
     IN  ~r.ok /\ g.block = NoBlock /\ heap' = g.heap
  /\ busy' = "no"
  /\ UNCHANGED pr

\* Pool::free_cell_slow_impl up to `Flush?`
FreeCell(h, l, b) ==
  LET h1 == ListFree(h, l, b)
  IN  IF h1.used[b] = 0 THEN ListRemove(h1, l, b) ELSE h1

\* free_cell on the local bin, with the flush that may follow
FreeLocal(b) ==
  /\ busy = "no"
  /\ b \in Members(heap, "local") /\ heap.used[b] > 0
  /\ heap' = FreeCell(heap, "local", b)
  /\ pr' = IF heap.used[b] = 1 THEN pr \cup {b} ELSE pr
  /\ busy' = IF ShouldFlush(heap', "local") THEN "flush" ELSE "no"

\* flush_block_slow, and the end of free_cell_slow_impl
Flush ==
  /\ busy = "flush"
  /\ LET r == ListPop(heap, "local")
     IN  heap' = IF r.block = NoBlock THEN r.heap ELSE ListPut(r.heap, "global", r.block)
  /\ busy' = "no"
  /\ UNCHANGED pr

FreeGlobal(b) ==
  /\ b \in Members(heap, "global") /\ heap.used[b] > 0
  /\ heap' = FreeCell(heap, "global", b)
  /\ pr' = IF heap.used[b] = 1 THEN pr \cup {b} ELSE pr
  /\ UNCHANGED busy

\* Pool::drop moves the cached block, then every group, to the global bin
\* and leaves the accounts alone; the next pool starts from Pool::new.
Drop ==
  /\ busy \in {"no", "drop"}
  /\ Members(heap, "local") # {}
  /\ LET c == heap.cache["local"]
         g == Min({i \in Groups : heap.head["local"][i] # NoBlock})
     IN  heap' = IF c # NoBlock
                 THEN ListPut([heap EXCEPT !.cache["local"] = NoBlock], "global", c)
                 ELSE ListPut(Pop(heap, "local", g), "global", heap.head["local"][g])
  /\ busy' = "drop"
  /\ UNCHANGED pr

\* Mutant: Pool::drop skips the last group, the full blocks.
DropEnd_KeepFull ==
  /\ busy = "drop"
  /\ heap.cache["local"] = NoBlock
  /\ \A g \in 0..EmptinessClasses : heap.head["local"][g] = NoBlock
  /\ heap' = [heap EXCEPT !.ub["local"] = 0, !.tb["local"] = 0,
                          !.head["local"] = [g \in Groups |-> NoBlock]]
  /\ busy' = "no"
  /\ UNCHANGED pr

DropEnd ==
  /\ busy = "drop"
  /\ Members(heap, "local") = {}
  /\ heap' = [heap EXCEPT !.ub["local"] = 0, !.tb["local"] = 0]
  /\ busy' = "no"
  /\ UNCHANGED pr

BinNext ==
  \/ Alloc \/ RefillFromGlobal \/ RefillFresh \/ AllocFails
  \/ Flush \/ Drop \/ DropEnd
  \/ \E b \in SuperBlocks : FreeLocal(b) \/ FreeGlobal(b)

BinSpec == BinInit /\ [][BinNext]_binVars

----------------------------------------------------------------------------
\* Types of the variables; the accounts never wrap below zero.
BinTypeOK ==
  /\ heap.prev \in [SuperBlocks -> Refs] /\ heap.next \in [SuperBlocks -> Refs]
  /\ heap.group \in [SuperBlocks -> Groups] /\ heap.used \in [SuperBlocks -> 0..Cells]
  /\ heap.head \in [Lists -> [Groups -> Refs]] /\ heap.cache \in [Lists -> Refs]
  /\ heap.ub \in [Lists -> Nat] /\ heap.tb \in [Lists -> Nat]
  /\ pr \subseteq SuperBlocks
  /\ busy \in {"no", "alloc", "flush", "drop"}

\* The links of every list are sound although no operation clears those of a
\* block that leaves: from the head on, next and prev are each other's inverse
\* (what EmptyClass::remove and transfer rely on to unlink a block in place).
WellLinked ==
  \A l \in Lists, g \in Groups :
    /\ heap.head[l][g] # NoBlock => heap.prev[heap.head[l][g]] = NoBlock
    /\ \A b \in Walk(heap, l, g) : heap.next[b] # NoBlock => heap.prev[heap.next[b]] = b

\* A listed block is in the list of its emptiness group and its own `group`
\* field says so: remove finds the head it may have to move, and the scan of
\* pop_most_empty_block finds the emptiest block (its re-put never happens).
GroupsAgree ==
  \A l \in Lists, g \in Groups : \A b \in Walk(heap, l, g) :
    heap.group[b] = g /\ Group(heap, b) = g

\* No block is lost or in two places: the page resource, the two caches and
\* the lists of all the groups partition the blocks.
Partition ==
  LET walk == [q \in Lists \X Groups |-> Walk(heap, q[1], q[2])]
  IN  \A b \in SuperBlocks :
        Cardinality({l \in Lists : heap.cache[l] = b})
        + Cardinality({q \in Lists \X Groups : b \in walk[q]})
        + Cardinality(pr \cap {b}) = 1

\* The accounts should_flush compares are the sums over the bin's blocks.
AccountsExact ==
  \A l \in Lists : ~(l = "local" /\ busy = "drop") =>
    /\ heap.ub[l] = Total([b \in SuperBlocks |-> BytesOf(heap, b)], Members(heap, l))
    /\ heap.tb[l] = DataBytes * Cardinality(Members(heap, l))

\* Links, groups, places and accounts are right after every call on a bin, in
\* whatever order blocks are cached, moved, flushed and drained.
ListsSound == BinTypeOK /\ WellLinked /\ GroupsAgree /\ Partition /\ AccountsExact

----------------------------------------------------------------------------
\* The lists implement the sets HoardPool takes them for.
Sets == INSTANCE BlockSets WITH
  Blocks <- SuperBlocks, None <- NoBlock,
  cache <- heap.cache, list <- [l \in Lists |-> InGroups(heap, l)], used <- heap.used

\* Allocation out of the cached or the emptiest block, moves and frees, as if
\* the bins were sets.
ImplementsSets == Sets!Spec
=============================================================================
