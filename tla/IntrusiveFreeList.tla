------------------------- MODULE IntrusiveFreeList -------------------------
(***************************************************************************)
(* The buddy allocator of small objects: one IntrusiveFreeList             *)
(* (mallockit/src/util/mem/freelist/intrusive_freelist.rs) per thread,     *)
(* over the chunks of FreeListSpace (mallockit/src/space/freelist_space.rs)*)
(* that the threads share.                                                 *)
(*                                                                         *)
(* What the free list knows of a cell is in the cell: whether it is free   *)
(* and in which size class, in a header the application never writes, and  *)
(* the owning list and two links, in memory that is the application's      *)
(* while the cell is in use. A thread frees into its own list whatever it  *)
(* is given, so buddies may be free in the lists of different threads; a   *)
(* thread reads the header and the owner of a buddy that another thread    *)
(* may be working on.                                                      *)
(*                                                                         *)
(* A list is known by its address in thread-local storage. An exiting      *)
(* thread drops its list as it is, and a later thread may get the same     *)
(* address: it owns, by is_free, cells that are in no list of its own.     *)
(*                                                                         *)
(* A unit is the smallest cell (size class MIN_SIZE_CLASS), class Top a    *)
(* chunk. The chunks come from BlockPageResource, none is released to it.  *)
(***************************************************************************)
EXTENDS Buddies, Integers, Sequences, FiniteSets, FiniteSetsExt

CONSTANTS
  Lists,      \* addresses of the free lists: one per thread that may run at once
  Nobody,     \* the null owner
  Top,        \* NON_COALESCEABLE_SIZE_CLASS_THRESHOLD
  NumChunks,
  Requests    \* size classes asked for (MAX_ALLOCATION_SIZE is below a chunk)

ASSUME SizesAssumption == Top \in Nat /\ NumChunks \in Nat /\ Requests \subseteq 0..Top

Classes == 0..Top
ChunkSize == 2^Top
Units == 0..(NumChunks * ChunkSize - 1)
None == -1
Used == -1          \* is_free = (0, 0)
Garbage == -2       \* what the application, or add_coalesced_page, wrote
ASSUME OwnersAssumption == Nobody \notin Lists /\ Garbage \notin Lists
Links == Units \cup {None, Garbage}
Owners == Lists \cup {Nobody, Garbage}

VARIABLES
  head,        \* IntrusiveFreeList::table, of each list
  isFree,      \* Cell::is_free: the size class of a free cell, Used or Garbage
  owner, prev, next,
  chunks,      \* FreeListSpace::pages: the coalesced chunks
  fresh,       \* the chunks acquire_block has carved so far
  app,         \* the cells the application has, as <<unit, size class>>
  op           \* the call each thread is in

vars == <<head, isFree, owner, prev, next, chunks, fresh, app, op>>
cells == <<isFree, owner, prev, next>>

Idle == [kind |-> "idle"]
Allocating(c) == [kind |-> "alloc", class |-> c]
\* `then` is the class an allocation goes on with, or None when it is a free.
Releasing(kind, u, c, then) == [kind |-> kind, unit |-> u, class |-> c, then |-> then]

Init ==
  /\ head = [l \in Lists |-> [c \in Classes |-> None]]
  /\ isFree = [u \in Units |-> Used]
  /\ owner = [u \in Units |-> Nobody]
  /\ prev = [u \in Units |-> None]
  /\ next = [u \in Units |-> None]
  /\ chunks = <<>>
  /\ fresh = 0
  /\ app = {}
  /\ op = [l \in Lists |-> Idle]

----------------------------------------------------------------------------
\* The lists: push_cell, and remove_cell as it is and at the head (pop_cell)

Push(l, u, c) ==
  LET h == head[l][c]
  IN  /\ isFree' = [isFree EXCEPT ![u] = c]
      /\ owner' = [owner EXCEPT ![u] = l]
      /\ prev' = [v \in Units |-> IF v = u THEN None ELSE IF v = h THEN u ELSE prev[v]]
      /\ next' = [next EXCEPT ![u] = h]
      /\ head' = [head EXCEPT ![l][c] = u]

\* Mutant: the cell is not taken off the head of the table.
Unlink_KeepHead(l, u, c) ==
  /\ prev' = [v \in Units |-> IF v = next[u] THEN prev[u] ELSE prev[v]]
  /\ next' = [v \in Units |-> IF v = prev[u] THEN next[u] ELSE next[v]]
  /\ isFree' = [isFree EXCEPT ![u] = Used]
  /\ owner' = [owner EXCEPT ![u] = Nobody]
  /\ head' = head

\* A cell without a predecessor is at the head of this list, or of none (it
\* was left behind by an earlier thread).
Unlink(l, u, c) ==
  /\ prev' = [v \in Units |-> IF v = next[u] THEN prev[u] ELSE prev[v]]
  /\ next' = [v \in Units |-> IF v = prev[u] THEN next[u] ELSE next[v]]
  /\ isFree' = [isFree EXCEPT ![u] = Used]
  /\ owner' = [owner EXCEPT ![u] = Nobody]
  /\ head' = IF prev[u] = None /\ head[l][c] = u
             THEN [head EXCEPT ![l][c] = next[u]] ELSE head

----------------------------------------------------------------------------
\* FreeListAllocator::alloc

AllocCall(l) ==
  /\ op[l] = Idle
  /\ \E c \in Requests : op' = [op EXCEPT ![l] = Allocating(c)]
  /\ UNCHANGED <<head, cells, chunks, fresh, app>>

Candidates(l) == {c \in op[l].class..Top : head[l][c] # None}

\* allocate_aligned_units: the first list with a cell.
Pop(l) ==
  /\ op[l].kind = "alloc"
  /\ Candidates(l) # {}
  /\ LET k == Min(Candidates(l))
         u == head[l][k]
     IN  /\ Unlink(l, u, k)
         /\ op' = [op EXCEPT ![l] = Releasing("split", u, k, op[l].class)]
  /\ UNCHANGED <<chunks, fresh, app>>

\* Mutant: the half that is kept is the one put back.
Split_SameHalf(l) ==
  /\ op[l].kind = "split" /\ op[l].class > op[l].then
  /\ Push(l, op[l].unit, op[l].class - 1)
  /\ op' = [op EXCEPT ![l].class = @ - 1]
  /\ UNCHANGED <<chunks, fresh, app>>

\* A round of the splitting loop; the headers of both halves are written.
Split(l) ==
  /\ op[l].kind = "split" /\ op[l].class > op[l].then
  /\ Push(l, Sibling(op[l].unit, op[l].class - 1), op[l].class - 1)
  /\ op' = [op EXCEPT ![l].class = @ - 1]
  /\ UNCHANGED <<chunks, fresh, app>>

\* Mutant: the application is given the header, too.
HandOut_NoHeader(l) ==
  LET c == Cell(op[l].unit, op[l].class)
  IN  /\ op[l].kind = "split" /\ op[l].class = op[l].then
      /\ app' = app \cup {<<op[l].unit, op[l].class>>}
      /\ isFree' = [u \in Units |-> IF u \in c THEN Garbage ELSE isFree[u]]
      /\ owner' = [u \in Units |-> IF u \in c THEN Garbage ELSE owner[u]]
      /\ prev' = [u \in Units |-> IF u \in c THEN Garbage ELSE prev[u]]
      /\ next' = [u \in Units |-> IF u \in c THEN Garbage ELSE next[u]]
      /\ op' = [op EXCEPT ![l] = Idle]
      /\ UNCHANGED <<head, chunks, fresh>>

\* The application gets all of the cell but its header, and writes on it.
HandOut(l) ==
  LET c == Cell(op[l].unit, op[l].class)
  IN  /\ op[l].kind = "split" /\ op[l].class = op[l].then
      /\ app' = app \cup {<<op[l].unit, op[l].class>>}
      /\ isFree' = [u \in Units |-> IF u \in c \ {op[l].unit} THEN Garbage ELSE isFree[u]]
      /\ owner' = [u \in Units |-> IF u \in c THEN Garbage ELSE owner[u]]
      /\ prev' = [u \in Units |-> IF u \in c THEN Garbage ELSE prev[u]]
      /\ next' = [u \in Units |-> IF u \in c THEN Garbage ELSE next[u]]
      /\ op' = [op EXCEPT ![l] = Idle]
      /\ UNCHANGED <<head, chunks, fresh>>

\* alloc_cell_slow: a coalesced chunk, under the lock of FreeListSpace::pages ...
TakeCoalesced(l) ==
  /\ op[l].kind = "alloc" /\ Candidates(l) = {} /\ chunks # <<>>
  /\ chunks' = Tail(chunks)
  /\ op' = [op EXCEPT ![l] = Releasing("look", Head(chunks), Top, op[l].class)]
  /\ UNCHANGED <<head, cells, fresh, app>>

\* ... or, when there was none at that time, a new one from the page resource.
MissCoalesced(l) ==
  /\ op[l].kind = "alloc" /\ Candidates(l) = {} /\ chunks = <<>>
  /\ op' = [op EXCEPT ![l].kind = "acquire"]
  /\ UNCHANGED <<head, cells, chunks, fresh, app>>

AcquireBlock(l) ==
  /\ op[l].kind = "acquire" /\ fresh < NumChunks
  /\ fresh' = fresh + 1
  /\ op' = [op EXCEPT ![l] = Releasing("look", fresh * ChunkSize, Top, op[l].class)]
  /\ UNCHANGED <<head, cells, chunks, app>>

AllocFails(l) ==
  /\ op[l].kind = "acquire" /\ fresh = NumChunks
  /\ op' = [op EXCEPT ![l] = Idle]
  /\ UNCHANGED <<head, cells, chunks, fresh, app>>

----------------------------------------------------------------------------
\* FreeListAllocator::dealloc, and add_units: release_aligned_units

FreeCall(l) ==
  /\ op[l] = Idle
  /\ \E r \in app :
       /\ app' = app \ {r}
       /\ op' = [op EXCEPT ![l] = Releasing("look", r[1], r[2], None)]
  /\ UNCHANGED <<head, cells, chunks, fresh>>

\* is_free reads the buddy's header ...
Look(l) ==
  /\ op[l].kind = "look"
  /\ op' = [op EXCEPT ![l].kind =
              IF op[l].class < Top /\ isFree[Sibling(op[l].unit, op[l].class)] = op[l].class
              THEN "owner" ELSE "push"]
  /\ UNCHANGED <<head, cells, chunks, fresh, app>>

\* Mutant: whoever owns the buddy.
Owns_Any(l, u) == TRUE

\* ... and then its owner.
Owns(l, u) == owner[u] = l

NotMine(l) ==
  /\ op[l].kind = "owner"
  /\ ~Owns(l, Sibling(op[l].unit, op[l].class))
  /\ op' = [op EXCEPT ![l].kind = "push"]
  /\ UNCHANGED <<head, cells, chunks, fresh, app>>

\* Mutant: the merged cell starts where the released one did.
Merge_KeepUnit(l) ==
  LET u == op[l].unit  c == op[l].class
  IN  /\ op[l].kind = "owner"
      /\ Owns(l, Sibling(u, c))
      /\ Unlink(l, Sibling(u, c), c)
      /\ op' = [op EXCEPT ![l] = Releasing("look", u, c + 1, @.then)]
      /\ UNCHANGED <<chunks, fresh, app>>

Merge(l) ==
  LET u == op[l].unit  c == op[l].class
  IN  /\ op[l].kind = "owner"
      /\ Owns(l, Sibling(u, c))
      /\ Unlink(l, Sibling(u, c), c)
      /\ op' = [op EXCEPT ![l] = Releasing("look", Parent(u, c), c + 1, @.then)]
      /\ UNCHANGED <<chunks, fresh, app>>

\* Mutant: the buddy is not looked at.
Settle_NoLook(l) ==
  /\ op[l].kind \in {"look", "push"}
  /\ Push(l, op[l].unit, op[l].class)
  /\ op' = [op EXCEPT ![l] = IF @.then = None THEN [kind |-> "coalesce"] ELSE Allocating(@.then)]
  /\ UNCHANGED <<chunks, fresh, app>>

Settle(l) ==
  /\ op[l].kind = "push"
  /\ Push(l, op[l].unit, op[l].class)
  /\ op' = [op EXCEPT ![l] = IF @.then = None THEN [kind |-> "coalesce"] ELSE Allocating(@.then)]
  /\ UNCHANGED <<chunks, fresh, app>>

\* The loop at the end of dealloc: whole chunks go back to the space. The
\* chunk is popped, and then added under the lock, its first word the link.
PopChunk(l) ==
  /\ op[l].kind = "coalesce" /\ head[l][Top] # None
  /\ Unlink(l, head[l][Top], Top)
  /\ op' = [op EXCEPT ![l] = [kind |-> "addChunk", unit |-> head[l][Top]]]
  /\ UNCHANGED <<chunks, fresh, app>>

AddChunk(l) ==
  /\ op[l].kind = "addChunk"
  /\ chunks' = <<op[l].unit>> \o chunks
  /\ isFree' = [isFree EXCEPT ![op[l].unit] = Garbage]
  /\ op' = [op EXCEPT ![l] = [kind |-> "coalesce"]]
  /\ UNCHANGED <<head, owner, prev, next, fresh, app>>

FreeDone(l) ==
  /\ op[l].kind = "coalesce" /\ head[l][Top] = None
  /\ op' = [op EXCEPT ![l] = Idle]
  /\ UNCHANGED <<head, cells, chunks, fresh, app>>

----------------------------------------------------------------------------
\* The thread exits and another gets its thread-local storage: a new list at
\* the same address, the cells of the old one as they are.
Reincarnate(l) ==
  /\ op[l] = Idle
  /\ head' = [head EXCEPT ![l] = [c \in Classes |-> None]]
  /\ UNCHANGED <<cells, chunks, fresh, app, op>>

Next == \E l \in Lists :
  \/ AllocCall(l) \/ Pop(l) \/ Split(l) \/ HandOut(l)
  \/ TakeCoalesced(l) \/ MissCoalesced(l) \/ AcquireBlock(l) \/ AllocFails(l)
  \/ FreeCall(l) \/ Look(l) \/ NotMine(l) \/ Merge(l) \/ Settle(l)
  \/ PopChunk(l) \/ AddChunk(l) \/ FreeDone(l)
  \/ Reincarnate(l)

Spec == Init /\ [][Next]_vars

----------------------------------------------------------------------------
\* The cells some list has, or that an earlier thread left marked as free.
Marked == {u \in Units : owner[u] \in Lists /\ isFree[u] \in Classes}
FreeCells == {<<u, isFree[u]>> : u \in Marked}

\* The units in the hands of a thread's call.
InHand(l) ==
  CASE op[l].kind \in {"split", "look", "owner", "push"} -> Cell(op[l].unit, op[l].class)
    [] op[l].kind = "addChunk" -> Cell(op[l].unit, Top)
    [] OTHER -> {}

\* Types of the variables; every cell is aligned to its size.
TypeOK ==
  /\ head \in [Lists -> [Classes -> Units \cup {None}]]
  /\ isFree \in [Units -> Classes \cup {Used, Garbage}]
  /\ owner \in [Units -> Owners]
  /\ prev \in [Units -> Links] /\ next \in [Units -> Links]
  /\ \A i \in 1..Len(chunks) : chunks[i] \in Units /\ Aligned(chunks[i], Top)
  /\ fresh \in 0..NumChunks
  /\ app \subseteq Units \X Requests
  /\ \A u \in Marked : Aligned(u, isFree[u])
  /\ \A l \in Lists : op[l].kind \in {"split", "look", "owner", "push"} =>
       op[l].class \in Classes /\ Aligned(op[l].unit, op[l].class)

\* The links of the free cells, those of exited threads included, lead to
\* cells of the same list and class and back: remove_cell and pop_cell write
\* on no memory that is in use, whoever merges.
ListsLinked ==
  /\ \A u \in Marked :
       /\ next[u] # None => /\ next[u] \in Marked /\ prev[next[u]] = u
                            /\ isFree[next[u]] = isFree[u] /\ owner[next[u]] = owner[u]
       /\ prev[u] # None => prev[u] \in Marked /\ next[prev[u]] = u
  /\ \A l \in Lists, c \in Classes : head[l][c] # None =>
       /\ head[l][c] \in Marked /\ prev[head[l][c]] = None
       /\ isFree[head[l][c]] = c /\ owner[head[l][c]] = l

\* No unit is lost or given out twice, whichever threads free and exit: it is
\* in one free cell, one cell in use, one coalesced chunk, one call, or new.
UnitsConserved ==
  \A u \in Units :
    Cardinality({f \in FreeCells : u \in Cell(f[1], f[2])})
    + Cardinality({r \in app : u \in Cell(r[1], r[2])})
    + Cardinality({i \in 1..Len(chunks) : u \in Cell(chunks[i], Top)})
    + Cardinality({l \in Lists : u \in InHand(l)})
    + (IF u >= fresh * ChunkSize THEN 1 ELSE 0) = 1

\* is_free looks at a header the free list wrote, never at what an
\* application left in the middle of a larger cell.
HeadersReal ==
  \A l \in Lists :
    /\ op[l].kind = "look" /\ op[l].class < Top =>
         isFree[Sibling(op[l].unit, op[l].class)] # Garbage
    /\ op[l].kind = "owner" => op[l].class < Top

\* Buddies never stay free side by side in one list: the next thread to free
\* one merges it even with what an earlier thread at its address left.
BuddiesMerged ==
  \A u, v \in Marked :
    v = Sibling(u, isFree[u]) /\ isFree[u] = isFree[v] /\ isFree[u] < Top
      => owner[u] # owner[v]

\* Headers, links and units are right at every step of a split or merge, with
\* other threads freeing cells of the same chunk.
CellsSound == TypeOK /\ ListsLinked /\ UnitsConserved /\ HeadersReal /\ BuddiesMerged

----------------------------------------------------------------------------
\* To the application, lists and chunks are one allocator of disjoint cells.
Ranges == INSTANCE PageRanges WITH
  used <- {<<r[1], 2^r[2]>> : r \in app},
  LogUnits <- Min({k \in 0..(Top + NumChunks) : 2^k >= NumChunks * ChunkSize}),
  Requests <- {2^c : c \in Requests}
ImplementsRanges == Ranges!Spec
=============================================================================
