---------------------------- MODULE PageFreeList ----------------------------
(***************************************************************************)
(* The buddy allocator for pages: InternalAbstractFreeList                 *)
(* (mallockit/src/util/mem/freelist/abstract_freelist.rs) as implemented   *)
(* by PageFreeList (page_freelist.rs).                                     *)
(*                                                                         *)
(* A free cell is recorded three times: in the list of its size class, as  *)
(* a bit of a binary tree, and as an entry of a page table that leads from *)
(* the unit to its node in the list. FreelistPageResource calls the free   *)
(* list under a mutex, so calls do not overlap; an iteration of a loop is  *)
(* a step, for the assertions look at the state between them.              *)
(***************************************************************************)
EXTENDS Buddies, Integers, Sequences, FiniteSets, SequencesExt, FiniteSetsExt

CONSTANTS
  NumSizeClass,   \* NUM_SIZE_CLASS
  Requests        \* unit counts asked for: acquire_pages rounds them up to 2^k

Classes == 0..(NumSizeClass - 1)
Threshold == NumSizeClass - 1       \* NON_COALESCEABLE_SIZE_CLASS_THRESHOLD
NumUnits == 2^(NumSizeClass - 1)
Units == 0..(NumUnits - 1)

ASSUME NumSizeClassAssumption == NumSizeClass \in Nat \ {0}
ASSUME RequestsAssumption == Requests \subseteq {2^k : k \in Classes}

VARIABLES
  table,   \* the lists of free cells, by size class
  bst,     \* the bits of the tree that are set
  paged,   \* the units the page table has an entry for
  used,    \* the cells handed out, as <<unit, units>>
  op       \* the call under way

vars == <<table, bst, paged, used, op>>

Idle == [kind |-> "idle"]
\* release_cell_unaligned_size has the units from `start` to `limit` left.
Releasing(start, limit) == [kind |-> "release", start |-> start, limit |-> limit]

\* PageFreeList::new, and FreelistPageResource::new, which releases all units
Init ==
  /\ table = [c \in Classes |-> <<>>]
  /\ bst = {}
  /\ paged = {}
  /\ used = {}
  /\ op = Releasing(0, NumUnits)

----------------------------------------------------------------------------
\* Units and size classes

UnitToIndex(u, c) == 2^(NumSizeClass - c - 1) + u \div 2^c
IsFree(u, c) == UnitToIndex(u, c) \in bst

SizeClass(n) == Min({c \in 0..NumSizeClass : n <= 2^c})
TrailingZeros(u) == Max({c \in Classes : Aligned(u, c)})

\* Mutant: the bit of the tree stays clear.
Push_NoBit(u, c) ==
  /\ table' = [table EXCEPT ![c] = <<u>> \o @]
  /\ paged' = paged \cup {u}
  /\ bst' = bst

Push(u, c) ==
  /\ table' = [table EXCEPT ![c] = <<u>> \o @]
  /\ paged' = paged \cup {u}
  /\ bst' = bst \cup {UnitToIndex(u, c)}

\* Mutant: set_as_used is missing.
Unlink_KeepBit(u, c) ==
  /\ table' = [table EXCEPT ![c] = RemoveFirst(@, u)]
  /\ paged' = paged \ {u}
  /\ bst' = bst

\* pop and remove: the first cell of a list, or the one of a given unit.
Unlink(u, c) ==
  /\ table' = [table EXCEPT ![c] = RemoveFirst(@, u)]
  /\ paged' = paged \ {u}
  /\ bst' = bst \ {UnitToIndex(u, c)}

----------------------------------------------------------------------------
\* allocate_cell_unaligned_size, allocate_aligned_units and its slow path

Candidates(c) == {k \in c..Threshold : table[k] # <<>>}

\* The first list with a cell, from the requested size class on. (When there
\* is none the call returns None and nothing changes.)
Allocate(n) ==
  LET c == SizeClass(n)
      k == Min(Candidates(c))
      u == Head(table[k])
  IN  /\ op = Idle
      /\ Candidates(c) # {}
      /\ Unlink(u, k)
      /\ op' = [kind |-> "split", unit |-> u, class |-> k, units |-> n]
      /\ UNCHANGED used

\* Mutant: the half that is not needed is not put back.
Split_DropHalf ==
  /\ op.kind = "split"
  /\ op.class > SizeClass(op.units)
  /\ op' = [op EXCEPT !.class = @ - 1]
  /\ UNCHANGED <<table, bst, paged, used>>

\* Mutant: the half that is kept is the one put back.
Split_SameHalf ==
  /\ op.kind = "split"
  /\ op.class > SizeClass(op.units)
  /\ Push(op.unit, op.class - 1)
  /\ op' = [op EXCEPT !.class = @ - 1]
  /\ UNCHANGED used

\* One round of the splitting loop: the second half goes back to a list.
Split ==
  /\ op.kind = "split"
  /\ op.class > SizeClass(op.units)
  /\ Push(Sibling(op.unit, op.class - 1), op.class - 1)
  /\ op' = [op EXCEPT !.class = @ - 1]
  /\ UNCHANGED used

\* The cell has the requested size; a power of two leaves no rest to release.
Return ==
  /\ op.kind = "split"
  /\ op.class = SizeClass(op.units)
  /\ used' = used \cup {<<op.unit, op.units>>}
  /\ op' = Idle
  /\ UNCHANGED <<table, bst, paged>>

----------------------------------------------------------------------------
\* release_cell_unaligned_size and release_aligned_units

ReleaseCall(r) ==
  /\ op = Idle
  /\ r \in used
  /\ used' = used \ {r}
  /\ op' = Releasing(r[1], r[1] + r[2])
  /\ UNCHANGED <<table, bst, paged>>

\* The outer loop cuts off the largest aligned cell at `start`.
Cut ==
  /\ op.kind = "release"
  /\ op.start < op.limit
  /\ LET n == op.limit - op.start
         fit == IF n = 2^SizeClass(n) THEN SizeClass(n) ELSE SizeClass(n) - 1
         c == IF fit <= TrailingZeros(op.start) THEN fit ELSE TrailingZeros(op.start)
     IN  op' = [kind |-> "merge", unit |-> op.start, class |-> c,
                start |-> op.start + 2^c, limit |-> op.limit]
  /\ UNCHANGED <<table, bst, paged, used>>

Mergeable == op.class < Threshold /\ IsFree(Sibling(op.unit, op.class), op.class)

\* Mutant: the merged cell starts where the released one did.
Merge_KeepUnit ==
  /\ op.kind = "merge"
  /\ Mergeable
  /\ Unlink(Sibling(op.unit, op.class), op.class)
  /\ op' = [op EXCEPT !.class = @ + 1]
  /\ UNCHANGED used

\* The inner loop: a free sibling is taken out of its list and merged ...
Merge ==
  /\ op.kind = "merge"
  /\ Mergeable
  /\ Unlink(Sibling(op.unit, op.class), op.class)
  /\ op' = [op EXCEPT !.unit = Parent(op.unit, op.class), !.class = @ + 1]
  /\ UNCHANGED used

\* Mutant: siblings are not looked at.
Settle_NoMerge ==
  /\ op.kind = "merge"
  /\ Push(op.unit, op.class)
  /\ op' = Releasing(op.start, op.limit)
  /\ UNCHANGED used

\* ... until there is none.
Settle ==
  /\ op.kind = "merge"
  /\ ~Mergeable
  /\ Push(op.unit, op.class)
  /\ op' = Releasing(op.start, op.limit)
  /\ UNCHANGED used

ReleaseDone ==
  /\ op.kind = "release"
  /\ op.start = op.limit
  /\ op' = Idle
  /\ UNCHANGED <<table, bst, paged, used>>

Next ==
  \/ \E n \in Requests : Allocate(n)
  \/ Split \/ Return
  \/ \E r \in used : ReleaseCall(r)
  \/ Cut \/ Merge \/ Settle \/ ReleaseDone

Spec == Init /\ [][Next]_vars

----------------------------------------------------------------------------
FreeCells == {f \in Units \X Classes : Contains(table[f[2]], f[1])}
\* The units the call under way has taken from the lists or from its caller.
InHand ==
  CASE op.kind = "idle"    -> {}
    [] op.kind = "split"   -> Cell(op.unit, op.class)
    [] op.kind = "release" -> op.start..(op.limit - 1)
    [] op.kind = "merge"   -> Cell(op.unit, op.class) \cup op.start..(op.limit - 1)

\* Types of the variables; every cell is aligned to its size.
TypeOK ==
  /\ table \in [Classes -> Seq(Units)]
  /\ \A c \in Classes : \A u \in Range(table[c]) : Aligned(u, c)
  /\ bst \subseteq 1..(2^NumSizeClass - 1)
  /\ paged \subseteq Units
  /\ used \subseteq Units \X Requests
  /\ op.kind \in {"split", "merge"} => Aligned(op.unit, op.class)

\* The three records of a free cell agree: it is in the list of its class
\* once, its bit is set, and the page table finds it (remove_cell goes by the
\* page table for a sibling that is_free found by the bit).
RecordsAgree ==
  /\ \A c \in Classes : IsInjective(table[c])
  /\ bst = {UnitToIndex(f[1], f[2]) : f \in FreeCells}
  /\ paged = {f[1] : f \in FreeCells}
  /\ Cardinality(paged) = Cardinality(FreeCells)

\* No unit is lost or given out twice: each is in one free cell, in one cell
\* in use, or in the hands of the call under way.
UnitsConserved ==
  \A u \in Units :
    Cardinality({f \in FreeCells : u \in Cell(f[1], f[2])})
    + Cardinality({r \in used : u \in r[1]..(r[1] + r[2] - 1)})
    + (IF u \in InHand THEN 1 ELSE 0) = 1

\* A call is refused only if it cannot be served: when an aligned run of the
\* size asked for is free, some list from its class on has a cell. (So
\* splitting and merging leave no two free siblings apart.)
NoFalseRefusal ==
  op = Idle => \A n \in Requests : Candidates(SizeClass(n)) = {} =>
    \A u \in Units : u % n = 0 =>
      \E r \in used : (u..(u + n - 1)) \cap (r[1]..(r[1] + r[2] - 1)) # {}

\* A unit that is about to be marked free is not part of any free cell: what
\* the name of is_not_free_slow promises (abstract_freelist.rs:193).
PushedUnitNotFree ==
  op.kind = "merge" /\ ~Mergeable => \A c \in Classes : ~IsFree(op.unit, c)

\* The records of the free cells agree and no unit is lost, at every step of
\* splitting and merging too.
FreeListSound == TypeOK /\ RecordsAgree /\ UnitsConserved /\ PushedUnitNotFree

----------------------------------------------------------------------------
\* Lists, bits and page table implement a set of disjoint runs.
Ranges == INSTANCE PageRanges WITH LogUnits <- NumSizeClass - 1
ImplementsRanges == Ranges!Spec
=============================================================================
