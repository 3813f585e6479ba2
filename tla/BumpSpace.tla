------------------------------ MODULE BumpSpace ------------------------------
(***************************************************************************)
(* Thread-local allocation areas over an immortal space: AllocationArea    *)
(* (mallockit/src/util/mem/alloc/allocation_area.rs) and BumpAllocator     *)
(* (space/immortal_space.rs). An object lies behind a word with its        *)
(* layout; an area that is used up is replaced by pages of the space.      *)
(* Sizes and addresses are in words, space pages ("chunks") in numbers.    *)
(***************************************************************************)
EXTENDS Integers, FiniteSets, FiniteSetsExt

CONSTANTS
  Mutators,     \* the BumpMutators, one per thread
  LogChunks,    \* the space has 2^LogChunks chunks
  ChunkWords,   \* Size2M::BYTES
  FieldLimit,   \* 2^32, the number of values of a u32
  MaxClass      \* bounds the search for a power of two

Words == 0..(2^LogChunks * ChunkWords - 1)
HeaderWords == 1     \* size_of::<Header>()
LayoutWords == 2     \* size_of::<Layout>()

Powers == {2^k : k \in 0..MaxClass}

ASSUME BumpAssumption ==
  /\ MaxClass \in Nat /\ LogChunks \in 0..MaxClass
  /\ ChunkWords \in Powers
  /\ FieldLimit \in 1..2^MaxClass

VARIABLES
  area,     \* BumpAllocator::allocation_area of each mutator
  taken,    \* the chunks acquired from the page resource
  mem,      \* what each word holds
  crashed   \* what stopped the process: "no", "assert" or "null write"

bumpVars == <<area, taken, mem, crashed>>

\* What a word can hold. The fields of a header are u32, so they are cut to
\* 32 bits, and not negative.
Header(l) == <<l.size % FieldLimit, l.align % FieldLimit>>
Mark(i) == <<-1, i>>       \* written by the client for its object i
Blank == Mark(0)           \* zeroes
Junk == <<-2, 0>>

BumpInit ==
  /\ area = [t \in Mutators |-> [top |-> 0, limit |-> 0]]   \* AllocationArea::EMPTY
  /\ taken = {}
  /\ mem = [w \in Words |-> Junk]
  /\ crashed = "no"

AlignUp(n, a) == ((n + a - 1) \div a) * a
NextPowerOfTwo(n) == Min({2^k : k \in {j \in 0..MaxClass : n <= 2^j}})

----------------------------------------------------------------------------
\* AllocationArea::alloc_with_layout: HEADER.extend_unchecked(layout) says
\* where the data starts in the aligned place.

Offset(l) == AlignUp(HeaderWords, l.align)

DataStart(ar, l) == AlignUp(ar.top, l.align) + Offset(l)

\* Mutant: the next object may start where this one's header ends.
End_NoHeader(ar, l) == AlignUp(ar.top, l.align) + l.size
End(ar, l) == DataStart(ar, l) + l.size

\* Mutant: only the start has to lie in the area.
Fits_Start(ar, l) == AlignUp(ar.top, l.align) <= ar.limit /\ ar.limit > 0
Fits(ar, l) == End(ar, l) <= ar.limit

\* load_layout and load_range
LoadLayout(p) == [size |-> mem[p - HeaderWords][1], align |-> mem[p - HeaderWords][2]]
LoadRange(p) == (p - Offset(LoadLayout(p)))..(p + LoadLayout(p).size - 1)

----------------------------------------------------------------------------
\* BumpAllocator::alloc_slow

\* Mutant: no room is asked for the layout.
AllocSize_NoLayout(l) == AlignUp(Max({l.size, ChunkWords}), ChunkWords)
AllocSize(l) == AlignUp(Max({l.size, ChunkWords}) + LayoutWords, ChunkWords)

\* acquire_pages rounds up to a power of two and returns all of it; the free
\* list has any aligned run that is free (PageRanges).
Refills(l) ==
  LET n == NextPowerOfTwo(AllocSize(l) \div ChunkWords)
  IN  {[top |-> c * ChunkWords, limit |-> (c + n) * ChunkWords] :
         c \in {d \in 0..(2^LogChunks - n) : d % n = 0 /\ d..(d + n - 1) \cap taken = {}}}

\* The areas a request may be served from: the thread's own or a new one.
Sources(t, l) == IF Fits(area[t], l) THEN {area[t]} ELSE Refills(l)

ChunksOf(ar) == {w \div ChunkWords : w \in ar.top..(ar.limit - 1)}

\* Allocation of l by t from area ar, and what is written into it at once.
Carve(t, ar, l, data) ==
  LET p == DataStart(ar, l)
  IN  /\ area' = [area EXCEPT ![t] = [top |-> End(ar, l), limit |-> ar.limit]]
      /\ taken' = taken \cup ChunksOf(ar)
      /\ mem' = [w \in Words |->
           IF w = p - HeaderWords THEN Header(l)
           ELSE IF w - p + 1 \in DOMAIN data THEN data[w - p + 1] ELSE mem[w]]
      /\ UNCHANGED crashed

\* assert!(!self.retry) fails when a new area has no room either.
RetryFails ==
  /\ crashed' = "assert"
  /\ UNCHANGED <<area, taken, mem>>

\* acquire returns None
Refused(t, l) == Sources(t, l) = {}
=============================================================================
