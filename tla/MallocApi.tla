------------------------------ MODULE MallocApi ------------------------------
(***************************************************************************)
(* The C interface (mallockit/src/util/malloc/malloc_api.rs), the Rust one *)
(* (rust_alloc.rs) and the parts of Mutator they share (mutator.rs), over  *)
(* the Bump plan (bump/src/lib.rs), whose dealloc does nothing. A call     *)
(* touches its thread's area and objects the caller owns, and the page     *)
(* resource under its lock: it is one step. A call that is refused (EINVAL,*)
(* ENOMEM) sets errno and changes nothing else; only calloc's has a step.  *)
(***************************************************************************)
EXTENDS BumpSpace, Sequences

CONSTANTS
  Ids,          \* names of the clients' objects
  MinAlign,     \* MIN_ALIGNMENT
  PageWords,    \* PAGE_SIZE
  Sizes,        \* sizes clients ask for
  Alignments    \* alignments clients ask for

\* Layouts are far below the largest power of two, and fit into a header.
ASSUME ApiAssumption ==
  /\ Ids \subseteq Nat \ {0} /\ Sizes \subseteq Nat /\ Alignments \subseteq Nat
  /\ MinAlign \in Powers /\ PageWords \in Powers
  /\ \A n \in Sizes, a \in Alignments \cup {MinAlign, PageWords} :
       n + MinAlign + a + 2 * ChunkWords + LayoutWords < FieldLimit

VARIABLE obj   \* the client's view of each object; its first `kept` words are its own

apiVars == <<area, taken, mem, crashed, obj>>

None == [ptr |-> -1]
Live == {i \in Ids : obj[i] # None}

ApiInit == BumpInit /\ obj = [i \in Ids |-> None]

----------------------------------------------------------------------------
\* The layouts the interfaces make of a request

Layout(n, a) == [size |-> n, align |-> a]
IsPowerOfTwo(a) == a \in Powers

\* MallocAPI::alloc
MallocLayout(n, a) == Layout(AlignUp(Max({n, MinAlign}), a), a)

\* Global::__fix_layout. The alignment of a Layout is a power of two by its type.
RustAlignments == Alignments \cap Powers
FixLayout(n, a) == LET b == Max({a, MinAlign}) IN Layout(AlignUp(n, b), b)

\* posix_memalign, memalign and aligned_alloc refuse other alignments, the last
\* for some callers also sizes of zero or that are no multiple; valloc and pvalloc align to a page.
MemalignRequests == {r \in Sizes \X (Alignments \cup {PageWords}) : IsPowerOfTwo(r[2])}

----------------------------------------------------------------------------
\* Calls that allocate

\* An object of n words the client has asked for, k of which it knows.
Object(p, n, a, k) == [ptr |-> p, size |-> n, align |-> a, kept |-> k]

\* The plan's alloc, writing data: i is then an object of n words there.
Alloc(t, n, l, i, data, known) ==
  \E ar \in Sources(t, l) :
    IF Fits(ar, l)
    THEN /\ Carve(t, ar, l, data)
         /\ obj' = [obj EXCEPT ![i] = Object(DataStart(ar, l), n, l.align, known)]
    ELSE RetryFails /\ UNCHANGED obj

New(t, n, l, i, data) == Alloc(t, n, l, i, data, n)

\* The call returns a new object, and the client fills it.
Make(t, n, l) == \E i \in Ids \ Live : New(t, n, l, i, [k \in 1..n |-> Mark(i)])

Zeroes(n) == [k \in 1..n |-> Blank]

\* calloc zeroes what was asked for, alloc_zeroed the layout.
MakeZeroed(t, n, l, zeroed) == \E i \in Ids \ Live : New(t, n, l, i, Zeroes(zeroed))

Malloc(t) == \E n \in Sizes : Make(t, n, MallocLayout(n, MinAlign))

Memalign(t) == \E r \in MemalignRequests :
  Make(t, r[1], MallocLayout(r[1], Max({r[2], MinAlign})))

\* n is what the unchecked product count * size comes to; clients whose product
\* overflows are left out.
Calloc(t) == \E n \in Sizes : MakeZeroed(t, n, MallocLayout(n, MinAlign), n)

\* write_bytes writes to the null pointer when the allocation was refused.
CallocRefused(t) ==
  /\ \E n \in Sizes \ {0} : Refused(t, MallocLayout(n, MinAlign))
  /\ crashed' = "null write"
  /\ UNCHANGED <<area, taken, mem, obj>>

RustAlloc(t) == \E n \in Sizes, a \in RustAlignments : Make(t, n, FixLayout(n, a))

RustAllocZeroed(t) == \E n \in Sizes, a \in RustAlignments :
  LET l == FixLayout(n, a) IN MakeZeroed(t, n, l, l.size)

----------------------------------------------------------------------------
\* free and dealloc: the plan keeps the memory.
Free(i) ==
  /\ i \in Live
  /\ obj' = [obj EXCEPT ![i] = None]
  /\ UNCHANGED bumpVars

----------------------------------------------------------------------------
\* Mutator::realloc

\* Mutant: any layout with the size is enough.
Suffices_AnyAlign(old, new) == old.size >= new.size
Suffices(old, new) == old.size >= new.size /\ old.align >= new.align

\* Mutant: the copy stops at the difference of the sizes.
CopyLength_Difference(old, new) == Max({new.size - old.size, 0})
CopyLength(old, new) == Min({old.size, new.size})

Copy(i, new) == [k \in 1..CopyLength(LoadLayout(obj[i].ptr), new) |-> mem[obj[i].ptr + k - 1]]

\* What the client knows of the object after it was resized to n words.
StillKnown(i, n) == Min({obj[i].kept, n})

ReallocInPlace(i, n, l) ==
  /\ Suffices(LoadLayout(obj[i].ptr), l)
  /\ obj' = [obj EXCEPT ![i] = Object(@.ptr, n, l.align, StillKnown(i, n))]
  /\ UNCHANGED bumpVars

ReallocMoves(t, i, n, l) ==
  /\ ~Suffices(LoadLayout(obj[i].ptr), l)
  /\ Alloc(t, n, l, i, Copy(i, l), StillKnown(i, n))

MutatorRealloc(t, i, n, l) == ReallocInPlace(i, n, l) \/ ReallocMoves(t, i, n, l)

\* realloc: size zero frees (on Linux), any alignment becomes the smallest.
Realloc(t, i) ==
  \/ Free(i)
  \/ /\ i \in Live
     /\ \E n \in Sizes \ {0} : MutatorRealloc(t, i, n, Layout(AlignUp(n, MinAlign), MinAlign))

\* grow, shrink and GlobalAlloc::realloc
RustRealloc(t, i) ==
  /\ i \in Live
  /\ \E n \in Sizes, a \in RustAlignments \cup {obj[i].align} : MutatorRealloc(t, i, n, FixLayout(n, a))

\* grow_zeroed: all of the object becomes zero, the old contents too.
GrowZeroed(t, i) ==
  /\ i \in Live
  /\ \E n \in {m \in Sizes : m >= obj[i].size} :
       LET l == FixLayout(n, obj[i].align)
       IN  IF Suffices(LoadLayout(obj[i].ptr), l)
           THEN /\ mem' = [w \in Words |-> IF w - obj[i].ptr \in 0..(l.size - 1) THEN Blank ELSE mem[w]]
                /\ obj' = [obj EXCEPT ![i] = Object(@.ptr, n, l.align, n)]
                /\ UNCHANGED <<area, taken, crashed>>
           ELSE New(t, n, l, i, Zeroes(l.size))

----------------------------------------------------------------------------
ApiNext ==
  /\ crashed = "no"
  /\ \/ \E t \in Mutators :
          \/ Malloc(t) \/ Memalign(t) \/ Calloc(t) \/ CallocRefused(t)
          \/ RustAlloc(t) \/ RustAllocZeroed(t)
          \/ \E i \in Ids : Realloc(t, i) \/ RustRealloc(t, i) \/ GrowZeroed(t, i)
     \/ \E i \in Ids : Free(i)

ApiSpec == ApiInit /\ [][ApiNext]_apiVars

----------------------------------------------------------------------------
\* Types of the variables; an area never runs past its limit.
ApiTypeOK ==
  /\ \A t \in Mutators : /\ area[t].top \in 0..area[t].limit
                        /\ \A c \in ChunksOf(area[t]) : c \in taken
  /\ taken \subseteq 0..(2^LogChunks - 1)
  /\ DOMAIN mem = Words
  /\ crashed \in {"no", "assert", "null write"}

\* What load_layout finds in front of an object, also one that was moved,
\* shrunk in place or made by another thread, covers what was asked for, size
\* and alignment: realloc and malloc_usable_size go by it.
LayoutKnown ==
  \A i \in Live : LET l == LoadLayout(obj[i].ptr) IN
    /\ l.size >= obj[i].size /\ l.align >= obj[i].align
    /\ obj[i].ptr % obj[i].align = 0

\* All of an object, its header and what it was rounded up to included,
\* belongs to no other object and to nobody's area of free words.
Separate ==
  /\ \A i, j \in Live : i # j => LoadRange(obj[i].ptr) \cap LoadRange(obj[j].ptr) = {}
  /\ \A i \in Live : /\ LoadRange(obj[i].ptr) \subseteq Words
                     /\ \A t \in Mutators :
                          LoadRange(obj[i].ptr) \cap area[t].top..(area[t].limit - 1) = {}

\* Areas, objects and the layouts in front of them agree after any calls of
\* both interfaces, by any thread on any object.
ObjectsApart == ApiTypeOK /\ LayoutKnown /\ Separate

\* assert!(!self.retry) (immortal_space.rs:49) holds: the area alloc_slow gets
\* has room for the object and its header, at alignments above a chunk as well;
\* zero-sized layouts aligned above two chunks are the exception.
RetryFits == crashed # "assert"

----------------------------------------------------------------------------
\* Read through the pointers, the memory is the store the interface promises.
Store == INSTANCE ObjectStore WITH
  None <- <<Junk>>,
  contents <- [i \in Ids |-> IF obj[i] = None THEN <<Junk>>
                             ELSE [k \in 1..obj[i].kept |-> mem[obj[i].ptr + k - 1]]]
ImplementsStore == Store!Spec
=============================================================================
