# A TLA+ model of MallocKit

MallocKit is a toolkit of malloc implementations in Rust. A *plan* (Hoard, Buddy, Bump) combines
*spaces* (large ranges of addresses), *page resources* (who hands out the pages or blocks of a
space), and per-thread *allocators*, all reached through a thread-local *mutator*, which the C
(`malloc`, `free`, ...) and Rust (`GlobalAlloc`, `Allocator`) interfaces call.

This directory models the parts of it that keep state, checks them with TLC on small instances, and
proves with TLAPS, for all instances, the properties of nine of them: the lock-free stack of blocks, the
Hoard pools, their cells and buffers, the large objects, both buddy allocators, the lazy values, the
mutators over them, and both interfaces over the Bump space. Paths below are relative to `src/`; `mk` stands for `mallockit/src`.

## 1. Inventory

| component | state | operations | what is hard | correct when |
|---|---|---|---|---|
| **Block page resource** `mk/space/page_resource/block_page_resource.rs` | head of a lock-free stack whose links are in the free blocks, bump cursor, `reserved_bytes` | `acquire_block`, `release_block` | every load and exchange interleaves; a link is read from a block that may be in use | a block is in one hand only, none is lost, the counter is right, calls end |
| **Hoard pools** `hoard/src/pool.rs`, `hoard_space.rs` | per pool and size class a locked bin of superblocks; `owner`, `size_class`, `used_bytes` in each block | `alloc_cell`, `free_cell`, flush to the global pool, drop | `owner` and `size_class` are read without lock; nested locks; a pool is drained while others free into it | each block in one place and accounted for there, no cell lost, no one stuck |
| **Hoard block lists** `pool.rs` | doubly linked list per emptiness group, cache, two account sums | `put`, `remove`, `pop_most_empty_block`, `alloc_cell`, `free_cell`, drain | links are never cleared; the group and the sums have to follow the used bytes | the lists are the sets the pools take them for |
| **Superblock cells** `super_block.rs`, `hoard_space.rs` | bump cursor, list of free cells, used bytes | `alloc_cell`, `dealloc_cell`, `init` | the links are in the cells | a cell is an object, in one buffer, or in its block's list |
| **Thread-local buffers** `mk/util/mem/alloc/discrete_tlab.rs` | a list per size class, their bytes | `push`, `pop`, `clear` | `clear` gives cells away while it walks through them | nothing kept at exit, sizes and alignments right |
| **Buddy free list of pages** `mk/util/mem/freelist/{abstract,page}_freelist.rs` | free cells by class, each recorded three times | allocate with splitting, release with merging | records must agree, siblings must merge | runs are disjoint, none lost, no request refused that could be served |
| **Large objects** `mk/space/large_object_space.rs`, `page_resource/freelist_page_resource.rs` | cached objects per thread, `live`, `max_live`; mutex, counter, table of sizes | `alloc`, `dealloc`, clearing, drop | four structures updated one after the other; objects freed by other threads | runs are disjoint, sizes are known, counters follow, exit leaves nothing |
| **Buddy small objects** `mk/util/mem/freelist/intrusive_freelist.rs`, `mk/space/freelist_space.rs` | a free list per thread, headers and links in the cells | allocate, release, coalesced chunks | buddies may belong to other threads that work on them; addresses of lists are used again | no unit in two places; only real headers are read |
| **Lazy values** `mk/util/lazy.rs` | state word, initialiser, value | `force`, `reset` | double-checked initialisation with relaxed loads | the initialiser runs once and nobody reads before it ended |
| **Mutator life cycle** `mallockit/macros/src/lib.rs`, `mk/mutator.rs`, `mk/util/sys/hooks.rs` | pthread key, thread-local mutator | process start, creation, destructor | destructors of other libraries call the allocator after the mutator was dropped | no dropped mutator is used, none is forgotten, exits end |
| **Malloc and Rust interfaces** `mk/util/malloc/{malloc_api,rust_alloc}.rs`, `mk/mutator.rs` | the contents of objects | `malloc` ... `realloc`, `grow`, `shrink` | realloc goes by the layout in front of an object made by any entry | contents kept, alignment kept, objects apart |
| **Bump and immortal spaces** `mk/space/immortal_space.rs`, `mk/util/mem/alloc/allocation_area.rs`, `bump/src/lib.rs` | a thread's area of free words | `alloc`, refill | header and padding must fit at the end of an area | the refilled area always suffices |
| **Page table** `mk/space/page_table.rs` | tree of tables, counts in the entry above | `insert_pages`, `delete_pages`, `get` | tables are freed by count | a map from pages to values |
| **Meta memory** `mk/space/meta/*` | per-thread lists of cells by class, committed size | boxes of any size, cells for tables | boxes are freed by other threads | no word in two hands |
| Spaces and heap, workers, statistics, utilities, macOS zone, sanity plan, tools | | | | see section 7 |

How they interact: an interface calls the mutator of the thread, which `Lazy` makes (**MutatorLife** over
**Lazy**). The mutator dispatches by size. Hoard: buffer (**HoardCells**), pool of the owner (**HoardPool**,
its bins **BlockList**), page resource (**BlockPageResource**). Large sizes: **LargeObjects** over its free
list (**PageFreeList**), whose entries are found through **PageTable**, whose tables are cells of
**MetaMemory**. Buddy: **IntrusiveFreeList**. Bump: **MallocApi** over **BumpSpace**.

## 2. Modules

Detailed modules are written from the code; abstract ones say what the component promises and are
implemented by the detailed ones (`INSTANCE ... WITH`, checked as a PROPERTY).

| module | models | implements |
|---|---|---|
| `BlockPageResource` | stack, cursor, counter; HoardSpace as its client; one step per atomic access | |
| `HoardPool` | pools, locks, flush, exit; page resource as a set, cells counted | `HoardHeap` |
| `BlockList` | links, groups, cache, accounts of a bin and the global one | `BlockSets`, the sets HoardPool works with |
| `HoardCells` | cells with their addresses, blocks' lists, buffers, dispatch of HoardAllocator | `HoardHeap` |
| `PageFreeList` | split, merge, the three records | `PageRanges` |
| `LargeObjects` | caches and page resource; free list as any free aligned run (what `PageRanges` allows) | `PageRanges` |
| `IntrusiveFreeList` | lists of all threads, headers, links, chunks, exits | `PageRanges` |
| `Lazy`, `MutatorLife` (extends it) | PLAN forced by several threads; thread-local mutators, key, rounds of destructors | |
| `BumpSpace`, `MallocApi` (extends it) | areas, layouts in memory; all entries of both interfaces with the words of the objects | `ObjectStore` |
| `MetaMemory`, `PageTable` (extends it) | lists, splitting, boxes; tables in cells of these lists | `PageMap` |

`LinkedLists` says what a list threaded through memory holds, `Totals` adds up what counters count;
`BlockPageResource`, `BlockList`, `LargeObjects` and `HoardCells` use them. `Buddies` has the cells of both buddy allocators, their
siblings and parents. `MC*` give constants for TLC.

| proof module | proves |
|---|---|
| `SharedLemmas` | what several proofs need: least numbers, powers of two, cells and their halves, lists through memory, totals |
| `Blocks_proof` | the theorems of `BlockList` and of `BlockPageResource` |
| `Mutators_proof` | the theorems of `Lazy`, over them those of `MutatorLife`, and those of `MallocApi` over `BumpSpace` |
| `HoardPoolInv`, `HoardPool_proof` | the invariant of `HoardPool`; what uses of a bin do to its accounts, each step, and what follows |
| `HoardCells_proof`, `LargeObjects_proof`, `IntrusiveFreeList_proof` | the invariants of these modules, each step, what follows |
| `PageFreeList_proof` | the same for `PageFreeList`, and for `PageTable` over `MetaMemory` |

**State and actions.** Variables bear the names of the code's fields where there is one, actions those of the
functions. A `pc` (or `op`, `call`) names the point a thread has reached, `reg` holds its locals. A step ends
where another thread can interfere: at each atomic access in `BlockPageResource` and `Lazy`; at each lock,
unlock and unlocked read in `HoardPool`; at each of mutex, counter and table in `LargeObjects`; at the two
reads of `is_free` and each iteration in `IntrusiveFreeList`; at each iteration of `clear` in `HoardCells`.
What is under a mutex throughout (`PageFreeList`, `PageTable`) or touches only the thread's own memory is
one step per call or iteration. `X_Y` definitions marked "Mutant" are faulty versions of X: each property is
shown to fail when X is replaced by one, so that it says something about the code.

**Invariants.** Each module has its type invariant and its safety invariants as named parts. Where a run
checks them together they are a conjunction: `PoolsSound`, `ListsSound`, `MutatorsSound`, `CellsSound`,
`ObjectsApart`, `TablesSound`, `FreeListSound`, `ObjectsSound`, `CountersSound`. Every part has a mutant
of its own.

## 3. Runs

| run | what is asked | bounds | 
|---|---|---|
| `BPR_ManyAcquirers` | does the stack hold when every thread acquires and releases, until an ABA, and does one of them always get out of the loop? | 2 blocks, 3 threads |
| `BPR_DoubleHandOut` | *violation*: the assertion of `HoardSpace::acquire_block` (a block just acquired is mine) with two acquirers | 2 blocks, 2 threads |
| `HP_OneClass` | places, accounts, cells, and that no order of locks and retries stops everyone | 2 threads, one exits, 2 blocks of 3 cells |
| `HP_TwoClasses` | the same state when a block comes back for another size while it is still being looked at; the proofs' invariant `IInv`; the heap is `HoardHeap` | 2 threads, 2 blocks of 3 or 7 cells |
| `BL_Lists` | links, groups, accounts; are the lists the sets HoardPool assumes? | 4 blocks of 3 cells |
| `HC_Cells` | cells of two sizes through buffers and blocks of all threads; exit | 2 threads, 2 blocks of 4 units |
| `PFL_Buddies` | records, units, no false refusal | 8 pages, all sizes |
| `LO_Exits` | caches, sizes, counters, clearing by threshold and at exit | 2 threads with up to 3 and 2 live pages, 4 pages |
| `IFL_OneChunk` | split and merge by three threads in one chunk, exits, reuse of list addresses | 4 units, 3 lists |
| `ML_Exits` | one initialisation, no use of dropped mutators, exits end | 2 threads, the first and one that may start before the key, 4 rounds |
| `MA_Bump` | both interfaces on shared objects, contents and layouts | 2 threads, 2 objects, 4 chunks of 4 words, 32 values of a header's field |
| `PT_Tables` | tables and boxes of all threads, ends of threads | 4 levels of 2 entries, 4 frames |

**What they show.** All passing properties hold. `BPR_DoubleHandOut` finds the ABA problem of
`acquire_block`: a thread reads the head and its successor; another acquires both and releases the first;
the first thread's exchange succeeds and makes the successor, which is in use, the head. It is handed out
again, and the assertion at `hoard/src/hoard_space.rs:65` fails. That is the only way things go wrong:
`BPR_ManyAcquirers` and the proofs show that `Exclusive`, `StackSound`, `NoBlockLost` and `ReservedExact`
hold for any number of acquiring and releasing threads as long as no exchange has succeeded on a block that another
thread has popped since it was loaded (`aba`).

**Assertions that do not hold.** Three configurations, which are none of the runs above, each show one
that the model violates. They are to be run by hand, for example
`tlc -config BPR_StaleLink.cfg MCBlockPageResource`:

- `BPR_StaleLink` (`LinksAligned`, `MCBlockPageResource`): the alignment assertion at
  `hoard/src/super_block.rs:38`. A thread loads the head; another pops that block and initialises it; `get_next` of the
  first then takes its metadata for a link. The exchange that follows fails unless there is an ABA, so without
  debug assertions no harm is done (`StackSound`).
- `HP_FlushAssert` (`FlushedLeft`, `MCHoardPool`): the assertion at `hoard/src/pool.rs:365`. A thread frees a cell of
  another thread's pool and flushes the block; before it reads the owner the last cell is freed in
  the global pool, the block is released, and the first pool takes it again for another size. Only the assertion is too
  strong: `FlushedBlockAway` is what remains true, and nothing is done to the block afterwards.
- `ML_StalePlan` (`NoGarbage`, `MCMutatorLife`): that what `as_initialized` returns is initialised
  (`mk/util/lazy.rs:112`). Two threads force `PLAN` before the process start code has; the later one sees
  INITIALIZED on the relaxed fast path, and nothing orders its read of the value after that load. This
  needs a machine that reorders loads (aarch64, supported by `README.md:29`); on x86-64 they stay in order.

**Why the bounds are enough.** They are chosen so that each case of the code occurs, and the mutants confirm
it. Two blocks let the stack have a head and a successor, and three threads let two interfere with a third; two superblocks give a thread a block
in its bin and one that moves, with 3 cells to be empty, partly used and full; two classes let a block
return in the other. Four blocks give `BlockList` a list with an inner element in one group and others
outside. Eight pages give three levels of merging; four units in `IntrusiveFreeList` two. A threshold of
3 units in `HoardCells` lets a buffer overflow with small and with large cells. Alignment 8 in `MallocApi`
exceeds a chunk of 4. Four frames in `PageTable` let tables, halved cells and boxes of one and two frames
compete. All are the program's constants made small: `LOCAL_HEAP_THRESHOLD`, `MAX_CACHEABLE_SIZE`,
`THRESHOLD_SLOP`, `NUM_SIZE_CLASS`, `Size2M`, 512 entries per table. Superblock sizes and size classes in
`HoardPool` and `BlockList` are those of the code. `LiveBound` caps `live` in `LargeObjects` (no cacheable
allocation by a thread beyond it): with 3 for one thread its `live` falls below its maximum by
more than `Slop`, so its cache is cleared by threshold too; `MaxBoxes` the boxes of `PageTable`. `Iterations` is 4, the C library's
`PTHREAD_DESTRUCTOR_ITERATIONS`.

**Deadlock** is checked but where the system really stops: all threads gone (`MutatorLife`), exits together
with bounds (`LargeObjects`), space used up with nothing held that may be released (`BlockPageResource`),
the process crashed (`MallocApi`).

**Symmetry** is used only in runs without liveness.

**Fairness** is weak, per thread, on the steps inside a call: a thread that is in the allocator and can go on
is scheduled, as the operating system's scheduler does; clients need never call. A mutex is only weakly
fair, so no single thread is promised a contended lock; hence `SomeoneGetsThrough` speaks of the threads
together. `GlobalLockReturned`, `ExitCompletes`, `EveryoneReads` need no more. The lock-free
loop promises nothing to a single thread either: `SomeoneAcquires` says that while threads are in it one gets out
of it, up to the first ABA (`FairSpec` of `BlockPageResource` ends there: what has become of the stack then is not
the code's intention). That a clear of a buffer or a cache ends is not stated: it takes contended locks.

## 4. Proofs

`BlockPageResource` (in `Blocks_proof`), for any set of threads, all of which acquire and release, and any number of
blocks. Two history variables tell what an exchange by address misses: `stale`, the acquirers whose head another thread
has popped since they loaded it, and `aba`, that the exchange of one of them has succeeded. They
restrict no step. The properties speak of the states before `aba`; `BPR_DoubleHandOut` shows that they cannot
speak of more. The invariant has, up to the ABA, `Exclusive`, `StackSound` and `PopSound`. `Exclusive` is not inductive:
a pop hands out the head, so the head must be free (`StackSound`); a pop makes the link it read the head, so
that link must be what the head still has. `PopSound` says so of the acquirers that are not stale: their block is still
on the stack, and its link is the one they have read. For a stale one nothing is known: it may have read metadata
for a link, and its exchange fails or is the ABA. `NextInv` has one step per action. From the invariant follow `TypeCorrect`,
`ExclusiveHandOut`, `StackStaysSound`, `OwnerStaysKept` (the assertion at `hoard_space.rs:65` holds until an ABA) and,
with its own induction over the threads, which have to be finite in number, `ReservedStaysExact`.

`Lazy` (in `Mutators_proof`), for any number of threads. A relaxed load may return an old state to a thread that is not
synchronised with the write of the value (`synced`), and such a thread may read the memory as it was
before. `Meet` is whatever else orders two threads, such as the creation of one by the other. `IInv` adds to the types and
`InitOnce` that the initialiser is there exactly until it is claimed and that the value is written before it is
published; from it `TypeCorrect` (no thread finds the initialiser taken), `InitialisedOnce` (however late the
threads load), and `ReadsStayInitialized`: who comes through the slow path is synchronised and reads the value; who
takes the fast path does so after the write in time, but may still read what was there before
(section 3, `ML_StalePlan`).

`MutatorLife` (in `Mutators_proof`), for any number of threads, of threads started early and of rounds of destructors:
`PlanIsLazy` shows that whatever the threads do with their mutators, `PLAN` takes steps of `Lazy` only, so the
theorems of `Lazy` hold of it. `LifeInv`
is inductive: thread by thread it ties the state word of `MUTATOR` to its value (`StateTells`), to the force of
`PLAN` under way (`PlanForced`), to the registration of the destructor (`Registered`) and to the round and key
the exit has reached (`Visiting`). `MutatorsStaySound` and `DropsFirst` follow, with no assumption on the order of
loads: no thread uses a mutator that is
not there, none with a registered destructor is leaked before the last round, and none is made over a value
not yet dropped.

`NoBlockStaysLost` (in `Blocks_proof`): the free blocks are the cells of one list that starts
at the head. That is stated with a depth for each free block, one more than that of the block its link leads
to; a push adds a deepest block and a pop takes it away. `SharedLemmas` shows once that following such links
from the head visits exactly the cells with a depth, and ends: there is no induction over data, so the
argument takes the least link at which the two would differ (`NatMin`, from the well-foundedness of `<`).

`HoardPool`, for any finite sets of threads and blocks and any classes. `IInv`
(`HoardPoolInv`) has three sides. *Threads*: what the locals hold (`Locals`), which locks a thread has and
that it has no others (`Holding`, `Section`). *Places*: bins, page resource and the block a flush or an exit
carries are apart (`Apart`, `CarriedApart`), and every other block is free (`Found`); a block's used bytes
are the cells the application has and those being freed (`Counted`); bins hold no empty block but the one
just taken (`EmptyTaken`); the accounts of a bin are those of its blocks (`Exact`), unless it is being drained.
*Flushing*: after its last cell was freed a block belongs to the page resource, and `pool.rs:347` still reads
its `size_class` to decide whether to flush, which by then may be another. `AtRest`, `Deciding` and
`Flushable` show why this does no harm: a free that empties a block leaves nothing to flush
(`Emptied`), for a bin whose groups have a block below three quarters is hardly ever behind on its seven
eighths (`Calm`). That is arithmetic over the accounts, and it needs the geometry of the code
(`FlushGeometryAssumption`): three cells per block at least, cells of at most a quarter of a block.
`HoardPool_proof` has these facts and one lemma per action. From `IInv` follow `PoolsSoundHolds`, `CellsConservedHolds`,
`PoolsImplementHeap` (every step is one of `HoardHeap` or changes nothing there) and `FlushedBlockAway`: a block
just flushed is in no list of the bin it was flushed from, though it may be in another of the same pool (section 3, `HP_FlushAssert`).

`BlockList` (in `Blocks_proof`), for any finite set of blocks and any class whose cells fit a block. The invariant
`BinInv` says that some function `at` gives each block its *place*: a list of a bin, the cache of a bin, or outside.
Under it every list is a list from its head on, linked both ways, of just the blocks placed in it (`Shape`),
a block is cached where its place says (`CacheSound`), and a listed block's field and cells in use agree with its
list (`Sorted`). The links of a block outside are arbitrary, as in the code. So that an in-place unlink be sound
the back links must be the inverse of the links (`Doubly`): that is `DoublyUnlink`. Each method has one lemma
that says what it does to `at`, the cells in use, the caches and the accounts (`ListPutSound`, `ListPopSound`,
`ListFreeSound`, ...), and those compose: an allocation that misses, looks in the global bin and takes what it
finds is three of them. `ScanEnds` shows that the loops of `pop_most_empty_block` end at the first list that is not
empty and never put a block back, `ListsAre` that walking the links finds the blocks placed there. Accounts are exact for a
bin unless it is being drained (`Exact`), whatever an operation finds (`Kept`). From `BinInv` follow `ListsStaySound`
and, step by step, `ListsImplementSets`: the sets `HoardPool` works with.

`HoardCells_proof`, for any set of threads, finite set of blocks, size classes, threshold of the buffers and
layouts; the assumptions say that a block has room for its meta data and a cell of the largest class, that
sizes of cells divide it, that small sizes are classes, that objects have a size and alignments are powers of
two. A *list* is one bin of one thread, or a block's own. `IInv` says that every cell carved from a block in use
is an object or in exactly one list where it belongs (`Placed`), that each list is what is held there
(`Linked`), that objects lie in cells of their own that are large and aligned enough (`Fitting`), where cursor
and count of a block are (`BlockSound`) and what a call in progress may rely on (`CallSound`). A step takes a cell
from its list, puts it into one, carves it, or drops a block all of whose cells are in its own list; each of
these keeps `Placed` (`PlacedPop`, `PlacedPush`, `PlacedNew`, `PlacedRelease`), and the last is what release by
`used_bytes` comes to (`OutCells`: a count of one cell's size leaves no other cell out). A cell of a thread that
exits goes from its bin to its block in one such step, with the link read before it. `CellsSoundHolds`
(places, counts, nothing kept at exit) and `ObjectsFitHolds` follow (`Fit`: a padded size rounded up to a
power of two is a multiple of the alignment). For `CellsImplementHeap` the cells handed out of a block
are found among the multiples of their size behind its meta data, so there are never more than its capacity.

`LargeObjects_proof`, for any finite set of threads, any space of a power of two of pages and any sizes that
are powers of two in it. A *place* is a thread's list of one size, the list it is giving back, or the hands of
its call. `IInv` says that every run handed out by the free list is with the application or in exactly one
place (`Placed`), that each list is what its place holds (`Linked`, with the lists of `SharedLemmas`), what a
call's locals mean where it is (`Locals`), and that runs are disjoint (`Separate`). `ObjectsSoundHolds` follows:
no object is lost or in two hands, no list has a cycle, and the counter never goes below zero, because the
calls between counter and free list hold different runs (`NotBelowZero`). The counters are sums over runs and
threads. `SharedLemmas` turns a sum into the number of pairs (x, k) with k below f[x], so that adding,
removing and comparing are facts about finite sets. `CountersSoundHolds` and `LargeObjectsImplementRanges`
follow.

`PageFreeList_proof`, for any number of size classes and any requests of powers of two. A *tile* is a cell that is
free, in use, or in the hands of the call. `IInv` says that the tiles cover the units and are apart (`Tiling`), that
bits and page table record just the cells of the lists (`Records`), and that no free cell has a free sibling
(`SiblingsMerged`). A step takes tiles and puts others over the same units (`Retiled`); a bit is no other cell's
(`IndexOnce`). `FreeListStaysSound` follows, and `NoRequestRefused`: if a run of the size asked for were free but in
smaller cells, the sibling of a smallest of these would have to be free as well. For these proofs `Unlink` takes
the one entry of a unit out of its list with `RemoveFirst`, as the code does by its node.
`FreeListImplementsRanges` is the refinement `LargeObjects` relies on.

`PageTable` with `MetaMemory` (in the same module), for any number of levels from two, any table of a power of two of
entries, any sets of threads, pages, larger pages on their boundaries, values and box sizes. `TreeInv` says that
there are maps `tab` (from entries to the tables they lead to) and `val` (from entries to the values of their pages)
for which the state is `Sound`: the domains are just what the pages inserted need (`Nodes`, `Leaves`), every word of
every table is the entry these maps call for, with the exact count of a table's used entries (`Tree`), and tables,
boxes, lost cells and the cells of the lists tile the words of the mapped pages (`Store`); each list is linked as its
tiles say. The existential is what makes it inductive: the code keeps no record of which table is whose, and what
`Walk` finds depends on all the words at once. Memory and tree are proved apart. Halving, popping, pushing,
mapping and unmapping each put tiles over the same words and write to words nobody relies on (`Kept`); a store to a
tile that is held keeps the lists. Writing one entry changes one count, by one at most (`EntryWritten`). Between the
steps of a call exactly one table is counted wrongly, by one: too few on the way down, where a table is there before
it is counted (`Grown`), too many on the way up (`Dying`); `Tree` has this as parameters. Down and up are followed by
a least counterexample among the levels, and so are the recursive functions `Walk`, `Downward`, `Upward` and
`Halves`, which are shown to meet their equations. Enough free cells for all missing tables at the start are enough at
each level (`Down`). `TablesStaySound` and `TableImplementsMap` follow: a table is freed when, and only when, the last
page below it is deleted; no word is in two hands; `get` answers the page that covers the address, whatever
happened in between.

`IntrusiveFreeList_proof`, for any number of lists, classes and chunks. Here a tile is free, with the
application, in a thread's call, in the list of coalesced chunks, or in a chunk not yet mapped. `IInv` says
that the tiles cover the units and are apart (`Tiling`); a step takes tiles away, puts others over the same
units, and writes headers, owners and links inside them only (a list's links also at its members, which are
tiles). Aligned cells are nested or apart (`AlignedNested`), so the buddy of a cell in hand starts where a tile
does, and no such tile is larger: `is_free` reads a real header (`Headers`). Of what a call has read, `CallSound`
says what may be relied on later: between the look at the buddy's header and the look at its owner, a header that
said free in this class still does if the buddy belongs to this list, because nobody but the list's own thread
takes a cell from it or puts one there; that is why two unlocked reads suffice. `BuddiesMerged` needs the same of
the negative answer. `CellsSoundHolds` and `FreeListImplementsRanges` follow. The assumptions are that no list is
at address null and that applications do not write a list's address where a cell's owner would be
(`OwnersAssumption`): the code cannot tell such a word from its own.

`MallocApi` (in `Mutators_proof`), for any sets of threads and objects, any space and page sizes that are powers of
two, any sizes, and any alignments, if only those asked for by a C call need not be powers of two. `ApiInv` says
that the words left in areas lie in acquired pages and are nobody else's (`RoomsApart`), that the layout in front of
an object is a layout and covers what the client may use (`Described`), that the object with its header lies in
acquired pages (`ObjectsSafe`), and that no word of it is in an area or in another object (`Separate`). An
allocation writes only to the words it carves (`CarveWrites`), a client only to its object, so every other object's
header and contents stay (`OthersKept`, `ContentsKept`). A refill asks for a multiple of a chunk that holds the size and two words more;
what it gets is aligned to its own size, because the page resource rounds up to a power of two, and that is why an
alignment above a chunk fits (`Placement`). From `ApiInv` follow `ObjectsStayApart` and `MallocImplementsStore`:
realloc, grow and shrink go by the layout they find in front of the object, whatever entry made it, and keep the
contents. `RetryAlwaysFits` needs one hypothesis more, `ZeroSizedFit`: a layout of size zero is not aligned above two
chunks. Without it the assertion at `immortal_space.rs:49` does fail (section 6).

Only model-checked: liveness (`SomeoneAcquires`, `SomeoneGetsThrough`, `GlobalLockReturned`,
`ExitCompletes`, `EveryoneReads`), which is out of TLAPS's reach, as are ENABLED and what a RECURSIVE operator
computes for every input. Everything else the passing runs check is proved.

## 5. Abstractions

- Atomics are sequentially consistent. The exception is the fast path of `Lazy`: `force` loads the state
  with `Relaxed` (`mk/util/lazy.rs:106`) and then reads the value. A thread not synchronised with the write may
  load an old state there, or the new state and then the old memory.
- Cells are counted in `HoardPool` and told apart in `HoardCells`; both implement `HoardHeap`. Page resources
  are sets there, and any aligned free run in `LargeObjects` and `BumpSpace`; the modules of the lists
  implement just that.
- Memory of a dead pool is not used again in `HoardPool` (`pool.rs:324` holds a reference to it).
- `HoardPool` needs three cells per block. With two (a cell of half a block) a block that has been emptied and
  reused can make the thread that emptied it flush a block of another class: TLC finds `FlushesToItsClass`
  violated by blocks of 800 bytes with cells of 400 and 800. The code has no such class:
  `HoardSpace::MAX_ALLOCATION_SIZE` is a quarter of a block (`hoard_space.rs:19`).
- `LargeObjects`: a thread that only frees keeps cached objects up to its thresholds; that is by design.
- `MutatorLife`: one key of another library, before or after ours; its destructor allocates or frees.
  Threads without our key registered (the first, and those started before it) keep their mutator.
- `HoardCells`: recycled memory holds what clients wrote (`Data`). A small size with a large alignment would
  index past the bins of a buffer (`hoard_space.rs:110`), where the program panics: such a request is no action
  of the model (`Served`). Every interface pads sizes to the alignment first.
- `MallocApi`: words of 8 bytes, each entry one step. A refused call changes nothing but `errno` and is left
  out, except calloc's write through null (`CallocRefused`); in the Rust interface it is `Ok(null)` (`rust_alloc.rs:30`). `Global::allocate` makes `Ok(0)` of a refusal.
  `grow_zeroed` writes zeroes over the old contents; `ObjectStore`'s `Clear` says what the code does. The header
  cuts sizes to `FieldLimit` values (2^32, `allocation_area.rs:85`); `ApiAssumption` keeps what is asked for with
  its padding below that, and `count * size` does not overflow.
  `RetryFits` holds for alignments above a chunk because `acquire_pages` rounds up to a power of two and all
  of it becomes the area.
- `PageTable`: mapping takes the lowest free frame; `committed_size` changes with it. Boxes aligned beyond a
  page (`meta_allocator.rs:28`) are left out. Halves are never merged, lists of ended threads are lost:
  `lost` counts them.
- `IntrusiveFreeList`: class 0 is `MIN_SIZE_CLASS`; a thread's list is its address.

## 6. Remarks on the code met while modelling

- `mk/util/mem/freelist/abstract_freelist.rs:113` speaks of 2^NUM_SIZE_CLASS units; the list manages half.
- `abstract_freelist.rs:193` asserts in debug builds with the meaning of its name inverted
  (`PushedUnitNotFree`, part of `FreeListSound`, is the property meant).
- `abstract_freelist.rs:262`: the condition that returns the rest of a cell is inverted; dormant, for only
  powers of two are asked for. `freelist_page_resource.rs:98` mixes units; dormant, for spaces of 2 MiB pages
  never release.
- `mk/util/mem/size_class.rs:32` underflows for size zero; the interfaces ask for at least the minimum.
- `mk/space/immortal_space.rs:49`: a Rust layout of size zero aligned above 4 MiB stops the process. Such a request
  acquires two chunks of 2 MiB, but its data has to start one alignment behind an aligned place, beyond their end.
- `mk/util/mem/alloc/allocation_area.rs:85`: sizes from 2^32 on are cut in the header without notice, and realloc
  would go by the cut size.
- `mk/worker/worker_group.rs:36` waits on a condition variable without a predicate: a notification sent
  before the wait is lost.

## 7. Not modelled

Spaces and heap (`mk/space/mod.rs`, `mk/util/mem/heap.rs`): address arithmetic fixed at start. Workers: a
generic group no plan uses. Statistics and logs: nothing depends on them. The arena of list nodes and the
growth of `LazyBst`: storage of the lists `PageFreeList` models. Object placement inside a Buddy cell
(`Cell::set`). The macOS zone and the variants for macOS and Windows: the code of one system each. The
sanity plan passes everything to the system's allocator. Address, page and bit utilities are used by their
effect. Benchmarks, examples and tests drive the rest.

## 8. Plan

Done, in this order: block page resource, pools and lists, page free list, large objects, Buddy lists,
lazy values with proofs; then mutators, cells and buffers, interfaces over Bump, page table and meta memory.

The proofs followed the same order: block page resource, lazy values, mutators, pools, large objects, buddy
allocators, cells and buffers, interfaces, block lists, page table and meta memory.

Left: pools whose memory is used again; placement of objects in Buddy cells; the interfaces over the Hoard plan.
