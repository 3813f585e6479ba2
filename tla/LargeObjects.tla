---------------------------- MODULE LargeObjects ----------------------------
(***************************************************************************)
(* Large objects: the allocator each thread has (LargeObjectAllocator,     *)
(* mallockit/src/space/large_object_space.rs) over the page resource all   *)
(* of them share (FreelistPageResource,                                    *)
(* space/page_resource/freelist_page_resource.rs).                         *)
(*                                                                         *)
(* A freed object of a cacheable size stays with the thread that freed it, *)
(* in a list linked through the objects' first words. The page resource is *)
(* a mutex around the free list, an atomic counter and a table of sizes;   *)
(* its operations use them one after the other, and each use is a step.    *)
(* The free list is the set of runs of module PageRanges, which module     *)
(* PageFreeList implements. Sizes are in pages and powers of two: alloc    *)
(* and acquire_pages both round up.                                        *)
(***************************************************************************)
EXTENDS Integers, FiniteSets, FiniteSetsExt, LinkedLists, Totals

CONSTANTS
  Threads,
  Exiters,       \* the threads that may exit
  LogUnits,      \* the space has 2^LogUnits pages
  Requests,      \* object sizes
  MaxCacheable,  \* MAX_CACHEABLE_SIZE
  Slop,          \* THRESHOLD_SLOP
  MetaLen,       \* initial length of FreelistPageResource::meta
  LiveBound      \* bounds on `live` of each thread: no cacheable allocation beyond it

ASSUME SizesAssumption ==
  /\ LogUnits \in Nat /\ MetaLen \in Nat /\ Slop \in Nat
  /\ Requests \subseteq {2^k : k \in 0..LogUnits}
ASSUME ThreadsAssumption == IsFiniteSet(Threads) /\ Exiters \subseteq Threads

Units == 0..(2^LogUnits - 1)
None == -1                      \* Address::ZERO
Garbage == -2                   \* what the application wrote
Links == Units \cup {None}
Bins == {n \in Requests : n <= MaxCacheable}
Span(r) == r[1]..(r[1] + r[2] - 1)
Runs == {r \in Units \X Requests : r[1] % r[2] = 0 /\ r[1] + r[2] <= 2^LogUnits}
Length == [r \in Runs |-> r[2]]

VARIABLES
  used,      \* runs the free list has handed out, as <<first page, pages>>
  size,      \* FreelistPageResource::meta
  sizes,     \* its length
  reserved,  \* reserved_bytes, in pages
  word,      \* the first word of each page
  bin,       \* LargeObjectAllocator::bins, by size
  live, maxLive, cleared,
  app,       \* the objects the application has
  pc,
  reg        \* locals of the thread's call

vars == <<used, size, sizes, reserved, word, bin, live, maxLive, cleared, app, pc, reg>>
pageResource == <<used, size, sizes, reserved>>
counters == <<live, maxLive, cleared>>

NoLocals == [units |-> 0, page |-> None, next |-> None, clearing |-> "no"]

Init ==
  /\ used = {}
  /\ size = [u \in Units |-> 0]
  /\ sizes = MetaLen
  /\ reserved = 0
  /\ word = [u \in Units |-> Garbage]
  /\ bin = [t \in Threads |-> [n \in Bins |-> None]]
  /\ live = [t \in Threads |-> 0]
  /\ maxLive = [t \in Threads |-> 0]
  /\ cleared = [t \in Threads |-> FALSE]
  /\ app = {}
  /\ pc = [t \in Threads |-> "idle"]
  /\ reg = [t \in Threads |-> NoLocals]

Goto(t, from, to) ==
  /\ pc[t] = from
  /\ pc' = [pc EXCEPT ![t] = to]

----------------------------------------------------------------------------
\* LargeObjectAllocator::alloc. A list that leads to no page of the space would
\* fault: no action is enabled for it, here and in clear_bins.

\* The object is the application's, which may write all over it.
HandOut(t, page, n) ==
  /\ app' = app \cup {<<page, n>>}
  /\ word' = [word EXCEPT ![page] = Garbage]
  /\ IF n \in Bins
     THEN /\ live' = [live EXCEPT ![t] = @ + n]
          /\ maxLive' = [maxLive EXCEPT ![t] = IF live[t] + n >= @ THEN live[t] + n ELSE @]
          /\ cleared' = [cleared EXCEPT ![t] = @ /\ live[t] + n < maxLive[t]]
     ELSE UNCHANGED counters

\* Mutant: the list keeps the object that is handed out.
AllocCached_Keep(t) ==
  /\ Goto(t, "idle", "idle")
  /\ \E n \in Bins :
       /\ live[t] + n <= LiveBound[t]
       /\ bin[t][n] \in Units
       /\ HandOut(t, bin[t][n], n)
  /\ UNCHANGED <<pageResource, bin, reg>>

\* Mutant: only the objects of the page resource are counted as live.
AllocCached_NotLive(t) ==
  /\ Goto(t, "idle", "idle")
  /\ \E n \in Bins :
       /\ live[t] + n <= LiveBound[t]
       /\ bin[t][n] \in Units
       /\ bin' = [bin EXCEPT ![t][n] = word[bin[t][n]]]
       /\ app' = app \cup {<<bin[t][n], n>>}
       /\ word' = [word EXCEPT ![bin[t][n]] = Garbage]
  /\ UNCHANGED <<pageResource, counters, reg>>

AllocCached(t) ==
  /\ Goto(t, "idle", "idle")
  /\ \E n \in Bins :
       /\ live[t] + n <= LiveBound[t]
       /\ bin[t][n] \in Units
       /\ bin' = [bin EXCEPT ![t][n] = word[bin[t][n]]]
       /\ HandOut(t, bin[t][n], n)
  /\ UNCHANGED <<pageResource, reg>>

\* alloc_slow -> FreelistPageResource::acquire_pages
AllocCall(t) ==
  /\ Goto(t, "idle", "acquire")
  /\ \E n \in Requests :
       /\ n \in Bins => bin[t][n] = None /\ live[t] + n <= LiveBound[t]
       /\ reg' = [reg EXCEPT ![t].units = n]
  /\ UNCHANGED <<pageResource, word, bin, counters, app>>

Acquire(t) ==
  /\ Goto(t, "acquire", "count")
  /\ \E r \in Runs :
       /\ r[2] = reg[t].units
       /\ \A s \in used : Span(r) \cap Span(s) = {}
       /\ used' = used \cup {r}
       /\ reg' = [reg EXCEPT ![t].page = r[1]]
  /\ UNCHANGED <<size, sizes, reserved, word, bin, counters, app>>

AcquireFails(t) ==
  /\ Goto(t, "acquire", "idle")
  /\ \A r \in Runs : r[2] = reg[t].units => \E s \in used : Span(r) \cap Span(s) # {}
  /\ reg' = [reg EXCEPT ![t] = NoLocals]
  /\ UNCHANGED <<pageResource, word, bin, counters, app>>

\* map_pages
Count(t) ==
  /\ Goto(t, "count", "setMeta")
  /\ reserved' = reserved + reg[t].units
  /\ UNCHANGED <<used, size, sizes, word, bin, counters, app, reg>>

NextPowerOfTwo(n) == Min({2^k : k \in 0..(LogUnits + 1)} \cap {m \in 0..2^(LogUnits + 1) : m >= n})

\* Mutant: the table keeps its length.
SetMeta_NoResize(t) ==
  /\ Goto(t, "setMeta", "idle")
  /\ size' = [size EXCEPT ![reg[t].page] = reg[t].units]
  /\ sizes' = sizes
  /\ HandOut(t, reg[t].page, reg[t].units)
  /\ reg' = [reg EXCEPT ![t] = NoLocals]
  /\ UNCHANGED <<used, reserved, bin>>

\* set_meta, the table being resized under the lock when it is too short; then
\* acquire_pages, alloc_slow and alloc return.
SetMeta(t) ==
  /\ Goto(t, "setMeta", "idle")
  /\ size' = [size EXCEPT ![reg[t].page] = reg[t].units]
  /\ sizes' = IF reg[t].page < sizes THEN sizes
              ELSE 2 * NextPowerOfTwo(IF reg[t].page > sizes THEN reg[t].page ELSE sizes)
  /\ HandOut(t, reg[t].page, reg[t].units)
  /\ reg' = [reg EXCEPT ![t] = NoLocals]
  /\ UNCHANGED <<used, reserved, bin>>

----------------------------------------------------------------------------
\* LargeObjectAllocator::dealloc, on the thread that frees

\* Is it time to give the cached objects back, once live has dropped to l?
Crossed(t, l) ==
  /\ Slop # 0 /\ l > Slop
  /\ maxLive[t] > l + l \div 4
  /\ ~cleared[t]

\* Mutant: the subtraction does not saturate.
Minus_Wraps(l, n) == l - n

Minus(l, n) == IF n < l THEN l - n ELSE 0

\* Mutant: the freed object does not point to the rest of the list.
FreeCached_NoLink(t) ==
  \E r \in app :
    LET n == size[r[1]]
        l == Minus(live[t], n)
    IN  /\ n \in Bins
        /\ app' = app \ {r}
        /\ word' = [word EXCEPT ![r[1]] = None]
        /\ bin' = [bin EXCEPT ![t][n] = r[1]]
        /\ live' = [live EXCEPT ![t] = l]
        /\ Goto(t, "idle", IF Crossed(t, l) THEN "clear" ELSE "idle")
        /\ reg' = [reg EXCEPT ![t].clearing = IF Crossed(t, l) THEN "crossed" ELSE "no"]
        /\ UNCHANGED <<pageResource, maxLive, cleared>>

FreeCached(t) ==
  \E r \in app :
    LET n == size[r[1]]
        l == Minus(live[t], n)
    IN  /\ n \in Bins
        /\ app' = app \ {r}
        /\ word' = [word EXCEPT ![r[1]] = bin[t][n]]
        /\ bin' = [bin EXCEPT ![t][n] = r[1]]
        /\ live' = [live EXCEPT ![t] = l]
        /\ Goto(t, "idle", IF Crossed(t, l) THEN "clear" ELSE "idle")
        /\ reg' = [reg EXCEPT ![t].clearing = IF Crossed(t, l) THEN "crossed" ELSE "no"]
        /\ UNCHANGED <<pageResource, maxLive, cleared>>

\* Larger objects go straight to the page resource.
FreeDirect(t) ==
  /\ Goto(t, "idle", "getMeta")
  /\ \E r \in app :
       /\ size[r[1]] \notin Bins
       /\ app' = app \ {r}
       /\ reg' = [reg EXCEPT ![t].page = r[1]]
  /\ UNCHANGED <<pageResource, word, bin, counters>>

----------------------------------------------------------------------------
\* FreelistPageResource::release_pages

GetMeta(t) ==
  /\ Goto(t, "getMeta", "unmap")
  /\ reg' = [reg EXCEPT ![t].units = size[reg[t].page]]
  /\ UNCHANGED <<pageResource, word, bin, counters, app>>

\* Mutant: the pages are unmapped and not subtracted.
Unmap_NotCounted(t) ==
  /\ Goto(t, "unmap", "releaseCell")
  /\ word' = [word EXCEPT ![reg[t].page] = Garbage]
  /\ UNCHANGED <<used, size, sizes, reserved, bin, counters, app, reg>>

\* madv_free: the kernel may take the contents away from now on.
Unmap(t) ==
  /\ Goto(t, "unmap", "releaseCell")
  /\ reserved' = reserved - reg[t].units
  /\ word' = [word EXCEPT ![reg[t].page] = Garbage]
  /\ UNCHANGED <<used, size, sizes, bin, counters, app, reg>>

ReleaseCell(t) ==
  /\ Goto(t, "releaseCell", IF reg[t].clearing = "no" THEN "idle" ELSE "clear")
  /\ used' = used \ {<<reg[t].page, reg[t].units>>}
  /\ reg' = [reg EXCEPT ![t].page = None, ![t].units = 0]
  /\ UNCHANGED <<size, sizes, reserved, word, bin, counters, app>>

----------------------------------------------------------------------------
\* clear_bins: after a threshold was crossed, and when the thread exits

ExitCall(t) ==
  /\ t \in Exiters
  /\ Goto(t, "idle", "clear")
  /\ reg' = [reg EXCEPT ![t].clearing = "exit"]
  /\ UNCHANGED <<pageResource, word, bin, counters, app>>

Filled(t) == {n \in Bins : bin[t][n] # None}

ClearBin(t) ==
  /\ pc[t] = "clear" /\ reg[t].next = None /\ Filled(t) # {}
  /\ LET n == Min(Filled(t))
     IN  /\ bin' = [bin EXCEPT ![t][n] = None]
         /\ reg' = [reg EXCEPT ![t].next = bin[t][n]]
  /\ UNCHANGED <<pageResource, word, counters, app, pc>>

\* Mutant: the link is read when the page has been released, and is gone.
ClearPage_ReadLate(t) ==
  /\ Goto(t, "clear", "getMeta")
  /\ reg[t].next \in Units
  /\ reg' = [reg EXCEPT ![t].page = reg[t].next, ![t].next = None]
  /\ UNCHANGED <<pageResource, word, bin, counters, app>>

\* The link to the next page is read before the page is released.
ClearPage(t) ==
  /\ Goto(t, "clear", "getMeta")
  /\ reg[t].next \in Units
  /\ reg' = [reg EXCEPT ![t].page = reg[t].next, ![t].next = word[reg[t].next]]
  /\ UNCHANGED <<pageResource, word, bin, counters, app>>

\* Mutant: only the first list is given back.
ClearDone_OneBin(t) ==
  /\ reg[t].next = None
  /\ Goto(t, "clear", IF reg[t].clearing = "exit" THEN "dead" ELSE "idle")
  /\ IF reg[t].clearing = "exit" THEN UNCHANGED counters
     ELSE /\ cleared' = [cleared EXCEPT ![t] = TRUE]
          /\ maxLive' = [maxLive EXCEPT ![t] = live[t]]
          /\ UNCHANGED live
  /\ reg' = [reg EXCEPT ![t] = NoLocals]
  /\ UNCHANGED <<pageResource, word, bin, app>>

\* Mutant: `live` is reset with max_live.
ClearDone_NoneLive(t) ==
  /\ reg[t].next = None /\ Filled(t) = {}
  /\ Goto(t, "clear", IF reg[t].clearing = "exit" THEN "dead" ELSE "idle")
  /\ IF reg[t].clearing = "exit" THEN UNCHANGED counters
     ELSE /\ cleared' = [cleared EXCEPT ![t] = TRUE]
          /\ maxLive' = [maxLive EXCEPT ![t] = 0]
          /\ live' = [live EXCEPT ![t] = 0]
  /\ reg' = [reg EXCEPT ![t] = NoLocals]
  /\ UNCHANGED <<pageResource, word, bin, app>>

ClearDone(t) ==
  /\ reg[t].next = None /\ Filled(t) = {}
  /\ Goto(t, "clear", IF reg[t].clearing = "exit" THEN "dead" ELSE "idle")
  /\ IF reg[t].clearing = "exit" THEN UNCHANGED counters
     ELSE /\ cleared' = [cleared EXCEPT ![t] = TRUE]
          /\ maxLive' = [maxLive EXCEPT ![t] = live[t]]
          /\ UNCHANGED live
  /\ reg' = [reg EXCEPT ![t] = NoLocals]
  /\ UNCHANGED <<pageResource, word, bin, app>>

----------------------------------------------------------------------------
\* The steps of a call in progress.
Step(t) ==
  \/ Acquire(t) \/ AcquireFails(t) \/ Count(t) \/ SetMeta(t)
  \/ GetMeta(t) \/ Unmap(t) \/ ReleaseCell(t)
  \/ ClearBin(t) \/ ClearPage(t) \/ ClearDone(t)

Next == \E t \in Threads :
  \/ AllocCached(t) \/ AllocCall(t) \/ FreeCached(t) \/ FreeDirect(t) \/ ExitCall(t)
  \/ Step(t)

Spec == Init /\ [][Next]_vars

----------------------------------------------------------------------------
\* The pages a list leads to, following the first words.
Walk(p) == ListCells(p, word, None)
Ends(p) == ListEnds(p, word, None)

\* Types of the variables; the counters never wrap below zero.
TypeOK ==
  /\ used \subseteq Runs /\ app \subseteq Runs
  /\ size \in [Units -> Requests \cup {0}]
  /\ sizes \in Nat /\ reserved \in Nat
  /\ word \in [Units -> Links \cup {Garbage}]
  /\ bin \in [Threads -> [Bins -> Links]]
  /\ live \in [Threads -> Nat] /\ maxLive \in [Threads -> Nat]
  /\ cleared \in [Threads -> BOOLEAN]
  /\ reg \in [Threads -> [units : Requests \cup {0}, page : Links, next : Links,
                          clearing : {"no", "crossed", "exit"}]]

\* The call of t has r between the free list and the application or a bin.
InHand(t, r) ==
  \/ /\ pc[t] \in {"count", "setMeta", "getMeta", "unmap", "releaseCell"}
     /\ r[1] = reg[t].page
  \/ r[1] \in Walk(reg[t].next)

\* No object is lost or in two hands: every run of the free list is the
\* application's, or in one thread's list for its size, or in one call's hands;
\* and no list has a cycle or leads out of the free list's runs.
RunsConserved ==
  /\ app \subseteq used
  /\ \A r \in used :
       (IF r \in app THEN 1 ELSE 0)
       + Cardinality({q \in Threads \X Bins : r[1] \in Walk(bin[q[1]][q[2]])})
       + Cardinality({t \in Threads : InHand(t, r)}) = 1
  /\ \A t \in Threads, n \in Bins :
       Ends(bin[t][n]) /\ \A p \in Walk(bin[t][n]) : <<p, n>> \in used
  /\ \A t \in Threads : Ends(reg[t].next) /\ Walk(reg[t].next) \subseteq {r[1] : r \in used}

\* The table of sizes is right and long enough for every object: dealloc
\* finds the bin or the number of pages to release by it.
SizesKnown ==
  \A r \in used :
    (\A t \in Threads : ~(pc[t] \in {"count", "setMeta"} /\ reg[t].page = r[1]))
    => size[r[1]] = r[2] /\ r[1] < sizes

\* reserved_bytes is what the free list has handed out, but for the calls
\* between the counter and the free list.
ReservedExact ==
  reserved = Total(Length, used)
    - Total([t \in Threads |-> reg[t].units], {t \in Threads : pc[t] \in {"count", "releaseCell"}})

\* The cached objects of an exited thread are all given back.
NothingLeftBehind ==
  \A t \in Threads : pc[t] = "dead" => Filled(t) = {}

\* However objects are freed by other threads than their allocators, the
\* threads' live counts together cover the cacheable objects in use: the
\* saturating subtraction errs on one side only.
LiveCovers ==
  Total(Length, {r \in app : r[2] \in Bins}) <= Total(live, Threads)

\* Free list, caches and table of sizes agree between any two steps of calls,
\* and an exit leaves nothing cached.
ObjectsSound == TypeOK /\ RunsConserved /\ SizesKnown /\ NothingLeftBehind

\* So do the counters, which are updated apart from what they count.
CountersSound == ReservedExact /\ LiveCovers

----------------------------------------------------------------------------
\* To the application, caches and page resource are one allocator of runs.
Ranges == INSTANCE PageRanges WITH used <- app
ImplementsRanges == Ranges!Spec
=============================================================================
