----------------------------- MODULE HoardCells -----------------------------
(***************************************************************************)
(* The cells of the hoard heap: the bump cursor and the list of free cells *)
(* of a superblock (hoard/src/super_block.rs) and the lists of the         *)
(* thread-local buffer in front of the pools (discrete_tlab.rs,            *)
(* HoardAllocator in hoard_space.rs). Both lists run through the first     *)
(* words of the free cells. Which superblock a pool takes a cell from is   *)
(* HoardPool's matter: here it is any of the class with a cell left. Sizes *)
(* and addresses are in units of the smallest cell.                        *)
(***************************************************************************)
EXTENDS Integers, FiniteSets, LinkedLists, Totals

CONSTANTS
  Threads,
  Exiters,       \* the threads that may exit
  Blocks,        \* the superblocks, by number
  BlockUnits,    \* SuperBlock::BYTES
  MetaUnits,     \* SuperBlock::META_BYTES
  LogMax,        \* the largest class of HoardSpace has cells of 2^LogMax
  LogSmall,      \* LARGEST_SMALL_OBJECT is 2^LogSmall
  Threshold,     \* LOCAL_HEAP_THRESHOLD
  Layouts        \* <<size, align>> of what clients ask for

\* HoardSpace::MAX_ALLOCATION_SIZE is a quarter of a block, of which the meta
\* data takes the size of a small cell.
ASSUME BlocksAssumption ==
  /\ Blocks \subseteq Nat \ {0} /\ IsFiniteSet(Blocks)
  /\ LogMax \in Nat /\ BlockUnits \in Nat /\ BlockUnits % 2^LogMax = 0
  /\ MetaUnits \in 1..(BlockUnits - 2^LogMax)
ASSUME BuffersAssumption ==
  /\ Exiters \subseteq Threads
  /\ LogSmall \in 0..LogMax /\ Threshold \in Nat
\* Layout: alignments are powers of two; nobody asks for objects without size.
ASSUME LayoutsAssumption ==
  \A l \in Layouts : l[1] \in Nat \ {0} /\ \E k \in 0..l[2] : l[2] = 2^k

Classes == 0..LogMax
Bins == 0..LogSmall                  \* the classes a buffer has a list for
Size(c) == 2^c                       \* SizeClass::bytes
Start(b) == b * BlockUnits
Containing(a) == a \div BlockUnits   \* SuperBlock::containing
Addresses == UNION {Start(b)..(Start(b) + BlockUnits - 1) : b \in Blocks}
Zero == 0
Data == -1                           \* anything that is no link: what clients write

VARIABLES
  blk,    \* BlockMeta of each superblock
  pr,     \* the superblocks the page resource has
  word,   \* the first word of each cell
  bins,   \* DiscreteTLAB::bins of each thread
  bytes,  \* DiscreteTLAB::bytes of each thread
  live,   \* the clients' objects, as <<cell, size, align>>
  call    \* what each thread is in the middle of

vars == <<blk, pr, word, bins, bytes, live, call>>

Idle == [at |-> "idle"]

Init ==
  /\ blk = [b \in Blocks |-> [class |-> 0, cursor |-> BlockUnits, used |-> 0, head |-> Zero]]
  /\ pr = Blocks
  /\ word = [a \in Addresses |-> Data]
  /\ bins = [t \in Threads |-> [c \in Bins |-> Zero]]
  /\ bytes = [t \in Threads |-> 0]
  /\ live = {}
  /\ call = [t \in Threads |-> Idle]

----------------------------------------------------------------------------
\* Layouts and size classes

AlignUp(n, a) == ((n + a - 1) \div a) * a
\* Mutant: the size is not padded to the alignment.
FromLayout_NoPad(l) == CHOOSE c \in 0..l[1] : l[1] <= 2^c /\ (c = 0 \/ 2^(c - 1) < l[1])

\* SizeClass::from_layout: pad_to_align, then the next power of two
FromLayout(l) ==
  LET n == AlignUp(l[1], l[2])
  IN  CHOOSE c \in 0..n : n <= 2^c /\ (c = 0 \/ 2^(c - 1) < n)

CanAllocate(l) == FromLayout(l) <= LogMax

----------------------------------------------------------------------------
\* Superblocks, under the lock of their bin

InitBlock(c) == [class |-> c, cursor |-> AlignUp(MetaUnits, Size(c)), used |-> 0, head |-> Zero]

IsFull(m) == m.cursor >= BlockUnits /\ m.head = Zero

NextCell(b) == IF blk[b].cursor < BlockUnits THEN Start(b) + blk[b].cursor ELSE blk[b].head

\* Mutant: the head of the list stays where it is.
AllocCell_KeepHead(b) ==
  blk' = [blk EXCEPT ![b].used = @ + Size(blk[b].class),
                     ![b].cursor = IF @ < BlockUnits THEN @ + Size(blk[b].class) ELSE @]

\* The cursor goes first, the list of free cells once the block is carved up.
AllocCell(b) ==
  blk' = [blk EXCEPT
    ![b].used = @ + Size(blk[b].class),
    ![b].cursor = IF @ < BlockUnits THEN @ + Size(blk[b].class) ELSE @,
    ![b].head = IF blk[b].cursor < BlockUnits THEN @ ELSE word[@]]

\* Mutant: a block is taken for empty when its list is.
FreeCell_EarlyRelease(a) ==
  LET b == Containing(a)
  IN  /\ word' = [word EXCEPT ![a] = blk[b].head]
      /\ blk' = [blk EXCEPT ![b].head = a, ![b].used = @ - Size(blk[b].class)]
      /\ pr' = IF blk[b].head = Zero THEN pr \cup {b} ELSE pr

\* Pool::free_cell: the block gets the cell, and the page resource the block
\* when it is empty.
FreeCell(a) ==
  LET b == Containing(a)
  IN  /\ word' = [word EXCEPT ![a] = blk[b].head]
      /\ blk' = [blk EXCEPT ![b].head = a, ![b].used = @ - Size(blk[b].class)]
      /\ pr' = IF blk[b].used = Size(blk[b].class) THEN pr \cup {b} ELSE pr

----------------------------------------------------------------------------
\* HoardAllocator::alloc

Small(n) == n <= 2^LogSmall

\* The buffer is asked for small objects, by their class. It has no bin for one
\* that is small only before its size is padded: the access would panic, and no
\* action is enabled for it. (The interfaces pad sizes before they ask.)
Served(l) == CanAllocate(l) /\ (Small(l[1]) => FromLayout(l) \in Bins)
TlabHas(t, l) == Small(l[1]) /\ bins[t][FromLayout(l)] # Zero

\* A client writes to the object it gets, over the link that was there.
HandOut(a, l) ==
  /\ live' = live \cup {<<a, l[1], l[2]>>}
  /\ word' = [word EXCEPT ![a] = Data]

\* Mutant: the bytes are counted by the request, not by the cell.
PopBytes_Requested(t, l) == bytes' = [bytes EXCEPT ![t] = @ - l[1]]
PopBytes(t, l) == bytes' = [bytes EXCEPT ![t] = @ - Size(FromLayout(l))]

AllocTlab(t, l) ==
  /\ call[t] = Idle
  /\ Served(l) /\ TlabHas(t, l)
  /\ LET c == FromLayout(l)
         a == bins[t][c]
     IN  HandOut(a, l) /\ bins' = [bins EXCEPT ![t][c] = word[a]]
  /\ PopBytes(t, l)
  /\ UNCHANGED <<blk, pr, call>>

Fresh == {call[t].block : t \in {u \in Threads : call[u].at = "refilled"}}

AllocPool(t, l) ==
  /\ call[t] = Idle
  /\ Served(l) /\ ~TlabHas(t, l)
  /\ \E b \in Blocks \ (pr \cup Fresh) :
       /\ blk[b].class = FromLayout(l) /\ ~IsFull(blk[b])
       /\ AllocCell(b) /\ HandOut(NextCell(b), l)
  /\ UNCHANGED <<pr, bins, bytes, call>>

\* The pools have nothing to offer: a superblock is made ready, in a locked bin.
\* (The links that are left in it mean nothing any more.)
Refill(t, l) ==
  /\ call[t] = Idle
  /\ Served(l) /\ ~TlabHas(t, l)
  /\ \E b \in pr :
       /\ pr' = pr \ {b}
       /\ blk' = [blk EXCEPT ![b] = InitBlock(FromLayout(l))]
       /\ word' = [a \in Addresses |-> IF Containing(a) = b THEN Data ELSE word[a]]
       /\ call' = [call EXCEPT ![t] = [at |-> "refilled", block |-> b, layout |-> l]]
  /\ UNCHANGED <<bins, bytes, live>>

AllocFresh(t) ==
  /\ call[t].at = "refilled"
  /\ AllocCell(call[t].block) /\ HandOut(NextCell(call[t].block), call[t].layout)
  /\ call' = [call EXCEPT ![t] = Idle]
  /\ UNCHANGED <<pr, bins, bytes>>

----------------------------------------------------------------------------
\* HoardAllocator::dealloc, of any thread's object

ToTlab(t, c) == Small(Size(c)) /\ Size(c) + bytes[t] <= Threshold

FreeTlab(t, o) ==
  /\ call[t] = Idle
  /\ LET c == blk[Containing(o[1])].class
     IN  /\ ToTlab(t, c)
         /\ word' = [word EXCEPT ![o[1]] = bins[t][c]]
         /\ bins' = [bins EXCEPT ![t][c] = o[1]]
         /\ bytes' = [bytes EXCEPT ![t] = @ + Size(c)]
  /\ live' = live \ {o}
  /\ UNCHANGED <<blk, pr, call>>

FreePool(t, o) ==
  /\ call[t] = Idle
  /\ ~ToTlab(t, blk[Containing(o[1])].class)
  /\ FreeCell(o[1])
  /\ live' = live \ {o}
  /\ UNCHANGED <<bins, bytes, call>>

----------------------------------------------------------------------------
\* HoardAllocator::drop -> DiscreteTLAB::clear, cell by cell

Clearing(c, a) == [at |-> "clearing", class |-> c, cell |-> a]

Exit(t) ==
  /\ t \in Exiters /\ call[t] = Idle
  /\ call' = [call EXCEPT ![t] = Clearing(0, bins[t][0])]
  /\ UNCHANGED <<blk, pr, word, bins, bytes, live>>

\* Mutant: the link is read after the cell was given away.
ClearCell_ReadLate(t) ==
  /\ call[t].at = "clearing"
  /\ call[t].cell # Zero
  /\ FreeCell(call[t].cell)
  /\ call' = [call EXCEPT ![t].cell = word'[@]]
  /\ UNCHANGED <<bins, bytes, live>>

ClearCell(t) ==
  /\ call[t].at = "clearing"
  /\ call[t].cell # Zero
  /\ FreeCell(call[t].cell)
  /\ call' = [call EXCEPT ![t].cell = word[@]]
  /\ UNCHANGED <<bins, bytes, live>>

\* Mutant: only the bin of the smallest class is cleared.
AfterBin_First(t, c) == [at |-> "dead"]

AfterBin(t, c) == IF c < LogSmall THEN Clearing(c + 1, bins[t][c + 1]) ELSE [at |-> "dead"]

ClearBin(t) ==
  /\ call[t].at = "clearing"
  /\ call[t].cell = Zero
  /\ bins' = [bins EXCEPT ![t][call[t].class] = Zero]
  /\ call' = [call EXCEPT ![t] = AfterBin(t, @.class)]
  /\ bytes' = [bytes EXCEPT ![t] = IF call'[t].at = "dead" THEN 0 ELSE @]
  /\ UNCHANGED <<blk, pr, word, live>>

----------------------------------------------------------------------------
Step(t) == AllocFresh(t) \/ ClearCell(t) \/ ClearBin(t)

Next == \E t \in Threads :
  \/ \E l \in Layouts : AllocTlab(t, l) \/ AllocPool(t, l) \/ Refill(t, l)
  \/ \E o \in live : FreeTlab(t, o) \/ FreePool(t, o)
  \/ Exit(t) \/ Step(t)

Spec == Init /\ [][Next]_vars

----------------------------------------------------------------------------
\* Types of the variables; in particular no list leads into a client's object.
TypeOK ==
  LET Link == Addresses \cup {Zero}
  IN  /\ blk \in [Blocks -> [class : Classes, cursor : 0..(2 * BlockUnits),
                             used : 0..BlockUnits, head : Link]]
      /\ word \in [Addresses -> Link \cup {Data}]
      /\ bins \in [Threads -> [Bins -> Link]]
      /\ bytes \in [Threads -> 0..Threshold]
      /\ pr \subseteq Blocks

\* The cells of the list that starts at a.
Chain(a) == ListCells(a, word, Zero)
Ends(a) == ListEnds(a, word, Zero)

\* The list of a buffer, what is left of it while it is being cleared.
TlabHead(t, c) ==
  IF call[t].at = "clearing" /\ call[t].class = c THEN call[t].cell
  ELSE IF call[t].at = "clearing" /\ call[t].class > c THEN Zero ELSE bins[t][c]

InTlab(t, c) == Chain(TlabHead(t, c))
Carved(b) == {Start(b) + o : o \in {n \in AlignUp(MetaUnits, Size(blk[b].class))..(blk[b].cursor - 1) :
                                     n % Size(blk[b].class) = 0}}

\* No cell is lost, handed out twice or on two lists: a carved cell of a block
\* in use is an object, in one thread's buffer, or in its block's own list.
CellsConserved ==
  \A b \in Blocks \ pr :
    /\ Ends(blk[b].head) /\ Chain(blk[b].head) \subseteq Carved(b)
    /\ \A a \in Carved(b) :
         Cardinality({o \in live : o[1] = a})
         + Cardinality({q \in Threads \X Bins : a \in InTlab(q[1], q[2])})
         + (IF a \in Chain(blk[b].head) THEN 1 ELSE 0) = 1

\* used_bytes, by which a block is empty or full, counts the cells that are
\* out, those in buffers included; a buffer's bytes are those of its lists.
CountsExact ==
  /\ \A b \in Blocks \ pr :
       blk[b].used = Size(blk[b].class) * Cardinality(Carved(b) \ Chain(blk[b].head))
  /\ \A t \in Threads : call[t].at = "idle" =>
       bytes[t] = Total([c \in Bins |-> Size(c) * Cardinality(InTlab(t, c))], Bins)

\* An object has the size and the alignment that were asked for and lies in a
\* block in use, whoever's buffer the cell went through, and the cells in a
\* bin of a buffer are of its class.
ObjectsFit ==
  /\ \A o \in live : LET b == Containing(o[1]) IN
       /\ b \notin pr
       /\ o[2] <= Size(blk[b].class) /\ o[1] % o[3] = 0
       /\ o[1] + o[2] <= Start(b) + BlockUnits
  /\ \A t \in Threads, c \in Bins : \A a \in InTlab(t, c) : blk[Containing(a)].class = c

\* A thread that exited keeps no cell of any class.
NothingKept == \A t \in Threads : call[t].at = "dead" => \A c \in Bins : bins[t][c] = Zero

\* Lists in blocks and buffers and the counts that blocks are released by stay
\* right while cells travel between threads and threads exit.
CellsSound == TypeOK /\ CellsConserved /\ CountsExact /\ NothingKept

----------------------------------------------------------------------------
\* With cells and buffers too the heap is the one of HoardHeap.
Heap == INSTANCE HoardHeap WITH
  Capacity <- [c \in 1..(LogMax + 1) |->
                 (BlockUnits - AlignUp(MetaUnits, Size(c - 1))) \div Size(c - 1)],
  out <- [b \in Blocks |-> Cardinality({o \in live : Containing(o[1]) = b})],
  kind <- [b \in Blocks |-> IF blk[b].cursor = BlockUnits /\ blk[b].used = 0 /\ blk[b].head = Zero
                            THEN 0 ELSE blk[b].class + 1]
ImplementsHeap == Heap!Spec
=============================================================================
