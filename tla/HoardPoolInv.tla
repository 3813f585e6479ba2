---------------------------- MODULE HoardPoolInv ----------------------------
(***************************************************************************)
(* The inductive invariant of HoardPool, which HoardPool_proof shows to be *)
(* one. Most of it says where a block can be and who holds which lock. The *)
(* rest, AtRest and Deciding, is why the last free of a block may read     *)
(* size_class from that block when it decides to flush, although the block *)
(* is the page resource's by then and may serve another class: when a free *)
(* empties a block, there is nothing to flush.                             *)
(***************************************************************************)
EXTENDS HoardPool

----------------------------------------------------------------------------
\* Control: what a thread's locals hold, and which locks it has.

WaitingPcs == {"globalLock", "globalPop", "freshBlock"}
AllocPcs == {"allocLock", "allocTry"} \cup WaitingPcs
FreePcs == {"freeRead", "freeClass", "freeLock", "freeCheck"}
DecidePcs == {"flushCheck", "flushPop"}
FlushPcs == DecidePcs \cup {"flushLock", "flushPut", "flushed"}
DrainingPcs == {"drain", "drainGlobal", "drainPut"}
DrainPcs == {"drainLock"} \cup DrainingPcs
CarryPcs == {"release", "flushLock", "flushPut", "drainGlobal", "drainPut"}
LockedPcs == {"allocTry", "freeCheck", "release"} \cup WaitingPcs \cup FlushPcs \cup DrainingPcs
BinPcs == AllocPcs \cup {"freeLock", "freeCheck", "release"} \cup FlushPcs \cup DrainPcs
Pcs == {"idle", "dead", "release"} \cup AllocPcs \cup FreePcs \cup FlushPcs \cup DrainPcs

BlockLists == [cache : Blocks \cup {None}, list : SUBSET Blocks, used : Int, total : Int]
Regs == [blk : Blocks \cup {None}, pool : Pools \cup {NoOne}, class : Classes \cup {NoClass},
         fblk : Blocks \cup {None}, fclass : Classes \cup {NoClass}]

\* TypeOK, but for the signs of the counts.
Shapes ==
  /\ lock \in [Bins -> Threads \cup {NoOne}]
  /\ bin \in [Bins -> BlockLists]
  /\ owner \in [Blocks -> Pools \cup {NoOne}]
  /\ class \in [Blocks -> Classes \cup {NoClass}]
  /\ used \in [Blocks -> Int]
  /\ app \in [Blocks -> Nat]
  /\ pr \subseteq Blocks
  /\ pc \in [Threads -> Pcs]
  /\ reg \in [Threads -> Regs]

Locals(t) ==
  /\ pc[t] \in BinPcs => MyBin(t) \in Bins
  /\ pc[t] \in AllocPcs \cup DrainPcs => reg[t].pool = t
  /\ pc[t] \in FlushPcs => reg[t].pool # Global
  /\ pc[t] \in FreePcs \cup DecidePcs => reg[t].blk \in Blocks
  /\ pc[t] = "freeClass" => reg[t].pool \in Pools
  /\ pc[t] \in {"freeLock", "freeCheck"} => class[reg[t].blk] = reg[t].class
  /\ pc[t] = "release" => reg[t].fblk = reg[t].blk
  /\ pc[t] \in CarryPcs \cup {"flushed"} => reg[t].fblk \in Blocks
  /\ pc[t] \in {"flushLock", "flushPut", "flushed"} => reg[t].fclass = reg[t].class

\* The locks a thread has, and no others.
Section(t) ==
  {q \in Bins : \/ pc[t] \in LockedPcs /\ q = MyBin(t)
                \/ pc[t] \in {"globalPop", "flushPut", "drainPut"} /\ q = GlobalBin(t)}

Holding(t) == \A q \in Bins : lock[q] = t <=> q \in Section(t)

----------------------------------------------------------------------------
\* Blocks: where they are, and the cells they have.

\* No block of the bin is anywhere else.
Apart(q) ==
  /\ bin[q].cache \notin bin[q].list
  /\ Members(bin[q]) \cap pr = {}
  /\ \A b \in Members(bin[q]) : owner[b] = q[1] /\ class[b] = q[2]

\* Nor is the block a thread carries away from its bin, which is empty only if
\* it is about to be released.
CarriedApart(t) ==
  pc[t] \in CarryPcs =>
    /\ reg[t].fblk \notin pr \cup Members(bin[MyBin(t)])
    /\ owner[reg[t].fblk] = reg[t].pool
    /\ class[reg[t].fblk] = reg[t].class
    /\ IF pc[t] = "release" THEN used[reg[t].fblk] = 0 ELSE used[reg[t].fblk] > 0

\* And every other block is free.
Found(b) ==
  b \notin pr =>
    /\ <<owner[b], class[b]>> \in Bins
    /\ b \in Members(bin[<<owner[b], class[b]>>]) \/ \E t \in Threads : b \in Carried(t)

Counted(b) ==
  /\ used[b] = app[b] + Cardinality(Freeing(b))
  /\ b \in pr => used[b] = 0
  /\ b \notin pr => used[b] <= Cells(class[b])

\* A block in a bin is empty only if the bin's owner is about to use it.
EmptyTaken(q) ==
  \A b \in Members(bin[q]) :
    used[b] = 0 =>
      bin[q].cache = b /\ \E t \in Threads : pc[t] = "allocTry" /\ MyBin(t) = q

AllFull(bl, u, c) == \A b \in bl.list : u[b] = Cells(c)

\* A thread turns to the global pool when its bin has nothing left.
NothingLeft(t) ==
  pc[t] \in WaitingPcs =>
    bin[MyBin(t)].cache = None /\ AllFull(bin[MyBin(t)], used, reg[t].class)

\* A flushed block that the pool owns again serves another size class.
FlushedAway(t) ==
  pc[t] = "flushed" /\ owner[reg[t].fblk] = reg[t].pool =>
    class[reg[t].fblk] # reg[t].class

\* The bins that a thread's exit has emptied, and the one it is emptying.
Empty(q) ==
  /\ q[1] \in Threads
  /\ \/ pc[q[1]] = "dead"
     \/ pc[q[1]] \in DrainPcs /\ q[2] < reg[q[1]].class

Drained(q) ==
  \/ Empty(q)
  \/ q[1] \in Threads /\ pc[q[1]] \in DrainingPcs /\ q[2] = reg[q[1]].class

\* The cells in use of the blocks in S, of n cells at most, of which a block b
\* has u[b] in use: UsedCells(q) for the blocks of a bin.
CellsOf(S, u, n) == {cell \in S \X (1..n) : cell[2] <= u[cell[1]]}

\* What n cells of class c account for, and what a bin of class c with the blocks in S has to.
Weight(n, c) == CellBytes[c] * n
UsedBytes(S, u, c) == CellBytes[c] * Cardinality(CellsOf(S, u, Cells(c)))
TotalBytes(S) == DataBytes * Cardinality(S)

Exact(q) ==
  /\ bin[q].used \in Nat /\ bin[q].total \in Nat
  /\ ~Drained(q) =>
       /\ bin[q].used = UsedBytes(Members(bin[q]), used, q[2])
       /\ bin[q].total = TotalBytes(Members(bin[q]))

----------------------------------------------------------------------------
\* Flushing. A bin bl of class c, whose block b has u[b] cells in use, is
\* Behind by what its blocks together lack to seven eighths.

Behind(bl) == 7 * bl.total - 8 * bl.used
Lack(n, c) == 7 * DataBytes - 8 * (CellBytes[c] * n)

\* Less than three quarters of the cells are in use, or just three quarters
\* would be with one more.
Low(n, c) == 4 * n < 3 * Cells(c)
JustLow(n, c) == 4 * (n + 1) >= 3 * Cells(c)

\* The most a bin with a low block in its groups is ever behind.
Bound(c) == 8 * Grace(c) + DataBytes + 8 * CellBytes[c]

\* b is the only low block in the groups, and has just become so.
Lonely(bl, u, b, c) ==
  bl.cache = None /\ JustLow(u[b], c) /\ \A a \in bl.list \ {b} : ~Low(u[a], c)

\* While a block in the groups is low, the bin is hardly behind: whenever it is
\* behind, a free flushes a block at least as empty as the low one, or the
\* cached block, which was at least as empty when it was cached.
Calm(bl, u, c) ==
  \A b \in bl.list :
    Low(u[b], c) => \/ Lonely(bl, u, b, c)
                    \/ /\ Behind(bl) <= Bound(c)
                       /\ bl.cache # None =>
                            Behind(bl) - Lack(u[bl.cache], c) <= Bound(c) - 8 * CellBytes[c]

\* A cached block down to its last cell stayed there for want of a flush.
LastCell(bl, u, c) ==
  bl.cache # None /\ u[bl.cache] <= 1 /\ ~AllFull(bl, u, c) => Behind(bl) <= 8 * Grace(c)

AtRest(bl, u, c) == Calm(bl, u, c) /\ LastCell(bl, u, c)

\* After a free that emptied its block: at rest, and no flush is due unless
\* there is no block to flush.
NoneToFlush(bl, u, c) == bl.cache = None /\ AllFull(bl, u, c)
Emptied(bl, u, c) == AtRest(bl, u, c) /\ (Behind(bl) <= 0 \/ NoneToFlush(bl, u, c))

\* After any other free: a flush would leave the bin at rest.
Freed(bl, u, c) ==
  IF bl.cache # None
  THEN \A b \in bl.list : Low(u[b], c) =>
         \/ Behind(bl) - Lack(u[bl.cache], c) <= Bound(c)
         \/ Lonely([bl EXCEPT !.cache = None], u, b, c)
  ELSE \/ Behind(bl) <= Bound(c) + 8 * CellBytes[c]
       \/ \A a, b \in bl.list :
            a # b /\ Low(u[a], c) /\ Low(u[b], c) =>
              JustLow(u[b], c) /\ \A d \in bl.list \ {a, b} : ~Low(u[d], c)

\* The thread that frees decides by the class of its block, which is the
\* bin's as long as the block is there.
Deciding(t) ==
  /\ pc[t] \in DecidePcs =>
       IF reg[t].blk \in Members(bin[MyBin(t)])
       THEN Freed(bin[MyBin(t)], used, reg[t].class)
       ELSE /\ Emptied(bin[MyBin(t)], used, reg[t].class)
            /\ pc[t] = "flushPop" => NoneToFlush(bin[MyBin(t)], used, reg[t].class)
  /\ pc[t] = "release" /\ reg[t].pool # Global =>
       Emptied(bin[MyBin(t)], used, reg[t].class)

Flushable(q) ==
  \/ q[1] = Global \/ Drained(q)
  \/ AtRest(bin[q], used, q[2])
  \/ \E t \in Threads : pc[t] \in DecidePcs /\ MyBin(t) = q

----------------------------------------------------------------------------
ThreadOK(t) ==
  /\ Locals(t) /\ Holding(t) /\ CarriedApart(t)
  /\ NothingLeft(t) /\ FlushedAway(t) /\ Deciding(t)

BinOK(q) ==
  /\ Apart(q) /\ EmptyTaken(q) /\ Exact(q) /\ Flushable(q)
  /\ Empty(q) => Members(bin[q]) = {}

\* What threads, bins and blocks keep step by step; PoolsSound and
\* CellsConserved follow from it.
IInv ==
  /\ Shapes
  /\ \A t \in Threads : ThreadOK(t)
  /\ \A q \in Bins : BinOK(q)
  /\ \A b \in Blocks : Found(b) /\ Counted(b)
=============================================================================
