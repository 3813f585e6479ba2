----------------------------- MODULE HoardPool -----------------------------
(***************************************************************************)
(* The heaps of the hoard allocator: one pool per thread and a global one, *)
(* each an array of bins (one per size class, each under its own lock),    *)
(* and the traffic of superblocks between the pools and the page resource. *)
(* hoard/src/pool.rs, hoard/src/hoard_space.rs, hoard/src/super_block.rs.  *)
(*                                                                         *)
(* A step takes a lock, or is what a thread does between two points where  *)
(* others can interfere. BlockMeta::owner and ::size_class are read        *)
(* without a lock, so every such read is a step of its own. The cells of a *)
(* block are interchangeable: only their number matters. The free blocks   *)
(* of BlockPageResource are a set here (module BlockPageResource has the   *)
(* stack), and a group of EmptyClass is the set of its blocks (module      *)
(* BlockList has the links).                                               *)
(***************************************************************************)
EXTENDS Integers, Sequences, FiniteSets

CONSTANTS
  Threads,     \* mutator threads; a thread's local pool goes by its name
  Exiters,     \* the threads that may exit
  Blocks,      \* the superblocks of the space
  CellBytes,   \* SizeClass::bytes: the size in bytes of each size class
  BlockBytes,  \* SuperBlock::BYTES
  DataBytes,   \* SuperBlock::DATA_BYTES
  Global,      \* HoardSpace::pool
  None, NoOne  \* no block; nobody holds the lock

ASSUME GeometryAssumption ==
  /\ BlockBytes \in Nat /\ DataBytes \in Nat /\ DataBytes <= BlockBytes
  /\ CellBytes \in Seq(1..DataBytes) /\ CellBytes # <<>>
ASSUME NamesAssumption ==
  /\ Exiters \subseteq Threads
  /\ Global \notin Threads /\ NoOne \notin Threads \cup {Global} /\ None \notin Blocks
ASSUME FiniteAssumption == IsFiniteSet(Threads) /\ IsFiniteSet(Blocks)

EmptinessClasses == 8
Classes == DOMAIN CellBytes
NoClass == 0
Pools == Threads \cup {Global}
Bins == Pools \X Classes

VARIABLES
  lock,    \* the mutex of each bin: its holder or NoOne
  bin,     \* the BlockList of each bin
  owner,   \* BlockMeta::owner
  class,   \* BlockMeta::size_class
  used,    \* BlockMeta::used_bytes, in cells
  app,     \* cells of each block that the application has
  pr,      \* free blocks of the page resource
  pc,
  reg      \* locals of the thread's call; fblk is the block it took out of a bin

vars == <<lock, bin, owner, class, used, app, pr, pc, reg>>

NoLocals == [blk |-> None, pool |-> NoOne, class |-> NoClass,
             fblk |-> None, fclass |-> NoClass]
EmptyBin == [cache |-> None, list |-> {}, used |-> 0, total |-> 0]

Init ==
  /\ lock = [q \in Bins |-> NoOne]
  /\ bin = [q \in Bins |-> EmptyBin]
  /\ owner = [b \in Blocks |-> NoOne]
  /\ class = [b \in Blocks |-> NoClass]
  /\ used = [b \in Blocks |-> 0]
  /\ app = [b \in Blocks |-> 0]
  /\ pr = Blocks
  /\ pc = [t \in Threads |-> "idle"]
  /\ reg = [t \in Threads |-> NoLocals]

----------------------------------------------------------------------------
\* Superblocks and block lists

Cells(c) == DataBytes \div CellBytes[c]
Bytes(b) == used[b] * CellBytes[class[b]]
Full(b) == used[b] = Cells(class[b])

\* EmptyClass::group: 0 for an empty block, EmptinessClasses+1 for a full one.
Group(b) == IF used[b] = 0 THEN 0
            ELSE 1 + (EmptinessClasses * used[b]) \div Cells(class[b])

Members(bl) == bl.list \cup ({bl.cache} \ {None})

\* EmptyClass::pop_most_empty_block: any block of the lowest group, full
\* blocks excepted.
Emptiest(S) == {b \in S : /\ Group(b) <= EmptinessClasses
                          /\ \A a \in S : Group(b) <= Group(a)}

\* Mutant: the scan runs over all GROUPS, the full blocks included.
MostEmpty_Full(bl) ==
  IF bl.cache # None THEN {bl.cache}
  ELSE {b \in bl.list : \A a \in bl.list : Group(b) <= Group(a)}

\* BlockList::pop_most_empty_block: the cached block goes first.
MostEmpty(bl) == IF bl.cache # None THEN {bl.cache} ELSE Emptiest(bl.list)

\* Mutant: inc_total_bytes is missing.
Put_NoTotal(bl, b) ==
  IF b = bl.cache THEN bl
  ELSE [cache |-> b, list |-> Members(bl), used |-> bl.used + Bytes(b), total |-> bl.total]

\* BlockList::put
Put(bl, b) ==
  IF b = bl.cache THEN bl
  ELSE [cache |-> b, list |-> Members(bl),
        used |-> bl.used + Bytes(b), total |-> bl.total + DataBytes]

\* Mutant: BlockList::pop_most_empty_block leaves the block in the list.
Take_Keep(bl, b) ==
  [cache |-> bl.cache, list |-> bl.list,
   used |-> bl.used - Bytes(b), total |-> bl.total - DataBytes]

\* BlockList::remove, and the removal in BlockList::pop_most_empty_block
Take(bl, b) ==
  [cache |-> IF bl.cache = b THEN None ELSE bl.cache, list |-> bl.list \ {b},
   used |-> bl.used - Bytes(b), total |-> bl.total - DataBytes]

\* The second half of should_flush: how many bytes must be unused.
Grace(c) == (2 * BlockBytes) \div CellBytes[c]

\* BlockList::should_flush
ShouldFlush(bl, c) ==
  /\ EmptinessClasses * bl.used < (EmptinessClasses - 1) * bl.total
  /\ bl.used + Grace(c) < bl.total

\* Cells are powers of two of 16 bytes up to a quarter of a block, so that a
\* block has 3, 7, 15... cells and less than one cell of it is unused.
ASSUME FlushGeometryAssumption ==
  \A c \in Classes :
    /\ Cells(c) >= 3
    /\ 6 * CellBytes[c] * (Cells(c) + 1) <= 7 * DataBytes
    /\ 8 * Grace(c) + 16 * CellBytes[c] <= 6 * DataBytes

----------------------------------------------------------------------------
Goto(t, from, to) ==
  /\ pc[t] = from
  /\ pc' = [pc EXCEPT ![t] = to]

\* The call returns, its locals are gone.
Return(t, from) ==
  /\ Goto(t, from, "idle")
  /\ reg' = [reg EXCEPT ![t] = NoLocals]

Acquire(t, q) ==
  /\ lock[q] = NoOne
  /\ lock' = [lock EXCEPT ![q] = t]

Release(q) == lock' = [lock EXCEPT ![q] = NoOne]

\* The bin a call works on, and the bin of the global pool it turns to.
MyBin(t) == <<reg[t].pool, reg[t].class>>
GlobalBin(t) == <<Global, reg[t].class>>

----------------------------------------------------------------------------
\* HoardAllocator::alloc -> Pool::alloc_cell, on the thread's local pool

AllocCall(t) ==
  /\ Goto(t, "idle", "allocLock")
  /\ \E c \in Classes : reg' = [reg EXCEPT ![t].pool = t, ![t].class = c]
  /\ UNCHANGED <<lock, bin, owner, class, used, app, pr>>

AllocLock(t) ==
  /\ Goto(t, "allocLock", "allocTry")
  /\ Acquire(t, MyBin(t))
  /\ UNCHANGED <<bin, owner, class, used, app, pr, reg>>

\* A cell of b, the bin's (new) cached block, goes to the application.
TakeCell(t, b) ==
  /\ bin' = [bin EXCEPT ![MyBin(t)] =
               [cache |-> b, list |-> Members(@) \ {b},
                used |-> @.used + CellBytes[reg[t].class], total |-> @.total]]
  /\ used' = [used EXCEPT ![b] = @ + 1]
  /\ app' = [app EXCEPT ![b] = @ + 1]
  /\ Return(t, "allocTry")
  /\ Release(MyBin(t))
  /\ UNCHANGED <<owner, class, pr>>

Usable(bl) == bl.cache # None /\ ~Full(bl.cache)

\* BlockList::alloc_cell
AllocFromCache(t) ==
  /\ pc[t] = "allocTry"
  /\ Usable(bin[MyBin(t)])
  /\ TakeCell(t, bin[MyBin(t)].cache)

\* BlockList::alloc_cell_slow: a full cached block goes back to the groups.
AllocFromList(t) ==
  /\ pc[t] = "allocTry"
  /\ ~Usable(bin[MyBin(t)])
  /\ \E b \in Emptiest(bin[MyBin(t)].list) : TakeCell(t, b)

AllocMiss(t) ==
  /\ Goto(t, "allocTry", "globalLock")
  /\ ~Usable(bin[MyBin(t)])
  /\ Emptiest(bin[MyBin(t)].list) = {}
  /\ bin' = [bin EXCEPT ![MyBin(t)].cache = None, ![MyBin(t)].list = Members(bin[MyBin(t)])]
  /\ UNCHANGED <<lock, owner, class, used, app, pr, reg>>

\* HoardSpace::acquire_block, the local bin still locked
GlobalLock(t) ==
  /\ Goto(t, "globalLock", "globalPop")
  /\ Acquire(t, GlobalBin(t))
  /\ UNCHANGED <<bin, owner, class, used, app, pr, reg>>

\* Mutant: the block keeps the global pool as its owner.
GlobalPop_KeepOwner(t) ==
  /\ Goto(t, "globalPop", "allocTry")
  /\ \E b \in MostEmpty(bin[GlobalBin(t)]) :
       bin' = [bin EXCEPT ![GlobalBin(t)] = Take(@, b), ![MyBin(t)] = Put(@, b)]
  /\ Release(GlobalBin(t))
  /\ UNCHANGED <<owner, class, used, app, pr, reg>>

\* The block changes owner before the guard of the global bin is dropped.
GlobalPop(t) ==
  /\ Goto(t, "globalPop", "allocTry")
  /\ \E b \in MostEmpty(bin[GlobalBin(t)]) :
       /\ owner' = [owner EXCEPT ![b] = t]
       /\ bin' = [bin EXCEPT ![GlobalBin(t)] = Take(@, b), ![MyBin(t)] = Put(@, b)]
  /\ Release(GlobalBin(t))
  /\ UNCHANGED <<class, used, app, pr, reg>>

GlobalMiss(t) ==
  /\ Goto(t, "globalPop", "freshBlock")
  /\ MostEmpty(bin[GlobalBin(t)]) = {}
  /\ Release(GlobalBin(t))
  /\ UNCHANGED <<bin, owner, class, used, app, pr, reg>>

\* Mutant: init leaves size_class as the block's last user set it.
FreshBlock_StaleClass(t) ==
  /\ Goto(t, "freshBlock", "allocTry")
  /\ \E b \in pr :
       /\ pr' = pr \ {b}
       /\ class' = [class EXCEPT ![b] = IF @ = NoClass THEN reg[t].class ELSE @]
       /\ used' = [used EXCEPT ![b] = 0]
       /\ owner' = [owner EXCEPT ![b] = t]
       /\ bin' = [bin EXCEPT ![MyBin(t)] =
                    [cache |-> b, list |-> Members(@),
                     used |-> @.used, total |-> @.total + DataBytes]]
  /\ UNCHANGED <<lock, app, reg>>

\* The page resource supplies a block: SuperBlock::init, owner, put.
FreshBlock(t) ==
  /\ Goto(t, "freshBlock", "allocTry")
  /\ \E b \in pr :
       /\ pr' = pr \ {b}
       /\ class' = [class EXCEPT ![b] = reg[t].class]
       /\ used' = [used EXCEPT ![b] = 0]
       /\ owner' = [owner EXCEPT ![b] = t]
       /\ bin' = [bin EXCEPT ![MyBin(t)] =
                    [cache |-> b, list |-> Members(@),
                     used |-> @.used, total |-> @.total + DataBytes]]
  /\ UNCHANGED <<lock, app, reg>>

\* alloc_cell returns None.
OutOfBlocks(t) ==
  /\ Return(t, "freshBlock")
  /\ pr = {}
  /\ Release(MyBin(t))
  /\ UNCHANGED <<bin, owner, class, used, app, pr>>

----------------------------------------------------------------------------
\* Pool::free_cell: any thread may free any cell of the application.

FreeCall(t) ==
  /\ Goto(t, "idle", "freeRead")
  /\ \E b \in Blocks :
       /\ app[b] > 0
       /\ app' = [app EXCEPT ![b] = @ - 1]
       /\ reg' = [reg EXCEPT ![t].blk = b]
  /\ UNCHANGED <<lock, bin, owner, class, used, pr>>

\* owner = block.owner, without a lock
FreeRead(t) ==
  /\ Goto(t, "freeRead", "freeClass")
  /\ reg' = [reg EXCEPT ![t].pool = owner[reg[t].blk]]
  /\ UNCHANGED <<lock, bin, owner, class, used, app, pr>>

\* owner.lock_blocks(block.size_class) reads the class without a lock, too.
FreeClass(t) ==
  /\ Goto(t, "freeClass", "freeLock")
  /\ reg' = [reg EXCEPT ![t].class = class[reg[t].blk]]
  /\ UNCHANGED <<lock, bin, owner, class, used, app, pr>>

FreeLock(t) ==
  /\ Goto(t, "freeLock", "freeCheck")
  /\ Acquire(t, MyBin(t))
  /\ UNCHANGED <<bin, owner, class, used, app, pr, reg>>

\* Mutant: the loop does not read the owner again.
FreeRetry_StaleOwner(t) ==
  /\ Goto(t, "freeCheck", "freeLock")
  /\ owner[reg[t].blk] # reg[t].pool
  /\ Release(MyBin(t))
  /\ UNCHANGED <<bin, owner, class, used, app, pr, reg>>

\* Mutant: the loop waits for the owner to change back, the bin locked.
FreeRetry_Locked(t) ==
  /\ pc[t] = "freeCheck"
  /\ owner[reg[t].blk] # reg[t].pool
  /\ UNCHANGED vars

\* The block moved on meanwhile: unlock, yield and look again.
FreeRetry(t) ==
  /\ Goto(t, "freeCheck", "freeRead")
  /\ owner[reg[t].blk] # reg[t].pool
  /\ Release(MyBin(t))
  /\ UNCHANGED <<bin, owner, class, used, app, pr, reg>>

\* The last cell of b in use is about to be given back.
Last(b) == used[b] = 1

\* Mutant: an empty block stays in its bin.
GiveCell_KeepEmpty(t, b) ==
  /\ used' = [used EXCEPT ![b] = @ - 1]
  /\ bin' = [bin EXCEPT ![MyBin(t)].used = @ - CellBytes[class[b]]]

\* The cell goes back to its block and its bin, and a block that is empty now
\* leaves the bin.
GiveCell(t, b) ==
  LET bl == [bin[MyBin(t)] EXCEPT !.used = @ - CellBytes[class[b]]]
  IN  /\ used' = [used EXCEPT ![b] = @ - 1]
      /\ bin' = [bin EXCEPT ![MyBin(t)] =
                   IF Last(b) THEN [bl EXCEPT !.cache = IF @ = b THEN None ELSE @,
                                              !.list = @ \ {b},
                                              !.total = @ - DataBytes]
                   ELSE bl]

\* Mutant: the owner is not looked at again once the lock is held.
FreeLocal_NoRecheck(t) ==
  /\ Goto(t, "freeCheck", "flushCheck")
  /\ reg[t].pool # Global
  /\ ~Last(reg[t].blk)
  /\ GiveCell(t, reg[t].blk)
  /\ UNCHANGED <<lock, owner, class, app, pr, reg>>

FreeLocal(t) ==
  /\ Goto(t, "freeCheck", "flushCheck")
  /\ reg[t].pool # Global
  /\ owner[reg[t].blk] = reg[t].pool
  /\ ~Last(reg[t].blk)
  /\ GiveCell(t, reg[t].blk)
  /\ UNCHANGED <<lock, owner, class, app, pr, reg>>

\* The global pool flushes nowhere.
FreeGlobal(t) ==
  /\ Return(t, "freeCheck")
  /\ reg[t].pool = Global
  /\ owner[reg[t].blk] = Global
  /\ ~Last(reg[t].blk)
  /\ GiveCell(t, reg[t].blk)
  /\ Release(MyBin(t))
  /\ UNCHANGED <<owner, class, app, pr>>

\* Mutant: the block is released before its cell is given back and it is
\* removed from the bin.
FreeLast_ReleaseFirst(t) ==
  /\ Goto(t, "freeCheck", "release")
  /\ owner[reg[t].blk] = reg[t].pool
  /\ Last(reg[t].blk)
  /\ pr' = pr \cup {reg[t].blk}
  /\ reg' = [reg EXCEPT ![t].fblk = reg[t].blk]
  /\ UNCHANGED <<lock, bin, owner, class, used, app>>

\* Mutant: is_empty is asked before the cell is given back, with an off-by-one.
FreeLast_Early(t) ==
  /\ Goto(t, "freeCheck", "release")
  /\ owner[reg[t].blk] = reg[t].pool
  /\ used[reg[t].blk] <= 2
  /\ used' = [used EXCEPT ![reg[t].blk] = @ - 1]
  /\ bin' = [bin EXCEPT ![MyBin(t)] = Take(@, reg[t].blk)]
  /\ reg' = [reg EXCEPT ![t].fblk = reg[t].blk]
  /\ UNCHANGED <<lock, owner, class, app, pr>>

\* A block that is empty now is removed from the bin first ...
FreeLast(t) ==
  /\ Goto(t, "freeCheck", "release")
  /\ owner[reg[t].blk] = reg[t].pool
  /\ Last(reg[t].blk)
  /\ GiveCell(t, reg[t].blk)
  /\ reg' = [reg EXCEPT ![t].fblk = reg[t].blk]
  /\ UNCHANGED <<lock, owner, class, app, pr>>

\* ... and then released to the page resource, the bin still locked.
ReleaseLocal(t) ==
  /\ Goto(t, "release", "flushCheck")
  /\ reg[t].pool # Global
  /\ pr' = pr \cup {reg[t].fblk}
  /\ reg' = [reg EXCEPT ![t].fblk = None]
  /\ UNCHANGED <<lock, bin, owner, class, used, app>>

ReleaseGlobal(t) ==
  /\ Return(t, "release")
  /\ reg[t].pool = Global
  /\ pr' = pr \cup {reg[t].fblk}
  /\ Release(MyBin(t))
  /\ UNCHANGED <<bin, owner, class, used, app>>

----------------------------------------------------------------------------
\* The flush at the end of free_cell_slow_impl. `block.size_class` is read
\* again, twice, although the block may be the page resource's by now.

FlushNeeded(t) ==
  /\ Goto(t, "flushCheck", "flushPop")
  /\ ShouldFlush(bin[MyBin(t)], class[reg[t].blk])
  /\ UNCHANGED <<lock, bin, owner, class, used, app, pr, reg>>

FlushNotNeeded(t) ==
  /\ Return(t, "flushCheck")
  /\ ~ShouldFlush(bin[MyBin(t)], class[reg[t].blk])
  /\ Release(MyBin(t))
  /\ UNCHANGED <<bin, owner, class, used, app, pr>>

FlushPop(t) ==
  /\ Goto(t, "flushPop", "flushLock")
  /\ \E f \in MostEmpty(bin[MyBin(t)]) :
       /\ bin' = [bin EXCEPT ![MyBin(t)] = Take(@, f)]
       /\ reg' = [reg EXCEPT ![t].fblk = f, ![t].fclass = class[reg[t].blk]]
  /\ UNCHANGED <<lock, owner, class, used, app, pr>>

FlushNothing(t) ==
  /\ Return(t, "flushPop")
  /\ MostEmpty(bin[MyBin(t)]) = {}
  /\ Release(MyBin(t))
  /\ UNCHANGED <<bin, owner, class, used, app, pr>>

\* HoardSpace::flush_block -> Pool::put on the global pool
FlushLock(t) ==
  /\ Goto(t, "flushLock", "flushPut")
  /\ Acquire(t, <<Global, reg[t].fclass>>)
  /\ UNCHANGED <<bin, owner, class, used, app, pr, reg>>

\* Mutant: Pool::put does not set the owner.
FlushPut_KeepOwner(t) ==
  /\ Goto(t, "flushPut", "flushed")
  /\ LET g == <<Global, reg[t].fclass>>
     IN  /\ bin' = [bin EXCEPT ![g] = Put(@, reg[t].fblk)]
         /\ Release(g)
  /\ UNCHANGED <<owner, class, used, app, pr, reg>>

FlushPut(t) ==
  /\ Goto(t, "flushPut", "flushed")
  /\ LET g == <<Global, reg[t].fclass>>
     IN  /\ owner' = [owner EXCEPT ![reg[t].fblk] = Global]
         /\ bin' = [bin EXCEPT ![g] = Put(@, reg[t].fblk)]
         /\ Release(g)
  /\ UNCHANGED <<class, used, app, pr, reg>>

\* debug_assert!(!mostly_empty_block.is_owned_by(self)); the guard is dropped.
FlushDone(t) ==
  /\ Return(t, "flushed")
  /\ Release(MyBin(t))
  /\ UNCHANGED <<bin, owner, class, used, app, pr>>

----------------------------------------------------------------------------
\* Thread exit: HoardAllocator is dropped, and with it the local Pool, whose
\* bins are emptied into the global pool one after the other.

ExitCall(t) ==
  /\ t \in Exiters
  /\ Goto(t, "idle", "drainLock")
  /\ reg' = [reg EXCEPT ![t].pool = t, ![t].class = 1]
  /\ UNCHANGED <<lock, bin, owner, class, used, app, pr>>

DrainLock(t) ==
  /\ Goto(t, "drainLock", "drain")
  /\ Acquire(t, MyBin(t))
  /\ UNCHANGED <<bin, owner, class, used, app, pr, reg>>

\* The cached block first, then the groups from 0 to the full ones. Drop
\* leaves the accounts of the bin alone.
DrainTake(t) ==
  /\ Goto(t, "drain", "drainGlobal")
  /\ LET bl == bin[MyBin(t)]
     IN  \E f \in Members(bl) :
           /\ bl.cache # None => f = bl.cache
           /\ bl.cache = None => \A b \in bl.list : Group(f) <= Group(b)
           /\ bin' = [bin EXCEPT ![MyBin(t)].cache = None, ![MyBin(t)].list = @ \ {f}]
           /\ reg' = [reg EXCEPT ![t].fblk = f]
  /\ UNCHANGED <<lock, owner, class, used, app, pr>>

DrainGlobalLock(t) ==
  /\ Goto(t, "drainGlobal", "drainPut")
  /\ Acquire(t, GlobalBin(t))
  /\ UNCHANGED <<bin, owner, class, used, app, pr, reg>>

DrainPut(t) ==
  /\ Goto(t, "drainPut", "drain")
  /\ owner' = [owner EXCEPT ![reg[t].fblk] = Global]
  /\ bin' = [bin EXCEPT ![GlobalBin(t)] = Put(@, reg[t].fblk)]
  /\ Release(GlobalBin(t))
  /\ reg' = [reg EXCEPT ![t].fblk = None]
  /\ UNCHANGED <<class, used, app, pr>>

DrainNext(t) ==
  /\ pc[t] = "drain"
  /\ Members(bin[MyBin(t)]) = {}
  /\ Release(MyBin(t))
  /\ IF reg[t].class + 1 \in Classes
     THEN /\ Goto(t, "drain", "drainLock")
          /\ reg' = [reg EXCEPT ![t].class = @ + 1]
     ELSE /\ Goto(t, "drain", "dead")
          /\ reg' = [reg EXCEPT ![t] = NoLocals]
  /\ UNCHANGED <<bin, owner, class, used, app, pr>>

----------------------------------------------------------------------------
\* The steps of a call in progress.
Step(t) ==
  \/ AllocLock(t) \/ AllocFromCache(t) \/ AllocFromList(t) \/ AllocMiss(t)
  \/ GlobalLock(t) \/ GlobalPop(t) \/ GlobalMiss(t) \/ FreshBlock(t) \/ OutOfBlocks(t)
  \/ FreeRead(t) \/ FreeClass(t) \/ FreeLock(t) \/ FreeRetry(t)
  \/ FreeLocal(t) \/ FreeGlobal(t) \/ FreeLast(t) \/ ReleaseLocal(t) \/ ReleaseGlobal(t)
  \/ FlushNeeded(t) \/ FlushNotNeeded(t) \/ FlushPop(t) \/ FlushNothing(t)
  \/ FlushLock(t) \/ FlushPut(t) \/ FlushDone(t)
  \/ DrainLock(t) \/ DrainTake(t) \/ DrainGlobalLock(t) \/ DrainPut(t) \/ DrainNext(t)

Next == \E t \in Threads : AllocCall(t) \/ FreeCall(t) \/ ExitCall(t) \/ Step(t)

Spec == Init /\ [][Next]_vars

\* The scheduler runs every thread; the spin locks promise no more than that.
FairSpec == Spec /\ \A t \in Threads : WF_vars(Step(t))

----------------------------------------------------------------------------
\* Types of the variables; the accounts of a bin never wrap below zero.
TypeOK ==
  /\ lock \in [Bins -> Threads \cup {NoOne}]
  /\ bin \in [Bins -> [cache : Blocks \cup {None}, list : SUBSET Blocks,
                       used : Nat, total : Nat]]
  /\ owner \in [Blocks -> Pools \cup {NoOne}]
  /\ class \in [Blocks -> Classes \cup {NoClass}]
  /\ used \in [Blocks -> Nat]
  /\ app \in [Blocks -> Nat]
  /\ pr \subseteq Blocks
  /\ reg \in [Threads -> [blk : Blocks \cup {None}, pool : Pools \cup {NoOne},
                          class : Classes \cup {NoClass},
                          fblk : Blocks \cup {None}, fclass : Classes \cup {NoClass}]]

\* A block that lies in a bin says so itself: free_cell, which has nothing but
\* the block's own owner and size_class to go by, locks the right bin
\* (also the assertions of pool.rs:291 and hoard_space.rs:56).
BinAgrees ==
  \A q \in Bins : \A b \in Members(bin[q]) : owner[b] = q[1] /\ class[b] = q[2]

\* The block a thread has taken out of one bin and not yet put into the next,
\* or not yet released.
Carried(t) ==
  IF pc[t] \in {"release", "flushLock", "flushPut", "drainGlobal", "drainPut"}
  THEN {reg[t].fblk} ELSE {}

\* Every block is in exactly one place: the page resource, one bin (either
\* cached or in its groups), or on the way from its bin with one thread.
PlacedOnce ==
  /\ \A b \in Blocks :
       Cardinality({q \in Bins : b \in Members(bin[q])})
       + Cardinality({t \in Threads : b \in Carried(t)})
       + Cardinality(pr \cap {b}) = 1
  /\ \A q \in Bins : bin[q].cache \notin bin[q].list

\* The cells in use of the blocks of a bin.
UsedCells(q) ==
  {cell \in Members(bin[q]) \X (1..Cells(q[2])) : cell[2] <= used[cell[1]]}

\* A bin in use accounts for its blocks exactly: used_bytes and total_bytes,
\* which should_flush compares, are those of its blocks and of their cells.
\* (Drop no longer maintains the accounts of a bin it empties.)
AccountsExact ==
  \A q \in Bins :
    (q[1] = Global \/ pc[q[1]] \notin {"drainLock", "drain", "drainGlobal", "drainPut", "dead"})
    => /\ bin[q].used = CellBytes[q[2]] * Cardinality(UsedCells(q))
       /\ bin[q].total = DataBytes * Cardinality(Members(bin[q]))

\* The threads about to give a cell of b back.
Freeing(b) ==
  {t \in Threads : /\ reg[t].blk = b
                   /\ pc[t] \in {"freeRead", "freeClass", "freeLock", "freeCheck"}}

\* No cell is lost or given twice, and no block with cells out is free: a
\* block's count is what the application has plus the frees under way.
CellsConserved ==
  \A b \in Blocks : /\ used[b] = app[b] + Cardinality(Freeing(b))
                    /\ b \in pr => used[b] = 0
                    /\ used[b] > 0 => used[b] <= Cells(class[b])

\* An empty block is not kept: in a bin nobody is working on, every block has
\* cells in use (free_cell_slow_impl hands empty blocks to release_block).
NoEmptyBlockKept ==
  \A q \in Bins : lock[q] = NoOne => \A b \in Members(bin[q]) : used[b] > 0

\* A block being flushed goes to the global bin of its own size class,
\* although the class is read from another block that is possibly in use again.
FlushesToItsClass ==
  \A t \in Threads : pc[t] \in {"flushLock", "flushPut"} =>
    reg[t].fclass = class[reg[t].fblk]

\* What the pools keep whatever threads allocate, free, flush and exit: the
\* parts above, for a block that changes its size class too.
PoolsSound ==
  /\ TypeOK /\ BinAgrees /\ PlacedOnce
  /\ AccountsExact /\ NoEmptyBlockKept /\ FlushesToItsClass

\* flush_block_slow's assertion: the flushed block left the pool (pool.rs:365).
\* With two classes it need not hold: the block can be released and come back to
\* another bin of the same pool before its owner is read.
FlushedLeft ==
  \A t \in Threads : pc[t] = "flushed" => owner[reg[t].fblk] # reg[t].pool

InCall(t) == pc[t] \notin {"idle", "dead"}

\* As long as some thread is inside the allocator, threads go on leaving it:
\* neither the order of the locks nor the retries of free_cell, which read a
\* changing owner again and again, stop the threads that are in a call.
SomeoneGetsThrough ==
  \/ <>[](\A t \in Threads : ~InCall(t))
  \/ []<><<\E t \in Threads : InCall(t) /\ ~InCall(t)'>>_vars

\* A lock of the global pool, which every local pool contends for, is always
\* given back.
GlobalLockReturned ==
  \A c \in Classes : lock[<<Global, c>>] # NoOne ~> lock[<<Global, c>>] = NoOne

----------------------------------------------------------------------------
\* The pools implement the heap their clients see: see HoardHeap.
Heap == INSTANCE HoardHeap WITH
  Capacity <- [c \in Classes |-> Cells(c)], out <- app, kind <- class

\* Whatever the pools do with a block, it serves one size class at a time.
ImplementsHeap == Heap!Spec
=============================================================================
