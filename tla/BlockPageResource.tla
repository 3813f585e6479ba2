------------------------- MODULE BlockPageResource -------------------------
(***************************************************************************)
(* The lock-free pool of free blocks of mallockit's BlockPageResource      *)
(* (mallockit/src/space/page_resource/block_page_resource.rs): a Treiber   *)
(* stack whose links live in the first word of the free blocks, filled up  *)
(* from a bump cursor, together with what its one releasing client,        *)
(* HoardSpace, does to a block between acquire_block and release_block.    *)
(*                                                                         *)
(* Every load, store and read-modify-write of shared memory is a step.     *)
(* Blocks are numbered in the order the cursor carves them, from 1; the    *)
(* number 0 stands for Address::ZERO, the null link.                       *)
(*                                                                         *)
(* acquire_block compares the head by address only. Two history variables, *)
(* which no step of the code depends on, tell when that was not enough:    *)
(* aba is set by an exchange that succeeds on a block which another thread *)
(* has popped since it was loaded.                                         *)
(***************************************************************************)
EXTENDS LinkedLists

CONSTANTS
  NumBlocks,   \* blocks between range.start and highwater
  Threads,     \* mutator threads, all of which acquire and release
  Nobody       \* `owner` of a block nobody initialised yet

ASSUME NumBlocksAssumption == NumBlocks \in Nat
ASSUME NobodyAssumption == Nobody \notin Threads

Blocks == 1..NumBlocks
None == 0
\* The first word of a block in use: BlockMeta's bump_cursor and used_bytes.
Garbage == -1
Links == Blocks \cup {None}

VARIABLES
  cursor,     \* blocks carved so far
  head,       \* top of the free stack
  word,       \* first word of each block: a link, or the client's metadata
  reserved,   \* reserved_bytes, in blocks
  owner,      \* BlockMeta::owner, as the thread whose local pool it is
  held,       \* blocks the client has and no call is working on
  pc,         \* where each thread is
  blk,        \* `block` of the thread's current call
  nxt,        \* acquire: the link read by get_next; release: the `head` read
  stale,      \* the acquirers whose `head` another thread has popped
  aba         \* the exchange of one of them has succeeded

history == <<stale, aba>>
vars == <<cursor, head, word, reserved, owner, held, pc, blk, nxt, history>>

Init ==
  /\ cursor = 0
  /\ head = None
  /\ word = [b \in Blocks |-> None]
  /\ reserved = 0
  /\ owner = [b \in Blocks |-> Nobody]
  /\ held = {}
  /\ pc = [t \in Threads |-> "idle"]
  /\ blk = [t \in Threads |-> None]
  /\ nxt = [t \in Threads |-> None]
  /\ stale = {}
  /\ aba = FALSE

Goto(t, from, to) ==
  /\ pc[t] = from
  /\ pc' = [pc EXCEPT ![t] = to]

\* The call returns, its locals are gone.
Return(t, from) ==
  /\ Goto(t, from, "idle")
  /\ blk' = [blk EXCEPT ![t] = None]
  /\ nxt' = [nxt EXCEPT ![t] = None]

----------------------------------------------------------------------------
\* acquire_block

AcqCall(t) ==
  /\ Goto(t, "idle", "acqLoad")
  /\ UNCHANGED <<cursor, head, word, reserved, owner, held, blk, nxt, history>>

\* let head = self.head.load(Relaxed); an empty stack leaves the loop.
AcqLoad(t) ==
  /\ Goto(t, "acqLoad", IF head = None THEN "carve" ELSE "acqNext")
  /\ blk' = [blk EXCEPT ![t] = head]
  /\ UNCHANGED <<cursor, head, word, reserved, owner, held, nxt, history>>

\* Self::get_next(block): an unsynchronised load from the block itself. Where
\* metadata has become the head, it faults.
AcqNext(t) ==
  /\ Goto(t, "acqNext", "acqCas")
  /\ blk[t] # Garbage
  /\ nxt' = [nxt EXCEPT ![t] = word[blk[t]]]
  /\ UNCHANGED <<cursor, head, word, reserved, owner, held, blk, history>>

\* The exchange of t pops its block: others that have loaded it are late.
Popped(t) ==
  /\ stale' = (stale \ {t}) \cup {s \in Threads \ {t} : pc[s] \in {"acqNext", "acqCas"} /\ blk[s] = blk[t]}
  /\ aba' = (aba \/ t \in stale)

\* Mutant: the exchange is given `head` twice and does not move the head.
AcqCasOk_Same(t) ==
  /\ Goto(t, "acqCas", "acqCount")
  /\ head = blk[t]
  /\ Popped(t)
  /\ UNCHANGED <<cursor, head, word, reserved, owner, held, blk, nxt>>

\* The compare_exchange succeeds, whatever get_next has read.
AcqCasOk(t) ==
  /\ Goto(t, "acqCas", "acqCount")
  /\ head = blk[t]
  /\ head' = nxt[t]
  /\ Popped(t)
  /\ UNCHANGED <<cursor, word, reserved, owner, held, blk, nxt>>

\* Mutant: the exchange is retried without a fresh load of `head`.
AcqCasFail_NoReload(t) ==
  /\ Goto(t, "acqCas", "acqCas")
  /\ head # blk[t]
  /\ UNCHANGED <<cursor, head, word, reserved, owner, held, blk, nxt, history>>

AcqCasFail(t) ==
  /\ Goto(t, "acqCas", "acqLoad")
  /\ head # blk[t]
  /\ stale' = stale \ {t}
  /\ UNCHANGED <<cursor, head, word, reserved, owner, held, blk, nxt, aba>>

\* Mutant: `a > highwater` in place of `a >= highwater`.
Carve_OffByOne(t) ==
  /\ Goto(t, "carve", "acqSetNone")
  /\ cursor <= NumBlocks
  /\ cursor' = cursor + 1
  /\ blk' = [blk EXCEPT ![t] = cursor + 1]
  /\ UNCHANGED <<head, word, reserved, owner, held, nxt, history>>

\* acquire_block_slow: one fetch_update of the cursor.
Carve(t) ==
  /\ Goto(t, "carve", "acqSetNone")
  /\ cursor < NumBlocks
  /\ cursor' = cursor + 1
  /\ blk' = [blk EXCEPT ![t] = cursor + 1]
  /\ UNCHANGED <<head, word, reserved, owner, held, nxt, history>>

\* acquire_block returns None.
Exhausted(t) ==
  /\ Return(t, "carve")
  /\ cursor >= NumBlocks
  /\ UNCHANGED <<cursor, head, word, reserved, owner, held, history>>

\* Mutant: a carved block is returned before reserved_bytes is raised.
AcqSetNone_Uncounted(t) ==
  /\ Goto(t, "acqSetNone", "init")
  /\ word' = [word EXCEPT ![blk[t]] = None]
  /\ UNCHANGED <<cursor, head, reserved, owner, held, blk, nxt, history>>

AcqSetNone(t) ==
  /\ Goto(t, "acqSetNone", "acqCount")
  /\ word' = [word EXCEPT ![blk[t]] = None]
  /\ UNCHANGED <<cursor, head, reserved, owner, held, blk, nxt, history>>

AcqCount(t) ==
  /\ Goto(t, "acqCount", "init")
  /\ reserved' = reserved + 1
  /\ UNCHANGED <<cursor, head, word, owner, held, blk, nxt, history>>

\* HoardSpace::acquire_block: SuperBlock::init writes bump_cursor and
\* used_bytes over the link, then `block.owner = local`.
ClientInit(t) ==
  /\ Goto(t, "init", "assertOwner")
  /\ word' = [word EXCEPT ![blk[t]] = Garbage]
  /\ owner' = [owner EXCEPT ![blk[t]] = t]
  /\ UNCHANGED <<cursor, head, reserved, held, blk, nxt, history>>

\* debug_assert!(block.is_owned_by(local)); the block is the client's.
ClientTake(t) ==
  /\ Return(t, "assertOwner")
  /\ held' = held \cup {blk[t]}
  /\ UNCHANGED <<cursor, head, word, reserved, owner, history>>

----------------------------------------------------------------------------
\* release_block: any thread may free the last cell of any block.

RelCall(t) ==
  /\ Goto(t, "idle", "relLoad")
  /\ \E b \in held :
       /\ blk' = [blk EXCEPT ![t] = b]
       /\ held' = held \ {b}
  /\ UNCHANGED <<cursor, head, word, reserved, owner, nxt, history>>

RelLoad(t) ==
  /\ Goto(t, "relLoad", "relSetNext")
  /\ nxt' = [nxt EXCEPT ![t] = head]
  /\ UNCHANGED <<cursor, head, word, reserved, owner, held, blk, history>>

\* Mutant: the link is left as the client's metadata.
RelSetNext_Skip(t) ==
  /\ Goto(t, "relSetNext", "relCas")
  /\ UNCHANGED <<cursor, head, word, reserved, owner, held, blk, nxt, history>>

RelSetNext(t) ==
  /\ Goto(t, "relSetNext", "relCas")
  /\ word' = [word EXCEPT ![blk[t]] = nxt[t]]
  /\ UNCHANGED <<cursor, head, reserved, owner, held, blk, nxt, history>>

RelCasOk(t) ==
  /\ Goto(t, "relCas", "relCount")
  /\ head = nxt[t]
  /\ head' = blk[t]
  /\ UNCHANGED <<cursor, word, reserved, owner, held, blk, nxt, history>>

\* Mutant: a lost exchange is taken for a success, and the block counted.
RelCasFail_GiveUp(t) ==
  /\ Goto(t, "relCas", "relCount")
  /\ head # nxt[t]
  /\ UNCHANGED <<cursor, head, word, reserved, owner, held, blk, nxt, history>>

RelCasFail(t) ==
  /\ Goto(t, "relCas", "relLoad")
  /\ head # nxt[t]
  /\ UNCHANGED <<cursor, head, word, reserved, owner, held, blk, nxt, history>>

RelCount(t) ==
  /\ Return(t, "relCount")
  /\ reserved' = reserved - 1
  /\ UNCHANGED <<cursor, head, word, owner, held, history>>

----------------------------------------------------------------------------
\* The steps of a call in progress: a running thread takes them.
Step(t) ==
  \/ AcqLoad(t) \/ AcqNext(t) \/ AcqCasOk(t) \/ AcqCasFail(t)
  \/ Carve(t) \/ Exhausted(t) \/ AcqSetNone(t) \/ AcqCount(t)
  \/ ClientInit(t) \/ ClientTake(t)
  \/ RelLoad(t) \/ RelSetNext(t) \/ RelCasOk(t) \/ RelCasFail(t) \/ RelCount(t)

Next == \E t \in Threads : AcqCall(t) \/ RelCall(t) \/ Step(t)

Spec == Init /\ [][Next]_vars

\* The behaviours of Spec up to the first ABA. The scheduler runs every thread;
\* nothing makes a thread start a call.
FairSpec ==
  /\ Init /\ [][~aba /\ Next]_vars
  /\ \A t \in Threads : WF_vars(~aba /\ Step(t))

----------------------------------------------------------------------------
\* Program points at which the block of a call is private to the calling
\* thread: popped or carved and not yet handed over, or not yet pushed back.
PrivatePcs == {"acqSetNone", "acqCount", "init", "assertOwner",
               "relLoad", "relSetNext", "relCas"}
\* Points at which the private block still counts in `reserved`.
CountedPcs == {"init", "assertOwner", "relLoad", "relSetNext", "relCas", "relCount"}
PCs == PrivatePcs \cup {"idle", "acqLoad", "acqNext", "acqCas", "carve", "relCount"}

Private(t, b) == pc[t] \in PrivatePcs /\ blk[t] = b

\* The carved blocks that are in nobody's hands.
Free == {b \in 1..cursor : b \notin held /\ \A t \in Threads : ~Private(t, b)}

\* The blocks the stack leads to.
Stacked == ListCells(head, word, None)

AcqPcs == {"acqLoad", "acqNext", "acqCas"}

\* Types of the variables, whatever happens: even an ABA only installs a link
\* or what the client has in its place.
TypeOK ==
  /\ cursor \in 0..NumBlocks
  /\ head \in Links \cup {Garbage}
  /\ word \in [Blocks -> Links \cup {Garbage}]
  /\ reserved \in Int
  /\ owner \in [Blocks -> Threads \cup {Nobody}]
  /\ held \subseteq Blocks
  /\ pc \in [Threads -> PCs]
  /\ blk \in [Threads -> Links \cup {Garbage}]
  /\ nxt \in [Threads -> Links \cup {Garbage}]
  /\ stale \subseteq Threads /\ aba \in BOOLEAN
  /\ \A t \in Threads :
       /\ pc[t] \in PrivatePcs \cup {"acqCas"} => blk[t] \in Blocks
       /\ pc[t] = "acqNext" => blk[t] # None

\* No block is handed out twice: the block of a call belongs to that call
\* alone, neither to another call nor to the client at large (the contract
\* HoardSpace::acquire_block relies on when it initialises the block). The
\* only thing that ever breaks this, or any property below, is an ABA.
Exclusive ==
  ~aba => \A t \in Threads : pc[t] \in PrivatePcs =>
    /\ blk[t] \in 1..cursor
    /\ blk[t] \notin held
    /\ \A s \in Threads \ {t} : ~Private(s, blk[t])

\* The stack is a set of disjoint chains through free blocks only: its head
\* and every link out of a free block lead to a free block or nowhere, and no
\* block is reached by two links (what set_next and the two exchanges of
\* block_page_resource.rs maintain together). So metadata that get_next takes
\* for a link is never made the head.
StackSound ==
  ~aba =>
    /\ head \in Free \cup {None}
    /\ \A b \in Free : word[b] \in (Free \ {b}) \cup {None}
    /\ \A b \in Free : word[b] # None => word[b] # head
    /\ \A a, b \in Free : a # b /\ word[a] = word[b] => word[a] = None

\* No block leaks and none is reachable while in use: the blocks on the stack
\* are exactly those nobody has.
NoBlockLost == ~aba => Stacked = Free

\* reserved_bytes counts the blocks in use and those in a call on the counted
\* side of its fetch_add or fetch_sub; it never wraps below zero.
ReservedExact ==
  ~aba => reserved = Cardinality(held) + Cardinality({t \in Threads : pc[t] \in CountedPcs})

\* The acquire loop is lock-free: while threads are in it, however many and
\* whoever releases at the same time, one of them gets out of it.
SomeoneAcquires ==
  (\E t \in Threads : pc[t] \in AcqPcs) ~> (aba \/ \E t \in Threads : pc[t] \in {"acqCount", "carve"})

----------------------------------------------------------------------------
\* What the code asserts in debug builds

\* get_next never decodes a client's metadata as a link (the alignment
\* assertion of SuperBlock::from_address, super_block.rs:38). It does, once two
\* threads acquire: the faster one has initialised the block meanwhile. By
\* StackSound no exchange then installs what was read, before the first ABA.
LinksAligned == \A t \in Threads : pc[t] = "acqCas" => nxt[t] # Garbage

\* A thread that has just set a fresh block's owner finds itself the owner
\* (the assertion of HoardSpace::acquire_block, hoard_space.rs:65). After an ABA
\* two threads initialise the same block.
OwnerKept == \A t \in Threads : pc[t] = "assertOwner" => owner[blk[t]] = t
=============================================================================
