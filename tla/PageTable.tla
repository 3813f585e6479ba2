------------------------------ MODULE PageTable ------------------------------
(***************************************************************************)
(* The page table of PageFreeList (mallockit/src/space/page_table.rs): a   *)
(* tree of tables of entries, each table a cell of MetaMemory, with the    *)
(* number of entries a table uses kept in the entry that points to it. The *)
(* free list calls it under its mutex, from any thread: a call is a step.  *)
(* Pages are numbered by their address; a page of level 1 is one of 4 KiB, *)
(* one of level l covers SpanOf(l) of them.                                *)
(***************************************************************************)
EXTENDS MetaMemory

CONSTANTS
  Levels,      \* 4
  Pages,       \* the pages of level 1 that are used
  LargePages,  \* larger ones, as <<first page of level 1, level>>
  Values,      \* for pointer_meta
  BoxSizes,    \* what other clients of MetaMemory ask for
  MaxBoxes     \* bounds what they have

\* PageTableLevel::SHIFT
SpanOf(l) == 2^(LogPage * (l - 1))
Mapped == 0..(SpanOf(Levels + 1) - 1)   \* what a table of the highest level maps

ASSUME TableAssumption ==
  /\ Levels \in Nat /\ Levels >= 2 /\ Pages \subseteq Mapped
  /\ LargePages \subseteq Mapped \X (2..(Levels - 1))
  /\ \A q \in LargePages : q[1] % SpanOf(q[2]) = 0
  /\ BoxSizes \subseteq Nat

VARIABLE inserted   \* the pages the client has inserted, as <<first, level>>

treeVars == <<meta, boxes, lost, inserted>>

Covered(q) == q[1]..(q[1] + SpanOf(q[2]) - 1)
AllPages == Pages \cup UNION {Covered(q) : q \in LargePages}

\* PageTable::new: the root is in no cell.
Root == 0
TreeInit == MetaInit /\ inserted = {}

----------------------------------------------------------------------------
\* Entries

TableEntry(a, used) == <<1, a, used>>
PageEntry(v) == <<2, v, 0>>
IsTable(e) == e[1] = 1
IsPage(e) == e[1] = 2
NoMeta == 0

GetIndex(p, l) == (p \div SpanOf(l)) % PageWords

\* The entry for p in the table of level l, where the tables above lead to
\* it; the entry above it otherwise.
Walk(m, p) ==
  LET slot[l \in 1..Levels] ==
        IF l = Levels THEN Root + GetIndex(p, l)
        ELSE LET s == slot[l + 1] IN IF IsTable(m.mem[s]) THEN m.mem[s][2] + GetIndex(p, l) ELSE s
  IN  slot

DeltaEntries(m, s, d) == [m EXCEPT !.mem[s][3] = @ + d]

\* PageTable::get: the page of any level on the way down
NoPage == <<>>
Get(m, p) == LET e == m.mem[Walk(m, p)[1]] IN IF IsPage(e) THEN <<e[2]>> ELSE NoPage

----------------------------------------------------------------------------
\* insert_pages

\* Mutant: a new table is not counted in the one above it.
CountCreated_Not(m, p, l) == m
CountCreated(m, p, l) ==
  IF l + 2 <= Levels THEN DeltaEntries(m, Walk(m, p)[l + 2], 1) ELSE m

NewTable(m, a) == Set(m, a..(a + PageWords - 1), Empty)

\* get_or_allocate_next_page_table, for the table of level l
NextTable(m, t, p, l) ==
  LET s == Walk(m, p)[l + 1]
      r == AllocateCell(m, t, LogPage)
  IN  IF IsTable(m.mem[s]) THEN m
      ELSE CountCreated([NewTable(r.meta, r.cell) EXCEPT !.mem[s] = TableEntry(r.cell, 0)], p, l)

\* The tables there are not yet
Missing(m, q) == {l \in q[2]..(Levels - 1) : ~IsTable(m.mem[Walk(m, q[1])[l + 1]])}

EnoughCells(m, t, n) ==
  n <= Cardinality(Chain(m, m.lists[t][LogPage])) + Cardinality(Room(m, 1))

\* With the tables there are above level l
Downward(m, t, q) ==
  LET at[l \in q[2]..Levels] == IF l = Levels THEN m ELSE NextTable(at[l + 1], t, q[1], l)
  IN  at

InsertOnePage(m, t, q) ==
  LET n == Downward(m, t, q)[q[2]]
      slot == Walk(n, q[1])
  IN  DeltaEntries([n EXCEPT !.mem[slot[q[2]]] = PageEntry(NoMeta)], slot[q[2] + 1], 1)

SetPointerMeta(m, p, v) == [m EXCEPT !.mem[Walk(m, p)[1]][2] = v]

----------------------------------------------------------------------------
\* delete_pages

\* clear: the table an entry points to goes back to the lists.
ClearTable(m, t, s) == [PushCell(m, t, m.mem[s][2], LogPage) EXCEPT !.mem[s] = Empty]

\* Mutant: the entries above are counted down though the table stays.
GoesOn_Always(used) == TRUE
\* Mutant: only the lowest table is ever cleared.
GoesOn_Never(used) == FALSE
GoesOn(used) == used = 0

\* decrease_used_entries at slot s, if the table below has just gone.
Decrease(x, t, s) ==
  LET n == DeltaEntries(x.meta, s, -1)
      used == n.mem[s][3]
  IN  IF ~x.dead THEN x
      ELSE [meta |-> IF used = 0 THEN ClearTable(n, t, s) ELSE n, dead |-> GoesOn(used)]

Upward(m, t, q) ==
  LET slot == Walk(m, q[1])
      at[l \in q[2]..Levels] ==
        IF l = q[2] THEN [meta |-> [m EXCEPT !.mem[slot[q[2]]] = Empty], dead |-> TRUE]
        ELSE Decrease(at[l - 1], t, slot[l])
  IN  at

DeleteOnePage(m, t, q) == Upward(m, t, q)[Levels].meta

----------------------------------------------------------------------------
\* The free list and the other clients

Others(q) == \A r \in inserted : Covered(r) \cap Covered(q) = {}

\* PageFreeList::insert_pages
Insert(t, p, v) ==
  LET q == <<p, 1>> IN
  /\ Others(q)
  /\ EnoughCells(meta, t, Cardinality(Missing(meta, q)))
  /\ meta' = SetPointerMeta(InsertOnePage(meta, t, q), p, v)
  /\ inserted' = inserted \cup {q}
  /\ UNCHANGED <<boxes, lost>>

\* The larger pages insert_pages offers have no pointer_meta.
InsertLarge(t, q) ==
  /\ Others(q)
  /\ EnoughCells(meta, t, Cardinality(Missing(meta, q)))
  /\ meta' = InsertOnePage(meta, t, q)
  /\ inserted' = inserted \cup {q}
  /\ UNCHANGED <<boxes, lost>>

Delete(t, q) ==
  /\ meta' = DeleteOnePage(meta, t, q)
  /\ inserted' = inserted \ {q}
  /\ UNCHANGED <<boxes, lost>>

TreeNext == \E t \in Threads :
  \/ \E p \in Pages, v \in Values : Insert(t, p, v)
  \/ \E q \in LargePages : InsertLarge(t, q)
  \/ \E q \in inserted : Delete(t, q)
  \/ /\ Cardinality(boxes) < MaxBoxes
     /\ \E n \in BoxSizes : AllocateBox(t, n) \/ AllocateLarge(n)
     /\ UNCHANGED inserted
  \/ (\E b \in boxes : Deallocate(t, b)) /\ UNCHANGED inserted
  \/ ThreadEnds(t) /\ UNCHANGED inserted

TreeSpec == TreeInit /\ [][TreeNext]_treeVars

----------------------------------------------------------------------------
\* The slots on the way to what was inserted that lead to tables
Slots == UNION {{Walk(meta, q[1])[l] : l \in (q[2] + 1)..Levels} : q \in inserted}
Tables == {<<meta.mem[s][2], PageWords>> : s \in Slots}

\* Types of the variables
TreeTypeOK ==
  /\ meta.lists \in [Threads -> [CellClasses -> Words]]
  /\ meta.mapped \subseteq 1..MaxFrames
  /\ \A b \in boxes \cup lost : b[1] \in Words
  /\ inserted \subseteq (Pages \X {1}) \cup LargePages

\* The count in an entry, by which a table is freed, is that of the entries
\* its table uses, however inserts and deletes of all sizes follow each other.
CountsExact ==
  \A s \in Slots : LET e == meta.mem[s] IN
    /\ IsTable(e)
    /\ e[3] = Cardinality({a \in e[2]..(e[2] + PageWords - 1) : meta.mem[a] # Empty})

\* The words of the mapped pages are each in one table, one box, one free cell
\* of one thread, or lost with a thread: no table is freed while it is
\* reachable, or kept when it is not, and no cell is in two lists.
WordsConserved ==
  LET used == Tables \cup boxes
      free == UNION {{t} \X ListedCells(t) : t \in Threads}
      Holds(c, a) == a \in c[1]..(c[1] + c[2] - 1)
      Uses(a) == Cardinality({b \in used : a \in Footprint(b)})
                 + Cardinality({f \in free : Holds(f[2], a)})
                 + Cardinality({c \in lost : Holds(c, a)})
  IN  \A a \in Words \ WordsOf({0}) : Uses(a) = IF a \in WordsOf(meta.mapped) THEN 1 ELSE 0

\* committed_size is the memory that is mapped.
CommittedExact == meta.committed = Cardinality(meta.mapped)

\* Tables and the memory they are made of stay right together, across inserts,
\* deletes, boxes of every size and ends of threads.
TablesSound == TreeTypeOK /\ CountsExact /\ WordsConserved /\ CommittedExact

----------------------------------------------------------------------------
\* The tree is a map from pages to values.
PageSpans == {Covered(q) : q \in (Pages \X {1}) \cup LargePages}
PageValues == {<<v>> : v \in Values \cup {NoMeta}}
Map == INSTANCE PageMap WITH
  Pages <- AllPages, Values <- PageValues, NoMeta <- <<NoMeta>>, NoPage <- NoPage,
  Ranges <- PageSpans, map <- [p \in AllPages |-> Get(meta, p)]
ImplementsMap == Map!Spec
=============================================================================
