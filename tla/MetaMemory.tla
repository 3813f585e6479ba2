----------------------------- MODULE MetaMemory -----------------------------
(***************************************************************************)
(* The memory of the allocator's own data: MetaLocal, the lists of free    *)
(* cells each thread keeps by size class (mallockit/src/space/meta/        *)
(* meta_allocator.rs), and MetaSpace, which maps pages (meta_space.rs). A  *)
(* call touches only its thread's lists and cells nobody else has; it is   *)
(* one step, and so are mmap and the count of committed bytes. Sizes and   *)
(* addresses are in words of the smallest cell.                            *)
(***************************************************************************)
EXTENDS LinkedLists

CONSTANTS
  Threads,
  Enders,      \* the threads that may end
  LogPage,     \* a page has 2^LogPage words
  MaxFrames    \* bounds the pages that can be mapped

PageWords == 2^LogPage
CellClasses == 0..LogPage
Words == 0..(PageWords * (MaxFrames + 1) - 1)   \* page 0 is not for MetaSpace
Zero == 0

ASSUME MetaAssumption == LogPage \in Nat \ {0} /\ MaxFrames \in Nat /\ Enders \subseteq Threads

VARIABLES
  meta,    \* [mem: the words, lists: MetaLocal::freelist of each thread,
           \*  mapped: the pages mapped, committed: MetaSpace::committed_size]
  boxes,   \* what clients have, as <<address, words>>
  lost     \* the cells in the lists of threads that have ended

\* Words that data structures and lists use, as <<kind, value, count>>
Empty == <<0, 0, 0>>
Link(a) == IF a = Zero THEN Empty ELSE <<3, a, 0>>
Target(w) == IF w = Empty THEN Zero ELSE w[2]
Written == <<2, 1, 0>>     \* anything else a client has written

MetaInit ==
  /\ meta = [mem |-> [a \in Words |-> Empty],
             lists |-> [t \in Threads |-> [c \in CellClasses |-> Zero]],
             mapped |-> {}, committed |-> 0]
  /\ boxes = {}
  /\ lost = {}

Set(m, S, w) == [m EXCEPT !.mem = [a \in Words |-> IF a \in S THEN w ELSE @[a]]]

----------------------------------------------------------------------------
\* MetaSpace: the system finds n pages in a row, cleared. (Which does not
\* matter to anyone: the first.)
Frames(p, n) == p..(p + n - 1)
WordsOf(S) == UNION {(p * PageWords)..(p * PageWords + PageWords - 1) : p \in S}
Room(m, n) == {p \in 1..(MaxFrames - n + 1) : Frames(p, n) \cap m.mapped = {}}
Found(m, n) == CHOOSE p \in Room(m, n) : \A q \in Room(m, n) : p <= q

MapPages(m, n) ==
  LET p == Found(m, n) IN
  [Set(m, WordsOf(Frames(p, n)), Empty) EXCEPT
     !.mapped = @ \cup Frames(p, n), !.committed = @ + n]

\* Mutant: only one page is counted out.
UnmapPages_One(m, p, n) == [m EXCEPT !.mapped = @ \ Frames(p, n), !.committed = @ - 1]
UnmapPages(m, p, n) == [m EXCEPT !.mapped = @ \ Frames(p, n), !.committed = @ - n]

----------------------------------------------------------------------------
\* MetaLocal's lists. The link is the first word of the cell.
PopCell(m, t, c) == [m EXCEPT !.lists[t][c] = Target(m.mem[@])]
PushCell(m, t, a, c) == [m EXCEPT !.mem[a] = Link(m.lists[t][c]), !.lists[t][c] = a]

\* update_layout, padded_size, size_class: n words are the smallest class that has them.
CellClass(n) == CHOOSE c \in CellClasses : n <= 2^c /\ (c = 0 \/ 2^(c - 1) < n)
RequestLarge(n) == n > PageWords

CanAllocate(m, t, c) == (\E k \in c..LogPage : m.lists[t][k] # Zero) \/ Room(m, 1) # {}

\* Mutant: the second half is looked for a whole cell further on.
Halve_TooFar(m, t, a, k) == PushCell(m, t, a + 2^k, k - 1)

\* A cell of class k is halved; its second half goes to the list.
Halve(m, t, a, k) == PushCell(m, t, a + 2^(k - 1), k - 1)

\* A cell of class k is halved until its class is c.
Halves(m, t, a, k, c) ==
  LET at[i \in c..k] == IF i = k THEN m ELSE Halve(at[i + 1], t, a, i + 1)
  IN  at

\* allocate_cell_slow: the first cell that is large enough, halved down to c.
SplitCell(m, t, c) ==
  LET k == CHOOSE j \in c..LogPage :
             m.lists[t][j] # Zero /\ \A i \in c..(j - 1) : m.lists[t][i] = Zero
      a == m.lists[t][k]
  IN  [meta |-> Halves(PopCell(m, t, k), t, a, k, c)[c], cell |-> a]

\* allocate_cell, with the page that is mapped when the lists have nothing.
AllocateCell(m, t, c) ==
  IF \E k \in c..LogPage : m.lists[t][k] # Zero THEN SplitCell(m, t, c)
  ELSE SplitCell(PushCell(MapPages(m, 1), t, Found(m, 1) * PageWords, LogPage), t, c)

----------------------------------------------------------------------------
\* Allocator::allocate and deallocate for Meta, by boxes, vectors and maps

AllocateBox(t, n) ==
  /\ ~RequestLarge(n) /\ CanAllocate(meta, t, CellClass(n))
  /\ LET r == AllocateCell(meta, t, CellClass(n))
     IN  /\ meta' = Set(r.meta, r.cell..(r.cell + n - 1), Written)
         /\ boxes' = boxes \cup {<<r.cell, n>>}
  /\ UNCHANGED lost

PagesFor(n) == (n + PageWords - 1) \div PageWords

AllocateLarge(n) ==
  /\ RequestLarge(n) /\ Room(meta, PagesFor(n)) # {}
  /\ LET a == Found(meta, PagesFor(n)) * PageWords
     IN  /\ meta' = Set(MapPages(meta, PagesFor(n)), a..(a + n - 1), Written)
         /\ boxes' = boxes \cup {<<a, n>>}
  /\ UNCHANGED lost

\* The words a box occupies, what is rounded up included
Footprint(b) ==
  b[1]..(b[1] + (IF RequestLarge(b[2]) THEN PagesFor(b[2]) * PageWords ELSE 2^CellClass(b[2])) - 1)

\* Any thread drops a box: the cell goes to the lists of that thread.
Deallocate(t, b) ==
  /\ meta' = IF RequestLarge(b[2]) THEN UnmapPages(meta, b[1] \div PageWords, PagesFor(b[2]))
             ELSE LET c == CellClass(b[2]) IN PushCell(meta, t, (b[1] \div 2^c) * 2^c, c)
  /\ boxes' = boxes \ {b}
  /\ UNCHANGED lost

----------------------------------------------------------------------------
\* The cells of a list
Chain(m, a) == ListCells(a, [b \in Words \ {Zero} |-> Target(m.mem[b])], Zero)

ListedCells(t) == UNION {{<<a, 2^c>> : a \in Chain(meta, meta.lists[t][c])} : c \in CellClasses}

\* A thread ends. Nobody takes over its lists.
ThreadEnds(t) ==
  /\ t \in Enders
  /\ meta' = [meta EXCEPT !.lists[t] = [c \in CellClasses |-> Zero]]
  /\ lost' = lost \cup ListedCells(t)
  /\ UNCHANGED boxes
=============================================================================
