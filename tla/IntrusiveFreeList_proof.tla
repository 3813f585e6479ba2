----------------------- MODULE IntrusiveFreeList_proof -----------------------
(***************************************************************************)
(* Proofs about the buddy allocator of small objects.                      *)
(*                                                                         *)
(* The units are tiled: every one is in exactly one free cell, cell in     *)
(* use, coalesced chunk, new chunk or cell in the hands of a call, and all *)
(* these are aligned. A step takes some tiles and puts others over the     *)
(* same units; it writes on cells of the tiles it took only. That is why   *)
(* the header a thread looks at, or the owner it then reads, is never one  *)
(* that another thread's step invalidates in a way that matters.           *)
(***************************************************************************)
EXTENDS IntrusiveFreeList, SharedLemmas

----------------------------------------------------------------------------
\* The inductive invariant

CallKinds == {"split", "look", "owner", "push"}

Ops ==
  {Idle, [kind |-> "coalesce"]}
  \cup [kind : {"alloc", "acquire"}, class : Requests]
  \cup [kind : {"split"}, unit : Units, class : Classes, then : Requests]
  \cup [kind : {"look", "owner", "push"}, unit : Units, class : Classes, then : Requests \cup {None}]
  \cup [kind : {"addChunk"}, unit : Units]

CellTypes ==
  /\ head \in [Lists -> [Classes -> Units \cup {None}]]
  /\ isFree \in [Units -> Classes \cup {Used, Garbage}]
  /\ owner \in [Units -> Owners]
  /\ prev \in [Units -> Links] /\ next \in [Units -> Links]

SpaceTypes ==
  /\ chunks \in Seq(Units)
  /\ \A i, j \in 1..Len(chunks) : chunks[i] = chunks[j] => i = j
  /\ fresh \in 0..NumChunks
  /\ app \subseteq Units \X Requests
  /\ op \in [Lists -> Ops]

\* A tile says where its units are, and with which thread.
FreeTile(u, c) == <<"free", Nobody, u, c>>
AppTile(r) == <<"app", Nobody, r[1], r[2]>>
ChunkTile(u) == <<"chunk", Nobody, u, Top>>
NewTile(k) == <<"new", Nobody, k * ChunkSize, Top>>
HandTile(l, u, c) == <<"hand", l, u, c>>

InHands(l, o) ==
  IF o.kind \in CallKinds THEN {HandTile(l, o.unit, o.class)}
  ELSE IF o.kind = "addChunk" THEN {HandTile(l, o.unit, Top)} ELSE {}

FreeTiles == {FreeTile(u, isFree[u]) : u \in Marked}
AppTiles == {AppTile(r) : r \in app}
ChunkTiles == {ChunkTile(chunks[i]) : i \in 1..Len(chunks)}
NewTiles == {NewTile(k) : k \in fresh..(NumChunks - 1)}
HandTiles == UNION {InHands(l, op[l]) : l \in Lists}
Tiles == FreeTiles \cup AppTiles \cup ChunkTiles \cup NewTiles \cup HandTiles

Span(t) == Cell(t[3], t[4])
IsTile(t) == t[3] \in Units /\ t[4] \in Classes /\ Aligned(t[3], t[4])
Apart(S) == \A s, t \in S : s # t => Span(s) \cap Span(t) = {}
Tiling(S) ==
  /\ \A t \in S : IsTile(t)
  /\ Apart(S)
  /\ \A u \in Units : \E t \in S : u \in Span(t)

\* The header of a cell in use says so, whatever is in the cell.
AppHeaders == \A r \in app : isFree[r[1]] = Used

\* What a thread may rely on in the middle of a call: the header of its cell,
\* and, from the look at the buddy's header to the merge, that the buddy is
\* still free in this class if it is still the thread's own.
CallSound(l) ==
  /\ op[l].kind = "split" \/ (op[l].kind \in CallKinds /\ op[l].class < Top) =>
       isFree[op[l].unit] = Used
  /\ op[l].kind = "addChunk" => owner[op[l].unit] = Nobody
  /\ op[l].kind = "owner" =>
       /\ op[l].class < Top
       /\ owner[Sibling(op[l].unit, op[l].class)] = l =>
            isFree[Sibling(op[l].unit, op[l].class)] = op[l].class
  /\ op[l].kind = "push" /\ op[l].class < Top =>
       (owner[Sibling(op[l].unit, op[l].class)] = l =>
          isFree[Sibling(op[l].unit, op[l].class)] # op[l].class)

IInv ==
  /\ CellTypes /\ SpaceTypes
  /\ Tiling(Tiles)
  /\ ListsLinked /\ BuddiesMerged
  /\ AppHeaders /\ \A l \in Lists : CallSound(l)
----------------------------------------------------------------------------
\* Geometry

LEMMA SpaceSize ==
  /\ Top \in Nat /\ NumChunks \in Nat /\ Requests \subseteq Classes
  /\ ChunkSize \in Nat \ {0} /\ NumChunks * ChunkSize \in Nat
  /\ Nobody \notin Lists /\ Garbage \notin Lists
BY SizesAssumption, OwnersAssumption, PowerNat DEF ChunkSize, Classes

\* The start of a chunk is aligned, and all of it is in the space.
LEMMA ChunkIn ==
  ASSUME NEW k \in 0..(NumChunks - 1)
  PROVE  /\ IsTile(NewTile(k))
         /\ Cell(k * ChunkSize, Top) = (k * ChunkSize)..(k * ChunkSize + ChunkSize - 1)
         /\ Cell(k * ChunkSize, Top) \subseteq Units
         /\ k * ChunkSize + ChunkSize = (k + 1) * ChunkSize /\ k * ChunkSize \in Nat
<1>1. PICK n \in Nat \ {0} : n = ChunkSize
  BY SpaceSize
<1>2. k * n \in Nat /\ k * n + n <= NumChunks * n /\ k * n + n = (k + 1) * n
  <2> DEFINE d == NumChunks - (k + 1)
  <2>1. d \in Nat /\ NumChunks = (k + 1) + d
    BY SpaceSize
  <2> HIDE DEF d
  <2>2. NumChunks * n = k * n + n + d * n /\ d * n \in Nat /\ k * n \in Nat
    BY <2>1
  <2> QED BY <2>2
<1>3. Cell(k * n, Top) = (k * n)..(k * n + n - 1)
  BY <1>1, <1>2 DEF Cell, ChunkSize
<1>4. k * n \in Units /\ Cell(k * n, Top) \subseteq Units
  BY <1>1, <1>2, <1>3, SpaceSize DEF Units
<1>5. Aligned(k * n, Top)
  <2>1. k \in Nat /\ Top \in Nat /\ n = 2^Top
    BY <1>1, SpaceSize DEF ChunkSize
  <2> QED BY <2>1, AlignedMultiple
<1> QED BY <1>1, <1>2, <1>3, <1>4, <1>5, SpaceSize DEF IsTile, NewTile, Classes

\* A unit is in one of the chunks.
LEMMA UnitChunk ==
  ASSUME NEW u \in Units
  PROVE  \E k \in 0..(NumChunks - 1) : u \in Cell(k * ChunkSize, Top)
<1>1. PICK n \in Nat \ {0} : n = ChunkSize
  BY SpaceSize
<1> DEFINE k == u \div n
<1>2. u \in Nat /\ u < NumChunks * n
  BY <1>1, SpaceSize DEF Units
<1>3. k \in Nat /\ k * n <= u /\ u < (k + 1) * n
  BY <1>2, Quotient
<1> HIDE DEF k
<1>4. k < NumChunks
  <2>1. ASSUME NumChunks <= k PROVE FALSE
    <3> DEFINE d == k - NumChunks
    <3>1. d \in Nat /\ k = NumChunks + d
      BY <1>3, <2>1, SpaceSize
    <3> HIDE DEF d
    <3>2. k * n = NumChunks * n + d * n /\ d * n \in Nat /\ NumChunks * n \in Nat
      BY <3>1, SpaceSize
    <3> QED BY <1>2, <1>3, <3>2
  <2> QED BY <1>3, <2>1, SpaceSize
<1>5. k \in 0..(NumChunks - 1)
  BY <1>3, <1>4, SpaceSize
<1>6. u \in (k * n)..(k * n + n - 1)
  <2>1. (k + 1) * n = k * n + n /\ k * n \in Nat
    BY <1>3
  <2> QED BY <1>2, <1>3, <2>1
<1> QED BY <1>1, <1>5, <1>6, ChunkIn

\* An aligned cell is in its chunk.
LEMMA CellIn ==
  ASSUME NEW u \in Units, NEW c \in Classes, Aligned(u, c)
  PROVE  u \in Cell(u, c) /\ Cell(u, c) \subseteq Units /\ u \in Nat /\ c \in Nat
<1>1. u \in Nat /\ c \in Nat /\ c \in 0..Top
  BY SpaceSize DEF Units, Classes
<1>2. u \in Cell(u, c)
  BY <1>1, PowerNat DEF Cell
<1>3. PICK k \in 0..(NumChunks - 1) : u \in Cell(k * ChunkSize, Top)
  BY UnitChunk
<1>4. Cell(k * ChunkSize, Top) \subseteq Units /\ k * ChunkSize \in Nat /\ Aligned(k * ChunkSize, Top)
  BY ChunkIn DEF IsTile, NewTile
<1>5. Cell(u, c) \cap Cell(k * ChunkSize, Top) # {}
  BY <1>2, <1>3
<1>6. Cell(u, c) \subseteq Cell(k * ChunkSize, Top)
  BY <1>1, <1>4, <1>5, SpaceSize, AlignedNested
<1> QED BY <1>1, <1>2, <1>4, <1>6

\* The buddy and the parent of a cell below a chunk are in the space, too.
LEMMA BuddyIn ==
  ASSUME NEW u \in Units, NEW c \in Classes, Aligned(u, c), c < Top
  PROVE  LET s == Sibling(u, c)  p == Parent(u, c)
         IN  /\ s \in Units /\ Aligned(s, c) /\ Sibling(s, c) = u /\ s # u
             /\ p \in Units /\ Aligned(p, c + 1) /\ c + 1 \in Classes /\ p \in {u, s}
             /\ Cell(u, c) \cup Cell(s, c) = Cell(p, c + 1)
             /\ Cell(u, c) \cap Cell(s, c) = {}
<1>1. u \in Nat /\ c \in Nat /\ c + 1 \in Nat /\ c + 1 \in 0..Top /\ u \in Cell(u, c)
  BY CellIn, SpaceSize DEF Classes
<1> DEFINE s == Sibling(u, c)
           p == Parent(u, c)
<1>2. /\ s \in Nat /\ Aligned(s, c) /\ Sibling(s, c) = u /\ s # u
      /\ p \in Nat /\ Aligned(p, c + 1) /\ p \in {u, s}
      /\ Cell(u, c) \cup Cell(s, c) = Cell(p, c + 1)
      /\ Cell(u, c) \cap Cell(s, c) = {}
  BY <1>1, BuddyParts
<1> HIDE DEF s, p
<1>3. PICK k \in 0..(NumChunks - 1) : u \in Cell(k * ChunkSize, Top)
  BY UnitChunk
<1>4. Cell(k * ChunkSize, Top) \subseteq Units /\ k * ChunkSize \in Nat /\ Aligned(k * ChunkSize, Top)
  BY ChunkIn DEF IsTile, NewTile
<1>5. Cell(p, c + 1) \cap Cell(k * ChunkSize, Top) # {}
  BY <1>1, <1>2, <1>3
<1>6. Cell(p, c + 1) \subseteq Units
  <2>1. Cell(p, c + 1) \subseteq Cell(k * ChunkSize, Top)
    BY <1>1, <1>2, <1>4, <1>5, SpaceSize, AlignedNested
  <2> QED BY <1>4, <2>1
<1>7. s \in Cell(s, c)
  BY <1>1, <1>2, PowerNat DEF Cell
<1>8. s \in Units
  BY <1>2, <1>6, <1>7
<1>9. p \in Units
  BY <1>2, <1>8
<1> QED BY <1>1, <1>2, <1>8, <1>9 DEF s, p, Classes

----------------------------------------------------------------------------
\* Tilings

LEMMA TileSpan ==
  ASSUME NEW t, IsTile(t)
  PROVE  t[3] \in Span(t) /\ Span(t) \subseteq Units
BY CellIn DEF IsTile, Span

\* Tiles are taken and others are put over the same units.
LEMMA Retiled ==
  ASSUME NEW S, Tiling(S), NEW A \in SUBSET S, NEW B, \A t \in B : IsTile(t), Apart(B),
         UNION {Span(t) : t \in A} = UNION {Span(t) : t \in B}
  PROVE  Tiling((S \ A) \cup B)
<1> DEFINE T == (S \ A) \cup B
<1>1. \A t \in T : IsTile(t)
  BY DEF Tiling
<1>2. ASSUME NEW s \in S \ A, NEW t \in B PROVE Span(s) \cap Span(t) = {}
  <2>1. SUFFICES ASSUME NEW u \in Span(s), u \in Span(t) PROVE FALSE
    OBVIOUS
  <2>2. u \in UNION {Span(x) : x \in A}
    BY <2>1
  <2>3. PICK a \in A : u \in Span(a)
    BY <2>2
  <2>4. a \in S /\ s \in S /\ a # s
    OBVIOUS
  <2> QED BY <2>1, <2>3, <2>4 DEF Tiling, Apart
<1>3. Apart(T)
  BY <1>2 DEF Apart, Tiling
<1>4. ASSUME NEW u \in Units PROVE \E t \in T : u \in Span(t)
  <2>1. PICK s \in S : u \in Span(s)
    BY DEF Tiling
  <2>2. CASE s \in A
    <3>1. u \in UNION {Span(x) : x \in B}
      BY <2>1, <2>2
    <3> QED BY <3>1
  <2>3. CASE s \notin A
    BY <2>1, <2>3
  <2> QED BY <2>2, <2>3
<1> QED BY <1>1, <1>3, <1>4 DEF Tiling

\* Two tiles of a tiling that have a unit in common are one.
LEMMA TilesMeet ==
  ASSUME NEW S, Tiling(S), NEW s \in S, NEW t \in S, NEW u, u \in Span(s), u \in Span(t)
  PROVE  s = t
BY DEF Tiling, Apart

\* The tile that has the first unit of a buddy starts there, and is no larger.
LEMMA BuddyTile ==
  ASSUME NEW S, Tiling(S), NEW t \in S, t[4] < Top,
         NEW v \in S, Sibling(t[3], t[4]) \in Span(v)
  PROVE  v[3] = Sibling(t[3], t[4]) /\ v[4] <= t[4]
<1> DEFINE u == t[3]
           c == t[4]
           s == Sibling(u, c)
           p == Parent(u, c)
<1>1. u \in Units /\ c \in Classes /\ Aligned(u, c) /\ IsTile(t)
  BY DEF Tiling, IsTile
<1>2. v[3] \in Units /\ v[4] \in Classes /\ Aligned(v[3], v[4]) /\ IsTile(v)
  BY DEF Tiling, IsTile
<1>3. /\ s \in Units /\ Aligned(s, c) /\ s # u
      /\ p \in Units /\ Aligned(p, c + 1) /\ c + 1 \in Classes
      /\ Cell(u, c) \cup Cell(s, c) = Cell(p, c + 1)
      /\ Cell(u, c) \cap Cell(s, c) = {}
  BY <1>1, BuddyIn
<1>4. s \in Span(v) /\ Span(t) = Cell(u, c) /\ Span(v) = Cell(v[3], v[4])
  BY DEF Span
<1>5. s \in Cell(s, c) /\ u \in Cell(u, c)
  BY <1>1, <1>3, CellIn
<1>6. u \in Nat /\ c \in Nat /\ s \in Nat /\ p \in Nat /\ v[3] \in Nat /\ v[4] \in Nat
  BY <1>1, <1>2, <1>3, SpaceSize DEF Units, Classes
<1> HIDE DEF u, c, s, p
<1>7. v # t
  BY <1>3, <1>4, <1>5
<1>8. v[4] <= c
  <2>1. SUFFICES ASSUME c + 1 <= v[4] PROVE FALSE
    BY <1>6
  <2>2. Cell(p, c + 1) \cap Cell(v[3], v[4]) # {}
    BY <1>3, <1>4, <1>5
  <2>3. c + 1 \in 0..v[4]
    BY <1>6, <2>1
  <2>4. Cell(p, c + 1) \subseteq Cell(v[3], v[4])
    BY <1>2, <1>3, <1>6, <2>2, <2>3, AlignedNested
  <2>5. u \in Span(v) /\ u \in Span(t)
    BY <1>3, <1>4, <1>5, <2>4
  <2> QED BY <1>7, <2>5, TilesMeet
<1>9. Aligned(s, v[4])
  <2>1. v[4] \in 0..c /\ Cell(v[3], v[4]) \cap Cell(s, c) # {}
    BY <1>4, <1>5, <1>6, <1>8
  <2> QED BY <1>2, <1>3, <1>6, <2>1, AlignedNested
<1>10. s = v[3]
  BY <1>2, <1>4, <1>6, <1>9, AlignedStart
<1> QED BY <1>8, <1>10 DEF u, c, s
----------------------------------------------------------------------------
\* The lists

LEMMA MarkedIs ==
  \A u : u \in Marked <=> u \in Units /\ owner[u] \in Lists /\ isFree[u] \in Classes
BY DEF Marked

\* A cell that is in no list is put in front of one; its buddy is not free in
\* that list, if it can be merged.
LEMMA Pushed ==
  ASSUME CellTypes, ListsLinked, BuddiesMerged,
         NEW l \in Lists, NEW u \in Units, u \notin Marked, NEW c \in Classes, Aligned(u, c),
         \A v \in Marked : Aligned(v, isFree[v]),
         c < Top => ~(owner[Sibling(u, c)] = l /\ isFree[Sibling(u, c)] = c),
         Push(l, u, c)
  PROVE  /\ CellTypes' /\ Marked' = Marked \cup {u}
         /\ FreeTiles' = FreeTiles \cup {FreeTile(u, c)}
         /\ ListsLinked' /\ BuddiesMerged'
         /\ \A v \in Units \ {u} : isFree'[v] = isFree[v] /\ owner'[v] = owner[v]
         /\ isFree'[u] = c /\ owner'[u] = l
<1> DEFINE h == head[l][c]
<1>1. h \in Units \cup {None}
  BY DEF CellTypes
<1>2. /\ isFree' = [isFree EXCEPT ![u] = c] /\ owner' = [owner EXCEPT ![u] = l]
      /\ prev' = [v \in Units |-> IF v = u THEN None ELSE IF v = h THEN u ELSE prev[v]]
      /\ next' = [next EXCEPT ![u] = h]
      /\ head' = [head EXCEPT ![l][c] = u]
  BY DEF Push
<1> HIDE DEF h
<1>3. None \notin Units /\ Used \notin Classes /\ Garbage \notin Classes
  BY SpaceSize DEF None, Used, Garbage, Units, Classes
<1>4. CellTypes'
  BY <1>1, <1>2 DEF CellTypes, Links, Owners
<1>5. /\ \A v \in Units \ {u} : isFree'[v] = isFree[v] /\ owner'[v] = owner[v] /\ next'[v] = next[v]
      /\ isFree'[u] = c /\ owner'[u] = l /\ next'[u] = h /\ prev'[u] = None
      /\ \A v \in Units \ {u} : prev'[v] = IF v = h THEN u ELSE prev[v]
  BY <1>2 DEF CellTypes
<1>6. Marked' = Marked \cup {u}
  BY <1>5 DEF Marked
<1>7. FreeTiles' = FreeTiles \cup {FreeTile(u, c)}
  <2>1. \A v \in Marked : v \in Units \ {u}
    BY MarkedIs
  <2> QED BY <1>5, <1>6, <2>1 DEF FreeTiles
<1>8. ListsLinked'
  <2>1. h # None => h \in Marked /\ prev[h] = None /\ isFree[h] = c /\ owner[h] = l
    BY DEF h, ListsLinked
  <2>2. \A v \in Marked : v \in Units \ {u}
    BY MarkedIs
  <2>3. ASSUME NEW v \in Marked' PROVE
          /\ next'[v] # None => /\ next'[v] \in Marked' /\ prev'[next'[v]] = v
                               /\ isFree'[next'[v]] = isFree'[v] /\ owner'[next'[v]] = owner'[v]
          /\ prev'[v] # None => prev'[v] \in Marked' /\ next'[prev'[v]] = v
    <3>1. CASE v = u
      BY <1>5, <1>6, <2>1, <2>2, <3>1
    <3>2. CASE v # u
      <4>1. v \in Marked /\ v \in Units \ {u}
        BY <1>6, <2>2, <3>2
      <4>2. /\ next[v] # None => /\ next[v] \in Marked /\ prev[next[v]] = v
                                 /\ isFree[next[v]] = isFree[v] /\ owner[next[v]] = owner[v]
            /\ prev[v] # None => prev[v] \in Marked /\ next[prev[v]] = v
        BY <4>1 DEF ListsLinked
      <4>3. v # None
        BY <1>3, <4>1
      <4>4. next'[v] = next[v] /\ owner'[v] = owner[v] /\ isFree'[v] = isFree[v]
        BY <1>5, <4>1
      <4>5. next[v] # None => next[v] # h
        BY <2>1, <4>2, <4>3
      <4>6. prev'[v] # None => prev'[v] \in Marked' /\ next'[prev'[v]] = v
        <5>1. CASE v = h
          BY <1>5, <1>6, <4>1, <5>1
        <5>2. CASE v # h
          BY <1>5, <1>6, <2>2, <4>1, <4>2, <5>2
        <5> QED BY <5>1, <5>2
      <4> QED BY <1>5, <1>6, <2>2, <4>2, <4>4, <4>5, <4>6
    <3> QED BY <3>1, <3>2
  <2>4. ASSUME NEW m \in Lists, NEW d \in Classes, head'[m][d] # None PROVE
          /\ head'[m][d] \in Marked' /\ prev'[head'[m][d]] = None
          /\ isFree'[head'[m][d]] = d /\ owner'[head'[m][d]] = m
    <3>1. CASE m = l /\ d = c
      <4>1. head'[m][d] = u
        BY <1>2, <3>1 DEF CellTypes
      <4> QED BY <1>5, <1>6, <3>1, <4>1
    <3>2. CASE ~(m = l /\ d = c)
      <4>1. head'[m][d] = head[m][d]
        BY <1>2, <3>2 DEF CellTypes
      <4>2. /\ head[m][d] \in Marked /\ prev[head[m][d]] = None
            /\ isFree[head[m][d]] = d /\ owner[head[m][d]] = m
        BY <2>4, <4>1 DEF ListsLinked
      <4>3. head[m][d] # h
        BY <1>3, <2>1, <3>2, <4>2, MarkedIs
      <4> QED BY <1>5, <1>6, <2>2, <4>1, <4>2, <4>3
    <3> QED BY <3>1, <3>2
  <2> QED BY <2>3, <2>4 DEF ListsLinked
<1>9. BuddiesMerged'
  <2>1. SUFFICES ASSUME NEW x \in Marked', NEW y \in Marked', y = Sibling(x, isFree'[x]),
                        isFree'[x] = isFree'[y], isFree'[x] < Top, owner'[x] = owner'[y]
                 PROVE  FALSE
    BY DEF BuddiesMerged
  <2>2. \A v \in Marked : v \in Units \ {u} /\ isFree'[v] = isFree[v] /\ owner'[v] = owner[v]
    BY <1>5, MarkedIs
  <2>3. x # y /\ Sibling(y, isFree'[x]) = x
    <3>1. x \in Units /\ isFree'[x] \in Classes /\ Aligned(x, isFree'[x])
      <4>1. CASE x = u
        BY <1>5, <4>1
      <4>2. CASE x # u
        BY <1>6, <2>2, <4>2, MarkedIs
      <4> QED BY <4>1, <4>2
    <3> QED BY <2>1, <3>1, BuddyIn
  <2>4. CASE x = u
    <3>1. y \in Marked /\ isFree[y] = c /\ owner[y] = l /\ y = Sibling(u, c) /\ c < Top
      BY <1>5, <1>6, <2>1, <2>2, <2>3, <2>4
    <3> QED BY <3>1
  <2>5. CASE y = u
    <3>1. x \in Marked /\ isFree[x] = c /\ owner[x] = l /\ x = Sibling(u, c) /\ c < Top
      BY <1>5, <1>6, <2>1, <2>2, <2>3, <2>5
    <3> QED BY <3>1
  <2>6. CASE x # u /\ y # u
    <3>1. x \in Marked /\ y \in Marked
      BY <1>6, <2>6
    <3> QED BY <2>1, <2>2, <3>1 DEF BuddiesMerged
  <2> QED BY <2>4, <2>5, <2>6
<1> QED BY <1>4, <1>5, <1>6, <1>7, <1>8, <1>9

\* A free cell is taken out of its list, or out of what is left of one.
LEMMA Unlinked ==
  ASSUME CellTypes, ListsLinked, BuddiesMerged,
         NEW l \in Lists, NEW u \in Marked, NEW c \in Classes, isFree[u] = c, owner[u] = l,
         Unlink(l, u, c)
  PROVE  /\ CellTypes' /\ Marked' = Marked \ {u}
         /\ FreeTiles' = FreeTiles \ {FreeTile(u, c)}
         /\ ListsLinked' /\ BuddiesMerged'
         /\ \A v \in Units \ {u} : isFree'[v] = isFree[v] /\ owner'[v] = owner[v]
         /\ isFree'[u] = Used /\ owner'[u] = Nobody
<1>1. None \notin Units /\ Used \notin Classes /\ Garbage \notin Classes /\ Nobody \notin Lists
  BY SpaceSize DEF None, Used, Garbage, Units, Classes
<1> DEFINE p == prev[u]
           n == next[u]
<1>2. /\ n # None => n \in Marked /\ prev[n] = u /\ isFree[n] = c /\ owner[n] = l
      /\ p # None => p \in Marked /\ next[p] = u
  BY DEF ListsLinked
<1>3. u \in Units /\ u # None /\ p \in Links /\ n \in Units \cup {None}
  BY <1>1, <1>2, MarkedIs DEF CellTypes
<1>4. /\ isFree' = [isFree EXCEPT ![u] = Used] /\ owner' = [owner EXCEPT ![u] = Nobody]
      /\ prev' = [v \in Units |-> IF v = n THEN p ELSE prev[v]]
      /\ next' = [v \in Units |-> IF v = p THEN n ELSE next[v]]
      /\ head' = IF p = None /\ head[l][c] = u THEN [head EXCEPT ![l][c] = n] ELSE head
  BY DEF Unlink
<1> HIDE DEF p, n
<1>5. CellTypes'
  <2>1. n \in Links
    BY <1>3 DEF Links
  <2> QED BY <1>3, <1>4, <2>1 DEF CellTypes, Owners
<1>6. /\ \A v \in Units \ {u} : isFree'[v] = isFree[v] /\ owner'[v] = owner[v]
      /\ isFree'[u] = Used /\ owner'[u] = Nobody
  BY <1>3, <1>4 DEF CellTypes
<1>7. Marked' = Marked \ {u}
  BY <1>1, <1>6 DEF Marked
<1>8. \A v \in Marked : v \in Units
  BY MarkedIs
<1>9. FreeTiles' = FreeTiles \ {FreeTile(u, c)}
  <2>1. \A v \in Marked \ {u} : isFree'[v] = isFree[v]
    BY <1>6, <1>8
  <2>2. \A v \in Marked \ {u} : FreeTile(v, isFree[v]) # FreeTile(u, c)
    BY DEF FreeTile
  <2> QED BY <1>7, <2>1, <2>2 DEF FreeTiles
<1>10. ListsLinked'
  <2>1. ASSUME NEW v \in Marked' PROVE
          /\ next'[v] # None => /\ next'[v] \in Marked' /\ prev'[next'[v]] = v
                               /\ isFree'[next'[v]] = isFree'[v] /\ owner'[next'[v]] = owner'[v]
          /\ prev'[v] # None => prev'[v] \in Marked' /\ next'[prev'[v]] = v
    <3>1. v \in Marked /\ v # u /\ v \in Units /\ v # None
      BY <1>1, <1>7, <1>8
    <3>2. /\ next[v] # None => /\ next[v] \in Marked /\ prev[next[v]] = v
                               /\ isFree[next[v]] = isFree[v] /\ owner[next[v]] = owner[v]
          /\ prev[v] # None => prev[v] \in Marked /\ next[prev[v]] = v
      BY <3>1 DEF ListsLinked
    <3>3. isFree'[v] = isFree[v] /\ owner'[v] = owner[v]
      BY <1>6, <3>1
    <3>4. next'[v] # None => /\ next'[v] \in Marked' /\ prev'[next'[v]] = v
                            /\ isFree'[next'[v]] = isFree'[v] /\ owner'[next'[v]] = owner'[v]
      <4>1. CASE v = p
        <5>1. next'[v] = n /\ next[v] = u /\ p # None
          BY <1>2, <1>4, <3>1, <4>1
        <5>2. isFree[v] = c /\ owner[v] = l
          BY <1>3, <3>2, <5>1
        <5>3. n # u
          <6>1. ASSUME n = u PROVE FALSE
            <7>1. prev[u] = u
              BY <1>2, <1>3, <6>1
            <7> QED BY <3>1, <4>1, <7>1 DEF p
          <6> QED BY <6>1
        <5>4. n # None => n \in Marked' /\ n \in Units \ {u} /\ prev'[n] = v
          BY <1>2, <1>4, <1>7, <1>8, <4>1, <5>3
        <5> QED BY <1>2, <1>6, <3>3, <5>1, <5>2, <5>4
      <4>2. CASE v # p
        <5>1. next'[v] = next[v]
          BY <1>4, <3>1, <4>2
        <5>2. next[v] # None => next[v] # u
          BY <3>2, <4>2 DEF p
        <5>3. next[v] # None => next[v] # n
          BY <1>2, <3>1, <3>2
        <5>4. next[v] # None => next[v] \in Marked' /\ next[v] \in Units \ {u} /\ prev'[next[v]] = v
          BY <1>4, <1>7, <1>8, <3>2, <5>2, <5>3
        <5> QED BY <1>6, <3>2, <3>3, <5>1, <5>4
      <4> QED BY <4>1, <4>2
    <3>5. prev'[v] # None => prev'[v] \in Marked' /\ next'[prev'[v]] = v
      <4>1. CASE v = n
        <5>1. prev'[v] = p
          BY <1>4, <3>1, <4>1
        <5>2. p # u
          <6>1. ASSUME p = u PROVE FALSE
            <7>1. next[u] = u
              BY <1>2, <1>3, <6>1
            <7> QED BY <3>1, <4>1, <7>1 DEF n
          <6> QED BY <6>1
        <5>3. p # None => p \in Marked' /\ next'[p] = n
          BY <1>2, <1>4, <1>7, <1>8, <5>2
        <5> QED BY <4>1, <5>1, <5>3
      <4>2. CASE v # n
        <5>1. prev'[v] = prev[v]
          BY <1>4, <3>1, <4>2
        <5>2. prev[v] # None => prev[v] # u
          BY <3>2, <4>2 DEF n
        <5>3. prev[v] # None => prev[v] # p
          BY <1>2, <3>1, <3>2
        <5>4. prev[v] # None => prev[v] \in Marked' /\ next'[prev[v]] = v
          BY <1>4, <1>7, <1>8, <3>2, <5>2, <5>3
        <5> QED BY <5>1, <5>4
      <4> QED BY <4>1, <4>2
    <3> QED BY <3>4, <3>5
  <2>2. ASSUME NEW m \in Lists, NEW d \in Classes, head'[m][d] # None PROVE
          /\ head'[m][d] \in Marked' /\ prev'[head'[m][d]] = None
          /\ isFree'[head'[m][d]] = d /\ owner'[head'[m][d]] = m
    <3>1. CASE p = None /\ head[l][c] = u /\ m = l /\ d = c
      <4>1. head'[m][d] = n
        BY <1>4, <3>1 DEF CellTypes
      <4>2. n # u
        BY <1>2, <1>3, <2>2, <3>1, <4>1 DEF p
      <4>3. n \in Marked' /\ n \in Units \ {u} /\ prev'[n] = None
        BY <1>2, <1>4, <1>7, <1>8, <2>2, <3>1, <4>1, <4>2
      <4> QED BY <1>2, <1>6, <2>2, <3>1, <4>1, <4>3
    <3>2. CASE ~(p = None /\ head[l][c] = u /\ m = l /\ d = c)
      <4>1. head'[m][d] = head[m][d]
        BY <1>4, <3>2 DEF CellTypes
      <4>2. /\ head[m][d] \in Marked /\ prev[head[m][d]] = None
            /\ isFree[head[m][d]] = d /\ owner[head[m][d]] = m
        BY <2>2, <4>1 DEF ListsLinked
      <4>3. head[m][d] # u
        BY <3>2, <4>2 DEF p
      <4>4. prev'[head[m][d]] = None
        BY <1>1, <1>2, <1>3, <1>4, <1>8, <4>2
      <4> QED BY <1>6, <1>7, <1>8, <4>1, <4>2, <4>3, <4>4
    <3> QED BY <3>1, <3>2
  <2> QED BY <2>1, <2>2 DEF ListsLinked
<1>11. BuddiesMerged'
  <2>1. SUFFICES ASSUME NEW x \in Marked', NEW y \in Marked', y = Sibling(x, isFree'[x]),
                        isFree'[x] = isFree'[y], isFree'[x] < Top
                 PROVE  owner'[x] # owner'[y]
    BY DEF BuddiesMerged
  <2>2. x \in Marked /\ y \in Marked /\ isFree'[x] = isFree[x] /\ owner'[x] = owner[x]
        /\ isFree'[y] = isFree[y] /\ owner'[y] = owner[y]
    BY <1>6, <1>7, <1>8
  <2> QED BY <2>1, <2>2 DEF BuddiesMerged
<1> QED BY <1>5, <1>6, <1>7, <1>9, <1>10, <1>11

\* What is written elsewhere, or to the heads of a list that is dropped, does
\* nothing to the free cells.
LEMMA Overwritten ==
  ASSUME CellTypes, ListsLinked, BuddiesMerged, CellTypes',
         \A v \in Marked : /\ isFree'[v] = isFree[v] /\ owner'[v] = owner[v]
                           /\ prev'[v] = prev[v] /\ next'[v] = next[v],
         \A v \in Units \ Marked : owner'[v] \notin Lists \/ isFree'[v] \notin Classes,
         \A m \in Lists, d \in Classes : head'[m][d] \in {head[m][d], None}
  PROVE  Marked' = Marked /\ FreeTiles' = FreeTiles /\ ListsLinked' /\ BuddiesMerged'
<1>1. Marked' = Marked
  BY DEF Marked
<1>2. FreeTiles' = FreeTiles
  BY <1>1 DEF FreeTiles
<1>3. ListsLinked'
  <2>1. ASSUME NEW v \in Marked' PROVE
          /\ next'[v] # None => /\ next'[v] \in Marked' /\ prev'[next'[v]] = v
                               /\ isFree'[next'[v]] = isFree'[v] /\ owner'[next'[v]] = owner'[v]
          /\ prev'[v] # None => prev'[v] \in Marked' /\ next'[prev'[v]] = v
    <3>1. v \in Marked
      BY <1>1
    <3>2. /\ next[v] # None => /\ next[v] \in Marked /\ prev[next[v]] = v
                               /\ isFree[next[v]] = isFree[v] /\ owner[next[v]] = owner[v]
          /\ prev[v] # None => prev[v] \in Marked /\ next[prev[v]] = v
      BY <3>1 DEF ListsLinked
    <3> QED BY <1>1, <3>1, <3>2
  <2>2. ASSUME NEW m \in Lists, NEW d \in Classes, head'[m][d] # None PROVE
          /\ head'[m][d] \in Marked' /\ prev'[head'[m][d]] = None
          /\ isFree'[head'[m][d]] = d /\ owner'[head'[m][d]] = m
    <3>1. head'[m][d] = head[m][d]
      BY <2>2
    <3>2. /\ head[m][d] \in Marked /\ prev[head[m][d]] = None
          /\ isFree[head[m][d]] = d /\ owner[head[m][d]] = m
      BY <2>2, <3>1 DEF ListsLinked
    <3> QED BY <1>1, <3>1, <3>2
  <2> QED BY <2>1, <2>2 DEF ListsLinked
<1>4. BuddiesMerged'
  <2>1. ASSUME NEW x \in Marked', NEW y \in Marked', y = Sibling(x, isFree'[x]),
               isFree'[x] = isFree'[y], isFree'[x] < Top
        PROVE  owner'[x] # owner'[y]
    <3>1. x \in Marked /\ y \in Marked
      BY <1>1
    <3> QED BY <2>1, <3>1 DEF BuddiesMerged
  <2> QED BY <2>1 DEF BuddiesMerged
<1> QED BY <1>1, <1>2, <1>3, <1>4
----------------------------------------------------------------------------
\* Steps

LEMMA OpForms ==
  ASSUME SpaceTypes, NEW l \in Lists
  PROVE  /\ op[l].kind = "split" =>
              op[l].unit \in Units /\ op[l].class \in Classes /\ op[l].then \in Requests
         /\ op[l].kind \in {"look", "owner", "push"} =>
              op[l].unit \in Units /\ op[l].class \in Classes /\ op[l].then \in Requests \cup {None}
         /\ op[l].kind \in CallKinds => op[l].unit \in Units /\ op[l].class \in Classes
         /\ op[l].kind \in {"alloc", "acquire"} => op[l].class \in Requests
         /\ op[l].kind = "addChunk" => op[l].unit \in Units
<1> op[l] \in Ops
  BY DEF SpaceTypes
<1> QED BY DEF Ops, CallKinds, Idle

\* Where the tiles are.
LEMMA Places ==
  /\ \A t \in FreeTiles : t[1] = "free"
  /\ \A t \in AppTiles : t[1] = "app"
  /\ \A t \in ChunkTiles : t[1] = "chunk"
  /\ \A t \in NewTiles : t[1] = "new"
  /\ \A t \in HandTiles : t[1] = "hand"
BY DEF FreeTiles, AppTiles, ChunkTiles, NewTiles, HandTiles, InHands,
       FreeTile, AppTile, ChunkTile, NewTile, HandTile

LEMMA HandsOf ==
  \A m, o : \A t \in InHands(m, o) : t[1] = "hand" /\ t[2] = m
BY DEF InHands, HandTile

\* The call of one thread goes on.
LEMMA HandsChange ==
  ASSUME SpaceTypes, NEW l \in Lists, NEW o, op' = [op EXCEPT ![l] = o]
  PROVE  /\ HandTiles' = (HandTiles \ InHands(l, op[l])) \cup InHands(l, o)
         /\ InHands(l, op[l]) \subseteq HandTiles
         /\ op'[l] = o /\ \A m \in Lists \ {l} : op'[m] = op[m]
<1>1. op'[l] = o /\ \A m \in Lists \ {l} : op'[m] = op[m]
  BY DEF SpaceTypes
<1>2. HandTiles' = UNION {InHands(m, op'[m]) : m \in Lists}
  BY DEF HandTiles, InHands
<1>3. \A m \in Lists \ {l} : \A t \in InHands(m, op[m]) : t \notin InHands(l, op[l])
  BY HandsOf
<1>4. HandTiles' \subseteq (HandTiles \ InHands(l, op[l])) \cup InHands(l, o)
  BY <1>1, <1>2, <1>3 DEF HandTiles
<1>5. (HandTiles \ InHands(l, op[l])) \cup InHands(l, o) \subseteq HandTiles'
  BY <1>1, <1>2 DEF HandTiles
<1> QED BY <1>1, <1>4, <1>5 DEF HandTiles

\* The tiles of the calls.
LEMMA HandIn ==
  ASSUME NEW l \in Lists
  PROVE  /\ op[l].kind \in CallKinds => HandTile(l, op[l].unit, op[l].class) \in Tiles
         /\ op[l].kind = "addChunk" => HandTile(l, op[l].unit, Top) \in Tiles
BY DEF Tiles, HandTiles, InHands, CallKinds

\* A step takes the tiles A, writes headers and owners in them only, and makes
\* no other thread the owner of a cell: the other calls and the cells in use
\* are as sound as before.
LEMMA Framed ==
  ASSUME IInv, NEW l \in Lists, NEW A \in SUBSET Tiles, NEW B,
         Tiles' = (Tiles \ A) \cup B, \A t \in B : IsTile(t), Apart(B),
         UNION {Span(t) : t \in A} = UNION {Span(t) : t \in B},
         \A t \in A : t[1] = "hand" => t[2] = l,
         \A m \in Lists \ {l} : op'[m] = op[m],
         \A s \in Units : (\A t \in A : s \notin Span(t)) =>
           isFree'[s] = isFree[s] /\ owner'[s] = owner[s],
         \A s \in Units, m \in Lists \ {l} : owner'[s] = m =>
           owner[s] = m /\ isFree'[s] = isFree[s],
         \A r \in app' : (r \in app /\ AppTile(r) \notin A) \/ isFree'[r[1]] = Used
  PROVE  Tiling(Tiles)' /\ AppHeaders' /\ \A m \in Lists \ {l} : CallSound(m)'
<1>1. Tiling(Tiles)
  BY DEF IInv
<1>2. Tiling((Tiles \ A) \cup B)
  BY <1>1, Retiled
<1>3. Tiling(Tiles)'
  <2>1. Tiling(Tiles')
    BY <1>2
  <2> QED BY <2>1 DEF Tiling, Apart, IsTile, Span
<1>4. ASSUME NEW t \in Tiles, t \notin A
      PROVE  t[3] \in Units /\ isFree'[t[3]] = isFree[t[3]] /\ owner'[t[3]] = owner[t[3]]
  <2>1. IsTile(t)
    BY <1>1 DEF Tiling
  <2>2. t[3] \in Span(t) /\ t[3] \in Units
    BY <2>1, TileSpan DEF IsTile
  <2>3. \A a \in A : t[3] \notin Span(a)
    BY <1>1, <1>4, <2>2, TilesMeet
  <2> QED BY <2>2, <2>3
<1>5. AppHeaders'
  <2>1. ASSUME NEW r \in app', r \in app, AppTile(r) \notin A PROVE isFree'[r[1]] = Used
    <3>1. AppTile(r) \in Tiles /\ AppTile(r)[3] = r[1]
      BY <2>1 DEF Tiles, AppTiles, AppTile
    <3> QED BY <1>4, <2>1, <3>1 DEF IInv, AppHeaders
  <2> QED BY <2>1 DEF AppHeaders
<1>6. ASSUME NEW m \in Lists \ {l} PROVE CallSound(m)'
  <2>1. op'[m] = op[m] /\ CallSound(m) /\ SpaceTypes
    BY DEF IInv
  <2>2. CASE op[m].kind \in CallKinds
    <3> DEFINE u == op[m].unit
               c == op[m].class
               t == HandTile(m, u, c)
    <3>1. t \in Tiles /\ t \notin A /\ t[3] = u /\ t[4] = c
      BY <2>2, HandIn DEF HandTile
    <3>2. isFree'[u] = isFree[u] /\ u \in Units /\ c \in Classes /\ Aligned(u, c)
      BY <1>1, <1>4, <3>1 DEF Tiling, IsTile
    <3> DEFINE s == Sibling(u, c)
    <3>3. c < Top => s \in Units
      BY <3>2, BuddyIn
    <3>4. c < Top /\ owner'[s] = m => owner[s] = m /\ isFree'[s] = isFree[s]
      BY <3>3
    <3> QED BY <2>1, <2>2, <3>2, <3>4 DEF CallSound, CallKinds
  <2>3. CASE op[m].kind = "addChunk"
    <3> DEFINE u == op[m].unit
               t == HandTile(m, u, Top)
    <3>1. t \in Tiles /\ t \notin A /\ t[3] = u
      BY <2>3, HandIn DEF HandTile
    <3>2. owner'[u] = owner[u]
      BY <1>4, <3>1
    <3> QED BY <2>1, <2>3, <3>2 DEF CallSound, CallKinds
  <2>4. CASE op[m].kind \notin CallKinds \cup {"addChunk"}
    BY <2>1, <2>4 DEF CallSound, CallKinds
  <2> QED BY <2>2, <2>3, <2>4
<1> QED BY <1>3, <1>5, <1>6

\* A step that writes no cell and takes no tile.
LEMMA Rests ==
  ASSUME IInv, NEW l \in Lists, NEW o \in Ops, op' = [op EXCEPT ![l] = o],
         InHands(l, o) = InHands(l, op[l]),
         UNCHANGED <<isFree, owner, prev, next, chunks, fresh, app>>, CellTypes',
         \A m \in Lists, d \in Classes : head'[m][d] \in {head[m][d], None},
         CallSound(l)'
  PROVE  IInv'
<1>1. SpaceTypes /\ CellTypes /\ ListsLinked /\ BuddiesMerged
  BY DEF IInv
<1>2. SpaceTypes'
  BY <1>1 DEF SpaceTypes
<1>3. FreeTiles' = FreeTiles /\ ListsLinked' /\ BuddiesMerged'
  <2>1. \A v \in Units \ Marked : owner'[v] \notin Lists \/ isFree'[v] \notin Classes
    BY MarkedIs
  <2> QED BY <1>1, <2>1, Overwritten
<1>4. Tiles' = (Tiles \ {}) \cup {}
  <2>1. HandTiles' = HandTiles
    <3>1. /\ HandTiles' = (HandTiles \ InHands(l, op[l])) \cup InHands(l, o)
          /\ InHands(l, op[l]) \subseteq HandTiles
      BY <1>1, HandsChange
    <3> QED BY <3>1
  <2>2. AppTiles' = AppTiles /\ ChunkTiles' = ChunkTiles /\ NewTiles' = NewTiles
    BY DEF AppTiles, ChunkTiles, NewTiles, AppTile, ChunkTile, NewTile
  <2> QED BY <1>3, <2>1, <2>2 DEF Tiles
<1>5. \A m \in Lists \ {l} : op'[m] = op[m]
  BY <1>1, HandsChange
<1> DEFINE A == {}
<1>6. A \in SUBSET Tiles /\ Apart(A) /\ (\A t \in A : IsTile(t)) /\ Tiles' = (Tiles \ A) \cup A
      /\ \A t \in A : t[1] = "hand" => t[2] = l
  BY <1>4 DEF Apart
<1>7. \A r \in app' : (r \in app /\ AppTile(r) \notin A) \/ isFree'[r[1]] = Used
  OBVIOUS
<1> HIDE DEF A
<1>8. Tiling(Tiles)' /\ AppHeaders' /\ \A m \in Lists \ {l} : CallSound(m)'
  BY <1>5, <1>6, <1>7, Framed
<1> QED BY <1>2, <1>3, <1>8 DEF IInv
\* A step that takes one tile, and puts another over the same units.
LEMMA Moved ==
  ASSUME IInv, NEW l \in Lists, NEW a \in Tiles, NEW b, b[3] = a[3], b[4] = a[4],
         Tiles' = (Tiles \ {a}) \cup {b}, a[1] = "hand" => a[2] = l,
         \A m \in Lists \ {l} : op'[m] = op[m],
         \A s \in Units : s \notin Span(a) => isFree'[s] = isFree[s] /\ owner'[s] = owner[s],
         \A s \in Units, m \in Lists \ {l} : owner'[s] = m =>
           owner[s] = m /\ isFree'[s] = isFree[s],
         \A r \in app' : (r \in app /\ AppTile(r) # a) \/ isFree'[r[1]] = Used
  PROVE  Tiling(Tiles)' /\ AppHeaders' /\ \A m \in Lists \ {l} : CallSound(m)'
<1> DEFINE A == {a}
           B == {b}
<1>1. A \in SUBSET Tiles /\ Tiles' = (Tiles \ A) \cup B /\ \A t \in A : t[1] = "hand" => t[2] = l
  OBVIOUS
<1>2. UNION {Span(t) : t \in A} = UNION {Span(t) : t \in B}
  <2>1. Span(a) = Span(b)
    BY DEF Span
  <2> QED BY <2>1
<1>3. (\A t \in B : IsTile(t)) /\ Apart(B)
  <2>1. IsTile(a)
    BY DEF IInv, Tiling
  <2> QED BY <2>1 DEF IsTile, Apart
<1>4. \A s \in Units : (\A t \in A : s \notin Span(t)) =>
        isFree'[s] = isFree[s] /\ owner'[s] = owner[s]
  OBVIOUS
<1>5. \A r \in app' : (r \in app /\ AppTile(r) \notin A) \/ isFree'[r[1]] = Used
  OBVIOUS
<1> HIDE DEF A, B
<1> QED BY <1>1, <1>2, <1>3, <1>4, <1>5, Framed

\* A unit in a tile that is in hand, in use or elsewhere is no free cell.
LEMMA NotMarked ==
  ASSUME IInv, NEW t \in Tiles, t[1] # "free", NEW u \in Span(t)
  PROVE  u \notin Marked
<1>1. SUFFICES ASSUME u \in Marked PROVE FALSE
  OBVIOUS
<1> DEFINE f == FreeTile(u, isFree[u])
<1>2. f \in Tiles /\ f[1] = "free" /\ f[3] = u
  BY <1>1 DEF Tiles, FreeTiles, FreeTile
<1>3. IsTile(f) /\ Tiling(Tiles)
  BY <1>2 DEF IInv, Tiling
<1>4. u \in Span(f)
  BY <1>2, <1>3, TileSpan
<1> QED BY <1>2, <1>3, <1>4, TilesMeet

\* Every free cell is aligned.
LEMMA MarkedAligned ==
  ASSUME IInv
  PROVE  \A v \in Marked : Aligned(v, isFree[v])
<1> SUFFICES ASSUME NEW v \in Marked PROVE Aligned(v, isFree[v])
  OBVIOUS
<1> DEFINE f == FreeTile(v, isFree[v])
<1>1. f \in Tiles /\ f[3] = v /\ f[4] = isFree[v]
  BY DEF Tiles, FreeTiles, FreeTile
<1> QED BY <1>1 DEF IInv, Tiling, IsTile

\* A cell goes from the head of a list into the hands of the thread.
LEMMA Taken ==
  ASSUME IInv, NEW l \in Lists, InHands(l, op[l]) = {}, NEW k \in Classes, head[l][k] # None,
         NEW u, u = head[l][k], Unlink(l, u, k), NEW o \in Ops, op' = [op EXCEPT ![l] = o],
         InHands(l, o) = {HandTile(l, u, k)}, UNCHANGED <<chunks, fresh, app>>,
         o.kind \in {"split", "addChunk"}, o.unit = u
  PROVE  IInv'
<1>1. CellTypes /\ SpaceTypes /\ ListsLinked /\ BuddiesMerged /\ Tiling(Tiles)
  BY DEF IInv
<1>2. u \in Marked /\ isFree[u] = k /\ owner[u] = l
  BY <1>1 DEF ListsLinked
<1>3. /\ CellTypes' /\ ListsLinked' /\ BuddiesMerged'
      /\ FreeTiles' = FreeTiles \ {FreeTile(u, k)}
      /\ \A v \in Units \ {u} : isFree'[v] = isFree[v] /\ owner'[v] = owner[v]
      /\ isFree'[u] = Used /\ owner'[u] = Nobody
  BY <1>1, <1>2, Unlinked
<1>4. SpaceTypes'
  BY <1>1 DEF SpaceTypes
<1>5. /\ HandTiles' = (HandTiles \ InHands(l, op[l])) \cup InHands(l, o)
      /\ op'[l] = o /\ \A m \in Lists \ {l} : op'[m] = op[m]
  BY <1>1, HandsChange
<1> DEFINE a == FreeTile(u, k)
           b == HandTile(l, u, k)
<1>6. a \in FreeTiles /\ a[1] = "free" /\ a[3] = u /\ a[4] = k
      /\ b[1] = "hand" /\ b[3] = u /\ b[4] = k
  BY <1>2 DEF FreeTiles, FreeTile, HandTile
<1>7. Tiles' = (Tiles \ {a}) \cup {b}
  <2>1. AppTiles' = AppTiles /\ ChunkTiles' = ChunkTiles /\ NewTiles' = NewTiles
    BY DEF AppTiles, ChunkTiles, NewTiles, AppTile, ChunkTile, NewTile
  <2>2. HandTiles' = HandTiles \cup {b} /\ FreeTiles' = FreeTiles \ {a}
    BY <1>3, <1>5
  <2> HIDE DEF a, b
  <2> QED BY <1>6, <2>1, <2>2, Places DEF Tiles
<1> HIDE DEF b
<1>8. a \in Tiles
  BY <1>6 DEF Tiles
<1>9. \A s \in Units : s \notin Span(a) => isFree'[s] = isFree[s] /\ owner'[s] = owner[s]
  <2>1. u \in Span(a)
    BY <1>1, <1>6, <1>8, TileSpan DEF Tiling
  <2> QED BY <1>3, <2>1
<1>10. \A s \in Units, m \in Lists \ {l} : owner'[s] = m => owner[s] = m /\ isFree'[s] = isFree[s]
  BY <1>3, SpaceSize
<1>11. \A r \in app' : (r \in app /\ AppTile(r) # a) \/ isFree'[r[1]] = Used
  BY <1>6 DEF AppTile
<1> HIDE DEF a
<1>12. Tiling(Tiles)' /\ AppHeaders' /\ \A m \in Lists \ {l} : CallSound(m)'
  <2>1. b[3] = a[3] /\ b[4] = a[4] /\ (a[1] = "hand" => a[2] = l)
    BY <1>6
  <2>2. \A m \in Lists \ {l} : op'[m] = op[m]
    BY <1>5
  <2> QED BY <1>7, <1>8, <1>9, <1>10, <1>11, <2>1, <2>2, Moved
<1>13. CallSound(l)'
  BY <1>3, <1>5 DEF CallSound, CallKinds
<1> QED BY <1>3, <1>4, <1>12, <1>13 DEF IInv

\* A tile goes into the hands of the thread, or out of them, and no cell is
\* written on.
LEMMA Passed ==
  ASSUME IInv, NEW l \in Lists, NEW o \in Ops, op' = [op EXCEPT ![l] = o], SpaceTypes',
         NEW a \in Tiles, a[1] \in {"app", "chunk", "new"},
         InHands(l, op[l]) = {}, InHands(l, o) = {HandTile(l, a[3], a[4])},
         UNCHANGED <<head, isFree, owner, prev, next>>,
         app' \subseteq app, \A r \in app' : AppTile(r) # a,
         AppTiles' = AppTiles \ {a}, ChunkTiles' = ChunkTiles \ {a}, NewTiles' = NewTiles \ {a},
         CallSound(l)'
  PROVE  IInv'
<1>1. CellTypes /\ SpaceTypes /\ ListsLinked /\ BuddiesMerged
  BY DEF IInv
<1>2. CellTypes' /\ ListsLinked' /\ BuddiesMerged' /\ FreeTiles' = FreeTiles
  <2>1. CellTypes'
    BY <1>1 DEF CellTypes
  <2>2. \A v \in Units \ Marked : owner'[v] \notin Lists \/ isFree'[v] \notin Classes
    BY MarkedIs
  <2> QED BY <1>1, <2>1, <2>2, Overwritten
<1> DEFINE b == HandTile(l, a[3], a[4])
<1>3. b[1] = "hand" /\ b[3] = a[3] /\ b[4] = a[4]
  BY DEF HandTile
<1>4. HandTiles' = HandTiles \cup {b} /\ \A m \in Lists \ {l} : op'[m] = op[m]
  <2>1. /\ HandTiles' = (HandTiles \ InHands(l, op[l])) \cup InHands(l, o)
        /\ \A m \in Lists \ {l} : op'[m] = op[m]
    BY <1>1, HandsChange
  <2> QED BY <2>1
<1> HIDE DEF b
<1>5. Tiles' = (Tiles \ {a}) \cup {b}
  BY <1>2, <1>4, Places DEF Tiles
<1>6. Tiling(Tiles)' /\ AppHeaders' /\ \A m \in Lists \ {l} : CallSound(m)'
  <2>1. \A r \in app' : (r \in app /\ AppTile(r) # a) \/ isFree'[r[1]] = Used
    OBVIOUS
  <2>2. a[1] = "hand" => a[2] = l
    OBVIOUS
  <2>3. \A s \in Units : s \notin Span(a) => isFree'[s] = isFree[s] /\ owner'[s] = owner[s]
    OBVIOUS
  <2>4. \A s \in Units, m \in Lists \ {l} : owner'[s] = m => owner[s] = m /\ isFree'[s] = isFree[s]
    OBVIOUS
  <2> QED BY <1>3, <1>4, <1>5, <2>1, <2>2, <2>3, <2>4, Moved
<1> QED BY <1>2, <1>6 DEF IInv
----------------------------------------------------------------------------
\* The actions

\* What a sound state is made of.
LEMMA Parts ==
  ASSUME IInv
  PROVE  CellTypes /\ SpaceTypes /\ Tiling(Tiles) /\ ListsLinked /\ BuddiesMerged /\ AppHeaders
         /\ \A l \in Lists : CallSound(l)
BY DEF IInv

LEMMA QuietSteps ==
  ASSUME IInv, NEW l \in Lists,
         AllocCall(l) \/ MissCoalesced(l) \/ AllocFails(l) \/ FreeDone(l) \/ Reincarnate(l)
  PROVE  IInv'
<1>1. CellTypes /\ SpaceTypes
  BY Parts
<1>2. op[l] \in Ops /\ op = [op EXCEPT ![l] = op[l]]
  BY <1>1 DEF SpaceTypes
<1>3. CASE AllocCall(l)
  <2>1. PICK c \in Requests : op' = [op EXCEPT ![l] = Allocating(c)]
    BY <1>3 DEF AllocCall
  <2> DEFINE o == Allocating(c)
  <2>2. o \in Ops /\ InHands(l, o) = {} /\ o.kind = "alloc"
    BY DEF Ops, Allocating, InHands, CallKinds
  <2>3. InHands(l, op[l]) = {}
    BY <1>3 DEF AllocCall, InHands, CallKinds, Idle
  <2>4. op'[l] = o
    BY <1>1, <2>1, HandsChange
  <2>5. CallSound(l)'
    BY <2>2, <2>4 DEF CallSound, CallKinds
  <2>6. UNCHANGED <<head, isFree, owner, prev, next, chunks, fresh, app>>
    BY <1>3 DEF AllocCall, cells
  <2>7. CellTypes' /\ \A m \in Lists, d \in Classes : head'[m][d] \in {head[m][d], None}
    BY <1>1, <2>6 DEF CellTypes
  <2> HIDE DEF o
  <2> QED BY <2>1, <2>2, <2>3, <2>5, <2>6, <2>7, Rests DEF o
<1>4. CASE MissCoalesced(l)
  <2>1. op[l] \in [kind : {"alloc", "acquire"}, class : Requests]
    BY <1>2, <1>4 DEF MissCoalesced, Ops, Idle
  <2> DEFINE o == [op[l] EXCEPT !.kind = "acquire"]
  <2>2. o \in Ops /\ InHands(l, o) = {} /\ o.kind = "acquire"
    BY <2>1 DEF Ops, InHands, CallKinds
  <2>3. InHands(l, op[l]) = {}
    BY <1>4 DEF MissCoalesced, InHands, CallKinds
  <2>4. op' = [op EXCEPT ![l] = o]
    BY <1>4 DEF MissCoalesced
  <2> HIDE DEF o
  <2>5. op'[l] = o
    BY <1>1, <2>4, HandsChange
  <2>6. CallSound(l)'
    BY <2>2, <2>5 DEF CallSound, CallKinds
  <2>7. UNCHANGED <<head, isFree, owner, prev, next, chunks, fresh, app>>
    BY <1>4 DEF MissCoalesced, cells
  <2>8. CellTypes' /\ \A m \in Lists, d \in Classes : head'[m][d] \in {head[m][d], None}
    BY <1>1, <2>7 DEF CellTypes
  <2> QED BY <2>2, <2>3, <2>4, <2>6, <2>7, <2>8, Rests
<1>5. CASE AllocFails(l) \/ FreeDone(l)
  <2>1. op' = [op EXCEPT ![l] = Idle] /\ op[l].kind \in {"acquire", "coalesce"}
    BY <1>5 DEF AllocFails, FreeDone
  <2>2. Idle \in Ops /\ InHands(l, Idle) = {} /\ Idle.kind = "idle"
    BY DEF Ops, InHands, CallKinds, Idle
  <2>3. InHands(l, op[l]) = {}
    BY <2>1 DEF InHands, CallKinds
  <2>4. op'[l] = Idle
    BY <1>1, <2>1, HandsChange
  <2>5. CallSound(l)'
    BY <2>2, <2>4 DEF CallSound, CallKinds
  <2>6. UNCHANGED <<head, isFree, owner, prev, next, chunks, fresh, app>>
    BY <1>5 DEF AllocFails, FreeDone, cells
  <2>7. CellTypes' /\ \A m \in Lists, d \in Classes : head'[m][d] \in {head[m][d], None}
    BY <1>1, <2>6 DEF CellTypes
  <2> QED BY <2>1, <2>2, <2>3, <2>5, <2>6, <2>7, Rests
<1>6. CASE Reincarnate(l)
  <2>1. head' = [head EXCEPT ![l] = [c \in Classes |-> None]] /\ op' = op
        /\ UNCHANGED <<isFree, owner, prev, next, chunks, fresh, app>>
    BY <1>6 DEF Reincarnate, cells
  <2>2. CellTypes' /\ \A m \in Lists, d \in Classes : head'[m][d] \in {head[m][d], None}
    BY <1>1, <2>1 DEF CellTypes
  <2>3. CallSound(l)'
    BY <2>1, Parts DEF CallSound
  <2>4. op' = [op EXCEPT ![l] = op[l]]
    BY <1>2, <2>1
  <2> QED BY <1>2, <2>1, <2>2, <2>3, <2>4, Rests
<1> QED BY <1>3, <1>4, <1>5, <1>6

LEMMA LookStep ==
  ASSUME IInv, NEW l \in Lists, Look(l) \/ NotMine(l)
  PROVE  IInv'
<1>1. CellTypes /\ SpaceTypes /\ CallSound(l)
  BY Parts
<1> DEFINE u == op[l].unit
           c == op[l].class
           s == Sibling(u, c)
           kind == IF op[l].kind = "look" /\ c < Top /\ isFree[s] = c THEN "owner" ELSE "push"
           o == [op[l] EXCEPT !.kind = kind]
<1>2. op[l].kind \in {"look", "owner"} /\ op' = [op EXCEPT ![l] = o]
  BY DEF Look, NotMine
<1>3. UNCHANGED <<head, isFree, owner, prev, next, chunks, fresh, app>>
  BY DEF Look, NotMine, cells
<1>4. op[l] \in [kind : {"look", "owner", "push"}, unit : Units, class : Classes, then : Requests \cup {None}]
  <2>1. op[l] \in Ops
    BY <1>1 DEF SpaceTypes
  <2> QED BY <1>2, <2>1 DEF Ops, Idle
<1>5. o \in Ops /\ o.kind = kind /\ o.unit = u /\ o.class = c /\ kind \in {"owner", "push"}
  <2>1. o \in [kind : {"look", "owner", "push"}, unit : Units, class : Classes, then : Requests \cup {None}]
    BY <1>4
  <2> QED BY <1>4, <2>1 DEF Ops
<1>6. op[l].kind = "owner" => owner[s] # l
  BY DEF Look, NotMine, Owns
<1> HIDE DEF o
<1>7. InHands(l, o) = InHands(l, op[l])
  BY <1>2, <1>5 DEF InHands, CallKinds
<1>8. op'[l] = o
  BY <1>1, <1>2, HandsChange
<1>9. CallSound(l)'
  <2>1. c < Top => isFree[u] = Used
    BY <1>1, <1>2 DEF CallSound, CallKinds
  <2>2. kind = "owner" => c < Top /\ isFree[s] = c
    BY <1>2
  <2>3. kind = "push" /\ c < Top /\ owner[s] = l => isFree[s] # c
    BY <1>2, <1>6
  <2> QED BY <1>3, <1>5, <1>8, <2>1, <2>2, <2>3 DEF CallSound, CallKinds
<1>10. CellTypes' /\ \A m \in Lists, d \in Classes : head'[m][d] \in {head[m][d], None}
  BY <1>1, <1>3 DEF CellTypes
<1> QED BY <1>2, <1>3, <1>5, <1>7, <1>9, <1>10, Rests

LEMMA PopSteps ==
  ASSUME IInv, NEW l \in Lists, Pop(l) \/ PopChunk(l)
  PROVE  IInv'
<1>1. SpaceTypes /\ CellTypes
  BY Parts
<1>2. CASE Pop(l)
  <2> DEFINE k == Min(Candidates(l))
             u == head[l][k]
             o == Releasing("split", u, k, op[l].class)
  <2>1. /\ op[l].kind = "alloc" /\ Candidates(l) # {} /\ Unlink(l, u, k)
        /\ op' = [op EXCEPT ![l] = o] /\ UNCHANGED <<chunks, fresh, app>>
    BY <1>2 DEF Pop
  <2>2. op[l].class \in Requests /\ op[l].class \in Nat
    <3>1. op[l].class \in Requests
      BY <1>1, <2>1, OpForms
    <3>2. op[l].class \in 0..Top
      BY <3>1, SizesAssumption
    <3> QED BY <3>1, <3>2, SizesAssumption
  <2>3. Candidates(l) \in SUBSET Nat
    BY <2>2, SpaceSize DEF Candidates
  <2>4. PICK m \in Candidates(l) : \A n \in Candidates(l) : m <= n
    BY <2>1, <2>3, NatMin
  <2>5. k \in Candidates(l)
    BY <2>4 DEF Min
  <2> HIDE DEF k
  <2>6. k \in Classes /\ u # None
    BY <2>2, <2>5 DEF Candidates, Classes
  <2>7. u \in Units
    BY <1>1, <2>6 DEF CellTypes
  <2>8. o \in Ops
    BY <2>2, <2>6, <2>7 DEF Ops, Releasing
  <2>9. o.kind = "split" /\ o.unit = u /\ o.class = k
    BY DEF Releasing
  <2> HIDE DEF o
  <2>10. InHands(l, o) = {HandTile(l, u, k)} /\ InHands(l, op[l]) = {}
    BY <2>1, <2>9 DEF InHands, CallKinds
  <2> HIDE DEF u
  <2> QED BY <2>1, <2>6, <2>8, <2>9, <2>10, Taken DEF u
<1>3. CASE PopChunk(l)
  <2> DEFINE u == head[l][Top]
             o == [kind |-> "addChunk", unit |-> u]
  <2>1. /\ op[l].kind = "coalesce" /\ u # None /\ Unlink(l, u, Top)
        /\ op' = [op EXCEPT ![l] = o] /\ UNCHANGED <<chunks, fresh, app>>
    BY <1>3 DEF PopChunk
  <2>2. Top \in Classes
    BY SpaceSize DEF Classes
  <2>3. u \in Units
    BY <1>1, <2>1, <2>2 DEF CellTypes
  <2>4. o \in Ops /\ o.kind = "addChunk" /\ o.unit = u
    BY <2>3 DEF Ops
  <2> HIDE DEF o
  <2>5. InHands(l, o) = {HandTile(l, u, Top)} /\ InHands(l, op[l]) = {}
    BY <2>1, <2>4 DEF InHands, CallKinds
  <2> HIDE DEF u
  <2> QED BY <2>1, <2>2, <2>4, <2>5, Taken DEF u
<1> QED BY <1>2, <1>3

LEMMA FreeCallStep ==
  ASSUME IInv, NEW l \in Lists, FreeCall(l)
  PROVE  IInv'
<1>1. SpaceTypes /\ Tiling(Tiles) /\ AppHeaders
  BY Parts
<1>2. PICK r \in app : app' = app \ {r} /\ op' = [op EXCEPT ![l] = Releasing("look", r[1], r[2], None)]
  BY DEF FreeCall
<1>3. op[l] = Idle /\ UNCHANGED <<head, isFree, owner, prev, next, chunks, fresh>>
  BY DEF FreeCall, cells
<1> DEFINE o == Releasing("look", r[1], r[2], None)
           a == AppTile(r)
<1>4. r \in Units \X Requests /\ r[1] \in Units /\ r[2] \in Classes
  BY <1>1, SpaceSize DEF SpaceTypes
<1>5. o \in Ops /\ o.kind = "look" /\ o.unit = r[1] /\ o.class = r[2]
  BY <1>4 DEF Ops, Releasing
<1> HIDE DEF o
<1>6. a \in Tiles /\ a[1] = "app" /\ a[3] = r[1] /\ a[4] = r[2]
  BY DEF Tiles, AppTiles, AppTile
<1>7. InHands(l, op[l]) = {} /\ InHands(l, o) = {HandTile(l, a[3], a[4])}
  BY <1>3, <1>5, <1>6 DEF InHands, CallKinds, Idle
<1>8. \A q \in app' : AppTile(q) # a
  <2>1. \A q \in app : q = <<q[1], q[2]>>
    BY <1>1 DEF SpaceTypes
  <2>2. \A q \in app : AppTile(q)[3] = q[1] /\ AppTile(q)[4] = q[2]
    BY DEF AppTile
  <2> HIDE DEF a
  <2> QED BY <1>2, <1>6, <2>1, <2>2
<1>9. AppTiles' = AppTiles \ {a}
  <2>1. AppTiles' = {AppTile(q) : q \in app'}
    BY DEF AppTiles, AppTile
  <2> QED BY <1>2, <1>8, <2>1 DEF AppTiles
<1>10. ChunkTiles' = ChunkTiles \ {a} /\ NewTiles' = NewTiles \ {a}
  <2>1. ChunkTiles' = ChunkTiles /\ NewTiles' = NewTiles
    BY <1>3 DEF ChunkTiles, NewTiles, ChunkTile, NewTile
  <2> HIDE DEF a
  <2> QED BY <1>6, <2>1, Places
<1>11. SpaceTypes'
  BY <1>1, <1>2, <1>3, <1>5 DEF SpaceTypes, o
<1>12. CallSound(l)'
  <2>1. op'[l] = o
    BY <1>1, <1>2, HandsChange DEF o
  <2>2. isFree[r[1]] = Used
    BY <1>1 DEF AppHeaders
  <2> QED BY <1>3, <1>5, <2>1, <2>2 DEF CallSound, CallKinds
<1>13. a[1] \in {"app", "chunk", "new"} /\ app' \subseteq app
  BY <1>2, <1>6
<1> HIDE DEF a
<1> QED BY <1>2, <1>3, <1>5, <1>6, <1>7, <1>8, <1>9, <1>10, <1>11, <1>12, <1>13, Passed DEF o
LEMMA TakeCoalescedStep ==
  ASSUME IInv, NEW l \in Lists, TakeCoalesced(l)
  PROVE  IInv'
<1>1. SpaceTypes /\ Tiling(Tiles)
  BY Parts
<1> DEFINE u == Head(chunks)
           o == Releasing("look", u, Top, op[l].class)
           a == ChunkTile(u)
<1>2. /\ op[l].kind = "alloc" /\ chunks # <<>> /\ chunks' = Tail(chunks)
      /\ op' = [op EXCEPT ![l] = o] /\ UNCHANGED <<head, isFree, owner, prev, next, fresh, app>>
  BY DEF TakeCoalesced, cells
<1>3. /\ chunks \in Seq(Units) /\ Len(chunks) \in Nat \ {0} /\ u = chunks[1] /\ u \in Units
      /\ chunks' \in Seq(Units) /\ Len(chunks') = Len(chunks) - 1
      /\ \A i \in 1..Len(chunks') : chunks'[i] = chunks[i + 1] /\ i + 1 \in 1..Len(chunks)
  BY <1>1, <1>2 DEF SpaceTypes
<1>4. \A i, j \in 1..Len(chunks) : chunks[i] = chunks[j] => i = j
  BY <1>1 DEF SpaceTypes
<1>5. op[l].class \in Requests
  BY <1>1, <1>2, OpForms
<1>6. o \in Ops /\ o.kind = "look" /\ o.unit = u /\ o.class = Top
  BY <1>3, <1>5, SpaceSize DEF Ops, Releasing, Classes
<1> HIDE DEF o
<1>7. a[1] = "chunk" /\ a[3] = u /\ a[4] = Top
  BY DEF ChunkTile
<1>8. a \in Tiles
  BY <1>3 DEF Tiles, ChunkTiles
<1>9. ChunkTiles' = ChunkTiles \ {a}
  <2>1. ChunkTiles' = {ChunkTile(chunks'[i]) : i \in 1..Len(chunks')}
    BY DEF ChunkTiles, ChunkTile
  <2>2. ASSUME NEW i \in 1..Len(chunks'), ChunkTile(chunks'[i]) = a PROVE FALSE
    <3>1. chunks[i + 1] = chunks[1]
      BY <1>3, <2>2 DEF ChunkTile
    <3>2. i + 1 \in 1..Len(chunks) /\ 1 \in 1..Len(chunks)
      BY <1>3
    <3> QED BY <1>4, <3>1, <3>2
  <2>3. ASSUME NEW i \in 1..Len(chunks), ChunkTile(chunks[i]) # a
        PROVE  \E j \in 1..Len(chunks') : ChunkTile(chunks'[j]) = ChunkTile(chunks[i])
    <3>1. i # 1
      BY <1>3, <2>3
    <3>2. i - 1 \in 1..Len(chunks') /\ (i - 1) + 1 = i
      BY <1>3, <3>1
    <3> QED BY <1>3, <3>2
  <2>4. \A i \in 1..Len(chunks') : \E j \in 1..Len(chunks) : ChunkTile(chunks'[i]) = ChunkTile(chunks[j])
    BY <1>3
  <2> HIDE DEF a
  <2>5. ChunkTiles' \subseteq ChunkTiles \ {a}
    BY <2>1, <2>2, <2>4 DEF ChunkTiles
  <2>6. ASSUME NEW t \in ChunkTiles, t # a PROVE t \in ChunkTiles'
    <3>1. PICK i \in 1..Len(chunks) : t = ChunkTile(chunks[i])
      BY DEF ChunkTiles
    <3>2. PICK j \in 1..Len(chunks') : ChunkTile(chunks'[j]) = t
      BY <2>3, <2>6, <3>1
    <3> QED BY <2>1, <3>2
  <2> QED BY <2>5, <2>6
<1>10. AppTiles' = AppTiles \ {a} /\ NewTiles' = NewTiles \ {a}
  <2>1. AppTiles' = AppTiles /\ NewTiles' = NewTiles
    BY <1>2 DEF AppTiles, NewTiles, AppTile, NewTile
  <2> HIDE DEF a
  <2> QED BY <1>7, <2>1, Places
<1>11. SpaceTypes'
  <2>1. \A i, j \in 1..Len(chunks') : chunks'[i] = chunks'[j] => i = j
    <3> SUFFICES ASSUME NEW i \in 1..Len(chunks'), NEW j \in 1..Len(chunks'), chunks'[i] = chunks'[j]
                 PROVE  i = j
      OBVIOUS
    <3>1. i + 1 = j + 1
      BY <1>3, <1>4
    <3> QED BY <1>3, <3>1
  <2> QED BY <1>1, <1>2, <1>3, <1>6, <2>1 DEF SpaceTypes
<1>12. CallSound(l)'
  <2>1. op'[l] = o
    BY <1>1, <1>2, HandsChange
  <2>2. ~(Top < Top)
    BY SpaceSize
  <2> QED BY <1>6, <2>1, <2>2 DEF CallSound, CallKinds
<1>13. InHands(l, op[l]) = {} /\ InHands(l, o) = {HandTile(l, a[3], a[4])}
  BY <1>2, <1>6, <1>7 DEF InHands, CallKinds
<1>14. a[1] \in {"app", "chunk", "new"} /\ app' \subseteq app /\ \A r \in app' : AppTile(r) # a
  BY <1>2, <1>7 DEF AppTile
<1> HIDE DEF a
<1> QED BY <1>2, <1>6, <1>8, <1>9, <1>10, <1>11, <1>12, <1>13, <1>14, Passed

LEMMA AcquireBlockStep ==
  ASSUME IInv, NEW l \in Lists, AcquireBlock(l)
  PROVE  IInv'
<1>1. SpaceTypes /\ Tiling(Tiles)
  BY Parts
<1> DEFINE u == fresh * ChunkSize
           o == Releasing("look", u, Top, op[l].class)
           a == NewTile(fresh)
<1>2. /\ op[l].kind = "acquire" /\ fresh < NumChunks /\ fresh' = fresh + 1
      /\ op' = [op EXCEPT ![l] = o] /\ UNCHANGED <<head, isFree, owner, prev, next, chunks, app>>
  BY DEF AcquireBlock, cells
<1>3. fresh \in 0..(NumChunks - 1) /\ fresh' \in 0..NumChunks
  BY <1>1, <1>2, SpaceSize DEF SpaceTypes
<1>4. IsTile(a) /\ a[1] = "new" /\ a[3] = u /\ a[4] = Top
  BY <1>3, ChunkIn DEF NewTile
<1>5. op[l].class \in Requests
  BY <1>1, <1>2, OpForms
<1>6. o \in Ops /\ o.kind = "look" /\ o.unit = u /\ o.class = Top
  <2>1. u \in Units /\ Top \in Classes
    BY <1>4 DEF IsTile
  <2> HIDE DEF u
  <2> QED BY <1>5, <2>1 DEF Ops, Releasing
<1> HIDE DEF o
<1>7. a \in Tiles
  BY <1>3 DEF Tiles, NewTiles
<1>8. NewTiles' = NewTiles \ {a}
  <2>1. NewTiles' = {NewTile(k) : k \in (fresh + 1)..(NumChunks - 1)}
    BY <1>2 DEF NewTiles, NewTile
  <2>2. ASSUME NEW k \in (fresh + 1)..(NumChunks - 1) PROVE NewTile(k) # a
    <3>1. PICK n \in Nat \ {0} : n = ChunkSize
      BY SpaceSize
    <3> DEFINE d == k - (fresh + 1)
    <3>2. d \in Nat /\ k = fresh + 1 + d /\ fresh \in Nat
      BY <1>3
    <3> HIDE DEF d
    <3>3. k * n = fresh * n + n + d * n /\ d * n \in Nat /\ fresh * n \in Nat
      BY <3>2
    <3>4. k * n # fresh * n
      BY <3>3
    <3> QED BY <3>1, <3>4 DEF NewTile
  <2>3. fresh..(NumChunks - 1) = {fresh} \cup (fresh + 1)..(NumChunks - 1)
    BY <1>3, SpaceSize
  <2> HIDE DEF a
  <2>4. NewTiles = {a} \cup {NewTile(k) : k \in (fresh + 1)..(NumChunks - 1)}
    BY <2>3 DEF NewTiles, a
  <2> QED BY <2>1, <2>2, <2>4
<1>9. AppTiles' = AppTiles \ {a} /\ ChunkTiles' = ChunkTiles \ {a}
  <2>1. AppTiles' = AppTiles /\ ChunkTiles' = ChunkTiles
    BY <1>2 DEF AppTiles, ChunkTiles, AppTile, ChunkTile
  <2> HIDE DEF a
  <2> QED BY <1>4, <2>1, Places
<1>10. SpaceTypes'
  BY <1>1, <1>2, <1>3, <1>6 DEF SpaceTypes
<1>11. CallSound(l)'
  <2>1. op'[l] = o
    BY <1>1, <1>2, HandsChange
  <2>2. ~(Top < Top)
    BY SpaceSize
  <2> QED BY <1>6, <2>1, <2>2 DEF CallSound, CallKinds
<1>12. InHands(l, op[l]) = {} /\ InHands(l, o) = {HandTile(l, a[3], a[4])}
  BY <1>2, <1>4, <1>6 DEF InHands, CallKinds
<1>13. a[1] \in {"app", "chunk", "new"} /\ app' \subseteq app /\ \A r \in app' : AppTile(r) # a
  BY <1>2, <1>4 DEF AppTile
<1> HIDE DEF a
<1> QED BY <1>2, <1>6, <1>7, <1>8, <1>9, <1>10, <1>11, <1>12, <1>13, Passed

\* The tile in the hands of a call: where it is, and who has it.
LEMMA InHand1 ==
  ASSUME IInv, NEW l \in Lists, op[l].kind \in CallKinds
  PROVE  LET u == op[l].unit  c == op[l].class  a == HandTile(l, u, c)
         IN  /\ a \in Tiles /\ a \in HandTiles /\ InHands(l, op[l]) = {a}
             /\ u \in Units /\ c \in Classes /\ Aligned(u, c) /\ u \in Cell(u, c)
             /\ a[1] = "hand" /\ a[2] = l /\ a[3] = u /\ a[4] = c /\ Span(a) = Cell(u, c)
             /\ Cell(u, c) \subseteq Units /\ Cell(u, c) \cap Marked = {}
<1> DEFINE u == op[l].unit
           c == op[l].class
           a == HandTile(l, u, c)
<1>1. SpaceTypes /\ Tiling(Tiles)
  BY Parts
<1>2. a[1] = "hand" /\ a[2] = l /\ a[3] = u /\ a[4] = c /\ Span(a) = Cell(u, c)
  BY DEF HandTile, Span
<1>3. a \in Tiles /\ a \in HandTiles /\ InHands(l, op[l]) = {a}
  BY DEF Tiles, HandTiles, InHands
<1>4. u \in Units /\ c \in Classes /\ Aligned(u, c)
  BY <1>1, <1>2, <1>3 DEF Tiling, IsTile
<1>5. u \in Cell(u, c) /\ Cell(u, c) \subseteq Units
  BY <1>4, CellIn
<1> HIDE DEF a
<1>6. Cell(u, c) \cap Marked = {}
  BY <1>2, <1>3, NotMarked
<1> QED BY <1>2, <1>3, <1>4, <1>5, <1>6 DEF a

LEMMA HandOutStep ==
  ASSUME IInv, NEW l \in Lists, HandOut(l)
  PROVE  IInv'
<1>1. CellTypes /\ SpaceTypes /\ ListsLinked /\ BuddiesMerged /\ CallSound(l)
  BY Parts
<1> DEFINE u == op[l].unit
           c == op[l].class
           a == HandTile(l, u, c)
           r == <<u, c>>
           b == AppTile(r)
<1>2. /\ op[l].kind = "split" /\ c = op[l].then /\ app' = app \cup {r}
      /\ isFree' = [v \in Units |-> IF v \in Cell(u, c) \ {u} THEN Garbage ELSE isFree[v]]
      /\ owner' = [v \in Units |-> IF v \in Cell(u, c) THEN Garbage ELSE owner[v]]
      /\ prev' = [v \in Units |-> IF v \in Cell(u, c) THEN Garbage ELSE prev[v]]
      /\ next' = [v \in Units |-> IF v \in Cell(u, c) THEN Garbage ELSE next[v]]
      /\ op' = [op EXCEPT ![l] = Idle] /\ UNCHANGED <<head, chunks, fresh>>
  BY DEF HandOut
<1>3. /\ a \in Tiles /\ a \in HandTiles /\ InHands(l, op[l]) = {a}
      /\ u \in Units /\ c \in Classes /\ u \in Cell(u, c)
      /\ a[1] = "hand" /\ a[2] = l /\ a[3] = u /\ a[4] = c /\ Span(a) = Cell(u, c)
      /\ Cell(u, c) \subseteq Units /\ Cell(u, c) \cap Marked = {}
  BY <1>2, InHand1 DEF CallKinds
<1>4. c \in Requests
  BY <1>1, <1>2, OpForms
<1>5. b[1] = "app" /\ b[3] = u /\ b[4] = c
  BY DEF AppTile
<1>6. Idle \in Ops /\ InHands(l, Idle) = {} /\ Idle.kind = "idle"
  BY DEF Ops, InHands, CallKinds, Idle
<1>7. /\ HandTiles' = HandTiles \ {a} /\ op'[l] = Idle
      /\ \A m \in Lists \ {l} : op'[m] = op[m]
  <2>1. /\ HandTiles' = (HandTiles \ InHands(l, op[l])) \cup InHands(l, Idle)
        /\ op'[l] = Idle /\ \A m \in Lists \ {l} : op'[m] = op[m]
    BY <1>1, <1>2, HandsChange
  <2> QED BY <1>3, <1>6, <2>1
<1>8. CellTypes'
  <2>1. Garbage \in Links /\ Garbage \in Owners
    BY DEF Links, Owners
  <2>2. head' \in [Lists -> [Classes -> Units \cup {None}]]
    BY <1>1, <1>2 DEF CellTypes
  <2>3. isFree' \in [Units -> Classes \cup {Used, Garbage}] /\ owner' \in [Units -> Owners]
    BY <1>1, <1>2, <2>1 DEF CellTypes
  <2>4. prev' \in [Units -> Links] /\ next' \in [Units -> Links]
    BY <1>1, <1>2, <2>1 DEF CellTypes
  <2> QED BY <2>2, <2>3, <2>4 DEF CellTypes
<1>9. SpaceTypes'
  <2>1. op' \in [Lists -> Ops]
    BY <1>1, <1>2, <1>6 DEF SpaceTypes
  <2>2. app' \subseteq Units \X Requests
    BY <1>1, <1>2, <1>3, <1>4 DEF SpaceTypes
  <2> QED BY <1>1, <1>2, <2>1, <2>2 DEF SpaceTypes
<1>10. /\ \A v \in Units : v \notin Cell(u, c) => /\ isFree'[v] = isFree[v] /\ owner'[v] = owner[v]
                                                 /\ prev'[v] = prev[v] /\ next'[v] = next[v]
       /\ \A v \in Cell(u, c) : owner'[v] = Garbage
       /\ isFree'[u] = Used
  <2>1. isFree[u] = Used
    BY <1>1, <1>2 DEF CallSound
  <2> QED BY <1>2, <1>3, <2>1
<1>11. FreeTiles' = FreeTiles /\ ListsLinked' /\ BuddiesMerged'
  <2>1. \A v \in Marked : /\ isFree'[v] = isFree[v] /\ owner'[v] = owner[v]
                          /\ prev'[v] = prev[v] /\ next'[v] = next[v]
    BY <1>3, <1>10, MarkedIs
  <2>2. \A v \in Units \ Marked : owner'[v] \notin Lists \/ isFree'[v] \notin Classes
    BY <1>10, MarkedIs, SpaceSize
  <2>3. \A m \in Lists, d \in Classes : head'[m][d] \in {head[m][d], None}
    BY <1>2
  <2> QED BY <1>1, <1>8, <2>1, <2>2, <2>3, Overwritten
<1> HIDE DEF a, b
<1>12. Tiles' = (Tiles \ {a}) \cup {b}
  <2>1. AppTiles' = AppTiles \cup {b}
    <3>1. AppTiles' = {AppTile(q) : q \in app'}
      BY DEF AppTiles, AppTile
    <3> QED BY <1>2, <3>1 DEF AppTiles, b
  <2>2. ChunkTiles' = ChunkTiles /\ NewTiles' = NewTiles
    BY <1>2 DEF ChunkTiles, NewTiles, ChunkTile, NewTile
  <2> QED BY <1>3, <1>5, <1>7, <1>11, <2>1, <2>2, Places DEF Tiles
<1>13. Tiling(Tiles)' /\ AppHeaders' /\ \A m \in Lists \ {l} : CallSound(m)'
  <2>1. b[3] = a[3] /\ b[4] = a[4] /\ (a[1] = "hand" => a[2] = l)
    BY <1>3, <1>5
  <2>2. \A m \in Lists \ {l} : op'[m] = op[m]
    BY <1>7
  <2>3. \A s \in Units : s \notin Span(a) => isFree'[s] = isFree[s] /\ owner'[s] = owner[s]
    BY <1>3, <1>10
  <2>4. \A s \in Units, m \in Lists \ {l} : owner'[s] = m => owner[s] = m /\ isFree'[s] = isFree[s]
    BY <1>10, SpaceSize
  <2>5. \A q \in app' : (q \in app /\ AppTile(q) # a) \/ isFree'[q[1]] = Used
    BY <1>2, <1>3, <1>10 DEF AppTile
  <2>6. a \in Tiles
    BY <1>3
  <2> QED BY <1>12, <2>1, <2>2, <2>3, <2>4, <2>5, <2>6, Moved
<1>14. CallSound(l)'
  BY <1>6, <1>7 DEF CallSound, CallKinds
<1> QED BY <1>8, <1>9, <1>11, <1>13, <1>14 DEF IInv
LEMMA AddChunkStep ==
  ASSUME IInv, NEW l \in Lists, AddChunk(l)
  PROVE  IInv'
<1>1. CellTypes /\ SpaceTypes /\ ListsLinked /\ BuddiesMerged /\ CallSound(l) /\ Tiling(Tiles)
  BY Parts
<1> DEFINE u == op[l].unit
           a == HandTile(l, u, Top)
           b == ChunkTile(u)
           o == [kind |-> "coalesce"]
<1>2. /\ op[l].kind = "addChunk" /\ chunks' = <<u>> \o chunks
      /\ isFree' = [isFree EXCEPT ![u] = Garbage] /\ op' = [op EXCEPT ![l] = o]
      /\ UNCHANGED <<head, owner, prev, next, fresh, app>>
  BY DEF AddChunk
<1>3. a \in Tiles /\ a \in HandTiles /\ InHands(l, op[l]) = {a}
  BY <1>2 DEF Tiles, HandTiles, InHands, CallKinds
<1>4. /\ a[1] = "hand" /\ a[2] = l /\ a[3] = u /\ a[4] = Top
      /\ b[1] = "chunk" /\ b[3] = u /\ b[4] = Top
  BY DEF HandTile, ChunkTile
<1>5. u \in Units /\ u \in Span(a) /\ owner[u] = Nobody
  <2>1. IsTile(a)
    BY <1>1, <1>3 DEF Tiling
  <2>2. u \in Span(a)
    BY <1>4, <2>1, TileSpan
  <2> QED BY <1>1, <1>2, <1>4, <2>1, <2>2 DEF IsTile, CallSound
<1>6. o \in Ops /\ InHands(l, o) = {} /\ o.kind = "coalesce"
  BY DEF Ops, InHands, CallKinds
<1> HIDE DEF o
<1>7. /\ HandTiles' = HandTiles \ {a} /\ op'[l] = o
      /\ \A m \in Lists \ {l} : op'[m] = op[m]
  <2>1. /\ HandTiles' = (HandTiles \ InHands(l, op[l])) \cup InHands(l, o)
        /\ op'[l] = o /\ \A m \in Lists \ {l} : op'[m] = op[m]
    BY <1>1, <1>2, HandsChange
  <2> QED BY <1>3, <1>6, <2>1
<1>8. /\ CellTypes' /\ isFree'[u] = Garbage
      /\ \A v \in Units \ {u} : isFree'[v] = isFree[v]
  BY <1>1, <1>2, <1>5 DEF CellTypes
<1>9. /\ chunks' \in Seq(Units) /\ Len(chunks') = Len(chunks) + 1 /\ Len(chunks) \in Nat
      /\ chunks'[1] = u /\ \A i \in 2..Len(chunks') : chunks'[i] = chunks[i - 1] /\ i - 1 \in 1..Len(chunks)
      /\ \A i \in 1..Len(chunks) : chunks'[i + 1] = chunks[i] /\ i + 1 \in 1..Len(chunks')
  BY <1>1, <1>2, <1>5 DEF SpaceTypes
<1>10. \A i \in 1..Len(chunks) : chunks[i] # u
  <2>1. SUFFICES ASSUME NEW i \in 1..Len(chunks), chunks[i] = u PROVE FALSE
    OBVIOUS
  <2>2. b \in Tiles
    BY <2>1 DEF Tiles, ChunkTiles
  <2>3. Span(b) = Span(a)
    BY <1>4 DEF Span
  <2> HIDE DEF a, b
  <2> QED BY <1>1, <1>3, <1>4, <1>5, <2>2, <2>3, TilesMeet
<1>11. SpaceTypes'
  <2>1. op' \in [Lists -> Ops]
    BY <1>1, <1>2, <1>6 DEF SpaceTypes
  <2>2. ASSUME NEW i \in 1..Len(chunks'), NEW j \in 1..Len(chunks'), chunks'[i] = chunks'[j]
        PROVE  i = j
    <3>1. CASE i = 1 \/ j = 1
      BY <1>9, <1>10, <2>2, <3>1
    <3>2. CASE i # 1 /\ j # 1
      <4>1. i - 1 \in 1..Len(chunks) /\ j - 1 \in 1..Len(chunks) /\ chunks[i - 1] = chunks[j - 1]
        BY <1>9, <2>2, <3>2
      <4>2. i - 1 = j - 1
        BY <1>1, <4>1 DEF SpaceTypes
      <4> QED BY <1>9, <4>2
    <3> QED BY <3>1, <3>2
  <2> QED BY <1>1, <1>2, <1>9, <2>1, <2>2 DEF SpaceTypes
<1>12. FreeTiles' = FreeTiles /\ ListsLinked' /\ BuddiesMerged'
  <2>1. u \notin Marked
    BY <1>5, MarkedIs, SpaceSize
  <2>2. \A v \in Marked : isFree'[v] = isFree[v]
    BY <1>8, <2>1, MarkedIs
  <2>3. \A v \in Units \ Marked : owner'[v] \notin Lists \/ isFree'[v] \notin Classes
    <3>1. owner' = owner
      BY <1>2
    <3>2. \A v \in Units \ Marked : owner[v] \notin Lists \/ isFree[v] \notin Classes
      BY MarkedIs
    <3>3. owner[u] \notin Lists
      BY <1>5, SpaceSize
    <3> QED BY <1>8, <3>1, <3>2, <3>3
  <2>4. \A v \in Marked : owner'[v] = owner[v] /\ prev'[v] = prev[v] /\ next'[v] = next[v]
    BY <1>2
  <2>5. \A m \in Lists, d \in Classes : head'[m][d] \in {head[m][d], None}
    BY <1>2
  <2> QED BY <1>1, <1>8, <2>2, <2>3, <2>4, <2>5, Overwritten
<1> HIDE DEF a, b
<1>13. Tiles' = (Tiles \ {a}) \cup {b}
  <2>1. ChunkTiles' = ChunkTiles \cup {b}
    <3>1. ChunkTiles' = {ChunkTile(chunks'[i]) : i \in 1..Len(chunks')}
      BY DEF ChunkTiles, ChunkTile
    <3>2. ASSUME NEW t \in ChunkTiles' PROVE t \in ChunkTiles \cup {b}
      <4>1. PICK i \in 1..Len(chunks') : t = ChunkTile(chunks'[i])
        BY <3>1
      <4>2. CASE i = 1
        BY <1>9, <4>1, <4>2 DEF b
      <4>3. CASE i # 1
        BY <1>9, <4>1, <4>3 DEF ChunkTiles
      <4> QED BY <4>2, <4>3
    <3>3. ASSUME NEW t \in ChunkTiles PROVE t \in ChunkTiles'
      <4>1. PICK i \in 1..Len(chunks) : t = ChunkTile(chunks[i])
        BY DEF ChunkTiles
      <4>2. i + 1 \in 1..Len(chunks') /\ t = ChunkTile(chunks'[i + 1])
        BY <1>9, <4>1
      <4> QED BY <3>1, <4>2
    <3>4. b \in ChunkTiles'
      <4>1. 1 \in 1..Len(chunks') /\ b = ChunkTile(chunks'[1])
        BY <1>9 DEF b
      <4> QED BY <3>1, <4>1
    <3> QED BY <3>2, <3>3, <3>4
  <2>2. AppTiles' = AppTiles /\ NewTiles' = NewTiles
    BY <1>2 DEF AppTiles, NewTiles, AppTile, NewTile
  <2> QED BY <1>3, <1>4, <1>7, <1>12, <2>1, <2>2, Places DEF Tiles
<1>14. Tiling(Tiles)' /\ AppHeaders' /\ \A m \in Lists \ {l} : CallSound(m)'
  <2>1. b[3] = a[3] /\ b[4] = a[4] /\ (a[1] = "hand" => a[2] = l)
    BY <1>4
  <2>2. \A m \in Lists \ {l} : op'[m] = op[m]
    BY <1>7
  <2>3. \A s \in Units : s \notin Span(a) => isFree'[s] = isFree[s] /\ owner'[s] = owner[s]
    BY <1>2, <1>5, <1>8
  <2>4. \A s \in Units, m \in Lists \ {l} : owner'[s] = m => owner[s] = m /\ isFree'[s] = isFree[s]
    <3>1. owner' = owner
      BY <1>2
    <3> QED BY <1>5, <1>8, <3>1, SpaceSize
  <2>5. \A q \in app' : (q \in app /\ AppTile(q) # a) \/ isFree'[q[1]] = Used
    BY <1>2, <1>4 DEF AppTile
  <2>6. a \in Tiles
    BY <1>3
  <2> QED BY <1>13, <2>1, <2>2, <2>3, <2>4, <2>5, <2>6, Moved
<1>15. CallSound(l)'
  BY <1>6, <1>7 DEF CallSound, CallKinds
<1> QED BY <1>8, <1>11, <1>12, <1>14, <1>15 DEF IInv

LEMMA SettleStep ==
  ASSUME IInv, NEW l \in Lists, Settle(l)
  PROVE  IInv'
<1>1. CellTypes /\ SpaceTypes /\ ListsLinked /\ BuddiesMerged /\ CallSound(l)
  BY Parts
<1> DEFINE u == op[l].unit
           c == op[l].class
           a == HandTile(l, u, c)
           b == FreeTile(u, c)
           o == IF op[l].then = None THEN [kind |-> "coalesce"] ELSE Allocating(op[l].then)
<1>2. /\ op[l].kind = "push" /\ Push(l, u, c) /\ op' = [op EXCEPT ![l] = o]
      /\ UNCHANGED <<chunks, fresh, app>>
  BY DEF Settle
<1>3. /\ a \in Tiles /\ a \in HandTiles /\ InHands(l, op[l]) = {a}
      /\ u \in Units /\ c \in Classes /\ Aligned(u, c) /\ u \in Cell(u, c)
      /\ a[1] = "hand" /\ a[2] = l /\ a[3] = u /\ a[4] = c /\ Span(a) = Cell(u, c)
      /\ Cell(u, c) \cap Marked = {}
  BY <1>2, InHand1 DEF CallKinds
<1>4. o \in Ops /\ InHands(l, o) = {} /\ o.kind \in {"alloc", "coalesce"}
  <2>1. op[l].then \in Requests \cup {None}
    BY <1>1, <1>2, OpForms
  <2>2. CASE op[l].then = None
    BY <2>2 DEF Ops, InHands, CallKinds
  <2>3. CASE op[l].then # None
    BY <2>1, <2>3 DEF Ops, InHands, CallKinds, Allocating
  <2> QED BY <2>2, <2>3
<1> HIDE DEF o
<1>5. /\ HandTiles' = HandTiles \ {a} /\ op'[l] = o
      /\ \A m \in Lists \ {l} : op'[m] = op[m]
  <2>1. /\ HandTiles' = (HandTiles \ InHands(l, op[l])) \cup InHands(l, o)
        /\ op'[l] = o /\ \A m \in Lists \ {l} : op'[m] = op[m]
    BY <1>1, <1>2, HandsChange
  <2> QED BY <1>3, <1>4, <2>1
<1>6. /\ CellTypes' /\ ListsLinked' /\ BuddiesMerged'
      /\ FreeTiles' = FreeTiles \cup {b}
      /\ \A v \in Units \ {u} : isFree'[v] = isFree[v] /\ owner'[v] = owner[v]
      /\ owner'[u] = l
  <2>1. u \notin Marked
    BY <1>3
  <2>2. c < Top => ~(owner[Sibling(u, c)] = l /\ isFree[Sibling(u, c)] = c)
    BY <1>1, <1>2 DEF CallSound
  <2> HIDE DEF u, c
  <2> QED BY <1>1, <1>2, <1>3, <2>1, <2>2, MarkedAligned, Pushed
<1>7. SpaceTypes'
  <2>1. op' \in [Lists -> Ops]
    BY <1>1, <1>2, <1>4 DEF SpaceTypes
  <2> QED BY <1>1, <1>2, <2>1 DEF SpaceTypes
<1>8. b[1] = "free" /\ b[3] = u /\ b[4] = c
  BY DEF FreeTile
<1> HIDE DEF a, b
<1>9. Tiles' = (Tiles \ {a}) \cup {b}
  <2>1. AppTiles' = AppTiles /\ ChunkTiles' = ChunkTiles /\ NewTiles' = NewTiles
    BY <1>2 DEF AppTiles, ChunkTiles, NewTiles, AppTile, ChunkTile, NewTile
  <2> QED BY <1>3, <1>5, <1>6, <1>8, <2>1, Places DEF Tiles
<1>10. Tiling(Tiles)' /\ AppHeaders' /\ \A m \in Lists \ {l} : CallSound(m)'
  <2>1. b[3] = a[3] /\ b[4] = a[4] /\ (a[1] = "hand" => a[2] = l)
    BY <1>3, <1>8
  <2>2. \A m \in Lists \ {l} : op'[m] = op[m]
    BY <1>5
  <2>3. \A s \in Units : s \notin Span(a) => isFree'[s] = isFree[s] /\ owner'[s] = owner[s]
    BY <1>3, <1>6
  <2>4. \A s \in Units, m \in Lists \ {l} : owner'[s] = m => owner[s] = m /\ isFree'[s] = isFree[s]
    BY <1>6
  <2>5. \A q \in app' : (q \in app /\ AppTile(q) # a) \/ isFree'[q[1]] = Used
    BY <1>2, <1>3 DEF AppTile
  <2>6. a \in Tiles
    BY <1>3
  <2> QED BY <1>9, <2>1, <2>2, <2>3, <2>4, <2>5, <2>6, Moved
<1>11. CallSound(l)'
  BY <1>4, <1>5 DEF CallSound, CallKinds
<1> QED BY <1>6, <1>7, <1>10, <1>11 DEF IInv

LEMMA SplitStep ==
  ASSUME IInv, NEW l \in Lists, Split(l)
  PROVE  IInv'
<1>1. CellTypes /\ SpaceTypes /\ ListsLinked /\ BuddiesMerged /\ CallSound(l)
  BY Parts
<1> DEFINE u == op[l].unit
           k == op[l].class
           c == k - 1
           s == Sibling(u, c)
           a == HandTile(l, u, k)
           b == HandTile(l, u, c)
           f == FreeTile(s, c)
           o == [op[l] EXCEPT !.class = c]
<1>2. /\ op[l].kind = "split" /\ k > op[l].then /\ Push(l, s, c)
      /\ op' = [op EXCEPT ![l] = o] /\ UNCHANGED <<chunks, fresh, app>>
  BY DEF Split
<1>3. /\ a \in Tiles /\ a \in HandTiles /\ InHands(l, op[l]) = {a}
      /\ u \in Units /\ k \in Classes /\ Aligned(u, k) /\ u \in Cell(u, k)
      /\ a[1] = "hand" /\ a[2] = l /\ a[3] = u /\ a[4] = k /\ Span(a) = Cell(u, k)
      /\ Cell(u, k) \cap Marked = {}
  BY <1>2, InHand1 DEF CallKinds
<1>4. c \in Classes /\ c < Top /\ c + 1 = k /\ c \in Nat
  <2>1. op[l].then \in Requests
    BY <1>1, <1>2, OpForms
  <2>2. op[l].then \in 0..Top /\ k \in 0..Top
    BY <1>3, <2>1, SizesAssumption DEF Classes
  <2> QED BY <1>2, <2>2, SizesAssumption DEF Classes
<1>5. /\ s \in Units /\ Aligned(s, c) /\ Aligned(u, c) /\ Sibling(s, c) = u /\ s # u
      /\ Cell(u, c) \cup Cell(s, c) = Cell(u, k) /\ Cell(u, c) \cap Cell(s, c) = {}
      /\ s \in Cell(s, c)
  <2>1. u \in Nat
    BY <1>3, CellIn
  <2> HIDE DEF u, c, k
  <2>2. Aligned(u, c) /\ Parent(u, c) = u
    BY <1>3, <1>4, <2>1, BuddyHalves
  <2>3. /\ s \in Units /\ Aligned(s, c) /\ Sibling(s, c) = u /\ s # u
        /\ Cell(u, c) \cup Cell(s, c) = Cell(u, k) /\ Cell(u, c) \cap Cell(s, c) = {}
    BY <1>3, <1>4, <2>2, BuddyIn
  <2> HIDE DEF s
  <2>4. s \in Cell(s, c)
    BY <1>4, <2>3, CellIn
  <2> QED BY <2>2, <2>3, <2>4
<1>6. o \in Ops /\ o.kind = "split" /\ o.unit = u /\ o.class = c
  <2>1. op[l] \in Ops
    BY <1>1 DEF SpaceTypes
  <2>2. op[l] \in [kind : {"split"}, unit : Units, class : Classes, then : Requests]
    BY <1>2, <2>1 DEF Ops, Idle
  <2>3. o \in [kind : {"split"}, unit : Units, class : Classes, then : Requests]
    BY <1>4, <2>2
  <2> QED BY <2>2, <2>3 DEF Ops
<1> HIDE DEF o
<1>7. /\ HandTiles' = (HandTiles \ {a}) \cup {b} /\ op'[l] = o
      /\ \A m \in Lists \ {l} : op'[m] = op[m]
  <2>1. /\ HandTiles' = (HandTiles \ InHands(l, op[l])) \cup InHands(l, o)
        /\ op'[l] = o /\ \A m \in Lists \ {l} : op'[m] = op[m]
    BY <1>1, <1>2, HandsChange
  <2>2. InHands(l, o) = {b}
    BY <1>6 DEF InHands, CallKinds
  <2> QED BY <1>3, <2>1, <2>2
<1>8. isFree[u] = Used
  BY <1>1, <1>2 DEF CallSound
<1>9. /\ CellTypes' /\ ListsLinked' /\ BuddiesMerged'
      /\ FreeTiles' = FreeTiles \cup {f}
      /\ \A v \in Units \ {s} : isFree'[v] = isFree[v] /\ owner'[v] = owner[v]
      /\ owner'[s] = l
  <2>1. s \notin Marked
    BY <1>3, <1>5
  <2>2. c < Top => ~(owner[Sibling(s, c)] = l /\ isFree[Sibling(s, c)] = c)
    BY <1>4, <1>5, <1>8 DEF Used
  <2> HIDE DEF s, c
  <2> QED BY <1>1, <1>2, <1>4, <1>5, <2>1, <2>2, MarkedAligned, Pushed
<1>10. SpaceTypes'
  <2>1. op' \in [Lists -> Ops]
    BY <1>1, <1>2, <1>6 DEF SpaceTypes
  <2> QED BY <1>1, <1>2, <2>1 DEF SpaceTypes
<1>11. /\ b[1] = "hand" /\ b[3] = u /\ b[4] = c /\ Span(b) = Cell(u, c)
       /\ f[1] = "free" /\ f[3] = s /\ f[4] = c /\ Span(f) = Cell(s, c)
  BY DEF FreeTile, HandTile, Span
<1> HIDE DEF a, b, f
<1> DEFINE A == {a}
           B == {b, f}
<1>12. Tiles' = (Tiles \ A) \cup B
  <2>1. AppTiles' = AppTiles /\ ChunkTiles' = ChunkTiles /\ NewTiles' = NewTiles
    BY <1>2 DEF AppTiles, ChunkTiles, NewTiles, AppTile, ChunkTile, NewTile
  <2> QED BY <1>3, <1>7, <1>9, <1>11, <2>1, Places DEF Tiles
<1>13. (\A t \in B : IsTile(t)) /\ Apart(B)
  BY <1>3, <1>4, <1>5, <1>11 DEF IsTile, Apart
<1>14. UNION {Span(t) : t \in A} = UNION {Span(t) : t \in B}
  <2>1. UNION {Span(t) : t \in A} = Span(a) /\ UNION {Span(t) : t \in B} = Span(b) \cup Span(f)
    OBVIOUS
  <2> QED BY <1>3, <1>5, <1>11, <2>1
<1>15. A \in SUBSET Tiles /\ \A t \in A : t[1] = "hand" => t[2] = l
  BY <1>3
<1>16. \A v \in Units : (\A t \in A : v \notin Span(t)) =>
         isFree'[v] = isFree[v] /\ owner'[v] = owner[v]
  BY <1>3, <1>5, <1>9
<1>17. \A v \in Units, m \in Lists \ {l} : owner'[v] = m => owner[v] = m /\ isFree'[v] = isFree[v]
  BY <1>9
<1>18. \A r \in app' : (r \in app /\ AppTile(r) \notin A) \/ isFree'[r[1]] = Used
  BY <1>2, <1>3 DEF AppTile
<1>19. \A m \in Lists \ {l} : op'[m] = op[m]
  BY <1>7
<1> HIDE DEF A, B
<1>20. Tiling(Tiles)' /\ AppHeaders' /\ \A m \in Lists \ {l} : CallSound(m)'
  BY <1>12, <1>13, <1>14, <1>15, <1>16, <1>17, <1>18, <1>19, Framed
<1>21. CallSound(l)'
  <2>1. isFree'[u] = Used
    BY <1>3, <1>5, <1>8, <1>9
  <2> QED BY <1>6, <1>7, <2>1 DEF CallSound, CallKinds
<1> QED BY <1>9, <1>10, <1>20, <1>21 DEF IInv

LEMMA MergeStep ==
  ASSUME IInv, NEW l \in Lists, Merge(l)
  PROVE  IInv'
<1>1. CellTypes /\ SpaceTypes /\ ListsLinked /\ BuddiesMerged /\ CallSound(l)
  BY Parts
<1> DEFINE u == op[l].unit
           c == op[l].class
           s == Sibling(u, c)
           p == Parent(u, c)
           a == HandTile(l, u, c)
           f == FreeTile(s, c)
           b == HandTile(l, p, c + 1)
           o == Releasing("look", p, c + 1, op[l].then)
<1>2. /\ op[l].kind = "owner" /\ owner[s] = l /\ Unlink(l, s, c)
      /\ op' = [op EXCEPT ![l] = o] /\ UNCHANGED <<chunks, fresh, app>>
  BY DEF Merge, Owns
<1>3. /\ a \in Tiles /\ a \in HandTiles /\ InHands(l, op[l]) = {a}
      /\ u \in Units /\ c \in Classes /\ Aligned(u, c) /\ u \in Cell(u, c)
      /\ a[1] = "hand" /\ a[2] = l /\ a[3] = u /\ a[4] = c /\ Span(a) = Cell(u, c)
      /\ Cell(u, c) \cap Marked = {}
  BY <1>2, InHand1 DEF CallKinds
<1>4. c < Top /\ isFree[s] = c /\ isFree[u] = Used
  BY <1>1, <1>2 DEF CallSound, CallKinds
<1>5. /\ s \in Units /\ Aligned(s, c) /\ s # u
      /\ p \in Units /\ Aligned(p, c + 1) /\ c + 1 \in Classes /\ p \in {u, s}
      /\ Cell(u, c) \cup Cell(s, c) = Cell(p, c + 1)
  BY <1>3, <1>4, BuddyIn
<1>6. s \in Marked /\ s \in Cell(s, c)
  BY <1>2, <1>3, <1>4, <1>5, MarkedIs, CellIn
<1>7. o \in Ops /\ o.kind = "look" /\ o.unit = p /\ o.class = c + 1
  <2>1. op[l].then \in Requests \cup {None}
    BY <1>1, <1>2, OpForms
  <2> HIDE DEF p, c
  <2> QED BY <1>5, <2>1 DEF Ops, Releasing
<1> HIDE DEF o
<1>8. /\ HandTiles' = (HandTiles \ {a}) \cup {b} /\ op'[l] = o
      /\ \A m \in Lists \ {l} : op'[m] = op[m]
  <2>1. /\ HandTiles' = (HandTiles \ InHands(l, op[l])) \cup InHands(l, o)
        /\ op'[l] = o /\ \A m \in Lists \ {l} : op'[m] = op[m]
    BY <1>1, <1>2, HandsChange
  <2>2. InHands(l, o) = {b}
    BY <1>7 DEF InHands, CallKinds
  <2> QED BY <1>3, <2>1, <2>2
<1>9. /\ CellTypes' /\ ListsLinked' /\ BuddiesMerged'
      /\ FreeTiles' = FreeTiles \ {f}
      /\ \A v \in Units \ {s} : isFree'[v] = isFree[v] /\ owner'[v] = owner[v]
      /\ isFree'[s] = Used /\ owner'[s] = Nobody
  <2> HIDE DEF s, c
  <2> QED BY <1>1, <1>2, <1>3, <1>4, <1>6, Unlinked
<1>10. SpaceTypes'
  <2>1. op' \in [Lists -> Ops]
    BY <1>1, <1>2, <1>7 DEF SpaceTypes
  <2> QED BY <1>1, <1>2, <2>1 DEF SpaceTypes
<1>11. /\ b[1] = "hand" /\ b[3] = p /\ b[4] = c + 1 /\ Span(b) = Cell(p, c + 1)
       /\ f[1] = "free" /\ f[3] = s /\ f[4] = c /\ Span(f) = Cell(s, c)
  BY DEF FreeTile, HandTile, Span
<1>12. f \in FreeTiles
  BY <1>4, <1>6 DEF FreeTiles
<1> HIDE DEF a, b, f
<1> DEFINE A == {a, f}
           B == {b}
<1>13. Tiles' = (Tiles \ A) \cup B
  <2>1. AppTiles' = AppTiles /\ ChunkTiles' = ChunkTiles /\ NewTiles' = NewTiles
    BY <1>2 DEF AppTiles, ChunkTiles, NewTiles, AppTile, ChunkTile, NewTile
  <2> QED BY <1>3, <1>8, <1>9, <1>11, <2>1, Places DEF Tiles
<1>14. (\A t \in B : IsTile(t)) /\ Apart(B)
  BY <1>5, <1>11 DEF IsTile, Apart
<1>15. UNION {Span(t) : t \in A} = UNION {Span(t) : t \in B}
  <2>1. UNION {Span(t) : t \in A} = Span(a) \cup Span(f) /\ UNION {Span(t) : t \in B} = Span(b)
    OBVIOUS
  <2> QED BY <1>3, <1>5, <1>11, <2>1
<1>16. A \in SUBSET Tiles /\ \A t \in A : t[1] = "hand" => t[2] = l
  BY <1>3, <1>11, <1>12 DEF Tiles
<1>17. \A v \in Units : (\A t \in A : v \notin Span(t)) =>
         isFree'[v] = isFree[v] /\ owner'[v] = owner[v]
  BY <1>6, <1>9, <1>11
<1>18. \A v \in Units, m \in Lists \ {l} : owner'[v] = m => owner[v] = m /\ isFree'[v] = isFree[v]
  BY <1>9, SpaceSize
<1>19. \A r \in app' : (r \in app /\ AppTile(r) \notin A) \/ isFree'[r[1]] = Used
  BY <1>2, <1>3, <1>11 DEF AppTile
<1>20. \A m \in Lists \ {l} : op'[m] = op[m]
  BY <1>8
<1> HIDE DEF A, B
<1>21. Tiling(Tiles)' /\ AppHeaders' /\ \A m \in Lists \ {l} : CallSound(m)'
  BY <1>13, <1>14, <1>15, <1>16, <1>17, <1>18, <1>19, <1>20, Framed
<1>22. CallSound(l)'
  <2>1. isFree'[p] = Used
    BY <1>3, <1>4, <1>5, <1>9
  <2> QED BY <1>7, <1>8, <2>1 DEF CallSound, CallKinds
<1> QED BY <1>9, <1>10, <1>21, <1>22 DEF IInv
----------------------------------------------------------------------------
\* The invariant

LEMMA InitSound == Init => IInv
<1> SUFFICES ASSUME Init PROVE IInv
  OBVIOUS
<1>1. Marked = {}
  BY SpaceSize DEF Init, Marked
<1>2. CellTypes
  BY DEF Init, CellTypes, Links, Owners
<1>3. SpaceTypes
  BY SpaceSize DEF Init, SpaceTypes, Ops
<1>4. ListsLinked /\ BuddiesMerged
  BY <1>1 DEF Init, ListsLinked, BuddiesMerged
<1>5. AppHeaders /\ \A l \in Lists : CallSound(l)
  BY DEF Init, AppHeaders, CallSound, Idle, CallKinds
<1>6. Tiles = {NewTile(k) : k \in 0..(NumChunks - 1)}
  <2>1. FreeTiles = {} /\ AppTiles = {} /\ ChunkTiles = {}
    BY <1>1 DEF Init, FreeTiles, AppTiles, ChunkTiles
  <2>2. HandTiles = {}
    BY DEF Init, HandTiles, InHands, CallKinds, Idle
  <2> QED BY <2>1, <2>2 DEF Init, Tiles, NewTiles
<1>7. \A t \in Tiles : IsTile(t)
  BY <1>6, ChunkIn
<1>8. ASSUME NEW s \in Tiles, NEW t \in Tiles, NEW w \in Span(s), w \in Span(t) PROVE s = t
  <2>1. PICK j \in 0..(NumChunks - 1), k \in 0..(NumChunks - 1) : s = NewTile(j) /\ t = NewTile(k)
    BY <1>6
  <2> DEFINE u == j * ChunkSize
             v == k * ChunkSize
  <2>2. /\ u \in Nat /\ v \in Nat /\ Aligned(u, Top) /\ Aligned(v, Top)
        /\ w \in Cell(u, Top) /\ w \in Cell(v, Top) /\ u \in Cell(u, Top)
    <3>1. u \in Nat /\ v \in Nat
      BY ChunkIn
    <3>2. IsTile(s) /\ IsTile(t)
      BY <1>7
    <3>3. Aligned(u, Top) /\ Aligned(v, Top) /\ w \in Cell(u, Top) /\ w \in Cell(v, Top)
      BY <1>8, <2>1, <3>2 DEF IsTile, NewTile, Span
    <3>4. u \in Span(s)
      BY <2>1, <3>2, TileSpan DEF NewTile
    <3> QED BY <2>1, <3>1, <3>3, <3>4 DEF Span, NewTile
  <2> HIDE DEF u, v
  <2>3. Top \in 0..Top /\ Top \in Nat
    BY SpaceSize
  <2>4. Cell(u, Top) \subseteq Cell(v, Top)
    BY <2>2, <2>3, AlignedNested
  <2>5. u = v
    BY <2>2, <2>3, <2>4, AlignedStart
  <2> QED BY <2>1, <2>5 DEF u, v, NewTile
<1>9. Apart(Tiles)
  BY <1>8 DEF Apart
<1>10. ASSUME NEW u \in Units PROVE \E t \in Tiles : u \in Span(t)
  <2>1. PICK k \in 0..(NumChunks - 1) : u \in Cell(k * ChunkSize, Top)
    BY UnitChunk
  <2>2. NewTile(k) \in Tiles
    BY <1>6
  <2>3. Span(NewTile(k)) = Cell(k * ChunkSize, Top)
    BY DEF Span, NewTile
  <2> QED BY <2>1, <2>2, <2>3
<1> QED BY <1>2, <1>3, <1>4, <1>5, <1>7, <1>9, <1>10 DEF IInv, Tiling

LEMMA NextSound == IInv /\ [Next]_vars => IInv'
<1> SUFFICES ASSUME IInv, [Next]_vars PROVE IInv'
  OBVIOUS
<1>1. CASE UNCHANGED vars
  <2>1. UNCHANGED <<head, isFree, owner, prev, next, chunks, fresh, app, op>>
    BY <1>1 DEF vars
  <2>2. CellTypes' /\ SpaceTypes' /\ ListsLinked' /\ BuddiesMerged' /\ AppHeaders'
        /\ \A l \in Lists : CallSound(l)'
    BY <2>1, Parts
       DEF CellTypes, SpaceTypes, ListsLinked, BuddiesMerged, AppHeaders, CallSound, Marked
  <2>3. Tiles' = Tiles
    BY <2>1 DEF Tiles, FreeTiles, AppTiles, ChunkTiles, NewTiles, HandTiles, Marked, InHands,
                FreeTile, AppTile, ChunkTile, NewTile, HandTile
  <2>4. Tiling(Tiles)'
    BY <2>3, Parts DEF Tiling, Apart, IsTile, Span
  <2> QED BY <2>2, <2>4 DEF IInv
<1>2. ASSUME NEW l \in Lists,
        \/ AllocCall(l) \/ Pop(l) \/ Split(l) \/ HandOut(l)
        \/ TakeCoalesced(l) \/ MissCoalesced(l) \/ AcquireBlock(l) \/ AllocFails(l)
        \/ FreeCall(l) \/ Look(l) \/ NotMine(l) \/ Merge(l) \/ Settle(l)
        \/ PopChunk(l) \/ AddChunk(l) \/ FreeDone(l) \/ Reincarnate(l)
      PROVE  IInv'
  BY <1>2, QuietSteps, LookStep, PopSteps, FreeCallStep, TakeCoalescedStep, AcquireBlockStep,
     HandOutStep, AddChunkStep, SettleStep, SplitStep, MergeStep
<1> QED BY <1>1, <1>2 DEF Next

\* The units are tiled, the lists linked, and every call may rely on what it
\* has read, in every reachable state.
THEOREM IInvInvariant == Spec => []IInv
BY InitSound, NextSound, PTL DEF Spec

----------------------------------------------------------------------------
\* What the invariant says

LEMMA AtMostOne ==
  ASSUME NEW S, NEW x, S \subseteq {x}
  PROVE  Cardinality(S) = IF x \in S THEN 1 ELSE 0
<1>1. CASE x \in S
  <2>1. S = {x}
    BY <1>1
  <2> QED BY <1>1, <2>1, FS_Singleton
<1>2. CASE x \notin S
  <2>1. S = {}
    BY <1>2
  <2> QED BY <1>2, <2>1, FS_EmptySet
<1> QED BY <1>1, <1>2

\* A unit is new as long as its chunk is.
LEMMA NewUnits ==
  ASSUME SpaceTypes, NEW u \in Units
  PROVE  u >= fresh * ChunkSize <=> \E t \in NewTiles : u \in Span(t)
<1>1. PICK n \in Nat \ {0} : n = ChunkSize
  BY SpaceSize
<1>2. fresh \in 0..NumChunks /\ fresh \in Nat
  BY SpaceSize DEF SpaceTypes
<1>3. PICK k \in 0..(NumChunks - 1) : u \in Cell(k * ChunkSize, Top)
  BY UnitChunk
<1>4. k * n <= u /\ u < k * n + n /\ k * n \in Nat /\ u \in Int
  <2> DEFINE w == k * n
  <2>1. Cell(k * ChunkSize, Top) = w..(w + n - 1) /\ w \in Nat
    BY <1>1, ChunkIn
  <2> HIDE DEF w
  <2>2. u \in w..(w + n - 1)
    BY <1>3, <2>1
  <2>3. w <= u /\ u < w + n /\ u \in Int
    BY <2>1, <2>2
  <2> QED BY <2>1, <2>3 DEF w
<1>5. ASSUME u >= fresh * n PROVE \E t \in NewTiles : u \in Span(t)
  <2>1. k >= fresh
    <3>1. ASSUME k < fresh PROVE FALSE
      <4> DEFINE d == fresh - (k + 1)
      <4>1. d \in Nat /\ fresh = k + 1 + d
        BY <1>2, <3>1
      <4> HIDE DEF d
      <4>2. fresh * n = k * n + n + d * n /\ d * n \in Nat
        BY <4>1
      <4> QED BY <1>4, <1>5, <4>2
    <3> QED BY <1>2, <3>1
  <2>2. k \in fresh..(NumChunks - 1)
    BY <1>2, <2>1
  <2>3. NewTile(k) \in NewTiles
    BY <2>2 DEF NewTiles
  <2>4. Span(NewTile(k)) = Cell(k * ChunkSize, Top)
    BY DEF Span, NewTile
  <2> QED BY <1>3, <2>3, <2>4
<1>6. ASSUME NEW t \in NewTiles, u \in Span(t) PROVE u >= fresh * n
  <2>1. PICK j \in fresh..(NumChunks - 1) : t = NewTile(j)
    BY DEF NewTiles
  <2>2. j \in 0..(NumChunks - 1)
    BY <1>2, <2>1
  <2>3. j * n <= u /\ j * n \in Nat
    BY <1>1, <1>6, <2>1, <2>2, ChunkIn DEF Span, NewTile
  <2>4. j * n >= fresh * n
    <3> DEFINE d == j - fresh
    <3>1. d \in Nat /\ j = fresh + d
      BY <1>2, <2>1
    <3> HIDE DEF d
    <3>2. j * n = fresh * n + d * n /\ d * n \in Nat /\ fresh * n \in Nat
      BY <1>2, <3>1
    <3> QED BY <3>2
  <2>5. fresh * n \in Nat
    BY <1>2
  <2> QED BY <1>4, <2>3, <2>4, <2>5
<1> QED BY <1>1, <1>5, <1>6

LEMMA Conserved ==
  ASSUME IInv
  PROVE  UnitsConserved
<1>1. SpaceTypes /\ CellTypes /\ Tiling(Tiles)
  BY Parts
<1> SUFFICES ASSUME NEW u \in Units
    PROVE Cardinality({f \in FreeCells : u \in Cell(f[1], f[2])})
          + Cardinality({r \in app : u \in Cell(r[1], r[2])})
          + Cardinality({i \in 1..Len(chunks) : u \in Cell(chunks[i], Top)})
          + Cardinality({l \in Lists : u \in InHand(l)})
          + (IF u >= fresh * ChunkSize THEN 1 ELSE 0) = 1
  BY DEF UnitsConserved
<1>2. PICK t \in Tiles : u \in Span(t)
  BY <1>1 DEF Tiling
<1>3. \A s \in Tiles : u \in Span(s) => s = t
  BY <1>1, <1>2, TilesMeet
<1> DEFINE F == {f \in FreeCells : u \in Cell(f[1], f[2])}
           R == {r \in app : u \in Cell(r[1], r[2])}
           C == {i \in 1..Len(chunks) : u \in Cell(chunks[i], Top)}
           H == {l \in Lists : u \in InHand(l)}
           N == IF u >= fresh * ChunkSize THEN 1 ELSE 0
<1>4. Cardinality(F) = IF t[1] = "free" THEN 1 ELSE 0
  <2> DEFINE x == <<t[3], t[4]>>
  <2>1. ASSUME NEW f \in F PROVE f = x /\ t[1] = "free"
    <3>1. PICK v \in Marked : f = <<v, isFree[v]>>
      BY DEF FreeCells
    <3> DEFINE s == FreeTile(v, isFree[v])
    <3>2. s \in Tiles /\ s[1] = "free" /\ s[3] = v /\ s[4] = isFree[v] /\ u \in Span(s)
      BY <3>1 DEF Tiles, FreeTiles, FreeTile, Span
    <3>3. s = t
      BY <1>3, <3>2
    <3> QED BY <3>1, <3>2, <3>3
  <2>2. ASSUME t[1] = "free" PROVE x \in F
    <3>1. t \in FreeTiles
      BY <2>2, Places DEF Tiles
    <3>2. PICK v \in Marked : t = FreeTile(v, isFree[v])
      BY <3>1 DEF FreeTiles
    <3> QED BY <1>2, <3>2 DEF FreeCells, FreeTile, Span
  <2> HIDE DEF F, x
  <2>3. F \subseteq {x} /\ (x \in F <=> t[1] = "free")
    BY <2>1, <2>2
  <2> QED BY <2>3, AtMostOne
<1>5. Cardinality(R) = IF t[1] = "app" THEN 1 ELSE 0
  <2> DEFINE x == <<t[3], t[4]>>
  <2>1. ASSUME NEW r \in R PROVE r = x /\ t[1] = "app"
    <3> DEFINE s == AppTile(r)
    <3>1. s \in Tiles /\ s[1] = "app" /\ s[3] = r[1] /\ s[4] = r[2] /\ u \in Span(s)
      BY DEF Tiles, AppTiles, AppTile, Span
    <3>2. r = <<r[1], r[2]>>
      BY <1>1 DEF SpaceTypes
    <3>3. s = t
      BY <1>3, <3>1
    <3> QED BY <3>1, <3>2, <3>3
  <2>2. ASSUME t[1] = "app" PROVE x \in R
    <3>1. t \in AppTiles
      BY <2>2, Places DEF Tiles
    <3>2. PICK r \in app : t = AppTile(r)
      BY <3>1 DEF AppTiles
    <3>3. r = <<r[1], r[2]>>
      BY <1>1 DEF SpaceTypes
    <3> QED BY <1>2, <3>2, <3>3 DEF AppTile, Span
  <2> HIDE DEF R, x
  <2>3. R \subseteq {x} /\ (x \in R <=> t[1] = "app")
    BY <2>1, <2>2
  <2> QED BY <2>3, AtMostOne
<1>6. Cardinality(C) = IF t[1] = "chunk" THEN 1 ELSE 0
  <2>1. ASSUME NEW i \in C PROVE t[1] = "chunk" /\ chunks[i] = t[3]
    <3> DEFINE s == ChunkTile(chunks[i])
    <3>1. s \in Tiles /\ s[1] = "chunk" /\ s[3] = chunks[i] /\ u \in Span(s)
      BY DEF Tiles, ChunkTiles, ChunkTile, Span
    <3> QED BY <1>3, <3>1
  <2>2. CASE t[1] # "chunk"
    <3>1. C = {}
      BY <2>1, <2>2
    <3> QED BY <2>2, <3>1, FS_EmptySet
  <2>3. CASE t[1] = "chunk"
    <3>1. t \in ChunkTiles
      BY <2>3, Places DEF Tiles
    <3>2. PICK i \in 1..Len(chunks) : t = ChunkTile(chunks[i])
      BY <3>1 DEF ChunkTiles
    <3>3. i \in C
      BY <1>2, <3>2 DEF ChunkTile, Span
    <3>4. \A j \in C : j = i
      BY <1>1, <2>1, <3>2, <3>3 DEF SpaceTypes
    <3> HIDE DEF C
    <3>5. C \subseteq {i}
      BY <3>4
    <3> QED BY <2>3, <3>3, <3>5, AtMostOne
  <2> QED BY <2>2, <2>3
<1>7. Cardinality(H) = IF t[1] = "hand" THEN 1 ELSE 0
  <2>1. ASSUME NEW l \in H PROVE t[1] = "hand" /\ t[2] = l
    <3>1. PICK s \in InHands(l, op[l]) : u \in Span(s)
      BY DEF InHand, InHands, HandTile, Span, CallKinds
    <3>2. s \in Tiles /\ s[1] = "hand" /\ s[2] = l
      BY HandsOf DEF Tiles, HandTiles
    <3> QED BY <1>3, <3>1, <3>2
  <2>2. ASSUME t[1] = "hand" PROVE t[2] \in H
    <3>1. t \in HandTiles
      BY <2>2, Places DEF Tiles
    <3>2. PICK l \in Lists : t \in InHands(l, op[l])
      BY <3>1 DEF HandTiles
    <3>3. t[2] = l
      BY <3>2, HandsOf
    <3>4. u \in InHand(l)
      <4>1. CASE op[l].kind \in CallKinds
        BY <1>2, <3>2, <4>1 DEF InHand, InHands, HandTile, Span, CallKinds
      <4>2. CASE op[l].kind \notin CallKinds
        BY <1>2, <3>2, <4>2 DEF InHand, InHands, HandTile, Span, CallKinds
      <4> QED BY <4>1, <4>2
    <3> QED BY <3>3, <3>4
  <2> HIDE DEF H
  <2>3. H \subseteq {t[2]} /\ (t[2] \in H <=> t[1] = "hand")
    BY <2>1, <2>2
  <2> QED BY <2>3, AtMostOne
<1>8. N = IF t[1] = "new" THEN 1 ELSE 0
  <2>1. t[1] = "new" => t \in NewTiles
    BY Places DEF Tiles
  <2>2. \A s \in NewTiles : s[1] = "new" /\ s \in Tiles
    BY Places DEF Tiles
  <2>3. u >= fresh * ChunkSize <=> t[1] = "new"
    BY <1>1, <1>2, <1>3, <2>1, <2>2, NewUnits
  <2> QED BY <2>3
<1>9. t[1] \in {"free", "app", "chunk", "hand", "new"}
  BY Places DEF Tiles
<1> HIDE DEF F, R, C, H, N
<1>10. Cardinality(F) + Cardinality(R) + Cardinality(C) + Cardinality(H) + N = 1
  BY <1>4, <1>5, <1>6, <1>7, <1>8, <1>9
<1> QED BY <1>10 DEF F, R, C, H, N

LEMMA Headers ==
  ASSUME IInv
  PROVE  HeadersReal
<1> SUFFICES ASSUME NEW l \in Lists
             PROVE  /\ op[l].kind = "look" /\ op[l].class < Top =>
                         isFree[Sibling(op[l].unit, op[l].class)] # Garbage
                    /\ op[l].kind = "owner" => op[l].class < Top
  BY DEF HeadersReal
<1>1. CellTypes /\ SpaceTypes /\ Tiling(Tiles) /\ AppHeaders /\ \A m \in Lists : CallSound(m)
  BY Parts
<1>2. op[l].kind = "owner" => op[l].class < Top
  BY <1>1 DEF CallSound
<1>3. ASSUME op[l].kind = "look", op[l].class < Top
      PROVE  isFree[Sibling(op[l].unit, op[l].class)] # Garbage
  <2> DEFINE u == op[l].unit
             c == op[l].class
             s == Sibling(u, c)
             a == HandTile(l, u, c)
  <2>1. /\ a \in Tiles /\ u \in Units /\ c \in Classes /\ Aligned(u, c) /\ a[3] = u /\ a[4] = c
    BY <1>3, InHand1 DEF CallKinds
  <2>2. s \in Units
    BY <1>3, <2>1, BuddyIn
  <2>3. PICK v \in Tiles : s \in Span(v)
    BY <1>1, <2>2 DEF Tiling
  <2>4. v[3] = s /\ v[4] <= c
    BY <1>1, <1>3, <2>1, <2>3, BuddyTile
  <2>5. v[4] # Top
    BY <1>3, <2>1, <2>4, SpaceSize DEF Classes
  <2>6. CASE v \in FreeTiles
    <3>1. s \in Marked
      BY <2>4, <2>6 DEF FreeTiles, FreeTile
    <3> QED BY <3>1, MarkedIs, SpaceSize DEF Garbage, Classes
  <2>7. CASE v \in AppTiles
    BY <1>1, <2>4, <2>7 DEF AppTiles, AppTile, AppHeaders, Used, Garbage
  <2>8. CASE v \in ChunkTiles \cup NewTiles
    BY <2>5, <2>8 DEF ChunkTiles, NewTiles, ChunkTile, NewTile
  <2>9. CASE v \in HandTiles
    <3>1. PICK m \in Lists : v \in InHands(m, op[m])
      BY <2>9 DEF HandTiles
    <3>2. op[m].kind \in CallKinds /\ v = HandTile(m, op[m].unit, op[m].class)
      BY <2>5, <3>1 DEF InHands, HandTile
    <3>3. op[m].unit = s /\ op[m].class < Top
      <4>1. op[m].unit = s /\ op[m].class = v[4] /\ v[4] \in Classes
        BY <1>1, <2>4, <3>2 DEF HandTile, Tiling, IsTile
      <4> QED BY <2>5, <4>1, SpaceSize DEF Classes
    <3>4. isFree[s] = Used
      BY <1>1, <3>2, <3>3 DEF CallSound
    <3> QED BY <3>4 DEF Used, Garbage
  <2> QED BY <2>3, <2>6, <2>7, <2>8, <2>9 DEF Tiles
<1> QED BY <1>2, <1>3

LEMMA TypesHold ==
  ASSUME IInv
  PROVE  TypeOK
<1>1. CellTypes /\ SpaceTypes /\ Tiling(Tiles)
  BY Parts
<1>2. ASSUME NEW i \in 1..Len(chunks) PROVE chunks[i] \in Units /\ Aligned(chunks[i], Top)
  <2> DEFINE t == ChunkTile(chunks[i])
  <2>1. t \in Tiles /\ t[3] = chunks[i] /\ t[4] = Top
    BY DEF Tiles, ChunkTiles, ChunkTile
  <2> QED BY <1>1, <2>1 DEF Tiling, IsTile
<1>3. ASSUME NEW l \in Lists, op[l].kind \in {"split", "look", "owner", "push"}
      PROVE  op[l].class \in Classes /\ Aligned(op[l].unit, op[l].class)
  BY <1>3, InHand1 DEF CallKinds
<1> QED BY <1>1, <1>2, <1>3, MarkedAligned DEF TypeOK, CellTypes, SpaceTypes

\* Headers, links and units are right at every step of a split or merge, for
\* any number of threads, size classes and chunks.
THEOREM CellsSoundHolds == Spec => []CellsSound
<1>1. IInv => CellsSound
  BY TypesHold, Conserved, Headers, Parts DEF CellsSound
<1> QED BY <1>1, IInvInvariant, PTL

----------------------------------------------------------------------------
\* The abstract allocator of runs

LogUnits == Min({k \in 0..(Top + NumChunks) : 2^k >= NumChunks * ChunkSize})

\* The runs of the abstract allocator reach over all chunks.
LEMMA LogUnitsReach == 2^LogUnits \in Nat /\ 2^LogUnits >= NumChunks * ChunkSize
<1> DEFINE S == {k \in 0..(Top + NumChunks) : 2^k >= NumChunks * ChunkSize}
<1>1. Top + NumChunks \in S
  <2>1. PICK n \in Nat \ {0} : n = ChunkSize
    BY SpaceSize
  <2>2. PICK m \in Nat \ {0} : m = 2^NumChunks
    BY SpaceSize, PowerNat
  <2>3. 2^(Top + NumChunks) = n * m
    BY <2>1, <2>2, SpaceSize, PowerSum DEF ChunkSize
  <2>4. NumChunks \in Nat /\ NumChunks <= m
    BY <2>2, SpaceSize, PowerAbove
  <2>5. n * m >= NumChunks * n
    <3> DEFINE d == m - NumChunks
    <3>1. d \in Nat /\ m = NumChunks + d
      BY <2>4
    <3> HIDE DEF d
    <3>2. n * m = NumChunks * n + d * n /\ d * n \in Nat /\ NumChunks * n \in Nat
      BY <2>4, <3>1
    <3> QED BY <3>2
  <2> QED BY <2>1, <2>3, <2>5, SpaceSize
<1>2. S \in SUBSET Nat
  BY SpaceSize
<1>3. PICK m \in S : \A k \in S : m <= k
  BY <1>1, <1>2, NatMin
<1>4. LogUnits \in S
  <2>1. LogUnits = CHOOSE x \in S : \A y \in S : x <= y
    BY DEF LogUnits, Min
  <2> QED BY <1>3, <2>1
<1> QED BY <1>2, <1>4, PowerNat

LEMMA RunOf ==
  ASSUME IInv, NEW u \in Units, NEW c \in Requests, Aligned(u, c)
  PROVE  <<u, 2^c>> \in Ranges!Runs /\ Ranges!Span(<<u, 2^c>>) = Cell(u, c)
<1>1. c \in Classes /\ c \in Nat
  BY SizesAssumption DEF Classes
<1>2. PICK n \in Nat \ {0} : n = 2^c
  BY <1>1, PowerNat
<1>3. u \in Nat /\ Cell(u, c) \subseteq Units
  BY <1>1, CellIn
<1>4. Cell(u, c) = u..(u + n - 1)
  BY <1>2 DEF Cell
<1>5. u + n - 1 \in Units
  <2>1. u + n - 1 \in u..(u + n - 1)
    BY <1>3
  <2> QED BY <1>3, <1>4, <2>1
<1>6. u + n <= NumChunks * ChunkSize
  BY <1>2, <1>3, <1>5, SpaceSize DEF Units
<1>7. PICK w \in Nat : w = 2^LogUnits
  BY LogUnitsReach
<1>8. u + n <= w
  BY <1>2, <1>3, <1>6, <1>7, LogUnitsReach, SpaceSize
<1>9. <<u, n>> \in (0..(w - 1)) \X {2^d : d \in Requests}
  BY <1>2, <1>3, <1>8
<1>10. u % n = 0
  BY <1>2 DEF Aligned
<1>11. <<u, n>> \in Ranges!Runs
  BY <1>7, <1>8, <1>9, <1>10 DEF Ranges!Runs, LogUnits
<1> QED BY <1>2, <1>4, <1>11 DEF Ranges!Span

\* To the application, the lists of all threads and the chunks are one
\* allocator: a cell is handed out only while it overlaps none in use.
THEOREM FreeListImplementsRanges == Spec => ImplementsRanges
<1> DEFINE Out(S) == {<<r[1], 2^r[2]>> : r \in S}
<1>1. Init => Ranges!Init
  BY DEF Init, Ranges!Init
<1>2. IInv /\ [Next]_vars => [Ranges!Next]_(Out(app))
  <2> SUFFICES ASSUME IInv, [Next]_vars PROVE Ranges!Next \/ app' = app
    OBVIOUS
  <2>1. Tiling(Tiles) /\ SpaceTypes
    BY Parts
  <2>2. ASSUME NEW r \in app
        PROVE  /\ AppTile(r) \in Tiles /\ Span(AppTile(r)) = Cell(r[1], r[2])
               /\ r[1] \in Units /\ r[2] \in Requests /\ Aligned(r[1], r[2]) /\ r = <<r[1], r[2]>>
    <3>1. AppTile(r) \in Tiles /\ Span(AppTile(r)) = Cell(r[1], r[2])
      BY DEF Tiles, AppTiles, AppTile, Span
    <3>2. Aligned(r[1], r[2])
      BY <2>1, <3>1 DEF Tiling, IsTile, AppTile
    <3> QED BY <2>1, <3>1, <3>2 DEF SpaceTypes
  <2>3. ASSUME NEW l \in Lists, HandOut(l) PROVE Ranges!Next
    <3> DEFINE u == op[l].unit
               c == op[l].class
               a == HandTile(l, u, c)
    <3>1. op[l].kind = "split" /\ c = op[l].then /\ app' = app \cup {<<u, c>>}
      BY <2>3 DEF HandOut
    <3>2. a \in Tiles /\ a[1] = "hand" /\ u \in Units /\ Aligned(u, c) /\ Span(a) = Cell(u, c)
      BY <3>1, InHand1 DEF CallKinds
    <3>3. c \in Requests
      BY <2>1, <3>1, OpForms
    <3> HIDE DEF a, u, c
    <3>4. <<u, 2^c>> \in Ranges!Runs /\ Ranges!Span(<<u, 2^c>>) = Cell(u, c)
      BY <3>2, <3>3, RunOf
    <3>5. ASSUME NEW r \in app PROVE Ranges!Span(<<u, 2^c>>) \cap Ranges!Span(<<r[1], 2^r[2]>>) = {}
      <4>1. Ranges!Span(<<r[1], 2^r[2]>>) = Cell(r[1], r[2])
        BY <2>2, RunOf
      <4>2. a # AppTile(r)
        BY <3>2 DEF AppTile
      <4>3. Span(a) \cap Span(AppTile(r)) = {}
        BY <2>1, <2>2, <3>2, <4>2 DEF Tiling, Apart
      <4> QED BY <2>2, <3>2, <3>4, <4>1, <4>3
    <3> DEFINE q == <<u, c>>
               x == <<u, 2^c>>
    <3>6. app' = app \cup {q} /\ x = <<q[1], 2^q[2]>>
      BY <3>1 DEF u, c
    <3>7. x \in Ranges!Runs /\ \A r \in app : Ranges!Span(x) \cap Ranges!Span(<<r[1], 2^r[2]>>) = {}
      BY <3>4, <3>5
    <3> HIDE DEF q, x
    <3>8. Out(app') = Out(app) \cup {x}
      BY <3>6
    <3>9. PICK y : y = x
      OBVIOUS
    <3>10. y \in Ranges!Runs /\ Ranges!Allocate(y)
      BY <3>7, <3>8, <3>9 DEF Ranges!Allocate
    <3> QED BY <3>10 DEF Ranges!Next
  <2>4. ASSUME NEW l \in Lists, FreeCall(l) PROVE Ranges!Next
    <3>1. PICK r \in app : app' = app \ {r}
      BY <2>4 DEF FreeCall
    <3> DEFINE x == <<r[1], 2^r[2]>>
    <3>2. x \in Ranges!Runs
      BY <2>2, RunOf
    <3>3. ASSUME NEW q \in app, <<q[1], 2^q[2]>> = x PROVE q = r
      <4>1. q[1] = r[1]
        BY <3>3
      <4>2. q[1] \in Cell(q[1], q[2]) /\ r[1] \in Cell(r[1], r[2])
        <5>1. q[2] \in Classes /\ r[2] \in Classes
          BY <2>2, SizesAssumption DEF Classes
        <5> QED BY <2>2, <5>1, CellIn
      <4>3. AppTile(q) = AppTile(r)
        BY <2>1, <2>2, <4>1, <4>2, TilesMeet
      <4>4. q[2] = r[2]
        BY <4>3 DEF AppTile
      <4> QED BY <2>2, <4>1, <4>4
    <3>4. Out(app') = Out(app) \ {x}
      BY <3>1, <3>3
    <3>5. Ranges!Release(x)
      BY <3>4 DEF Ranges!Release
    <3> QED BY <3>2, <3>5 DEF Ranges!Next
  <2>5. ASSUME NEW l \in Lists,
          \/ AllocCall(l) \/ Pop(l) \/ Split(l)
          \/ TakeCoalesced(l) \/ MissCoalesced(l) \/ AcquireBlock(l) \/ AllocFails(l)
          \/ Look(l) \/ NotMine(l) \/ Merge(l) \/ Settle(l)
          \/ PopChunk(l) \/ AddChunk(l) \/ FreeDone(l) \/ Reincarnate(l)
        PROVE  app' = app
    BY <2>5 DEF AllocCall, Pop, Split, TakeCoalesced, MissCoalesced, AcquireBlock, AllocFails,
       Look, NotMine, Merge, Settle, PopChunk, AddChunk, FreeDone, Reincarnate
  <2>6. CASE UNCHANGED vars
    BY <2>6 DEF vars
  <2> QED BY <2>3, <2>4, <2>5, <2>6 DEF Next
<1> QED BY <1>1, <1>2, IInvInvariant, PTL DEF Spec, ImplementsRanges, Ranges!Spec
=============================================================================
