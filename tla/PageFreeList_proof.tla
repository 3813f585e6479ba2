------------------------- MODULE PageFreeList_proof -------------------------
(***************************************************************************)
(* Proofs about the buddy allocator of pages, and about its page table and *)
(* the meta memory the tables are in. First, the allocator.                *)
(*                                                                         *)
(* The units are tiled by the free cells, the runs in use and the cell in  *)
(* the hands of the call under way. A step takes some tiles and puts       *)
(* others over the same units, and keeps the three records of the free     *)
(* cells equal. No free cell has a free sibling: a request that is refused *)
(* would otherwise find room.                                              *)
(*                                                                         *)
(* Then the page table. Here a tile is a table, a box, a cell of a list,   *)
(* or one lost with a thread; the tiles cover the words of the mapped      *)
(* pages. The entries of the tables are those of the pages inserted and    *)
(* of the tables above them, with exact counts, except for one count       *)
(* between the steps of a call.                                            *)
(***************************************************************************)
EXTENDS PageFreeList, PageTable, SharedLemmas, SequenceTheorems

----------------------------------------------------------------------------
\* The inductive invariant

Ops ==
  {Idle}
  \cup [kind : {"split"}, unit : Units, class : Classes, units : Requests]
  \cup [kind : {"release"}, start : Nat, limit : Nat]
  \cup [kind : {"merge"}, unit : Units, class : Classes, start : Nat, limit : Nat]

\* A tile says where its units are.
FreeTile(f) == <<"free", f[1], f[2]>>
RunTile(r) == <<"run", r[1], SizeClass(r[2])>>
HandTile(u, c) == <<"hand", u, c>>

FreeTiles == {FreeTile(f) : f \in FreeCells}
RunTiles == {RunTile(r) : r \in used}
HandTiles ==
  IF op.kind \in {"split", "merge"} THEN {HandTile(op.unit, op.class)}
  ELSE IF op.kind = "release" /\ op.start < op.limit
       THEN {HandTile(op.start, SizeClass(op.limit - op.start))} ELSE {}
Tiles == FreeTiles \cup RunTiles \cup HandTiles

Span(t) == Cell(t[2], t[3])
IsTile(t) == t[2] \in Units /\ t[3] \in Classes /\ Aligned(t[2], t[3])
Apart(S) == \A s, t \in S : s # t => Span(s) \cap Span(t) = {}
Tiling(S) ==
  /\ \A t \in S : IsTile(t)
  /\ Apart(S)
  /\ \A u \in Units : \E t \in S : u \in Span(t)

Types ==
  /\ table \in [Classes -> Seq(Units)]
  /\ \A c \in Classes : IsInjective(table[c])
  /\ used \subseteq Units \X Requests
  /\ op \in Ops

Records ==
  /\ bst = {UnitToIndex(f[1], f[2]) : f \in FreeCells}
  /\ paged = {f[1] : f \in FreeCells}

SiblingsMerged ==
  \A f \in FreeCells : f[2] < Threshold => <<Sibling(f[1], f[2]), f[2]>> \notin FreeCells

\* A call splits down to what it was asked for; what it releases is a cell,
\* which is cut off as a whole.
CallSound ==
  /\ op.kind = "split" => SizeClass(op.units) <= op.class
  /\ op.kind = "release" => op.start = op.limit \/ \E c \in Classes : op.limit = op.start + 2^c
  /\ op.kind = "merge" => op.start = op.limit

IInv == Types /\ Records /\ Tiling(Tiles) /\ SiblingsMerged /\ CallSound

----------------------------------------------------------------------------
\* Lists

LEMMA RemoveAtParts ==
  ASSUME NEW S, NEW s \in Seq(S), NEW i \in 1..Len(s)
  PROVE  /\ RemoveAt(s, i) \in Seq(S) /\ Len(RemoveAt(s, i)) = Len(s) - 1
         /\ \A j \in 1..(Len(s) - 1) : RemoveAt(s, i)[j] = IF j < i THEN s[j] ELSE s[j + 1]
<1> DEFINE a == SubSeq(s, 1, i - 1)
           b == SubSeq(s, i + 1, Len(s))
<1>1. /\ a \in Seq(S) /\ Len(a) = i - 1
      /\ \A j \in 1..(i - 1) : a[j] = s[j]
  OBVIOUS
<1>2. /\ b \in Seq(S) /\ Len(b) = Len(s) - i
      /\ \A j \in 1..(Len(s) - i) : b[j] = s[i + j]
  OBVIOUS
<1>3. RemoveAt(s, i) = a \o b
  BY DEF RemoveAt
<1> HIDE DEF a, b
<1>4. /\ a \o b \in Seq(S) /\ Len(a \o b) = Len(s) - 1
      /\ \A j \in 1..(Len(s) - 1) : (a \o b)[j] = IF j < i THEN a[j] ELSE b[j - (i - 1)]
  <2>1. /\ a \o b \in Seq(S) /\ Len(a \o b) = Len(a) + Len(b)
        /\ \A j \in 1..(Len(a) + Len(b)) : (a \o b)[j] = IF j <= Len(a) THEN a[j] ELSE b[j - Len(a)]
    BY <1>1, <1>2, ConcatProperties
  <2>2. Len(a) + Len(b) = Len(s) - 1 /\ \A j \in 1..(Len(s) - 1) : j <= Len(a) <=> j < i
    BY <1>1, <1>2
  <2> QED BY <1>1, <2>1, <2>2
<1>5. ASSUME NEW j \in 1..(Len(s) - 1), ~(j < i) PROVE b[j - (i - 1)] = s[j + 1]
  <2>1. j - (i - 1) \in 1..(Len(s) - i) /\ i + (j - (i - 1)) = j + 1
    BY <1>5
  <2> QED BY <1>2, <2>1
<1>6. ASSUME NEW j \in 1..(Len(s) - 1), j < i PROVE a[j] = s[j]
  <2>1. j \in 1..(i - 1)
    BY <1>6
  <2> QED BY <1>1, <2>1
<1> QED BY <1>3, <1>4, <1>5, <1>6

\* An element that is in a list once leaves it; the others stay.
LEMMA RemoveFirstParts ==
  ASSUME NEW S, NEW s \in Seq(S), IsInjective(s), NEW e
  PROVE  /\ RemoveFirst(s, e) \in Seq(S) /\ IsInjective(RemoveFirst(s, e))
         /\ \A x : Contains(RemoveFirst(s, e), x) <=> Contains(s, x) /\ x # e
<1>1. CASE ~Contains(s, e)
  <2>1. RemoveFirst(s, e) = s
    BY <1>1 DEF RemoveFirst, Contains
  <2> QED BY <1>1, <2>1
<1>2. CASE Contains(s, e)
  <2> DEFINE I == {i \in 1..Len(s) : s[i] = e}
             i == Min(I)
             r == RemoveAt(s, i)
  <2>1. I \in SUBSET Nat /\ I # {}
    BY <1>2 DEF Contains
  <2>2. \E m \in I : \A n \in I : m <= n
    BY <2>1, NatMin
  <2>3. i \in I
    BY <2>2 DEF Min
  <2>4. RemoveFirst(s, e) = r
    BY <1>2, <2>1 DEF RemoveFirst, Contains, SelectInSeq
  <2> HIDE DEF i
  <2>5. i \in 1..Len(s) /\ s[i] = e
    BY <2>3
  <2>6. /\ r \in Seq(S) /\ Len(r) = Len(s) - 1
        /\ \A j \in 1..(Len(s) - 1) : r[j] = IF j < i THEN s[j] ELSE s[j + 1]
    BY <2>5, RemoveAtParts
  <2> HIDE DEF r, I
  <2>7. \A j, k \in 1..Len(s) : s[j] = s[k] => j = k
    BY DEF IsInjective
  <2>8. \A j, k \in 1..Len(r) : r[j] = r[k] => j = k
    BY <2>5, <2>6, <2>7
  <2>9. ASSUME NEW x PROVE Contains(r, x) <=> Contains(s, x) /\ x # e
    <3>1. ASSUME NEW j \in 1..Len(r), r[j] = x PROVE Contains(s, x) /\ x # e
      <4>1. CASE j < i
        <5>1. j \in 1..Len(s) /\ s[j] = x /\ j # i
          BY <2>5, <2>6, <3>1, <4>1
        <5> QED BY <2>5, <2>7, <5>1 DEF Contains
      <4>2. CASE ~(j < i)
        <5>1. j + 1 \in 1..Len(s) /\ s[j + 1] = x /\ j + 1 # i
          BY <2>5, <2>6, <3>1, <4>2
        <5> QED BY <2>5, <2>7, <5>1 DEF Contains
      <4> QED BY <4>1, <4>2
    <3>2. ASSUME NEW j \in 1..Len(s), s[j] = x, x # e PROVE Contains(r, x)
      <4>1. CASE j < i
        <5>1. j \in 1..Len(r) /\ r[j] = x
          BY <2>5, <2>6, <3>2, <4>1
        <5> QED BY <5>1 DEF Contains
      <4>2. CASE i < j
        <5>1. j - 1 \in 1..Len(r) /\ r[j - 1] = x
          BY <2>5, <2>6, <3>2, <4>2
        <5> QED BY <5>1 DEF Contains
      <4> QED BY <2>5, <3>2, <4>1, <4>2
    <3> QED BY <3>1, <3>2 DEF Contains
  <2> QED BY <2>4, <2>6, <2>8, <2>9 DEF IsInjective
<1> QED BY <1>1, <1>2

\* An element that is not in a list is put in front of it.
LEMMA PushFrontParts ==
  ASSUME NEW S, NEW s \in Seq(S), IsInjective(s), NEW e \in S, ~Contains(s, e)
  PROVE  /\ <<e>> \o s \in Seq(S) /\ IsInjective(<<e>> \o s)
         /\ \A x : Contains(<<e>> \o s, x) <=> Contains(s, x) \/ x = e
<1> DEFINE r == <<e>> \o s
<1>1. /\ r \in Seq(S) /\ Len(r) = Len(s) + 1 /\ r[1] = e
      /\ \A j \in 1..Len(s) : r[j + 1] = s[j]
  OBVIOUS
<1> HIDE DEF r
<1>2. \A j, k \in 1..Len(s) : s[j] = s[k] => j = k
  BY DEF IsInjective
<1>3. \A j \in 1..Len(s) : s[j] # e
  BY DEF Contains
<1>4. \A j \in 1..Len(r) : j = 1 \/ (j - 1 \in 1..Len(s) /\ r[j] = s[j - 1])
  BY <1>1
<1>5. \A j, k \in 1..Len(r) : r[j] = r[k] => j = k
  <2>1. SUFFICES ASSUME NEW j \in 1..Len(r), NEW k \in 1..Len(r), r[j] = r[k] PROVE j = k
    OBVIOUS
  <2>2. CASE j = 1 \/ k = 1
    BY <1>1, <1>3, <1>4, <2>1, <2>2
  <2>3. CASE j # 1 /\ k # 1
    <3>1. j - 1 \in 1..Len(s) /\ k - 1 \in 1..Len(s) /\ s[j - 1] = s[k - 1]
      BY <1>4, <2>1, <2>3
    <3> QED BY <1>2, <3>1
  <2> QED BY <2>2, <2>3
<1>6. ASSUME NEW x PROVE Contains(r, x) <=> Contains(s, x) \/ x = e
  <2>1. ASSUME NEW j \in 1..Len(r), r[j] = x PROVE Contains(s, x) \/ x = e
    BY <1>1, <1>4, <2>1 DEF Contains
  <2>2. ASSUME NEW j \in 1..Len(s), s[j] = x PROVE Contains(r, x)
    <3>1. j + 1 \in 1..Len(r) /\ r[j + 1] = x
      BY <1>1, <2>2
    <3> QED BY <3>1 DEF Contains
  <2>3. Contains(r, e)
    BY <1>1 DEF Contains
  <2> QED BY <2>1, <2>2, <2>3 DEF Contains
<1>7. IsInjective(r)
  BY <1>1, <1>5 DEF IsInjective
<1> QED BY <1>1, <1>6, <1>7 DEF r
----------------------------------------------------------------------------
\* Sizes

LEMMA SpaceSize ==
  /\ NumSizeClass \in Nat \ {0} /\ Threshold \in Nat /\ Classes = 0..Threshold
  /\ NumUnits = 2^Threshold /\ NumUnits \in Nat \ {0} /\ Units = 0..(NumUnits - 1)
<1>1. NumSizeClass \in Nat \ {0} /\ NumSizeClass - 1 \in Nat
  BY NumSizeClassAssumption
<1>2. 2^(NumSizeClass - 1) \in Nat \ {0}
  BY <1>1, PowerNat
<1> QED BY <1>1, <1>2 DEF Threshold, Classes, NumUnits, Units

LEMMA PowerLess ==
  ASSUME NEW j \in Nat, NEW k \in Nat, j < k
  PROVE  2^j < 2^k
<1>1. 2^(j + 1) <= 2^k
  BY PowerGrows
<1>2. 2^(j + 1) = 2 * 2^j /\ 2^j \in Nat \ {0} /\ 2^k \in Nat
  BY PowerStep, PowerNat
<1> QED BY <1>1, <1>2

LEMMA SizeClassPower ==
  ASSUME NEW c \in Classes
  PROVE  SizeClass(2^c) = c
<1> DEFINE S == {k \in 0..NumSizeClass : 2^c <= 2^k}
<1>1. c \in Nat /\ c \in 0..NumSizeClass /\ 2^c \in Nat
  BY SpaceSize, PowerNat DEF Threshold
<1>2. c \in S /\ S \in SUBSET Nat
  BY <1>1
<1>3. \A k \in S : c <= k
  <2>1. SUFFICES ASSUME NEW k \in S, k < c PROVE FALSE
    BY <1>1, <1>2
  <2>2. k \in Nat /\ 2^k \in Nat /\ 2^c <= 2^k /\ 2^k < 2^c
    BY <1>1, <2>1, PowerNat, PowerLess
  <2> QED BY <1>1, <2>2
<1> HIDE DEF S
<1>4. Min(S) \in S /\ \A k \in S : Min(S) <= k
  BY <1>2, <1>3 DEF Min
<1>5. Min(S) = c
  <2>1. Min(S) \in Nat /\ Min(S) <= c /\ c <= Min(S)
    BY <1>1, <1>2, <1>3, <1>4
  <2> QED BY <1>1, <2>1
<1> QED BY <1>5 DEF SizeClass, S

\* A request is the size of a cell.
LEMMA RequestClass ==
  ASSUME NEW n \in Requests
  PROVE  SizeClass(n) \in Classes /\ n = 2^SizeClass(n) /\ n \in Nat \ {0}
<1>1. PICK c \in Classes : n = 2^c
  BY RequestsAssumption
<1>2. c \in Nat
  BY SpaceSize
<1> QED BY <1>1, <1>2, SizeClassPower, PowerNat

\* An aligned cell is in the space; its index in the tree is one of those of
\* its class.
LEMMA CellParts ==
  ASSUME NEW u \in Units, NEW c \in Classes
  PROVE  /\ u \in Nat /\ c \in Nat /\ c <= Threshold
         /\ u \div 2^c \in Nat /\ u \div 2^c < 2^(Threshold - c)
         /\ NumUnits = 2^c * 2^(Threshold - c)
         /\ UnitToIndex(u, c) \in 2^(Threshold - c)..(2 * 2^(Threshold - c) - 1)
         /\ Aligned(u, c) => u \in Cell(u, c) /\ Cell(u, c) \subseteq Units
<1>1. u \in Nat /\ c \in Nat /\ Threshold - c \in Nat /\ Threshold \in Nat /\ u < NumUnits
  BY SpaceSize
<1>2. PICK n \in Nat \ {0} : n = 2^c
  BY <1>1, PowerNat
<1>3. PICK m \in Nat \ {0} : m = 2^(Threshold - c)
  BY <1>1, PowerNat
<1>4. NumUnits = n * m
  <2>1. 2^(c + (Threshold - c)) = n * m
    BY <1>1, <1>2, <1>3, PowerSum
  <2>2. c + (Threshold - c) = Threshold
    BY <1>1
  <2> QED BY <2>1, <2>2, SpaceSize
<1> DEFINE k == u \div n
<1>5. k \in Nat /\ k * n <= u /\ u < (k + 1) * n
  BY <1>1, Quotient
<1> HIDE DEF k
<1>6. k < m
  <2>1. ASSUME m <= k PROVE FALSE
    <3> DEFINE d == k - m
    <3>1. d \in Nat /\ k = m + d
      BY <1>5, <2>1
    <3> HIDE DEF d
    <3>2. k * n = n * m + d * n /\ d * n \in Nat /\ n * m \in Nat
      BY <3>1
    <3> QED BY <1>1, <1>4, <1>5, <3>2
  <2> QED BY <1>5, <2>1
<1>7. UnitToIndex(u, c) = m + k
  <2>1. NumSizeClass - c - 1 = Threshold - c
    BY <1>1, SpaceSize DEF Threshold
  <2> QED BY <1>2, <1>3, <2>1 DEF UnitToIndex, k
<1>8. ASSUME Aligned(u, c) PROVE u \in Cell(u, c) /\ Cell(u, c) \subseteq Units
  <2>1. u = k * n
    BY <1>1, <1>2, <1>8, AlignedMultiple DEF k
  <2>2. k * n + n <= n * m
    <3> DEFINE d == m - (k + 1)
    <3>1. d \in Nat /\ m = k + 1 + d
      BY <1>5, <1>6
    <3> HIDE DEF d
    <3>2. n * m = k * n + n + d * n /\ d * n \in Nat /\ k * n \in Nat
      BY <1>5, <3>1
    <3> QED BY <1>5, <3>2
  <2>3. Cell(u, c) = u..(u + n - 1)
    BY <1>2 DEF Cell
  <2>4. Units = 0..(n * m - 1) /\ n * m \in Nat
    BY <1>4, SpaceSize
  <2>5. k * n \in Nat /\ u = k * n
    BY <1>5, <2>1
  <2> HIDE DEF k
  <2>6. u..(u + n - 1) \subseteq 0..(n * m - 1) /\ u \in u..(u + n - 1)
    BY <2>2, <2>4, <2>5
  <2> QED BY <2>3, <2>4, <2>6
<1> QED BY <1>1, <1>2, <1>3, <1>4, <1>5, <1>6, <1>7, <1>8 DEF k

\* The bit of a cell is no other cell's.
LEMMA IndexOnce ==
  ASSUME NEW u \in Units, NEW c \in Classes, NEW v \in Units, NEW d \in Classes,
         UnitToIndex(u, c) = UnitToIndex(v, d)
  PROVE  c = d /\ u \div 2^c = v \div 2^d /\ (Aligned(u, c) /\ Aligned(v, d) => u = v)
<1>1. /\ u \in Nat /\ c \in Nat /\ v \in Nat /\ d \in Nat
      /\ Threshold - c \in Nat /\ Threshold - d \in Nat
      /\ UnitToIndex(u, c) \in 2^(Threshold - c)..(2 * 2^(Threshold - c) - 1)
      /\ UnitToIndex(v, d) \in 2^(Threshold - d)..(2 * 2^(Threshold - d) - 1)
  <2>1. /\ u \in Nat /\ c \in Nat /\ v \in Nat /\ d \in Nat
        /\ Threshold - c \in Nat /\ Threshold - d \in Nat
    BY SpaceSize
  <2> QED BY <2>1, CellParts
<1>2. ASSUME NEW j \in Nat, NEW k \in Nat, j < k PROVE 2 * 2^j <= 2^k /\ 2^j \in Nat /\ 2^k \in Nat
  <2>1. 2^(j + 1) <= 2^k
    BY <1>2, PowerGrows
  <2> QED BY <2>1, PowerStep, PowerNat
<1>3. c = d
  <2>1. ~(Threshold - c < Threshold - d)
    BY <1>1, <1>2
  <2>2. ~(Threshold - d < Threshold - c)
    BY <1>1, <1>2
  <2> QED BY <1>1, <2>1, <2>2, SpaceSize
<1>4. u \div 2^c = v \div 2^d
  <2>1. 2^(NumSizeClass - c - 1) \in Nat /\ u \div 2^c \in Nat /\ v \div 2^c \in Nat
    <3>1. NumSizeClass - c - 1 \in Nat
      BY <1>1, SpaceSize DEF Threshold
    <3> QED BY <1>3, <3>1, CellParts, PowerNat
  <2> QED BY <1>3, <2>1 DEF UnitToIndex
<1>5. ASSUME Aligned(u, c), Aligned(v, d) PROVE u = v
  <2>1. u = (u \div 2^c) * 2^c /\ v = (v \div 2^c) * 2^c
    BY <1>1, <1>3, <1>5, AlignedMultiple
  <2> QED BY <1>3, <1>4, <2>1
<1> QED BY <1>3, <1>4, <1>5

\* The sibling and the parent of a cell that is not the whole space.
LEMMA SiblingIn ==
  ASSUME NEW u \in Units, NEW c \in Classes, Aligned(u, c), c < Threshold
  PROVE  LET s == Sibling(u, c)  p == Parent(u, c)
         IN  /\ s \in Units /\ Aligned(s, c) /\ Sibling(s, c) = u /\ s # u
             /\ p \in Units /\ Aligned(p, c + 1) /\ c + 1 \in Classes /\ p \in {u, s}
             /\ Cell(u, c) \cup Cell(s, c) = Cell(p, c + 1)
             /\ Cell(u, c) \cap Cell(s, c) = {}
<1>1. u \in Nat /\ c \in Nat /\ c + 1 \in Nat /\ c + 1 \in Classes /\ u \in Cell(u, c)
  <2>1. u \in Nat /\ c \in Nat /\ c + 1 \in Classes /\ c + 1 \in Nat
    BY SpaceSize
  <2> QED BY <2>1, CellParts
<1> DEFINE s == Sibling(u, c)
           p == Parent(u, c)
<1>2. /\ s \in Nat /\ Aligned(s, c) /\ Sibling(s, c) = u /\ s # u
      /\ p \in Nat /\ Aligned(p, c + 1) /\ p \in {u, s}
      /\ Cell(u, c) \cup Cell(s, c) = Cell(p, c + 1)
      /\ Cell(u, c) \cap Cell(s, c) = {}
  BY <1>1, BuddyParts
<1> HIDE DEF s, p
<1>3. Aligned(0, Threshold) /\ Cell(0, Threshold) = Units
  <2>1. Aligned(0, Threshold)
    <3>1. 0 * 2^Threshold = 0
      BY SpaceSize
    <3> QED BY <3>1, SpaceSize, AlignedMultiple
  <2>2. Cell(0, Threshold) = 0..(0 + NumUnits - 1)
    BY SpaceSize DEF Cell
  <2> QED BY <2>1, <2>2, SpaceSize
<1>4. Cell(p, c + 1) \subseteq Units
  <2>1. Cell(p, c + 1) \cap Cell(0, Threshold) # {}
    BY <1>1, <1>2, <1>3
  <2>2. c + 1 \in 0..Threshold /\ Threshold \in Nat
    BY <1>1, SpaceSize
  <2> QED BY <1>2, <1>3, <2>1, <2>2, AlignedNested
<1>5. s \in Cell(s, c)
  BY <1>1, <1>2, PowerNat DEF Cell
<1>6. s \in Units /\ p \in Units
  BY <1>1, <1>2, <1>4, <1>5
<1> QED BY <1>1, <1>2, <1>6 DEF s, p
----------------------------------------------------------------------------
\* Tilings

\* Tiles are taken and others are put over the same units.
LEMMA Retiled ==
  ASSUME NEW S, Tiling(S), NEW A \in SUBSET S, NEW B, \A t \in B : IsTile(t), Apart(B),
         UNION {Span(t) : t \in A} = UNION {Span(t) : t \in B}
  PROVE  Tiling((S \ A) \cup B)
<1> DEFINE T == (S \ A) \cup B
<1>1. \A t \in T : IsTile(t)
  BY DEF Tiling
<1>2. ASSUME NEW s \in S \ A, NEW t \in B PROVE Span(s) \cap Span(t) = {}
  <2>1. SUFFICES ASSUME NEW u \in Span(s), u \in Span(t) PROVE FALSE
    OBVIOUS
  <2>2. u \in UNION {Span(x) : x \in A}
    BY <2>1
  <2>3. PICK a \in A : u \in Span(a)
    BY <2>2
  <2>4. a \in S /\ s \in S /\ a # s
    OBVIOUS
  <2> QED BY <2>1, <2>3, <2>4 DEF Tiling, Apart
<1>3. Apart(T)
  BY <1>2 DEF Apart, Tiling
<1>4. ASSUME NEW u \in Units PROVE \E t \in T : u \in Span(t)
  <2>1. PICK s \in S : u \in Span(s)
    BY DEF Tiling
  <2>2. CASE s \in A
    <3>1. u \in UNION {Span(x) : x \in B}
      BY <2>1, <2>2
    <3> QED BY <3>1
  <2>3. CASE s \notin A
    BY <2>1, <2>3
  <2> QED BY <2>2, <2>3
<1> QED BY <1>1, <1>3, <1>4 DEF Tiling

\* Two tiles that have a unit in common are one.
LEMMA TilesMeet ==
  ASSUME NEW S, Tiling(S), NEW s \in S, NEW t \in S, NEW u, u \in Span(s), u \in Span(t)
  PROVE  s = t
BY DEF Tiling, Apart

\* Free cells are aligned, and no two have a unit in common.
LEMMA FreeApart ==
  ASSUME Tiling(Tiles)
  PROVE  /\ \A f \in FreeCells : /\ f[1] \in Units /\ f[2] \in Classes /\ f = <<f[1], f[2]>>
                                 /\ Aligned(f[1], f[2])
                                 /\ f[1] \in Cell(f[1], f[2]) /\ Cell(f[1], f[2]) \subseteq Units
         /\ \A f, g \in FreeCells : Cell(f[1], f[2]) \cap Cell(g[1], g[2]) # {} => f = g
         /\ \A f, g \in FreeCells : f[1] = g[1] => f = g
<1>1. ASSUME NEW f \in FreeCells
      PROVE  /\ f[1] \in Units /\ f[2] \in Classes /\ f = <<f[1], f[2]>>
             /\ FreeTile(f) \in Tiles /\ Span(FreeTile(f)) = Cell(f[1], f[2])
             /\ Aligned(f[1], f[2])
             /\ f[1] \in Cell(f[1], f[2]) /\ Cell(f[1], f[2]) \subseteq Units
  <2>1. f[1] \in Units /\ f[2] \in Classes /\ f = <<f[1], f[2]>>
    BY DEF FreeCells
  <2>2. FreeTile(f) \in Tiles
    BY DEF Tiles, FreeTiles
  <2>3. FreeTile(f)[2] = f[1] /\ FreeTile(f)[3] = f[2]
    BY DEF FreeTile
  <2>4. Aligned(f[1], f[2])
    BY <2>2, <2>3 DEF Tiling, IsTile
  <2> QED BY <2>1, <2>2, <2>3, <2>4, CellParts DEF Span
<1>2. ASSUME NEW f \in FreeCells, NEW g \in FreeCells, Cell(f[1], f[2]) \cap Cell(g[1], g[2]) # {}
      PROVE  f = g
  <2>1. PICK u : u \in Cell(f[1], f[2]) /\ u \in Cell(g[1], g[2])
    BY <1>2
  <2>2. FreeTile(f) = FreeTile(g)
    BY <1>1, <2>1, TilesMeet
  <2>3. f[1] = g[1] /\ f[2] = g[2]
    BY <2>2 DEF FreeTile
  <2> QED BY <1>1, <2>3
<1>3. ASSUME NEW f \in FreeCells, NEW g \in FreeCells, f[1] = g[1] PROVE f = g
  BY <1>1, <1>2, <1>3
<1> QED BY <1>1, <1>2, <1>3

\* The unit in hand is in no free cell.
LEMMA HandApart ==
  ASSUME Tiling(Tiles), op.kind \in {"split", "merge"}
  PROVE  /\ op.unit \in Units /\ op.class \in Classes /\ Aligned(op.unit, op.class)
         /\ op.unit \in Cell(op.unit, op.class) /\ Cell(op.unit, op.class) \subseteq Units
         /\ \A f \in FreeCells : Cell(op.unit, op.class) \cap Cell(f[1], f[2]) = {}
<1> DEFINE h == HandTile(op.unit, op.class)
<1>1. h \in Tiles /\ h[2] = op.unit /\ h[3] = op.class /\ h[1] = "hand"
  BY DEF Tiles, HandTiles, HandTile
<1>2. IsTile(h)
  BY <1>1 DEF Tiling
<1>3. op.unit \in Units /\ op.class \in Classes /\ Aligned(op.unit, op.class)
  BY <1>1, <1>2 DEF IsTile
<1>4. ASSUME NEW f \in FreeCells PROVE Cell(op.unit, op.class) \cap Cell(f[1], f[2]) = {}
  <2>1. FreeTile(f) \in Tiles /\ Span(FreeTile(f)) = Cell(f[1], f[2]) /\ FreeTile(f)[1] = "free"
    BY DEF Tiles, FreeTiles, FreeTile, Span
  <2>2. Span(h) = Cell(op.unit, op.class) /\ h # FreeTile(f)
    BY <1>1, <2>1 DEF Span
  <2> QED BY <1>1, <2>1, <2>2 DEF Tiling, Apart
<1> QED BY <1>3, <1>4, CellParts

----------------------------------------------------------------------------
\* The records of the free cells

\* A bit is set for a unit that is in a free cell of the class, and only then.
LEMMA IsFreeMeans ==
  ASSUME Records, Tiling(Tiles), NEW u \in Units, NEW c \in Classes
  PROVE  /\ IsFree(u, c) => \E f \in FreeCells : u \in Cell(f[1], f[2])
         /\ Aligned(u, c) => (IsFree(u, c) <=> <<u, c>> \in FreeCells)
<1>1. ASSUME NEW f \in FreeCells, UnitToIndex(u, c) = UnitToIndex(f[1], f[2])
      PROVE  /\ u \in Cell(f[1], f[2])
             /\ Aligned(u, c) => f = <<u, c>>
  <2>1. f[1] \in Units /\ f[2] \in Classes /\ f = <<f[1], f[2]>> /\ Aligned(f[1], f[2])
    BY FreeApart
  <2>2. c = f[2] /\ u \div 2^c = f[1] \div 2^c /\ (Aligned(u, c) => u = f[1])
    BY <1>1, <2>1, IndexOnce
  <2>3. u \in Nat /\ c \in Nat /\ f[1] \in Nat
    BY <2>1, SpaceSize
  <2>4. PICK n \in Nat \ {0} : n = 2^c
    BY <2>3, PowerNat
  <2>5. f[1] = (f[1] \div n) * n /\ f[1] \div n \in Nat
    BY <2>1, <2>2, <2>3, <2>4, AlignedMultiple
  <2>6. (u \div n) * n <= u /\ u < (u \div n + 1) * n
    BY <2>3, Quotient
  <2> DEFINE k == f[1] \div n
  <2>7. k \in Nat /\ f[1] = k * n /\ k * n <= u /\ u < (k + 1) * n
    BY <2>2, <2>4, <2>5, <2>6
  <2> HIDE DEF k
  <2>8. (k + 1) * n = k * n + n
    BY <2>7
  <2>9. u \in f[1]..(f[1] + n - 1)
    BY <2>3, <2>7, <2>8
  <2> QED BY <2>1, <2>2, <2>4, <2>9 DEF Cell
<1>2. IsFree(u, c) <=> \E f \in FreeCells : UnitToIndex(u, c) = UnitToIndex(f[1], f[2])
  BY DEF IsFree, Records
<1>3. <<u, c>> \in FreeCells => IsFree(u, c)
  BY <1>2
<1> QED BY <1>1, <1>2, <1>3

LEMMA TableWith ==
  ASSUME NEW u \in Units, NEW c \in Classes, NEW t \in [Classes -> Seq(Units)],
         NEW s \in Seq(Units), NEW X,
         \A x : Contains(s, x) <=> (x # u /\ Contains(t[c], x)) \/ (x = u /\ X)
  PROVE  {f \in Units \X Classes : Contains([t EXCEPT ![c] = s][f[2]], f[1])}
           = {f \in Units \X Classes : IF f = <<u, c>> THEN X ELSE Contains(t[f[2]], f[1])}
<1> SUFFICES ASSUME NEW f \in Units \X Classes
    PROVE  Contains([t EXCEPT ![c] = s][f[2]], f[1])
             <=> IF f = <<u, c>> THEN X ELSE Contains(t[f[2]], f[1])
  OBVIOUS
<1>1. f = <<f[1], f[2]>> /\ f[1] \in Units /\ f[2] \in Classes
  OBVIOUS
<1>2. CASE f[2] = c
  <2>1. [t EXCEPT ![c] = s][f[2]] = s
    BY <1>1, <1>2
  <2>2. f = <<u, c>> <=> f[1] = u
    BY <1>1, <1>2
  <2> QED BY <1>2, <2>1, <2>2
<1>3. CASE f[2] # c
  <2>1. [t EXCEPT ![c] = s][f[2]] = t[f[2]]
    BY <1>1, <1>3
  <2>2. f # <<u, c>>
    BY <1>1, <1>3
  <2> QED BY <2>1, <2>2
<1> QED BY <1>2, <1>3

LEMMA PushCells ==
  ASSUME Types, Records, NEW u \in Units, NEW c \in Classes, <<u, c>> \notin FreeCells, Push(u, c)
  PROVE  /\ FreeCells' = FreeCells \cup {<<u, c>>} /\ Records'
         /\ table' \in [Classes -> Seq(Units)] /\ \A d \in Classes : IsInjective(table'[d])
<1> DEFINE s == <<u>> \o table[c]
<1>1. table' = [table EXCEPT ![c] = s] /\ table \in [Classes -> Seq(Units)]
  BY DEF Push, Types
<1>2. table[c] \in Seq(Units) /\ IsInjective(table[c]) /\ ~Contains(table[c], u)
  BY DEF FreeCells, Types
<1>3. s \in Seq(Units) /\ IsInjective(s) /\ \A x : Contains(s, x) <=> Contains(table[c], x) \/ x = u
  BY <1>2, PushFrontParts
<1> HIDE DEF s
<1>4. table' \in [Classes -> Seq(Units)] /\ \A d \in Classes : IsInjective(table'[d])
  BY <1>1, <1>3 DEF Types
<1>5. FreeCells' = {f \in Units \X Classes : IF f = <<u, c>> THEN TRUE ELSE Contains(table[f[2]], f[1])}
  <2>1. \A x : Contains(s, x) <=> (x # u /\ Contains(table[c], x)) \/ (x = u /\ TRUE)
    BY <1>3
  <2>2. FreeCells' = {f \in Units \X Classes : Contains(table'[f[2]], f[1])}
    BY DEF FreeCells
  <2> QED BY <1>1, <1>3, <2>1, <2>2, TableWith
<1>6. FreeCells' = FreeCells \cup {<<u, c>>}
  BY <1>5 DEF FreeCells
<1>7. Records'
  <2>1. bst' = bst \cup {UnitToIndex(u, c)} /\ paged' = paged \cup {u}
    BY DEF Push
  <2> QED BY <1>6, <2>1 DEF Records
<1> QED BY <1>4, <1>6, <1>7

LEMMA UnlinkCells ==
  ASSUME Types, Records, Tiling(Tiles), NEW u \in Units, NEW c \in Classes,
         <<u, c>> \in FreeCells, Unlink(u, c)
  PROVE  /\ FreeCells' = FreeCells \ {<<u, c>>} /\ Records'
         /\ table' \in [Classes -> Seq(Units)] /\ \A d \in Classes : IsInjective(table'[d])
<1> DEFINE s == RemoveFirst(table[c], u)
<1>1. table' = [table EXCEPT ![c] = s] /\ table \in [Classes -> Seq(Units)]
  BY DEF Unlink, Types
<1>2. table[c] \in Seq(Units) /\ IsInjective(table[c])
  BY DEF Types
<1>3. s \in Seq(Units) /\ IsInjective(s) /\ \A x : Contains(s, x) <=> Contains(table[c], x) /\ x # u
  BY <1>2, RemoveFirstParts
<1> HIDE DEF s
<1>4. table' \in [Classes -> Seq(Units)] /\ \A d \in Classes : IsInjective(table'[d])
  BY <1>1, <1>3 DEF Types
<1>5. FreeCells' = {f \in Units \X Classes : IF f = <<u, c>> THEN FALSE ELSE Contains(table[f[2]], f[1])}
  <2>1. \A x : Contains(s, x) <=> (x # u /\ Contains(table[c], x)) \/ (x = u /\ FALSE)
    BY <1>3
  <2>2. FreeCells' = {f \in Units \X Classes : Contains(table'[f[2]], f[1])}
    BY DEF FreeCells
  <2> QED BY <1>1, <1>3, <2>1, <2>2, TableWith
<1>6. FreeCells' = FreeCells \ {<<u, c>>}
  BY <1>5 DEF FreeCells
<1>7. Records'
  <2>1. bst' = bst \ {UnitToIndex(u, c)} /\ paged' = paged \ {u}
    BY DEF Unlink
  <2>2. \A f \in FreeCells : f # <<u, c>> => f[1] # u
    BY FreeApart
  <2>3. \A f \in FreeCells : f # <<u, c>> => UnitToIndex(f[1], f[2]) # UnitToIndex(u, c)
    <3>1. SUFFICES ASSUME NEW f \in FreeCells, f # <<u, c>>, UnitToIndex(f[1], f[2]) = UnitToIndex(u, c)
                   PROVE  FALSE
      OBVIOUS
    <3>2. f[1] \in Units /\ f[2] \in Classes /\ f = <<f[1], f[2]>> /\ Aligned(f[1], f[2])
      BY FreeApart
    <3>3. Aligned(u, c)
      <4>1. Aligned(<<u, c>>[1], <<u, c>>[2])
        BY FreeApart
      <4> QED BY <4>1
    <3>4. f[2] = c /\ f[1] = u
      BY <3>1, <3>2, <3>3, IndexOnce
    <3> QED BY <3>1, <3>2, <3>4
  <2>4. bst' = {UnitToIndex(f[1], f[2]) : f \in FreeCells'}
    BY <1>6, <2>1, <2>3 DEF Records
  <2>5. paged' = {f[1] : f \in FreeCells'}
    BY <1>6, <2>1, <2>2 DEF Records
  <2> QED BY <2>4, <2>5 DEF Records
<1> QED BY <1>4, <1>6, <1>7
----------------------------------------------------------------------------
\* The initial state and the steps

LEMMA OpParts ==
  ASSUME Types
  PROVE  /\ op.kind \in {"idle", "split", "release", "merge"}
         /\ op.kind = "idle" => op = Idle
         /\ op.kind = "split" =>
              /\ op = [kind |-> "split", unit |-> op.unit, class |-> op.class, units |-> op.units]
              /\ op.unit \in Units /\ op.class \in Classes /\ op.units \in Requests
         /\ op.kind = "release" => op = Releasing(op.start, op.limit) /\ op.start \in Nat /\ op.limit \in Nat
         /\ op.kind = "merge" =>
              /\ op = [kind |-> "merge", unit |-> op.unit, class |-> op.class,
                       start |-> op.start, limit |-> op.limit]
              /\ op.unit \in Units /\ op.class \in Classes /\ op.start \in Nat /\ op.limit \in Nat
BY DEF Types, Ops, Idle, Releasing

LEMMA RunParts ==
  ASSUME Types, NEW r \in used
  PROVE  /\ r[1] \in Units /\ r[2] \in Requests /\ r = <<r[1], r[2]>>
         /\ SizeClass(r[2]) \in Classes /\ r[2] = 2^SizeClass(r[2]) /\ r[2] \in Nat \ {0}
         /\ \A s \in used : RunTile(s) = RunTile(r) => s = r
<1>1. ASSUME NEW s \in used
      PROVE  /\ s[1] \in Units /\ s[2] \in Requests /\ s = <<s[1], s[2]>>
             /\ SizeClass(s[2]) \in Classes /\ s[2] = 2^SizeClass(s[2]) /\ s[2] \in Nat \ {0}
  <2>1. s[1] \in Units /\ s[2] \in Requests /\ s = <<s[1], s[2]>>
    BY DEF Types
  <2> QED BY <2>1, RequestClass
<1>2. ASSUME NEW s \in used, RunTile(s) = RunTile(r) PROVE s = r
  <2>1. s[1] = r[1] /\ SizeClass(s[2]) = SizeClass(r[2])
    BY <1>2 DEF RunTile
  <2>2. s[2] = r[2]
    BY <1>1, <2>1
  <2> QED BY <1>1, <2>1, <2>2
<1> QED BY <1>1, <1>2

\* What is in hand when a cell is about to be released.
LEMMA ReleasingCell ==
  ASSUME NEW start \in Nat, NEW c \in Classes, NEW limit, limit = start + 2^c
  PROVE  /\ start < limit /\ limit - start = 2^c /\ SizeClass(limit - start) = c
         /\ limit \in Nat
<1>1. 2^c \in Nat \ {0}
  BY SpaceSize, PowerNat
<1>2. limit - start = 2^c /\ start < limit /\ limit \in Nat
  BY <1>1
<1>3. SizeClass(2^c) = c
  BY SizeClassPower
<1> QED BY <1>2, <1>3

LEMMA InitSound ==
  ASSUME Init
  PROVE  IInv
<1>1. op = Releasing(0, NumUnits) /\ op.kind = "release" /\ op.start = 0 /\ op.limit = 0 + 2^Threshold
  BY SpaceSize DEF Init, Releasing
<1>2. Threshold \in Classes /\ 0 \in Units /\ 0 \in Nat
  BY SpaceSize
<1>3. FreeCells = {}
  BY DEF FreeCells, Init, Contains
<1>4. Types
  <2>1. table \in [Classes -> Seq(Units)] /\ \A c \in Classes : IsInjective(table[c])
    BY DEF Init, IsInjective
  <2>2. op \in Ops
    BY <1>1, SpaceSize DEF Ops, Releasing
  <2> QED BY <2>1, <2>2 DEF Types, Init
<1>5. Records
  BY <1>3 DEF Records, Init
<1>6. Tiling(Tiles)
  <2> DEFINE h == HandTile(0, Threshold)
  <2>1. HandTiles = {h}
    <3>1. op.start < op.limit /\ SizeClass(op.limit - op.start) = Threshold
      <4>1. op.start \in Nat /\ op.limit = op.start + 2^Threshold
        BY <1>1
      <4> QED BY <1>2, <4>1, ReleasingCell
    <3>2. op.kind \notin {"split", "merge"}
      BY <1>1
    <3> QED BY <1>1, <3>1, <3>2, Zenon DEF HandTiles
  <2>2. Tiles = {h}
    BY <1>3, <2>1 DEF Tiles, FreeTiles, RunTiles, Init
  <2>3. h[2] = 0 /\ h[3] = Threshold
    BY DEF HandTile
  <2>4. Aligned(0, Threshold)
    <3>1. 0 * 2^Threshold = 0
      BY SpaceSize
    <3> QED BY <3>1, SpaceSize, AlignedMultiple
  <2>5. Cell(0, Threshold) = Units
    <3>1. Cell(0, Threshold) = 0..(0 + NumUnits - 1)
      BY SpaceSize DEF Cell
    <3> QED BY <3>1, SpaceSize
  <2> HIDE DEF h
  <2>6. IsTile(h) /\ Span(h) = Units
    BY <1>2, <2>3, <2>4, <2>5 DEF IsTile, Span
  <2> QED BY <2>2, <2>6 DEF Tiling, Apart
<1>7. CallSound
  BY <1>1, <1>2 DEF CallSound
<1> QED BY <1>3, <1>4, <1>5, <1>6, <1>7 DEF IInv, SiblingsMerged

LEMMA AllocateStep ==
  ASSUME IInv, NEW n \in Requests, Allocate(n)
  PROVE  IInv'
<1> USE DEF IInv
<1> DEFINE c == SizeClass(n)
           k == Min(Candidates(c))
           u == Head(table[k])
<1>1. c \in Classes
  BY RequestClass
<1>2. Candidates(c) \in SUBSET Nat /\ Candidates(c) # {}
  BY <1>1, SpaceSize DEF Allocate, Candidates
<1>3. k \in Candidates(c)
  <2>1. \E m \in Candidates(c) : \A j \in Candidates(c) : m <= j
    BY <1>2, NatMin
  <2> QED BY <2>1 DEF Min
<1>4. k \in c..Threshold /\ table[k] # <<>>
  BY <1>3 DEF Candidates
<1>5. k \in Classes /\ c <= k
  BY <1>1, <1>4, SpaceSize
<1>6. table[k] \in Seq(Units)
  BY <1>5 DEF Types
<1>7. u \in Units /\ Contains(table[k], u)
  <2>1. Len(table[k]) \in Nat \ {0} /\ u = table[k][1] /\ u \in Units
    BY <1>4, <1>6
  <2> QED BY <2>1 DEF Contains
<1>8. <<u, k>> \in FreeCells
  BY <1>5, <1>7 DEF FreeCells
<1>9. Unlink(u, k) /\ op = Idle /\ op' = [kind |-> "split", unit |-> u, class |-> k, units |-> n] /\ used' = used
  BY DEF Allocate
<1> HIDE DEF u, k
<1>10. /\ FreeCells' = FreeCells \ {<<u, k>>} /\ Records'
       /\ table' \in [Classes -> Seq(Units)] /\ \A d \in Classes : IsInjective(table'[d])
  BY <1>5, <1>7, <1>8, <1>9, UnlinkCells
<1>11. Types'
  BY <1>5, <1>7, <1>9, <1>10 DEF Types, Ops
<1>12. Tiling(Tiles)'
  <2> DEFINE f == FreeTile(<<u, k>>)
             h == HandTile(u, k)
  <2>1. HandTiles = {} /\ HandTiles' = {h}
    BY <1>9 DEF HandTiles, Idle
  <2>2. RunTiles' = RunTiles
    BY <1>9 DEF RunTiles
  <2>3. FreeTiles' = FreeTiles \ {f}
    <3>1. \A g \in FreeCells : FreeTile(g) = f => g = <<u, k>>
      BY FreeApart DEF FreeTile
    <3> QED BY <1>8, <1>10, <3>1 DEF FreeTiles
  <2>4. f \in Tiles /\ f \notin RunTiles
    BY <1>8 DEF Tiles, FreeTiles, RunTiles, FreeTile, RunTile
  <2>5. Tiles' = (Tiles \ {f}) \cup {h}
    BY <2>1, <2>2, <2>3, <2>4 DEF Tiles
  <2>6. IsTile(f) /\ f[2] = u /\ f[3] = k /\ h[2] = u /\ h[3] = k
    BY <2>4 DEF Tiling, FreeTile, HandTile
  <2>7. IsTile(h) /\ Span(h) = Span(f)
    BY <2>6 DEF IsTile, Span
  <2> HIDE DEF f, h
  <2>8. Apart({h}) /\ {f} \in SUBSET Tiles
    BY <2>4 DEF Apart
  <2>9. Tiling((Tiles \ {f}) \cup {h})
    BY <2>7, <2>8, Retiled
  <2> QED BY <2>5, <2>9 DEF Tiling
<1>13. SiblingsMerged'
  BY <1>10 DEF SiblingsMerged
<1>14. CallSound'
  BY <1>5, <1>9 DEF CallSound
<1> QED BY <1>10, <1>11, <1>12, <1>13, <1>14

\* Putting a cell in a list keeps siblings merged if its own is not free.
LEMMA MergedWith ==
  ASSUME Tiling(Tiles), SiblingsMerged, NEW u \in Units, NEW c \in Classes, Aligned(u, c),
         c < Threshold => <<Sibling(u, c), c>> \notin FreeCells,
         FreeCells' = FreeCells \cup {<<u, c>>}
  PROVE  SiblingsMerged'
<1> SUFFICES ASSUME NEW f \in FreeCells', f[2] < Threshold, <<Sibling(f[1], f[2]), f[2]>> \in FreeCells'
    PROVE FALSE
  BY DEF SiblingsMerged
<1>1. f[1] \in Units /\ f[2] \in Classes /\ f = <<f[1], f[2]>> /\ Aligned(f[1], f[2])
  <2>1. CASE f \in FreeCells
    BY <2>1, FreeApart
  <2>2. CASE f = <<u, c>>
    BY <2>2
  <2> QED BY <2>1, <2>2
<1>2. Sibling(f[1], f[2]) # f[1] /\ Sibling(Sibling(f[1], f[2]), f[2]) = f[1]
  BY <1>1, SiblingIn
<1>3. CASE f = <<u, c>>
  BY <1>2, <1>3
<1>4. CASE f # <<u, c>> /\ <<Sibling(f[1], f[2]), f[2]>> = <<u, c>>
  <2>1. f \in FreeCells /\ f[2] = c /\ f[1] = Sibling(u, c)
    BY <1>2, <1>4
  <2> QED BY <1>1, <2>1
<1>5. CASE f # <<u, c>> /\ <<Sibling(f[1], f[2]), f[2]>> # <<u, c>>
  BY <1>5 DEF SiblingsMerged
<1> QED BY <1>3, <1>4, <1>5

LEMMA SplitStep ==
  ASSUME IInv, Split
  PROVE  IInv'
<1> USE DEF IInv
<1> DEFINE u == op.unit
           c == op.class - 1
           s == Sibling(u, c)
           n == op.units
<1>1. /\ op.kind = "split" /\ SizeClass(n) < op.class /\ Push(s, c)
      /\ op' = [op EXCEPT !.class = c] /\ used' = used
  BY DEF Split
<1>2. /\ op = [kind |-> "split", unit |-> u, class |-> op.class, units |-> n]
      /\ u \in Units /\ op.class \in Classes /\ n \in Requests /\ SizeClass(n) \in Classes
  BY <1>1, OpParts, RequestClass
<1>3. c \in Classes /\ c \in Nat /\ c < Threshold /\ c + 1 = op.class /\ SizeClass(n) <= c
  BY <1>1, <1>2, SpaceSize
<1>4. Aligned(u, c + 1) /\ \A f \in FreeCells : Cell(u, c + 1) \cap Cell(f[1], f[2]) = {}
  BY <1>1, <1>3, HandApart
<1>5. Aligned(u, c) /\ Parent(u, c) = u
  BY <1>2, <1>3, <1>4, BuddyHalves, SpaceSize
<1>6. /\ s \in Units /\ Aligned(s, c) /\ Sibling(s, c) = u
      /\ Cell(u, c) \cup Cell(s, c) = Cell(u, c + 1) /\ Cell(u, c) \cap Cell(s, c) = {}
  BY <1>2, <1>3, <1>5, SiblingIn
<1>7. op' = [kind |-> "split", unit |-> u, class |-> c, units |-> n]
  BY <1>1, <1>2
<1> HIDE DEF c, s, u, n
<1>8. u \in Cell(u, c) /\ s \in Cell(s, c)
  BY <1>2, <1>3, <1>5, <1>6, CellParts
<1>9. <<s, c>> \notin FreeCells /\ <<u, c>> \notin FreeCells
  <2>1. ASSUME NEW x, <<x, c>> \in FreeCells PROVE Cell(u, c + 1) \cap Cell(x, c) = {}
    <3>1. <<x, c>>[1] = x /\ <<x, c>>[2] = c
      OBVIOUS
    <3> QED BY <1>4, <2>1, <3>1
  <2> QED BY <1>6, <1>8, <2>1
<1>10. /\ FreeCells' = FreeCells \cup {<<s, c>>} /\ Records'
       /\ table' \in [Classes -> Seq(Units)] /\ \A d \in Classes : IsInjective(table'[d])
  BY <1>1, <1>3, <1>6, <1>9, PushCells
<1>11. Types'
  <2>1. op' \in [kind : {"split"}, unit : Units, class : Classes, units : Requests]
    BY <1>2, <1>3, <1>7
  <2>2. op' \in Ops
    BY <2>1 DEF Ops
  <2> QED BY <1>1, <1>10, <2>2 DEF Types
<1>12. Tiling(Tiles)'
  <2> DEFINE h == HandTile(u, c + 1)
             f == FreeTile(<<s, c>>)
             g == HandTile(u, c)
  <2>1. HandTiles = {h} /\ HandTiles' = {g}
    BY <1>1, <1>3, <1>7 DEF HandTiles, u
  <2>2. RunTiles' = RunTiles /\ FreeTiles' = FreeTiles \cup {f}
    BY <1>1, <1>10 DEF RunTiles, FreeTiles
  <2>3. Tiles' = (Tiles \ {h}) \cup {f, g} /\ h \in Tiles
    <3>1. h \notin RunTiles /\ h \notin FreeTiles
      BY DEF RunTiles, FreeTiles, HandTile, RunTile, FreeTile
    <3> QED BY <2>1, <2>2, <3>1 DEF Tiles
  <2>4. f[2] = s /\ f[3] = c /\ g[2] = u /\ g[3] = c /\ h[2] = u /\ h[3] = c + 1
    BY DEF FreeTile, HandTile
  <2> HIDE DEF f, g, h
  <2>5. IsTile(f) /\ IsTile(g) /\ Span(f) = Cell(s, c) /\ Span(g) = Cell(u, c) /\ Span(h) = Cell(u, c + 1)
    BY <1>2, <1>3, <1>5, <1>6, <2>4 DEF IsTile, Span
  <2>6. Apart({f, g}) /\ UNION {Span(t) : t \in {h}} = UNION {Span(t) : t \in {f, g}}
    BY <1>6, <2>5 DEF Apart
  <2>7. Tiling((Tiles \ {h}) \cup {f, g})
    BY <2>3, <2>5, <2>6, Retiled
  <2> QED BY <2>3, <2>7 DEF Tiling
<1>13. SiblingsMerged'
  BY <1>3, <1>6, <1>9, <1>10, MergedWith
<1>14. CallSound'
  BY <1>3, <1>7 DEF CallSound
<1> QED BY <1>10, <1>11, <1>12, <1>13, <1>14

LEMMA ReturnStep ==
  ASSUME IInv, Return
  PROVE  IInv'
<1> USE DEF IInv
<1> DEFINE u == op.unit
           c == op.class
           r == <<u, op.units>>
<1>1. /\ op.kind = "split" /\ c = SizeClass(op.units) /\ used' = used \cup {r}
      /\ op' = Idle /\ table' = table /\ bst' = bst /\ paged' = paged
  BY DEF Return
<1>2. u \in Units /\ c \in Classes /\ op.units \in Requests
  BY <1>1, OpParts
<1>3. FreeCells' = FreeCells /\ Records' /\ SiblingsMerged'
  BY <1>1 DEF FreeCells, Records, SiblingsMerged
<1>4. Types'
  BY <1>1, <1>2 DEF Types, Ops
<1>5. Tiling(Tiles)'
  <2> DEFINE h == HandTile(u, c)
             t == RunTile(r)
  <2>1. HandTiles = {h} /\ HandTiles' = {}
    BY <1>1 DEF HandTiles, Idle
  <2>2. RunTiles' = RunTiles \cup {t} /\ FreeTiles' = FreeTiles
    BY <1>1, <1>3 DEF RunTiles, FreeTiles
  <2>3. Tiles' = (Tiles \ {h}) \cup {t} /\ h \in Tiles
    <3>1. h \notin RunTiles /\ h \notin FreeTiles
      BY DEF RunTiles, FreeTiles, HandTile, RunTile, FreeTile
    <3> QED BY <2>1, <2>2, <3>1 DEF Tiles
  <2>4. t[2] = u /\ t[3] = c /\ h[2] = u /\ h[3] = c
    BY <1>1 DEF RunTile, HandTile
  <2> HIDE DEF t, h
  <2>5. IsTile(t) /\ Span(h) = Span(t)
    BY <2>3, <2>4 DEF IsTile, Span, Tiling
  <2>6. Apart({t}) /\ {h} \in SUBSET Tiles
    BY <2>3 DEF Apart
  <2>7. Tiling((Tiles \ {h}) \cup {t})
    BY <2>5, <2>6, Retiled
  <2> QED BY <2>3, <2>7 DEF Tiling
<1>6. CallSound'
  BY <1>1 DEF CallSound, Idle
<1> QED BY <1>3, <1>4, <1>5, <1>6
LEMMA ReleaseCallStep ==
  ASSUME IInv, NEW r \in used, ReleaseCall(r)
  PROVE  IInv'
<1> USE DEF IInv
<1> DEFINE u == r[1]
           c == SizeClass(r[2])
           h == HandTile(u, c)
<1>1. /\ op = Idle /\ used' = used \ {r} /\ op' = Releasing(u, u + r[2])
      /\ table' = table /\ bst' = bst /\ paged' = paged
  BY DEF ReleaseCall
<1>2. /\ u \in Units /\ c \in Classes /\ r[2] = 2^c /\ r[2] \in Nat
      /\ \A s \in used : RunTile(s) = RunTile(r) => s = r
  BY RunParts
<1>3. op'.kind = "release" /\ op'.start = u /\ op'.limit = u + 2^c
  BY <1>1, <1>2 DEF Releasing
<1>4. u \in Nat /\ op'.start < op'.limit /\ SizeClass(op'.limit - op'.start) = c /\ op'.limit \in Nat
  <2>1. u \in Nat
    BY <1>2, SpaceSize
  <2> HIDE DEF u, c
  <2> QED BY <1>2, <1>3, <2>1, ReleasingCell
<1>5. FreeCells' = FreeCells /\ Records' /\ SiblingsMerged'
  BY <1>1 DEF FreeCells, Records, SiblingsMerged
<1>6. Types'
  <2>1. op' \in [kind : {"release"}, start : Nat, limit : Nat]
    BY <1>1, <1>2, <1>3, <1>4 DEF Releasing
  <2> QED BY <1>1, <2>1 DEF Types, Ops
<1>7. Tiling(Tiles)'
  <2> DEFINE t == RunTile(r)
  <2>1. HandTiles = {} /\ HandTiles' = {h}
    <3>2. op'.kind \notin {"split", "merge"} /\ op.kind = "idle"
      BY <1>1, <1>3 DEF Idle
    <3>3. HandTiles' = {h}
      BY <1>3, <1>4, <3>2, Zenon DEF HandTiles
    <3> QED BY <3>2, <3>3 DEF HandTiles
  <2>2. RunTiles' = RunTiles \ {t} /\ FreeTiles' = FreeTiles
    BY <1>1, <1>2, <1>5 DEF RunTiles, FreeTiles
  <2>3. Tiles' = (Tiles \ {t}) \cup {h} /\ t \in Tiles
    <3>1. t \in RunTiles /\ t \notin FreeTiles
      BY DEF RunTiles, FreeTiles, RunTile, FreeTile
    <3> QED BY <2>1, <2>2, <3>1 DEF Tiles
  <2>4. t[2] = u /\ t[3] = c /\ h[2] = u /\ h[3] = c
    BY DEF RunTile, HandTile
  <2> HIDE DEF t, h
  <2>5. IsTile(h) /\ Span(h) = Span(t)
    BY <2>3, <2>4 DEF IsTile, Span, Tiling
  <2>6. Apart({h}) /\ {t} \in SUBSET Tiles
    BY <2>3 DEF Apart
  <2>7. Tiling((Tiles \ {t}) \cup {h})
    BY <2>5, <2>6, Retiled
  <2> QED BY <2>3, <2>7 DEF Tiling
<1>8. CallSound'
  BY <1>2, <1>3 DEF CallSound
<1> QED BY <1>5, <1>6, <1>7, <1>8

\* The first cell that Cut takes is all there is to release.
LEMMA CutCell ==
  ASSUME IInv, Cut
  PROVE  \E c \in Classes :
           /\ op.kind = "release" /\ op.start \in Units /\ op.start \in Nat /\ op.limit = op.start + 2^c
           /\ HandTiles = {HandTile(op.start, c)} /\ 2^c \in Nat
           /\ op' = [kind |-> "merge", unit |-> op.start, class |-> c, start |-> op.limit, limit |-> op.limit]
<1> USE DEF IInv
<1> DEFINE n == op.limit - op.start
<1>1. op.kind = "release" /\ op.start < op.limit /\ op.start \in Nat /\ op.limit \in Nat
  BY OpParts DEF Cut
<1>2. PICK c \in Classes : op.limit = op.start + 2^c
  BY <1>1 DEF CallSound
<1>3. n = 2^c /\ SizeClass(n) = c /\ n = 2^SizeClass(n) /\ 2^c \in Nat
  <2>1. 2^c \in Nat /\ SizeClass(2^c) = c
    BY SizeClassPower, SpaceSize, PowerNat
  <2> QED BY <1>1, <1>2, <2>1
<1>4. HandTiles = {HandTile(op.start, c)}
  BY <1>1, <1>3 DEF HandTiles
<1>5. op.start \in Units /\ Aligned(op.start, c)
  <2>1. HandTile(op.start, c) \in Tiles
    BY <1>4 DEF Tiles
  <2> QED BY <2>1 DEF Tiling, IsTile, HandTile
<1>6. c <= TrailingZeros(op.start)
  <2> DEFINE S == {d \in Classes : Aligned(op.start, d)}
  <2>1. S \in SUBSET Nat /\ c \in S /\ \A d \in S : d <= Threshold
    BY <1>5, SpaceSize
  <2> DEFINE G == {Threshold - d : d \in S}
  <2>2. G \in SUBSET Nat /\ G # {}
    BY <2>1, SpaceSize
  <2>3. PICK g \in G : \A x \in G : g <= x
    BY <2>2, NatMin
  <2>4. PICK m \in S : g = Threshold - m
    BY <2>3
  <2>5. \A d \in S : d <= m
    <3>1. \A d \in S : Threshold - m <= Threshold - d
      BY <2>3, <2>4
    <3> QED BY <2>1, <3>1, SpaceSize
  <2>6. \E x \in S : \A y \in S : x >= y
    BY <2>1, <2>5
  <2> HIDE DEF S
  <2>7. Max(S) \in S /\ \A y \in S : Max(S) >= y
    BY <2>6 DEF Max
  <2>8. c <= Max(S)
    BY <2>1, <2>7
  <2> QED BY <2>8 DEF TrailingZeros, S
<1>7. op' = [kind |-> "merge", unit |-> op.start, class |-> c, start |-> op.start + 2^c, limit |-> op.limit]
  BY <1>3, <1>6 DEF Cut
<1> QED BY <1>1, <1>2, <1>3, <1>4, <1>5, <1>7

LEMMA CutStep ==
  ASSUME IInv, Cut
  PROVE  IInv'
<1> USE DEF IInv
<1>1. PICK c \in Classes :
        /\ op.kind = "release" /\ op.start \in Units /\ op.start \in Nat /\ op.limit = op.start + 2^c
        /\ HandTiles = {HandTile(op.start, c)} /\ 2^c \in Nat
        /\ op' = [kind |-> "merge", unit |-> op.start, class |-> c, start |-> op.limit, limit |-> op.limit]
  BY CutCell
<1>2. used' = used /\ table' = table /\ bst' = bst /\ paged' = paged
  BY DEF Cut
<1>3. FreeCells' = FreeCells /\ Records' /\ SiblingsMerged'
  BY <1>2 DEF FreeCells, Records, SiblingsMerged
<1>4. Types'
  <2>1. op' \in [kind : {"merge"}, unit : Units, class : Classes, start : Nat, limit : Nat]
    <3>1. op.limit \in Nat
      BY <1>1
    <3> QED BY <1>1, <3>1
  <2> QED BY <1>2, <2>1 DEF Types, Ops
<1>5. Tiles' = Tiles
  BY <1>1, <1>2, <1>3 DEF Tiles, HandTiles, FreeTiles, RunTiles
<1>6. CallSound'
  BY <1>1 DEF CallSound
<1> QED BY <1>3, <1>4, <1>5, <1>6 DEF Tiling

LEMMA MergeStep ==
  ASSUME IInv, Merge
  PROVE  IInv'
<1> USE DEF IInv
<1> DEFINE u == op.unit
           c == op.class
           s == Sibling(u, c)
           p == Parent(u, c)
<1>1. /\ op.kind = "merge" /\ c < Threshold /\ IsFree(s, c) /\ Unlink(s, c)
      /\ op' = [op EXCEPT !.unit = p, !.class = c + 1] /\ used' = used
  BY DEF Merge, Mergeable
<1>2. /\ op = [kind |-> "merge", unit |-> u, class |-> c, start |-> op.start, limit |-> op.limit]
      /\ u \in Units /\ c \in Classes /\ op.start \in Nat /\ op.limit \in Nat /\ op.start = op.limit
  BY <1>1, OpParts DEF CallSound
<1>3. Aligned(u, c) /\ \A f \in FreeCells : Cell(u, c) \cap Cell(f[1], f[2]) = {}
  BY <1>1, HandApart
<1>4. /\ s \in Units /\ Aligned(s, c) /\ p \in Units /\ Aligned(p, c + 1) /\ c + 1 \in Classes
      /\ Cell(u, c) \cup Cell(s, c) = Cell(p, c + 1) /\ Cell(u, c) \cap Cell(s, c) = {}
  BY <1>1, <1>2, <1>3, SiblingIn
<1>5. op' = [kind |-> "merge", unit |-> p, class |-> c + 1, start |-> op.start, limit |-> op.limit]
  BY <1>1, <1>2
<1> HIDE DEF u, c, s, p
<1>6. <<s, c>> \in FreeCells
  BY <1>1, <1>2, <1>4, IsFreeMeans
<1>7. /\ FreeCells' = FreeCells \ {<<s, c>>} /\ Records'
      /\ table' \in [Classes -> Seq(Units)] /\ \A d \in Classes : IsInjective(table'[d])
  BY <1>1, <1>2, <1>4, <1>6, UnlinkCells
<1>8. Types'
  <2>1. op' \in [kind : {"merge"}, unit : Units, class : Classes, start : Nat, limit : Nat]
    BY <1>2, <1>4, <1>5
  <2>2. op' \in Ops
    BY <2>1 DEF Ops
  <2> QED BY <1>1, <1>7, <2>2 DEF Types
<1>9. Tiling(Tiles)'
  <2> DEFINE h == HandTile(u, c)
             f == FreeTile(<<s, c>>)
             g == HandTile(p, c + 1)
  <2>1. HandTiles = {h} /\ HandTiles' = {g}
    BY <1>1, <1>5 DEF HandTiles, u, c
  <2>2. RunTiles' = RunTiles
    BY <1>1 DEF RunTiles
  <2>3. FreeTiles' = FreeTiles \ {f} /\ f \in FreeTiles
    <3>1. \A x \in FreeCells : FreeTile(x) = f => x = <<s, c>>
      BY FreeApart DEF FreeTile
    <3> QED BY <1>6, <1>7, <3>1 DEF FreeTiles
  <2>4. Tiles' = (Tiles \ {h, f}) \cup {g} /\ h \in Tiles /\ f \in Tiles
    <3>1. h \notin RunTiles /\ h \notin FreeTiles /\ f \notin RunTiles
      BY DEF RunTiles, FreeTiles, HandTile, RunTile, FreeTile
    <3> QED BY <2>1, <2>2, <2>3, <3>1 DEF Tiles
  <2>5. f[2] = s /\ f[3] = c /\ g[2] = p /\ g[3] = c + 1 /\ h[2] = u /\ h[3] = c
    BY DEF FreeTile, HandTile
  <2> HIDE DEF f, g, h
  <2>6. IsTile(g) /\ Span(f) = Cell(s, c) /\ Span(h) = Cell(u, c) /\ Span(g) = Cell(p, c + 1)
    BY <1>4, <2>5 DEF IsTile, Span
  <2>7. Apart({g}) /\ UNION {Span(t) : t \in {h, f}} = UNION {Span(t) : t \in {g}}
    BY <1>4, <2>6 DEF Apart
  <2>8. Tiling((Tiles \ {h, f}) \cup {g})
    BY <2>4, <2>6, <2>7, Retiled
  <2> QED BY <2>4, <2>8 DEF Tiling
<1>10. SiblingsMerged'
  BY <1>7 DEF SiblingsMerged
<1>11. CallSound'
  BY <1>2, <1>5 DEF CallSound
<1> QED BY <1>7, <1>8, <1>9, <1>10, <1>11

LEMMA SettleStep ==
  ASSUME IInv, Settle
  PROVE  IInv'
<1> USE DEF IInv
<1> DEFINE u == op.unit
           c == op.class
<1>1. /\ op.kind = "merge" /\ ~(c < Threshold /\ IsFree(Sibling(u, c), c)) /\ Push(u, c)
      /\ op' = Releasing(op.start, op.limit) /\ used' = used
  BY DEF Settle, Mergeable
<1>2. /\ u \in Units /\ c \in Classes /\ op.start \in Nat /\ op.limit \in Nat /\ op.start = op.limit
      /\ op'.kind = "release" /\ op'.start = op.start /\ op'.limit = op.limit
  BY <1>1, OpParts DEF CallSound, Releasing
<1>3. /\ Aligned(u, c) /\ u \in Cell(u, c)
      /\ \A f \in FreeCells : Cell(u, c) \cap Cell(f[1], f[2]) = {}
  BY <1>1, HandApart
<1>4. <<u, c>> \notin FreeCells
  <2>1. SUFFICES ASSUME <<u, c>> \in FreeCells PROVE FALSE
    OBVIOUS
  <2>2. <<u, c>>[1] = u /\ <<u, c>>[2] = c
    OBVIOUS
  <2> HIDE DEF u, c
  <2> QED BY <1>3, <2>1, <2>2
<1>5. c < Threshold => <<Sibling(u, c), c>> \notin FreeCells
  <2>1. SUFFICES ASSUME c < Threshold PROVE <<Sibling(u, c), c>> \notin FreeCells
    OBVIOUS
  <2>2. Sibling(u, c) \in Units /\ Aligned(Sibling(u, c), c)
    BY <1>2, <1>3, <2>1, SiblingIn
  <2> QED BY <1>1, <1>2, <2>1, <2>2, IsFreeMeans
<1> HIDE DEF u, c
<1>6. /\ FreeCells' = FreeCells \cup {<<u, c>>} /\ Records'
      /\ table' \in [Classes -> Seq(Units)] /\ \A d \in Classes : IsInjective(table'[d])
  BY <1>1, <1>2, <1>4, PushCells
<1>7. Types'
  <2>1. op' \in [kind : {"release"}, start : Nat, limit : Nat]
    BY <1>1, <1>2 DEF Releasing
  <2> QED BY <1>1, <1>6, <2>1 DEF Types, Ops
<1>8. Tiling(Tiles)'
  <2> DEFINE h == HandTile(u, c)
             f == FreeTile(<<u, c>>)
  <2>1. HandTiles = {h} /\ HandTiles' = {}
    BY <1>1, <1>2 DEF HandTiles, u, c
  <2>2. RunTiles' = RunTiles /\ FreeTiles' = FreeTiles \cup {f}
    BY <1>1, <1>6 DEF RunTiles, FreeTiles
  <2>3. Tiles' = (Tiles \ {h}) \cup {f} /\ h \in Tiles
    <3>1. h \notin RunTiles /\ h \notin FreeTiles
      BY DEF RunTiles, FreeTiles, HandTile, RunTile, FreeTile
    <3> QED BY <2>1, <2>2, <3>1 DEF Tiles
  <2>4. f[2] = u /\ f[3] = c /\ h[2] = u /\ h[3] = c
    BY DEF FreeTile, HandTile
  <2> HIDE DEF f, h
  <2>5. IsTile(f) /\ Span(h) = Span(f)
    BY <1>2, <1>3, <2>4 DEF IsTile, Span
  <2>6. Apart({f}) /\ {h} \in SUBSET Tiles
    BY <2>3 DEF Apart
  <2>7. Tiling((Tiles \ {h}) \cup {f})
    BY <2>5, <2>6, Retiled
  <2> QED BY <2>3, <2>7 DEF Tiling
<1>9. SiblingsMerged'
  BY <1>2, <1>3, <1>5, <1>6, MergedWith
<1>10. CallSound'
  BY <1>2 DEF CallSound
<1> QED BY <1>6, <1>7, <1>8, <1>9, <1>10

LEMMA ReleaseDoneStep ==
  ASSUME IInv, ReleaseDone
  PROVE  IInv'
<1> USE DEF IInv
<1>1. /\ op.kind = "release" /\ op.start = op.limit /\ op' = Idle
      /\ used' = used /\ table' = table /\ bst' = bst /\ paged' = paged
  BY DEF ReleaseDone
<1>2. FreeCells' = FreeCells /\ Records' /\ SiblingsMerged'
  BY <1>1 DEF FreeCells, Records, SiblingsMerged
<1>3. HandTiles = {} /\ HandTiles' = {}
  <2>1. op.start \in Nat
    BY <1>1, OpParts
  <2> QED BY <1>1, <2>1 DEF HandTiles, Idle
<1>4. Tiles' = Tiles
  BY <1>1, <1>2, <1>3 DEF Tiles, FreeTiles, RunTiles
<1>5. Types' /\ CallSound'
  BY <1>1 DEF Types, Ops, CallSound, Idle
<1> QED BY <1>2, <1>4, <1>5 DEF Tiling

LEMMA NextSound ==
  ASSUME IInv, [Next]_vars
  PROVE  IInv'
<1>1. CASE Next
  BY <1>1, AllocateStep, SplitStep, ReturnStep, ReleaseCallStep, CutStep, MergeStep, SettleStep,
     ReleaseDoneStep DEF Next
<1>2. CASE UNCHANGED vars
  <2>1. table' = table /\ bst' = bst /\ paged' = paged /\ used' = used /\ op' = op
    BY <1>2 DEF vars
  <2>2. FreeCells' = FreeCells
    BY <2>1 DEF FreeCells
  <2>3. Tiles' = Tiles
    BY <2>1, <2>2 DEF Tiles, FreeTiles, RunTiles, HandTiles
  <2> QED BY <2>1, <2>2, <2>3 DEF IInv, Types, Records, Tiling, SiblingsMerged, CallSound
<1> QED BY <1>1, <1>2

\* The cells of the lists, the runs in use and the cell in hand tile the
\* units, with all records of the lists equal and no two siblings in a list,
\* in every reachable state.
THEOREM IInvInvariant == Spec => []IInv
BY InitSound, NextSound, PTL DEF Spec
----------------------------------------------------------------------------
\* What the invariant says

LEMMA CellsFinite == IsFiniteSet(FreeCells)
<1>1. IsFiniteSet(Units) /\ IsFiniteSet(Classes)
  BY SpaceSize, FS_Interval
<1>2. IsFiniteSet(Units \X Classes)
  BY <1>1, FS_Product
<1> QED BY <1>2, FS_Subset DEF FreeCells

LEMMA TypesHold ==
  ASSUME IInv
  PROVE  TypeOK
<1> USE DEF IInv
<1>1. ASSUME NEW c \in Classes, NEW u \in Range(table[c]) PROVE Aligned(u, c)
  <2>1. table[c] \in Seq(Units)
    BY DEF Types
  <2>2. PICK i \in 1..Len(table[c]) : u = table[c][i]
    BY <2>1 DEF Range
  <2>3. u \in Units /\ Contains(table[c], u)
    BY <2>1, <2>2 DEF Contains
  <2>4. <<u, c>> \in FreeCells
    BY <2>3 DEF FreeCells
  <2>5. Aligned(<<u, c>>[1], <<u, c>>[2])
    BY <2>4, FreeApart
  <2> QED BY <2>5
<1>2. ASSUME NEW u \in Units, NEW c \in Classes
      PROVE  UnitToIndex(u, c) \in 1..(2^NumSizeClass - 1)
  <2> DEFINE m == 2^(Threshold - c)
  <2>1. Threshold - c \in Nat /\ Threshold - c \in 0..Threshold /\ Threshold + 1 = NumSizeClass
        /\ Threshold \in Nat
    BY SpaceSize DEF Threshold
  <2>2. m \in Nat \ {0} /\ m <= 2^Threshold /\ 2^Threshold \in Nat /\ 2^NumSizeClass = 2 * 2^Threshold
    <3>1. 2^(Threshold + 1) = 2 * 2^Threshold
      BY <2>1, PowerStep
    <3> QED BY <2>1, <3>1, PowerNat, PowerGrows
  <2>3. UnitToIndex(u, c) \in m..(2 * m - 1)
    BY CellParts
  <2> HIDE DEF m
  <2> QED BY <2>2, <2>3
<1>3. bst \subseteq 1..(2^NumSizeClass - 1) /\ paged \subseteq Units
  <2>1. \A f \in FreeCells : f[1] \in Units /\ f[2] \in Classes
    BY FreeApart
  <2> QED BY <1>2, <2>1 DEF Records
<1>4. op.kind \in {"split", "merge"} => Aligned(op.unit, op.class)
  BY HandApart
<1> QED BY <1>1, <1>3, <1>4 DEF TypeOK, Types

LEMMA RecordsHold ==
  ASSUME IInv
  PROVE  RecordsAgree
<1> USE DEF IInv
<1>1. Cardinality(paged) = Cardinality(FreeCells)
  <2> DEFINE first == [f \in FreeCells |-> f[1]]
  <2>1. first \in Bijection(FreeCells, paged)
    <3>1. paged = {f[1] : f \in FreeCells}
      BY DEF Records
    <3>2. \A f, g \in FreeCells : f[1] = g[1] => f = g
      BY FreeApart
    <3> QED BY <3>1, <3>2 DEF Bijection, Injection, Surjection, IsInjective
  <2> QED BY <2>1, CellsFinite, FS_Bijection DEF ExistsBijection
<1> QED BY <1>1 DEF RecordsAgree, Types, Records

\* Each unit is in exactly one tile.
LEMMA UnitsHold ==
  ASSUME IInv
  PROVE  UnitsConserved
<1> USE DEF IInv
<1> SUFFICES ASSUME NEW u \in Units
    PROVE  Cardinality({f \in FreeCells : u \in Cell(f[1], f[2])})
           + Cardinality({r \in used : u \in r[1]..(r[1] + r[2] - 1)})
           + (IF u \in InHand THEN 1 ELSE 0) = 1
  BY DEF UnitsConserved
<1> DEFINE F == {f \in FreeCells : u \in Cell(f[1], f[2])}
           R == {r \in used : u \in r[1]..(r[1] + r[2] - 1)}
<1>1. \A f \in FreeCells : FreeTile(f) \in Tiles /\ Span(FreeTile(f)) = Cell(f[1], f[2])
  BY DEF Tiles, FreeTiles, FreeTile, Span
<1>2. \A r \in used : RunTile(r) \in Tiles /\ Span(RunTile(r)) = r[1]..(r[1] + r[2] - 1)
  <2>1. SUFFICES ASSUME NEW r \in used
                 PROVE  RunTile(r) \in Tiles /\ Span(RunTile(r)) = r[1]..(r[1] + r[2] - 1)
    OBVIOUS
  <2>2. r[2] = 2^SizeClass(r[2])
    BY RunParts
  <2>3. RunTile(r)[2] = r[1] /\ RunTile(r)[3] = SizeClass(r[2])
    BY DEF RunTile
  <2> QED BY <2>2, <2>3 DEF Tiles, RunTiles, Span, Cell
<1>3. InHand = UNION {Span(t) : t \in HandTiles}
  <2>1. op.kind \in {"idle", "split", "release", "merge"}
    BY OpParts
  <2>2. CASE op.kind = "idle"
    BY <2>2 DEF InHand, HandTiles
  <2>3. CASE op.kind = "split"
    BY <2>3 DEF InHand, HandTiles, HandTile, Span
  <2>4. CASE op.kind = "merge"
    <3>1. op.start = op.limit /\ op.start \in Nat
      BY <2>4, OpParts DEF CallSound
    <3>2. op.start..(op.limit - 1) = {}
      BY <3>1
    <3> QED BY <2>4, <3>2 DEF InHand, HandTiles, HandTile, Span
  <2>5. CASE op.kind = "release"
    <3>1. op.start \in Nat /\ op.limit \in Nat
      BY <2>5, OpParts
    <3>2. CASE op.start = op.limit
      BY <2>5, <3>1, <3>2 DEF InHand, HandTiles
    <3>3. CASE op.start # op.limit
      <4>1. PICK c \in Classes : op.limit = op.start + 2^c
        BY <2>5, <3>3 DEF CallSound
      <4>2. op.start < op.limit /\ SizeClass(op.limit - op.start) = c
        BY <3>1, <4>1, ReleasingCell
      <4>3. HandTiles = {HandTile(op.start, c)}
        BY <2>5, <4>2 DEF HandTiles
      <4>4. Span(HandTile(op.start, c)) = op.start..(op.limit - 1)
        <5>1. HandTile(op.start, c)[2] = op.start /\ HandTile(op.start, c)[3] = c
          BY DEF HandTile
        <5>2. Span(HandTile(op.start, c)) = Cell(op.start, c)
          BY <5>1 DEF Span
        <5>3. 2^c \in Nat
          BY SpaceSize, PowerNat
        <5>4. op.start + 2^c - 1 = op.limit - 1
          BY <3>1, <4>1, <5>3
        <5> QED BY <5>2, <5>4 DEF Cell
      <4> QED BY <2>5, <4>3, <4>4 DEF InHand
    <3> QED BY <3>2, <3>3
  <2> QED BY <2>1, <2>2, <2>3, <2>4, <2>5
<1>4. PICK t \in Tiles : u \in Span(t) /\ \A s \in Tiles : u \in Span(s) => s = t
  BY TilesMeet DEF Tiling
<1>5. IsFiniteSet({}) /\ Cardinality({}) = 0
  BY FS_EmptySet
<1>6. \A f \in F : FreeTile(f) = t
  BY <1>1, <1>4
<1>7. \A r \in R : RunTile(r) = t
  BY <1>2, <1>4
<1>8. u \in InHand => t \in HandTiles
  <2>1. ASSUME u \in InHand PROVE t \in HandTiles
    <3>1. PICK h \in HandTiles : u \in Span(h)
      BY <1>3, <2>1
    <3>2. h \in Tiles
      BY DEF Tiles
    <3> QED BY <1>4, <3>1, <3>2
  <2> QED BY <2>1
<1>9. /\ \A f : FreeTile(f)[1] = "free"
      /\ \A r : RunTile(r)[1] = "run"
      /\ \A h \in HandTiles : h[1] = "hand"
  BY DEF FreeTile, RunTile, HandTiles, HandTile
<1>10. CASE t \in FreeTiles
  <2>1. PICK f \in FreeCells : t = FreeTile(f)
    BY <1>10 DEF FreeTiles
  <2>2. f \in F
    BY <1>1, <1>4, <2>1
  <2>3. \A g \in F : g = f
    <3>1. \A g \in F : g[1] = f[1] /\ g = <<g[1], g[2]>> /\ f = <<f[1], f[2]>> /\ g[2] = f[2]
      BY <1>6, <2>1 DEF FreeTile, FreeCells
    <3> QED BY <3>1
  <2>4. F = {f} /\ R = {} /\ u \notin InHand
    BY <1>7, <1>8, <1>9, <2>1, <2>2, <2>3
  <2>5. Cardinality(F) = 1 /\ Cardinality(R) = 0
    BY <1>5, <2>4, FS_Singleton
  <2> QED BY <2>4, <2>5
<1>11. CASE t \in RunTiles
  <2>1. PICK r \in used : t = RunTile(r)
    BY <1>11 DEF RunTiles
  <2>2. r \in R
    BY <1>2, <1>4, <2>1
  <2>3. \A s \in R : s = r
    BY <1>7, <2>1, RunParts
  <2>4. R = {r} /\ F = {} /\ u \notin InHand
    BY <1>6, <1>8, <1>9, <2>1, <2>2, <2>3
  <2>5. Cardinality(R) = 1 /\ Cardinality(F) = 0
    BY <1>5, <2>4, FS_Singleton
  <2> QED BY <2>4, <2>5
<1>12. CASE t \in HandTiles
  <2>1. F = {} /\ R = {} /\ u \in InHand
    BY <1>3, <1>4, <1>6, <1>7, <1>9, <1>12
  <2>2. Cardinality(F) = 0 /\ Cardinality(R) = 0
    BY <1>5, <2>1
  <2> QED BY <2>1, <2>2
<1> QED BY <1>10, <1>11, <1>12 DEF Tiles

LEMMA PushedHolds ==
  ASSUME IInv
  PROVE  PushedUnitNotFree
<1> USE DEF IInv
<1> SUFFICES ASSUME op.kind = "merge", NEW c \in Classes, IsFree(op.unit, c) PROVE FALSE
  BY DEF PushedUnitNotFree
<1>1. /\ op.unit \in Units /\ op.unit \in Cell(op.unit, op.class)
      /\ \A f \in FreeCells : Cell(op.unit, op.class) \cap Cell(f[1], f[2]) = {}
  BY HandApart
<1>2. PICK f \in FreeCells : op.unit \in Cell(f[1], f[2])
  BY <1>1, IsFreeMeans
<1> QED BY <1>1, <1>2

\* The lists, the bits and the page table agree and no unit is lost, at every
\* step of splitting and merging, for any number of size classes.
THEOREM FreeListStaysSound == Spec => []FreeListSound
<1>1. IInv => FreeListSound
  BY TypesHold, RecordsHold, UnitsHold, PushedHolds DEF FreeListSound
<1> QED BY <1>1, IInvInvariant, PTL
\* Of the units of an aligned run without units in use, those of a smallest
\* free cell have a sibling that is free, too, unless the cell is as large.
LEMMA RefusalsHold ==
  ASSUME IInv
  PROVE  NoFalseRefusal
<1> USE DEF IInv
<1> SUFFICES ASSUME op = Idle, NEW n \in Requests, Candidates(SizeClass(n)) = {},
                    NEW u \in Units, u % n = 0,
                    \A r \in used : (u..(u + n - 1)) \cap (r[1]..(r[1] + r[2] - 1)) = {}
             PROVE  FALSE
  BY DEF NoFalseRefusal
<1> DEFINE c == SizeClass(n)
           C == Cell(u, c)
<1>1. c \in Classes /\ n = 2^c /\ c \in Nat
  BY RequestClass, SpaceSize
<1>2. Aligned(u, c) /\ C = u..(u + n - 1)
  BY <1>1 DEF Aligned, Cell
<1> HIDE DEF c
<1>3. u \in C /\ C \subseteq Units /\ u \in Nat
  BY <1>1, <1>2, CellParts
<1>4. \A f \in FreeCells : f[2] < c
  <2>1. SUFFICES ASSUME NEW f \in FreeCells, c <= f[2] PROVE FALSE
    BY <1>1, FreeApart, SpaceSize
  <2>2. f[2] \in c..Threshold /\ Contains(table[f[2]], f[1])
    BY <1>1, <2>1, SpaceSize DEF FreeCells
  <2>3. f[2] \in Classes /\ table[f[2]] \in Seq(Units)
    BY <2>2, FreeApart DEF Types
  <2>4. table[f[2]] # <<>>
    BY <2>2, <2>3 DEF Contains
  <2>5. f[2] \in Candidates(c)
    BY <2>2, <2>4 DEF Candidates
  <2> QED BY <2>5 DEF c
<1>5. ASSUME NEW v \in C PROVE \E f \in FreeCells : v \in Cell(f[1], f[2])
  <2>1. PICK t \in Tiles : v \in Span(t)
    BY <1>3 DEF Tiling
  <2>2. t \notin HandTiles
    BY DEF HandTiles, Idle
  <2>3. t \notin RunTiles
    <3>1. SUFFICES ASSUME NEW r \in used, t = RunTile(r) PROVE FALSE
      BY DEF RunTiles
    <3>2. t[2] = r[1] /\ t[3] = SizeClass(r[2]) /\ r[2] = 2^SizeClass(r[2])
      BY <3>1, RunParts DEF RunTile
    <3>3. v \in r[1]..(r[1] + r[2] - 1)
      BY <2>1, <3>2 DEF Span, Cell
    <3> QED BY <1>2, <3>3
  <2>4. PICK f \in FreeCells : t = FreeTile(f)
    BY <2>2, <2>3 DEF Tiles, FreeTiles
  <2> QED BY <2>1, <2>4 DEF Span, FreeTile
\* The smallest free cell in the run
<1> DEFINE Sizes == {f[2] : f \in {g \in FreeCells : Cell(g[1], g[2]) \cap C # {}}}
<1>6. Sizes \in SUBSET Nat /\ Sizes # {}
  <2>1. \A f \in FreeCells : f[2] \in Nat
    BY FreeApart, SpaceSize
  <2> QED BY <1>3, <1>5, <2>1
<1>7. PICK d \in Sizes : \A k \in Sizes : d <= k
  BY <1>6, NatMin
<1>8. PICK f \in FreeCells : Cell(f[1], f[2]) \cap C # {} /\ f[2] = d
  BY <1>7
<1>9. \A g \in FreeCells : Cell(g[1], g[2]) \cap C # {} => f[2] <= g[2]
  BY <1>7, <1>8
<1> HIDE DEF Sizes
<1>10. /\ f[1] \in Units /\ f[2] \in Classes /\ Aligned(f[1], f[2]) /\ f[1] \in Nat /\ f[2] \in Nat
       /\ f[1] \in Cell(f[1], f[2]) /\ f[2] < c /\ f[2] < Threshold
  <2>1. f[1] \in Units /\ f[2] \in Classes /\ Aligned(f[1], f[2]) /\ f[1] \in Cell(f[1], f[2])
    BY FreeApart
  <2> QED BY <1>1, <1>4, <2>1, SpaceSize
<1> DEFINE s == Sibling(f[1], f[2])
           p == Parent(f[1], f[2])
           e == f[2] + 1
<1>11. /\ s \in Units /\ Aligned(s, f[2]) /\ p \in Units /\ Aligned(p, e) /\ e \in Classes
       /\ Cell(f[1], f[2]) \cup Cell(s, f[2]) = Cell(p, e)
       /\ Cell(f[1], f[2]) \cap Cell(s, f[2]) = {}
  BY <1>10, SiblingIn
<1>12. p \in Nat /\ s \in Nat /\ e \in Nat /\ e \in 0..c /\ s \in Cell(s, f[2])
  <2>1. p \in Nat /\ s \in Nat /\ e \in Nat /\ e \in 0..c
    BY <1>1, <1>10, <1>11, SpaceSize
  <2>2. s \in Cell(s, f[2])
    BY <1>10, <1>11, CellParts
  <2> QED BY <2>1, <2>2
<1> HIDE DEF s, p, C
<1>13. Cell(p, e) \subseteq C
  <2>1. Cell(p, e) \cap Cell(u, c) # {}
    BY <1>8, <1>11 DEF C
  <2>2. /\ u \in Nat /\ c \in Nat /\ Aligned(u, c)
        /\ p \in Nat /\ e \in 0..c /\ Aligned(p, e)
    BY <1>1, <1>2, <1>3, <1>11, <1>12
  <2> HIDE DEF e
  <2> QED BY <2>1, <2>2, AlignedNested DEF C
<1>14. PICK g \in FreeCells : s \in Cell(g[1], g[2])
  BY <1>5, <1>11, <1>12, <1>13
<1>15. /\ g[1] \in Units /\ g[2] \in Classes /\ g = <<g[1], g[2]>> /\ Aligned(g[1], g[2])
       /\ g[1] \in Nat /\ g[2] \in Nat
  BY FreeApart, SpaceSize
<1>16. f[2] <= g[2]
  <2>1. Cell(g[1], g[2]) \cap C # {}
    BY <1>11, <1>12, <1>13, <1>14
  <2> QED BY <1>9, <2>1
<1>17. g # f
  BY <1>11, <1>12, <1>14
<1>18. g[2] <= f[2]
  <2>1. SUFFICES ASSUME e <= g[2] PROVE FALSE
    BY <1>10, <1>15
  <2>2. e \in 0..g[2]
    BY <1>12, <1>15, <2>1
  <2>3. Cell(p, e) \cap Cell(g[1], g[2]) # {}
    BY <1>11, <1>12, <1>14
  <2>4. Cell(p, e) \subseteq Cell(g[1], g[2])
    BY <1>11, <1>12, <1>15, <2>2, <2>3, AlignedNested
  <2>5. f[1] \in Cell(f[1], f[2]) /\ f[1] \in Cell(g[1], g[2])
    BY <1>10, <1>11, <2>4
  <2> QED BY <1>17, <2>5, FreeApart
<1>19. g = <<s, f[2]>>
  <2>1. g[2] = f[2]
    BY <1>10, <1>15, <1>16, <1>18
  <2>2. g[1] = s
    <3>1. s \in Cell(g[1], f[2]) /\ Aligned(g[1], f[2])
      BY <1>14, <1>15, <2>1
    <3> QED BY <1>10, <1>11, <1>12, <1>15, <3>1, AlignedStart
  <2> QED BY <1>15, <2>1, <2>2
<1> QED BY <1>10, <1>19 DEF SiblingsMerged, s

\* A request is refused only if every aligned run of its size has a unit in
\* use: what is free has been merged.
THEOREM NoRequestRefused == Spec => []NoFalseRefusal
BY RefusalsHold, IInvInvariant, PTL

----------------------------------------------------------------------------
\* The abstract free list

LEMMA RunIn ==
  ASSUME Types, NEW u \in Units, NEW n \in Requests, Aligned(u, SizeClass(n))
  PROVE  <<u, n>> \in Ranges!Runs /\ Ranges!Span(<<u, n>>) = Cell(u, SizeClass(n))
<1>1. SizeClass(n) \in Classes /\ n = 2^SizeClass(n) /\ n \in Nat \ {0}
  BY RequestClass
<1>2. u % n = 0 /\ Cell(u, SizeClass(n)) = u..(u + n - 1)
  BY <1>1 DEF Aligned, Cell
<1>3. Cell(u, SizeClass(n)) \subseteq Units
  BY <1>1, CellParts
<1>4. u \in Nat /\ u + n <= NumUnits
  <2>1. u \in Nat /\ u + n - 1 \in u..(u + n - 1)
    BY <1>1, SpaceSize
  <2>2. u + n - 1 \in Units
    BY <1>2, <1>3, <2>1
  <2> QED BY <1>1, <2>1, <2>2, SpaceSize
<1>5. 2^(NumSizeClass - 1) = NumUnits
  BY DEF NumUnits
<1>6. Ranges!Runs = {r \in (0..(NumUnits - 1)) \X Requests : r[1] % r[2] = 0 /\ r[1] + r[2] <= NumUnits}
  BY <1>5 DEF Ranges!Runs
<1>7. u \in 0..(NumUnits - 1)
  BY SpaceSize
<1> QED BY <1>2, <1>4, <1>6, <1>7 DEF Ranges!Span

\* Every step hands out a run that overlaps none in use, takes one back, or
\* changes nothing of what the page resource sees.
THEOREM FreeListImplementsRanges == Spec => ImplementsRanges
<1>1. Init => Ranges!Init
  BY DEF Init, Ranges!Init
<1>2. IInv /\ [Next]_vars => [Ranges!Next]_used
  <2> SUFFICES ASSUME IInv, [Next]_vars, used' # used PROVE Ranges!Next
    OBVIOUS
  <2> USE DEF IInv
  <2>1. CASE Return
    <3> DEFINE r == <<op.unit, op.units>>
               h == HandTile(op.unit, op.class)
    <3>1. op.kind = "split" /\ op.class = SizeClass(op.units) /\ used' = used \cup {r}
      BY <2>1 DEF Return
    <3>2. op.unit \in Units /\ op.units \in Requests
      BY <3>1, OpParts
    <3>3. h \in Tiles /\ Span(h) = Cell(op.unit, op.class) /\ h[1] = "hand"
      BY <3>1 DEF Tiles, HandTiles, HandTile, Span
    <3>4. Aligned(op.unit, op.class)
      BY <3>1, HandApart
    <3>5. r \in Ranges!Runs /\ Ranges!Span(r) = Cell(op.unit, op.class)
      BY <3>1, <3>2, <3>4, RunIn
    <3>6. ASSUME NEW s \in used PROVE Ranges!Span(r) \cap Ranges!Span(s) = {}
      <4>1. /\ RunTile(s) \in Tiles /\ RunTile(s)[1] = "run"
            /\ RunTile(s)[2] = s[1] /\ RunTile(s)[3] = SizeClass(s[2])
        BY DEF Tiles, RunTiles, RunTile
      <4>2. s = <<s[1], s[2]>> /\ s[1] \in Units /\ s[2] \in Requests
        BY RunParts
      <4>3. Aligned(s[1], SizeClass(s[2])) /\ Span(RunTile(s)) = Cell(s[1], SizeClass(s[2]))
        BY <4>1 DEF Tiling, IsTile, Span
      <4>4. Ranges!Span(s) = Span(RunTile(s))
        BY <4>2, <4>3, RunIn
      <4>5. h # RunTile(s)
        BY <3>3, <4>1
      <4> QED BY <3>3, <3>5, <4>1, <4>4, <4>5 DEF Tiling, Apart
    <3>7. Ranges!Allocate(r)
      BY <3>1, <3>6 DEF Ranges!Allocate
    <3> QED BY <3>5, <3>7 DEF Ranges!Next
  <2>2. ASSUME NEW r \in used, ReleaseCall(r) PROVE Ranges!Next
    <3>1. r = <<r[1], r[2]>> /\ r[1] \in Units /\ r[2] \in Requests
      BY RunParts
    <3>2. RunTile(r) \in Tiles /\ RunTile(r)[2] = r[1] /\ RunTile(r)[3] = SizeClass(r[2])
      BY DEF Tiles, RunTiles, RunTile
    <3>3. Aligned(r[1], SizeClass(r[2]))
      BY <3>2 DEF Tiling, IsTile
    <3>4. r \in Ranges!Runs
      BY <3>1, <3>3, RunIn
    <3>5. Ranges!Release(r)
      BY <2>2 DEF ReleaseCall, Ranges!Release
    <3> QED BY <3>4, <3>5 DEF Ranges!Next
  <2>3. ASSUME (\E n \in Requests : Allocate(n)) \/ Split \/ Cut \/ Merge \/ Settle \/ ReleaseDone
               \/ UNCHANGED vars
        PROVE  used' = used
    BY <2>3 DEF Allocate, Split, Cut, Merge, Settle, ReleaseDone, vars
  <2> QED BY <2>1, <2>2, <2>3 DEF Next
<1> QED BY <1>1, <1>2, IInvInvariant, PTL DEF Spec, ImplementsRanges, Ranges!Spec
----------------------------------------------------------------------------
\* Tiles: <<tag, first word, number of words>>. The tag says what they are for.
Area(d) == d[2]..(d[2] + d[3] - 1)
Tile(d) == d[2] \in Nat /\ d[3] \in Nat \ {0} /\ d = <<d[1], d[2], d[3]>>

\* The tiles of D lie side by side in U.
Tiled(D, U) ==
  /\ \A d \in D : Tile(d) /\ Area(d) \subseteq U
  /\ \A d, e \in D : Area(d) \cap Area(e) # {} => d = e
  /\ \A w \in U : \E d \in D : w \in Area(d)

\* A tile has a first word.
LEMMA AreaFirst ==
  ASSUME NEW d, Tile(d)
  PROVE  d[2] \in Area(d)
BY DEF Tile, Area

\* More tiles beside the others
LEMMA TiledMore ==
  ASSUME NEW D, NEW U, Tiled(D, U), NEW E, NEW V, Tiled(E, V), U \cap V = {}
  PROVE  Tiled(D \cup E, U \cup V)
<1>1. \A d \in D \cup E : Tile(d) /\ Area(d) \subseteq U \cup V
  BY DEF Tiled
<1>2. \A d, e \in D \cup E : Area(d) \cap Area(e) # {} => d = e
  <2> SUFFICES ASSUME NEW d \in D \cup E, NEW e \in D \cup E, Area(d) \cap Area(e) # {}
               PROVE  d = e
    OBVIOUS
  <2>1. (d \in D => Area(d) \subseteq U) /\ (d \in E => Area(d) \subseteq V)
    BY DEF Tiled
  <2>2. (e \in D => Area(e) \subseteq U) /\ (e \in E => Area(e) \subseteq V)
    BY DEF Tiled
  <2>3. (d \in D /\ e \in D) \/ (d \in E /\ e \in E)
    BY <2>1, <2>2
  <2> QED BY <2>3 DEF Tiled
<1>3. \A w \in U \cup V : \E d \in D \cup E : w \in Area(d)
  BY DEF Tiled
<1> QED BY <1>1, <1>2, <1>3 DEF Tiled

\* A tile is taken away with its words.
LEMMA TiledLess ==
  ASSUME NEW D, NEW U, Tiled(D, U), NEW d \in D
  PROVE  Tiled(D \ {d}, U \ Area(d)) /\ Area(d) \subseteq U
<1>1. \A e \in D \ {d} : Tile(e) /\ Area(e) \subseteq U \ Area(d)
  BY DEF Tiled
<1>2. \A w \in U \ Area(d) : \E e \in D \ {d} : w \in Area(e)
  BY DEF Tiled
<1>3. \A e, f \in D \ {d} : Area(e) \cap Area(f) # {} => e = f
  BY DEF Tiled
<1> QED BY <1>1, <1>2, <1>3 DEF Tiled

\* A tile gives way to others with the same words.
LEMMA TiledAnew ==
  ASSUME NEW D, NEW U, Tiled(D, U), NEW d \in D, NEW E, Tiled(E, Area(d))
  PROVE  Tiled((D \ {d}) \cup E, U)
<1>1. Tiled(D \ {d}, U \ Area(d)) /\ Area(d) \subseteq U
  BY TiledLess
<1>2. Tiled((D \ {d}) \cup E, (U \ Area(d)) \cup Area(d))
  <2>1. (U \ Area(d)) \cap Area(d) = {}
    OBVIOUS
  <2> QED BY <1>1, <2>1, TiledMore
<1>3. (U \ Area(d)) \cup Area(d) = U
  BY <1>1
<1> QED BY <1>2, <1>3

\* One tile
LEMMA TiledOne ==
  ASSUME NEW h, NEW a \in Nat, NEW n \in Nat \ {0}
  PROVE  /\ Tiled({<<h, a, n>>}, a..(a + n - 1))
         /\ Tile(<<h, a, n>>) /\ Area(<<h, a, n>>) = a..(a + n - 1)
BY DEF Tiled, Tile, Area

\* A tile of the same words
LEMMA TiledSame ==
  ASSUME NEW d, Tile(d), NEW g
  PROVE  Tiled({<<g, d[2], d[3]>>}, Area(d))
BY TiledOne DEF Tile, Area

\* Two tiles that are halves of one
LEMMA TiledTwo ==
  ASSUME NEW h, NEW g, NEW a \in Nat, NEW n \in Nat \ {0}
  PROVE  Tiled({<<h, a, n>>, <<g, a + n, n>>}, a..(a + 2 * n - 1))
<1>0. a + n \in Nat
  OBVIOUS
<1>1. Tiled({<<h, a, n>>}, a..(a + n - 1)) /\ Tiled({<<g, a + n, n>>}, (a + n)..(a + n + n - 1))
  BY <1>0, TiledOne
<1>2. (a..(a + n - 1)) \cap ((a + n)..(a + n + n - 1)) = {}
  OBVIOUS
<1>3. (a..(a + n - 1)) \cup ((a + n)..(a + n + n - 1)) = a..(a + 2 * n - 1)
  OBVIOUS
<1>4. Tiled({<<h, a, n>>} \cup {<<g, a + n, n>>}, a..(a + 2 * n - 1))
  BY <1>1, <1>2, <1>3, TiledMore
<1>5. {<<h, a, n>>} \cup {<<g, a + n, n>>} = {<<h, a, n>>, <<g, a + n, n>>}
  OBVIOUS
<1> QED BY <1>4, <1>5
----------------------------------------------------------------------------
\* What the meta memory consists of: cells in the lists, and what is held.
Loose(t, c, a) == <<<<"free", <<t, c>>>>, a, 2^c>>
IsLoose(d) == d[1][1] = "free"

\* The tiles that are in no list
Held(D) == {d \in D : ~IsLoose(d)}

\* The cells in list c of thread t
LooseIn(D, t, c) == {a \in Words : Loose(t, c, a) \in D}

\* The words that can be linked, and what their links lead to
Linkable == Words \ {Zero}
NextWord(m) == [b \in Linkable |-> Target(m.mem[b])]

\* Types of the memory
Entries == Nat \X (Values \cup Int) \X Int
Metas == [mem : [Words -> Entries], lists : [Threads -> [CellClasses -> Words]],
          mapped : SUBSET (1..MaxFrames), committed : Int]

\* A free tile is a cell of its list.
LooseSound(D) ==
  \A d \in D : IsLoose(d) =>
    \E t \in Threads, c \in CellClasses : d = Loose(t, c, d[2]) /\ Aligned(d[2], c)

\* Each list holds the cells that are there.
Linked(m, D) ==
  \A t \in Threads, c \in CellClasses :
    Listed(LooseIn(D, t, c), m.lists[t][c], NextWord(m), Zero)

\* Tiles of the mapped pages explain the memory.
Store(m, D) ==
  /\ m \in Metas /\ m.committed = Cardinality(m.mapped)
  /\ Tiled(D, WordsOf(m.mapped))
  /\ LooseSound(D)
  /\ Linked(m, D)

\* Sizes of pages and cells
LEMMA Sizes ==
  /\ PageWords \in Nat \ {0} /\ PageWords = 2^LogPage /\ LogPage \in Nat \ {0}
  /\ MaxFrames \in Nat
  /\ CellClasses \subseteq Nat
  /\ \A c \in CellClasses : c \in Nat /\ 2^c \in Nat \ {0} /\ 2^c <= PageWords
<1>1. LogPage \in Nat \ {0} /\ MaxFrames \in Nat
  BY MetaAssumption
<1>2. PageWords \in Nat \ {0} /\ PageWords = 2^LogPage
  BY <1>1, PowerNat DEF PageWords
<1>3. ASSUME NEW c \in CellClasses
      PROVE  c \in Nat /\ 2^c \in Nat \ {0} /\ 2^c <= PageWords
  <2>1. c \in Nat /\ c \in 0..LogPage
    BY <1>1 DEF CellClasses
  <2> QED BY <1>1, <1>2, <2>1, PowerNat, PowerGrows
<1> QED BY <1>1, <1>2, <1>3

\* The words: those of the root table, and those of pages.
LEMMA WordsParts ==
  /\ Words = 0..(PageWords * (MaxFrames + 1) - 1) /\ Words \subseteq Nat /\ Zero \in Words
  /\ IsFiniteSet(Words)
  /\ \A S \in SUBSET (1..MaxFrames) : WordsOf(S) \subseteq Words
  /\ \A S \in SUBSET (1..MaxFrames) : \A w \in WordsOf(S) : w >= PageWords /\ w # Zero
  /\ \A w \in Words : w >= PageWords => w \div PageWords \in 1..MaxFrames
<1> DEFINE P == PageWords
           M == MaxFrames
<1>1. P \in Nat \ {0} /\ M \in Nat
  BY Sizes
<1>2. P * (M + 1) \in Nat /\ P * (M + 1) >= 1
  BY <1>1
<1>3. ASSUME NEW p \in 1..M PROVE p * P >= P /\ p * P + P - 1 <= P * (M + 1) - 1 /\ p * P \in Nat
  BY <1>1
<1>4. Words = 0..(P * (M + 1) - 1)
  BY DEF Words
<1> HIDE DEF P, M
<1>5. Words \subseteq Nat /\ Zero \in Words
  BY <1>2, <1>4 DEF Zero
<1>6. IsFiniteSet(Words)
  BY <1>2, <1>4, FS_Interval
<1>7. ASSUME NEW S \in SUBSET (1..M), NEW w \in WordsOf(S)
      PROVE  w \in Words /\ w >= P /\ w # Zero
  <2>1. PICK p \in S : w \in (p * P)..(p * P + P - 1)
    BY DEF WordsOf, P
  <2>2. p * P >= P /\ p * P + P - 1 <= P * (M + 1) - 1 /\ p * P \in Nat
    BY <1>3
  <2> QED BY <1>1, <1>2, <1>4, <2>1, <2>2 DEF Zero
<1>8. ASSUME NEW w \in Words, w >= P PROVE w \div P \in 1..M
  <2>1. w \in Nat /\ w < P * (M + 1)
    BY <1>2, <1>4
  <2>2. w \div P \in Nat /\ (w \div P) * P <= w /\ w < (w \div P + 1) * P
    BY <1>1, <2>1, Quotient
  <2> DEFINE q == w \div P
  <2>4. q * P < (M + 1) * P
    BY <1>1, <2>1, <2>2
  <2>6. q >= 1
    <3>1. CASE q = 0
      BY <1>1, <1>8, <2>1, <2>2, <3>1
    <3> QED BY <2>2, <3>1
  <2>7. q <= M
    <3> HIDE DEF q
    <3>1. q \in Nat
      BY <2>2 DEF q
    <3>2. CASE q >= M + 1
      <4>1. q * P >= (M + 1) * P
        BY <1>1, <3>1, <3>2
      <4> QED BY <1>1, <2>4, <3>1, <4>1
    <3> QED BY <1>1, <3>1, <3>2
  <2> QED BY <2>2, <2>6, <2>7
<1> QED BY <1>4, <1>5, <1>6, <1>7, <1>8 DEF P, M

\* Free tiles are told apart by list and first word.
LEMMA LooseOnce ==
  /\ \A t, c, a : IsLoose(Loose(t, c, a))
  /\ \A t, c, a, s, b, x : Loose(t, c, a) = Loose(s, b, x) <=> t = s /\ c = b /\ a = x
  /\ \A t, c, a : Loose(t, c, a)[2] = a /\ Loose(t, c, a)[3] = 2^c
BY DEF Loose, IsLoose

\* A free tile gives way to a tile that is held.
LEMMA LooseTaken ==
  ASSUME NEW D, NEW t, NEW c, NEW a, NEW e, ~IsLoose(e)
  PROVE  LET E == (D \ {Loose(t, c, a)}) \cup {e}
         IN  /\ LooseIn(E, t, c) = LooseIn(D, t, c) \ {a}
             /\ \A s, b : <<s, b>> # <<t, c>> => LooseIn(E, s, b) = LooseIn(D, s, b)
BY LooseOnce DEF LooseIn

\* A held tile gives way to a free one.
LEMMA LooseGiven ==
  ASSUME NEW D, NEW t, NEW c, NEW a \in Words, NEW e, ~IsLoose(e)
  PROVE  LET E == (D \ {e}) \cup {Loose(t, c, a)}
         IN  /\ LooseIn(E, t, c) = LooseIn(D, t, c) \cup {a}
             /\ \A s, b : <<s, b>> # <<t, c>> => LooseIn(E, s, b) = LooseIn(D, s, b)
BY LooseOnce DEF LooseIn

\* Tiles start and end at words.
LEMMA StoreAreas ==
  ASSUME NEW m, NEW D, Store(m, D)
  PROVE  /\ \A d \in D : /\ Tile(d) /\ Area(d) \subseteq WordsOf(m.mapped) /\ d[2] \in Area(d)
                         /\ d[2] \in Words /\ d[2] # Zero
         /\ WordsOf(m.mapped) \subseteq Words
         /\ \A t, c : Zero \notin LooseIn(D, t, c) /\ LooseIn(D, t, c) \in SUBSET Linkable
<1>1. m.mapped \in SUBSET (1..MaxFrames)
  BY DEF Store, Metas
<1>2. WordsOf(m.mapped) \subseteq Words /\ \A w \in WordsOf(m.mapped) : w # Zero
  BY <1>1, WordsParts
<1>3. \A d \in D : Tile(d) /\ Area(d) \subseteq WordsOf(m.mapped) /\ d[2] \in Area(d)
  BY AreaFirst DEF Store, Tiled
<1>4. ASSUME NEW t, NEW c, NEW a \in LooseIn(D, t, c) PROVE a \in Linkable
  <2>1. Loose(t, c, a) \in D /\ Loose(t, c, a)[2] = a
    BY LooseOnce DEF LooseIn
  <2> QED BY <1>2, <1>3, <2>1 DEF Linkable
<1> QED BY <1>2, <1>3, <1>4 DEF Linkable
----------------------------------------------------------------------------
\* The lists

\* What a pop leaves alone
LEMMA PopFields ==
  ASSUME NEW m \in Metas, NEW t \in Threads, NEW c \in CellClasses, NEW x \in Words,
         Target(m.mem[m.lists[t][c]]) = x
  PROVE  LET k == PopCell(m, t, c)
         IN  /\ k \in Metas /\ k.mem = m.mem /\ k.mapped = m.mapped /\ k.committed = m.committed
             /\ k.lists[t][c] = x
             /\ \A s \in Threads, b \in CellClasses :
                  <<s, b>> # <<t, c>> => k.lists[s][b] = m.lists[s][b]
BY DEF Metas, PopCell

\* A link is read as it was written.
LEMMA Links == \A a \in Words : Link(a) \in Entries /\ Target(Link(a)) = a
<1>1. Words \subseteq Nat
  BY WordsParts
<1> QED BY <1>1 DEF Link, Target, Entries, Empty, Zero

\* What a push leaves alone
LEMMA PushFields ==
  ASSUME NEW m \in Metas, NEW t \in Threads, NEW c \in CellClasses, NEW a \in Words,
         NEW k, k = PushCell(m, t, a, c)
  PROVE  /\ k \in Metas /\ k.mapped = m.mapped /\ k.committed = m.committed
         /\ k.mem = [m.mem EXCEPT ![a] = Link(m.lists[t][c])]
         /\ k.lists[t][c] = a
         /\ \A s \in Threads, b \in CellClasses :
              <<s, b>> # <<t, c>> => k.lists[s][b] = m.lists[s][b]
<1>1. m.lists[t][c] \in Words
  BY DEF Metas
<1>2. Link(m.lists[t][c]) \in Entries
  BY <1>1, Links
<1> DEFINE v == Link(m.lists[t][c])
<1> HIDE DEF v
<1>3. v \in Entries
  BY <1>2 DEF v
<1>4. PushCell(m, t, a, c) = [m EXCEPT !.mem[a] = v, !.lists[t][c] = a]
  BY DEF PushCell, v
<1>5. LET x == [m EXCEPT !.mem[a] = v, !.lists[t][c] = a]
      IN  /\ x \in Metas /\ x.mapped = m.mapped /\ x.committed = m.committed
          /\ x.mem = [m.mem EXCEPT ![a] = v]
          /\ x.lists[t][c] = a
          /\ \A s \in Threads, b \in CellClasses :
               <<s, b>> # <<t, c>> => x.lists[s][b] = m.lists[s][b]
  BY <1>3 DEF Metas
<1>6. k = [m EXCEPT !.mem[a] = v, !.lists[t][c] = a]
  BY <1>4
<1> QED BY <1>5, <1>6 DEF v

\* Who writes to no free cell leaves the lists alone.
LEMMA StoreSame ==
  ASSUME NEW m, NEW D, Store(m, D), NEW k \in Metas,
         k.lists = m.lists, k.mapped = m.mapped, k.committed = m.committed,
         \A d \in D : IsLoose(d) => k.mem[d[2]] = m.mem[d[2]]
  PROVE  Store(k, D)
<1>1. ASSUME NEW t \in Threads, NEW c \in CellClasses
      PROVE  Listed(LooseIn(D, t, c), k.lists[t][c], NextWord(k), Zero)
  <2>1. Listed(LooseIn(D, t, c), m.lists[t][c], NextWord(m), Zero)
    BY DEF Store, Linked
  <2>2. ASSUME NEW a \in LooseIn(D, t, c) PROVE NextWord(k)[a] = NextWord(m)[a]
    <3>1. Loose(t, c, a) \in D /\ IsLoose(Loose(t, c, a)) /\ Loose(t, c, a)[2] = a
      BY LooseOnce DEF LooseIn
    <3>2. a \in Linkable
      BY StoreAreas
    <3> QED BY <3>1, <3>2 DEF NextWord
  <2> QED BY <2>1, <2>2, ListedSame
<1> QED BY <1>1 DEF Store, Linked

\* A held tile changes hands.
LEMMA StoreRetag ==
  ASSUME NEW m, NEW D, Store(m, D), NEW h, NEW g, NEW a, NEW n, <<h, a, n>> \in D,
         h[1] # "free", g[1] # "free"
  PROVE  LET E == (D \ {<<h, a, n>>}) \cup {<<g, a, n>>}
         IN  Store(m, E) /\ Held(E) = (Held(D) \ {<<h, a, n>>}) \cup {<<g, a, n>>}
<1> DEFINE d == <<h, a, n>>
           e == <<g, a, n>>
           E == (D \ {d}) \cup {e}
<1>1. ~IsLoose(d) /\ ~IsLoose(e)
  BY DEF IsLoose
<1>2. a \in Nat /\ n \in Nat \ {0}
  <2>1. Tile(d)
    BY StoreAreas
  <2> QED BY <2>1 DEF Tile
<1>3. Tiled({e}, Area(d))
  <2>1. Tile(d) /\ d[2] = a /\ d[3] = n
    BY StoreAreas
  <2> HIDE DEF d
  <2> QED BY <2>1, TiledSame
<1>4. Tiled(E, WordsOf(m.mapped))
  <2>1. Tiled(D, WordsOf(m.mapped)) /\ d \in D
    BY DEF Store
  <2> HIDE DEF d, e
  <2> QED BY <1>3, <2>1, TiledAnew
<1>5. \A t, c : LooseIn(E, t, c) = LooseIn(D, t, c)
  BY <1>1, LooseOnce DEF LooseIn
<1>6. LooseSound(E)
  BY <1>1 DEF Store, LooseSound
<1>7. Held(E) = (Held(D) \ {d}) \cup {e}
  BY <1>1 DEF Held
<1>8. Linked(m, E)
  <2> HIDE DEF E
  <2> QED BY <1>5 DEF Store, Linked
<1> QED BY <1>4, <1>6, <1>7, <1>8 DEF Store

\* What pop_cell, push_cell, mapping and unmapping leave behind: k
Popped(m, D, t, c, h, k) ==
  LET a == m.lists[t][c] IN
  \E E : /\ Store(k, E) /\ Held(E) = Held(D) \cup {<<h, a, 2^c>>} /\ <<h, a, 2^c>> \in E
         /\ Aligned(a, c) /\ a \in LooseIn(D, t, c)
         /\ LooseIn(E, t, c) = LooseIn(D, t, c) \ {a}
         /\ k.mem = m.mem /\ k.mapped = m.mapped
Pushed(m, D, t, c, h, a, k) ==
  \E E : /\ Store(k, E) /\ Held(E) = Held(D) \ {<<h, a, 2^c>>}
         /\ LooseIn(E, t, c) = LooseIn(D, t, c) \cup {a} /\ a \notin LooseIn(D, t, c)
         /\ k.mapped = m.mapped
         /\ \A w \in Words \ {a} : k.mem[w] = m.mem[w]
FramesTile(h, p, n) == <<h, p * PageWords, n * PageWords>>
PagesMapped(m, D, h, p, n, k) ==
  LET d == FramesTile(h, p, n) IN
  \E E : /\ Store(k, E) /\ Held(E) = Held(D) \cup {d} /\ d \in E
         /\ p \in Nat \ {0} /\ k.lists = m.lists /\ k.mapped = m.mapped \cup Frames(p, n)
         /\ \A w \in Words : w \notin Area(d) => k.mem[w] = m.mem[w]
         /\ Area(d) \cap WordsOf(m.mapped) = {} /\ Area(d) \subseteq Words
         /\ \A s, c : LooseIn(E, s, c) = LooseIn(D, s, c)
PagesUnmapped(m, D, d, k) ==
  \E E : Store(k, E) /\ Held(E) = Held(D) \ {d} /\ k.mem = m.mem

\* pop_cell takes the first cell of a list that has one.
LEMMA PopSound ==
  ASSUME NEW m, NEW D, Store(m, D), NEW t \in Threads, NEW c \in CellClasses,
         m.lists[t][c] # Zero, NEW h, h[1] # "free"
  PROVE  Popped(m, D, t, c, h, PopCell(m, t, c))
<1> DEFINE a == m.lists[t][c]
           k == PopCell(m, t, c)
           d == Loose(t, c, a)
           e == <<h, a, 2^c>>
           E == (D \ {d}) \cup {e}
           L == LooseIn(D, t, c)
           x == NextWord(m)[a]
<1>1. Listed(L, a, NextWord(m), Zero) /\ Zero \notin L /\ L \in SUBSET Linkable
  BY StoreAreas DEF Store, Linked
<1>2. a \in L /\ x \in L \cup {Zero}
  <2>1. a # Zero
    OBVIOUS
  <2> HIDE DEF a, L
  <2> QED BY <1>1, <2>1, ListedLinks
<1>3. d \in D /\ IsLoose(d) /\ d[2] = a /\ d[3] = 2^c /\ ~IsLoose(e)
  <2>1. d \in D
    BY <1>2 DEF LooseIn
  <2> QED BY <2>1, LooseOnce DEF IsLoose
<1>4. a \in Linkable /\ a \in Words /\ x \in Words /\ Target(m.mem[a]) = x
  BY <1>1, <1>2, WordsParts DEF NextWord, Linkable
<1>5. Aligned(a, c)
  <2>1. PICK s \in Threads, b \in CellClasses : d = Loose(s, b, d[2]) /\ Aligned(d[2], b)
    BY <1>3 DEF Store, LooseSound
  <2>2. b = c
    BY <2>1, <1>3, LooseOnce
  <2> QED BY <2>1, <2>2, <1>3
<1>6. /\ k \in Metas /\ k.mem = m.mem /\ k.mapped = m.mapped /\ k.committed = m.committed
      /\ k.lists[t][c] = x
      /\ \A s \in Threads, b \in CellClasses :
           <<s, b>> # <<t, c>> => k.lists[s][b] = m.lists[s][b]
  <2>1. m \in Metas
    BY DEF Store
  <2> QED BY <2>1, <1>4, PopFields
<1>7. /\ LooseIn(E, t, c) = L \ {a}
      /\ \A s, b : <<s, b>> # <<t, c>> => LooseIn(E, s, b) = LooseIn(D, s, b)
  <2> HIDE DEF a, e
  <2> QED BY <1>3, LooseTaken
<1>8. Tiled(E, WordsOf(m.mapped))
  <2>1. Tiled(D, WordsOf(m.mapped)) /\ d \in D
    BY <1>3 DEF Store
  <2>2. Tile(d)
    BY <1>3, StoreAreas
  <2>3. Tiled({e}, Area(d))
    <3> HIDE DEF d
    <3> QED BY <2>2, <1>3, TiledSame
  <2> HIDE DEF d, e
  <2> QED BY <2>1, <2>3, TiledAnew
<1>9. LooseSound(E)
  BY <1>3 DEF Store, LooseSound
<1>10. NextWord(k) = NextWord(m)
  BY <1>6 DEF NextWord
<1>11. Linked(k, E)
  <2> SUFFICES ASSUME NEW s \in Threads, NEW b \in CellClasses
               PROVE  Listed(LooseIn(E, s, b), k.lists[s][b], NextWord(k), Zero)
    BY DEF Linked
  <2>1. CASE <<s, b>> = <<t, c>>
    <3>1. Listed(L \ {a}, x, NextWord(m), Zero)
      <4> HIDE DEF a, L
      <4> QED BY <1>1, <1>2, ListedPop
    <3>2. s = t /\ b = c
      BY <2>1
    <3> QED BY <3>1, <3>2, <1>6, <1>7, <1>10
  <2>2. CASE <<s, b>> # <<t, c>>
    <3>1. Listed(LooseIn(D, s, b), m.lists[s][b], NextWord(m), Zero)
      BY DEF Store, Linked
    <3>2. LooseIn(E, s, b) = LooseIn(D, s, b) /\ k.lists[s][b] = m.lists[s][b]
      BY <2>2, <1>6, <1>7
    <3> QED BY <3>1, <3>2, <1>10
  <2> QED BY <2>1, <2>2
<1>12. Held(E) = Held(D) \cup {e}
  BY <1>3 DEF Held
<1>13. Store(k, E)
  <2> HIDE DEF k, E
  <2> QED BY <1>6, <1>8, <1>9, <1>11 DEF Store
<1>14. e \in E
  OBVIOUS
<1> HIDE DEF k, E
<1> QED BY <1>2, <1>5, <1>6, <1>7, <1>12, <1>13, <1>14 DEF Popped, k

\* push_cell puts a cell that was held in front of a list.
LEMMA PushSound ==
  ASSUME NEW m, NEW D, Store(m, D), NEW t \in Threads, NEW c \in CellClasses,
         NEW h, h[1] # "free", NEW a, <<h, a, 2^c>> \in D, Aligned(a, c)
  PROVE  Pushed(m, D, t, c, h, a, PushCell(m, t, a, c))
<1> DEFINE k == PushCell(m, t, a, c)
           d == <<h, a, 2^c>>
           e == Loose(t, c, a)
           E == (D \ {d}) \cup {e}
           L == LooseIn(D, t, c)
<1>1. /\ a \in Words /\ a # Zero /\ a \in Linkable /\ d \in D /\ ~IsLoose(d)
      /\ IsLoose(e) /\ e[2] = a /\ e[3] = 2^c /\ m \in Metas /\ a \in Area(d)
  <2>1. d[2] \in Words /\ d[2] # Zero /\ d[2] \in Area(d)
    BY StoreAreas
  <2> QED BY <2>1, LooseOnce DEF Store, IsLoose, Linkable
<1>2. ASSUME NEW s, NEW b PROVE a \notin LooseIn(D, s, b)
  <2>1. SUFFICES ASSUME a \in LooseIn(D, s, b) PROVE FALSE
    OBVIOUS
  <2>2. Loose(s, b, a) \in D /\ IsLoose(Loose(s, b, a)) /\ Loose(s, b, a)[2] = a
    BY <2>1, LooseOnce DEF LooseIn
  <2>3. a \in Area(Loose(s, b, a))
    BY <2>2, StoreAreas
  <2>4. Loose(s, b, a) = d
    BY <2>2, <2>3, <1>1 DEF Store, Tiled
  <2> QED BY <2>2, <2>4, <1>1
<1>3. /\ k \in Metas /\ k.mapped = m.mapped /\ k.committed = m.committed
      /\ k.mem = [m.mem EXCEPT ![a] = Link(m.lists[t][c])]
      /\ k.lists[t][c] = a
      /\ \A s \in Threads, b \in CellClasses :
           <<s, b>> # <<t, c>> => k.lists[s][b] = m.lists[s][b]
  <2> HIDE DEF d, e, E, L
  <2>1. m \in Metas /\ a \in Words
    BY <1>1
  <2>2. k = PushCell(m, t, a, c)
    OBVIOUS
  <2> HIDE DEF k
  <2> QED BY <2>1, <2>2, PushFields
<1>4. /\ LooseIn(E, t, c) = L \cup {a}
      /\ \A s, b : <<s, b>> # <<t, c>> => LooseIn(E, s, b) = LooseIn(D, s, b)
  <2>1. a \in Words /\ ~IsLoose(d)
    BY <1>1
  <2> HIDE DEF d
  <2> QED BY <2>1, LooseGiven
<1>5. Tiled(E, WordsOf(m.mapped))
  <2>1. Tiled(D, WordsOf(m.mapped)) /\ d \in D
    BY <1>1 DEF Store
  <2>2. Tile(d) /\ d[2] = a /\ d[3] = 2^c /\ e = <<<<"free", <<t, c>>>>, a, 2^c>>
    BY <1>1, StoreAreas DEF Loose
  <2>3. Tiled({e}, Area(d))
    <3> HIDE DEF d, e
    <3> QED BY <2>2, TiledSame
  <2> HIDE DEF d, e
  <2> QED BY <2>1, <2>3, TiledAnew
<1>6. LooseSound(E)
  <2>1. e = Loose(t, c, e[2]) /\ Aligned(e[2], c)
    BY <1>1
  <2> QED BY <1>1, <2>1 DEF Store, LooseSound
<1>7. /\ m.mem \in [Words -> Entries] /\ m.lists[t][c] \in Words
      /\ \A w \in Words \ {a} : k.mem[w] = m.mem[w]
      /\ k.mem[a] = Link(m.lists[t][c])
  BY <1>1, <1>3 DEF Metas
<1>8. NextWord(k)[a] = m.lists[t][c] /\ \A b \in Linkable \ {a} : NextWord(k)[b] = NextWord(m)[b]
  BY <1>1, <1>7, Links DEF NextWord, Linkable
<1>9. Linked(k, E)
  <2> SUFFICES ASSUME NEW s \in Threads, NEW b \in CellClasses
               PROVE  Listed(LooseIn(E, s, b), k.lists[s][b], NextWord(k), Zero)
    BY DEF Linked
  <2>1. Listed(LooseIn(D, s, b), m.lists[s][b], NextWord(m), Zero)
    BY DEF Store, Linked
  <2>2. /\ a \notin LooseIn(D, s, b) /\ Zero \notin LooseIn(D, s, b)
        /\ \A y \in LooseIn(D, s, b) : NextWord(k)[y] = NextWord(m)[y]
    BY <1>2, <1>8, StoreAreas
  <2>3. CASE <<s, b>> = <<t, c>>
    <3>1. s = t /\ b = c
      BY <2>3
    <3>2. Listed(L \cup {a}, a, NextWord(k), Zero)
      BY <2>1, <2>2, <3>1, <1>8, ListedPush
    <3> QED BY <3>1, <3>2, <1>3, <1>4
  <2>4. CASE <<s, b>> # <<t, c>>
    <3>1. LooseIn(E, s, b) = LooseIn(D, s, b) /\ k.lists[s][b] = m.lists[s][b]
      BY <2>4, <1>3, <1>4
    <3>2. Listed(LooseIn(D, s, b), m.lists[s][b], NextWord(k), Zero)
      BY <2>1, <2>2, ListedSame
    <3> QED BY <3>1, <3>2
  <2> QED BY <2>3, <2>4
<1>10. Held(E) = Held(D) \ {d}
  BY <1>1 DEF Held
<1>11. Store(k, E)
  <2>1. k.committed = Cardinality(k.mapped)
    BY <1>3 DEF Store
  <2> HIDE DEF k, E
  <2> QED BY <1>3, <1>5, <1>6, <1>9, <2>1 DEF Store
<1> HIDE DEF k, E
<1> QED BY <1>2, <1>3, <1>4, <1>7, <1>10, <1>11 DEF Pushed, k
----------------------------------------------------------------------------
\* Pages of memory

\* The words of n pages in a row
LEMMA FramesWords ==
  ASSUME NEW p \in Nat, NEW n \in Nat
  PROVE  WordsOf(Frames(p, n)) = (p * PageWords)..(p * PageWords + n * PageWords - 1)
<1> DEFINE P == PageWords
<1>1. P \in Nat \ {0}
  BY Sizes
<1>2. ASSUME NEW w \in WordsOf(Frames(p, n)) PROVE w \in (p * P)..(p * P + n * P - 1)
  <2>1. PICK i \in Frames(p, n) : w \in (i * P)..(i * P + P - 1)
    BY DEF WordsOf
  <2>2. i \in Int /\ p <= i /\ i <= p + n - 1
    BY <2>1 DEF Frames
  <2> HIDE DEF P
  <2>3. p * P <= i * P /\ (i + 1) * P <= (p + n) * P
    BY <1>1, <2>2
  <2>4. (i + 1) * P = i * P + P /\ (p + n) * P = p * P + n * P
    BY <1>1, <2>2
  <2>5. i * P \in Int /\ p * P \in Int /\ n * P \in Int
    BY <1>1, <2>2
  <2> QED BY <1>1, <2>1, <2>3, <2>4, <2>5
<1>3. ASSUME NEW w \in (p * P)..(p * P + n * P - 1) PROVE w \in WordsOf(Frames(p, n))
  <2> DEFINE i == w \div P
  <2>0. p * P \in Nat /\ n * P \in Nat
    BY <1>1
  <2>1. w \in Nat /\ p * P <= w /\ w < p * P + n * P
    <3> HIDE DEF P
    <3> QED BY <2>0
  <2>2. i \in Nat /\ i * P <= w /\ w < (i + 1) * P
    BY <1>1, <2>1, Quotient
  <2> HIDE DEF i, P
  <2>3. p <= i
    <3>1. CASE i + 1 <= p
      <4> DEFINE x == (i + 1) * P
                 y == p * P
      <4>1. x <= y /\ x \in Nat /\ y \in Nat
        BY <1>1, <2>2, <3>1
      <4>2. y <= w /\ w < x /\ w \in Nat
        BY <2>1, <2>2
      <4> HIDE DEF x, y
      <4> QED BY <4>1, <4>2
    <3> QED BY <2>2, <3>1
  <2>4. i <= p + n - 1
    <3>1. CASE p + n <= i
      <4>1. (p + n) * P <= i * P /\ (p + n) * P = p * P + n * P
        BY <1>1, <2>2, <3>1
      <4>2. i * P \in Nat
        BY <1>1, <2>2
      <4> QED BY <2>0, <2>1, <2>2, <4>1, <4>2
    <3> QED BY <2>2, <3>1
  <2>5. (i + 1) * P = i * P + P /\ i * P \in Nat
    BY <1>1, <2>2
  <2>6. i \in Frames(p, n) /\ w \in (i * P)..(i * P + P - 1)
    BY <1>1, <2>1, <2>2, <2>3, <2>4, <2>5 DEF Frames
  <2> QED BY <2>6 DEF WordsOf, P
<1> QED BY <1>2, <1>3

\* Different pages have different words.
LEMMA WordsApart ==
  ASSUME NEW S \in SUBSET (1..MaxFrames), NEW T \in SUBSET (1..MaxFrames), S \cap T = {}
  PROVE  WordsOf(S) \cap WordsOf(T) = {} /\ WordsOf(S \cup T) = WordsOf(S) \cup WordsOf(T)
<1> DEFINE P == PageWords
<1>1. P \in Nat \ {0} /\ MaxFrames \in Nat
  BY Sizes
<1>2. ASSUME NEW w, w \in WordsOf(S), w \in WordsOf(T) PROVE FALSE
  <2>1. PICK i \in S : w \in (i * P)..(i * P + P - 1)
    BY <1>2 DEF WordsOf
  <2>2. PICK j \in T : w \in (j * P)..(j * P + P - 1)
    BY <1>2 DEF WordsOf
  <2>3. i \in Nat /\ j \in Nat /\ i # j
    BY <1>1
  <2> HIDE DEF P
  <2>4. i * P \in Nat /\ j * P \in Nat
    BY <1>1, <2>3
  <2>5. CASE i < j
    <3>1. (i + 1) * P <= j * P /\ (i + 1) * P = i * P + P
      BY <1>1, <2>3, <2>5
    <3> QED BY <1>1, <2>1, <2>2, <2>4, <3>1
  <2>6. CASE j < i
    <3>1. (j + 1) * P <= i * P /\ (j + 1) * P = j * P + P
      BY <1>1, <2>3, <2>6
    <3> QED BY <1>1, <2>1, <2>2, <2>4, <3>1
  <2> QED BY <2>3, <2>5, <2>6
<1>3. WordsOf(S \cup T) = WordsOf(S) \cup WordsOf(T)
  BY DEF WordsOf
<1> QED BY <1>2, <1>3

\* The pages the system finds are not mapped.
LEMMA FoundRoom ==
  ASSUME NEW m, NEW n \in Nat \ {0}, Room(m, n) # {}
  PROVE  LET p == Found(m, n)
         IN  /\ p \in Room(m, n) /\ p \in Nat \ {0}
             /\ Frames(p, n) \in SUBSET (1..MaxFrames) /\ Frames(p, n) \cap m.mapped = {}
             /\ IsFiniteSet(Frames(p, n)) /\ Cardinality(Frames(p, n)) = n
<1>0. MaxFrames \in Nat
  BY Sizes
<1>1. Room(m, n) \in SUBSET Nat /\ \A p \in Room(m, n) : p >= 1 /\ p + n - 1 <= MaxFrames
  BY <1>0 DEF Room
<1>2. \E p \in Room(m, n) : \A q \in Room(m, n) : p <= q
  BY <1>1, NatMin
<1> DEFINE p == Found(m, n)
<1>3. p \in Room(m, n)
  BY <1>2 DEF Found
<1> HIDE DEF p
<1>4. p \in Nat \ {0} /\ p + n - 1 \in Nat /\ p + n - 1 <= MaxFrames
  BY <1>1, <1>3
<1>5. Frames(p, n) \in SUBSET (1..MaxFrames)
  BY <1>0, <1>4 DEF Frames
<1>6. Frames(p, n) \cap m.mapped = {}
  BY <1>3 DEF Room
<1>7. IsFiniteSet(Frames(p, n)) /\ Cardinality(Frames(p, n)) = n
  <2>1. p \in Int /\ p + n - 1 \in Int /\ p <= p + n - 1 + 1 /\ p + n - 1 - p + 1 = n
    BY <1>4
  <2> QED BY <2>1, FS_Interval DEF Frames
<1> QED BY <1>3, <1>4, <1>5, <1>6, <1>7 DEF p

\* What a store to several words leaves alone
LEMMA SetFields ==
  ASSUME NEW m \in Metas, NEW S, NEW e \in Entries
  PROVE  LET k == Set(m, S, e)
         IN  /\ k \in Metas /\ k.lists = m.lists /\ k.mapped = m.mapped /\ k.committed = m.committed
             /\ \A w \in Words : k.mem[w] = IF w \in S THEN e ELSE m.mem[w]
BY DEF Metas, Set

\* Some pages are mapped: their words are in a tile that is held.
LEMMA MapSound ==
  ASSUME NEW m, NEW D, Store(m, D), NEW n \in Nat \ {0}, Room(m, n) # {}, NEW h, h[1] # "free"
  PROVE  PagesMapped(m, D, h, Found(m, n), n, MapPages(m, n))
<1> DEFINE p == Found(m, n)
           k == MapPages(m, n)
           d == FramesTile(h, p, n)
           F == Frames(p, n)
           x == Set(m, WordsOf(F), Empty)
<1>1. /\ p \in Nat \ {0} /\ F \in SUBSET (1..MaxFrames) /\ F \cap m.mapped = {}
      /\ IsFiniteSet(F) /\ Cardinality(F) = n
  BY FoundRoom
<1>2. m \in Metas /\ m.mapped \in SUBSET (1..MaxFrames) /\ m.committed = Cardinality(m.mapped)
  BY DEF Store, Metas
<1> HIDE DEF p
<1>3. p * PageWords \in Nat /\ n * PageWords \in Nat \ {0}
  BY <1>1, Sizes
<1>4. Area(d) = WordsOf(F) /\ Tiled({d}, WordsOf(F)) /\ Tile(d)
  <2>1. WordsOf(F) = (p * PageWords)..(p * PageWords + n * PageWords - 1)
    BY <1>1, FramesWords
  <2> DEFINE a == p * PageWords
             b == n * PageWords
  <2> HIDE DEF a, b
  <2>2. a \in Nat /\ b \in Nat \ {0}
    BY <1>3 DEF a, b
  <2>3. Tiled({<<h, a, b>>}, a..(a + b - 1)) /\ Area(<<h, a, b>>) = a..(a + b - 1) /\ Tile(<<h, a, b>>)
    BY <2>2, TiledOne
  <2> QED BY <2>1, <2>3 DEF a, b, FramesTile
<1> HIDE DEF F, d
<1>5. /\ WordsOf(m.mapped) \cap WordsOf(F) = {}
      /\ WordsOf(m.mapped \cup F) = WordsOf(m.mapped) \cup WordsOf(F)
      /\ WordsOf(F) \subseteq Words
  <2>1. m.mapped \cap F = {} /\ F \in SUBSET (1..MaxFrames) /\ m.mapped \in SUBSET (1..MaxFrames)
    BY <1>1, <1>2
  <2>2. WordsOf(F) \subseteq Words
    BY <2>1, WordsParts
  <2> QED BY <2>1, <2>2, WordsApart
<1>6. Tiled(D \cup {d}, WordsOf(m.mapped \cup F))
  <2> DEFINE U == WordsOf(m.mapped)
             V == WordsOf(F)
  <2>1. Tiled(D, U) /\ Tiled({d}, V) /\ U \cap V = {}
    BY <1>4, <1>5 DEF Store
  <2> HIDE DEF U, V
  <2>2. Tiled(D \cup {d}, U \cup V)
    BY <2>1, TiledMore
  <2> QED BY <2>2, <1>5 DEF U, V
<1>7. ~IsLoose(d)
  BY DEF IsLoose, d, FramesTile
<1>8. Empty \in Entries
  BY DEF Empty, Entries
<1>9. /\ x \in Metas /\ x.lists = m.lists /\ x.mapped = m.mapped /\ x.committed = m.committed
      /\ \A w \in Words : x.mem[w] = IF w \in WordsOf(F) THEN Empty ELSE m.mem[w]
  <2> HIDE DEF x
  <2> QED BY <1>2, <1>8, SetFields DEF x
<1>10. k = [x EXCEPT !.mapped = @ \cup F, !.committed = @ + n]
  BY DEF MapPages, p, F
<1> HIDE DEF x, k
<1>11. /\ k \in Metas /\ k.lists = m.lists /\ k.mem = x.mem
       /\ k.mapped = m.mapped \cup F /\ k.committed = m.committed + n
  <2>1. m.mapped \cup F \in SUBSET (1..MaxFrames)
    BY <1>1, <1>2
  <2>2. m.committed + n \in Int
    <3>1. m.committed \in Int
      BY <1>2 DEF Metas
    <3> QED BY <3>1
  <2>3. k = [x EXCEPT !.mapped = m.mapped \cup F, !.committed = m.committed + n]
    BY <1>9, <1>10
  <2> DEFINE A == m.mapped \cup F
             b == m.committed + n
  <2> HIDE DEF A, b
  <2>4. /\ k \in Metas /\ k.lists = x.lists /\ k.mem = x.mem
        /\ k.mapped = A /\ k.committed = b
    <3>1. A \in SUBSET (1..MaxFrames) /\ b \in Int /\ k = [x EXCEPT !.mapped = A, !.committed = b]
      BY <2>1, <2>2, <2>3 DEF A, b
    <3> QED BY <1>9, <3>1 DEF Metas
  <2> QED BY <1>9, <2>4 DEF A, b
<1>12. k.committed = Cardinality(k.mapped)
  <2>1. IsFiniteSet(1..MaxFrames)
    BY Sizes, FS_Interval
  <2>2. IsFiniteSet(m.mapped) /\ Cardinality(m.mapped) \in Nat
    BY <1>2, <2>1, FS_Subset, FS_CardinalityType
  <2>3. Cardinality(m.mapped \cup F) = Cardinality(m.mapped) + n - Cardinality(m.mapped \cap F)
    BY <1>1, <2>2, FS_Union
  <2>4. Cardinality(m.mapped \cap F) = 0
    BY <1>1, FS_EmptySet
  <2> QED BY <1>2, <1>11, <2>2, <2>3, <2>4
<1>13. LooseSound(D \cup {d})
  BY <1>7 DEF Store, LooseSound
<1>14. \A t, c : LooseIn(D \cup {d}, t, c) = LooseIn(D, t, c)
  BY <1>7, LooseOnce DEF LooseIn
<1>15. \A w \in Words : w \notin WordsOf(F) => k.mem[w] = m.mem[w]
  BY <1>9, <1>11
<1>16. Linked(k, D \cup {d})
  <2> SUFFICES ASSUME NEW t \in Threads, NEW c \in CellClasses
               PROVE  Listed(LooseIn(D, t, c), m.lists[t][c], NextWord(k), Zero)
    BY <1>11, <1>14 DEF Linked
  <2>1. Listed(LooseIn(D, t, c), m.lists[t][c], NextWord(m), Zero)
    BY DEF Store, Linked
  <2>2. ASSUME NEW a \in LooseIn(D, t, c) PROVE NextWord(k)[a] = NextWord(m)[a]
    <3>0. a \in Linkable
      BY StoreAreas
    <3>1. Loose(t, c, a) \in D /\ Loose(t, c, a)[2] = a /\ a \in Linkable
      BY <3>0, LooseOnce DEF LooseIn
    <3>2. a \in WordsOf(m.mapped)
      BY <3>1, StoreAreas
    <3>3. k.mem[a] = m.mem[a]
      BY <3>1, <3>2, <1>5, <1>15 DEF Linkable
    <3> QED BY <3>1, <3>3 DEF NextWord
  <2> QED BY <2>1, <2>2, ListedSame
<1>17. Store(k, D \cup {d})
  BY <1>6, <1>11, <1>12, <1>13, <1>16 DEF Store
<1>18. Held(D \cup {d}) = Held(D) \cup {d}
  BY <1>7 DEF Held
<1> QED BY <1>1, <1>4, <1>5, <1>11, <1>14, <1>15, <1>17, <1>18 DEF PagesMapped, p, k, d, F

\* Pages that are held are unmapped.
LEMMA UnmapSound ==
  ASSUME NEW m, NEW D, Store(m, D), NEW h, h[1] # "free", NEW p \in Nat, NEW n \in Nat \ {0},
         FramesTile(h, p, n) \in D
  PROVE  PagesUnmapped(m, D, FramesTile(h, p, n), UnmapPages(m, p, n))
<1> DEFINE d == FramesTile(h, p, n)
           F == Frames(p, n)
           M == m.mapped
           E == D \ {d}
           k == UnmapPages(m, p, n)
<1>1. PageWords \in Nat \ {0} /\ MaxFrames \in Nat
  BY Sizes
<1>2. m \in Metas /\ M \in SUBSET (1..MaxFrames) /\ m.committed = Cardinality(M)
  BY DEF Store, Metas
<1>3. WordsOf(F) = Area(d) /\ Area(d) \subseteq WordsOf(M)
  <2>1. WordsOf(F) = (p * PageWords)..(p * PageWords + n * PageWords - 1)
    BY FramesWords
  <2>2. Area(d) \subseteq WordsOf(M)
    BY StoreAreas
  <2> QED BY <2>1, <2>2 DEF Area, FramesTile
<1>4. F \subseteq M
  <2> SUFFICES ASSUME NEW i \in F PROVE i \in M
    OBVIOUS
  <2>1. i \in Nat
    BY DEF Frames
  <2>2. i * PageWords \in Nat /\ i * PageWords \in WordsOf(F)
    BY <1>1, <2>1 DEF WordsOf
  <2>3. PICK j \in M : i * PageWords \in (j * PageWords)..(j * PageWords + PageWords - 1)
    BY <1>3, <2>2 DEF WordsOf
  <2>4. j \in Nat /\ j * PageWords <= i * PageWords /\ i * PageWords < (j + 1) * PageWords
    BY <1>1, <1>2, <2>2, <2>3
  <2> DEFINE P == PageWords
  <2> HIDE DEF P
  <2>5. ~(j < i)
    <3> SUFFICES ASSUME j + 1 <= i PROVE FALSE
      BY <2>1, <2>4
    <3>1. P \in Nat \ {0} /\ i * P < (j + 1) * P
      BY <1>1, <2>4 DEF P
    <3>2. (j + 1) * P <= i * P
      BY <2>1, <2>4, <3>1
    <3>3. (j + 1) * P \in Nat /\ i * P \in Nat
      BY <2>1, <2>4, <3>1
    <3> QED BY <3>1, <3>2, <3>3
  <2>6. ~(i < j)
    <3> SUFFICES ASSUME i + 1 <= j PROVE FALSE
      BY <2>1, <2>4
    <3>1. P \in Nat \ {0} /\ j * P <= i * P
      BY <1>1, <2>4 DEF P
    <3>2. (i + 1) * P <= j * P /\ (i + 1) * P = i * P + P
      BY <2>1, <2>4, <3>1
    <3>3. j * P \in Nat /\ i * P \in Nat
      BY <2>1, <2>4, <3>1
    <3> QED BY <3>1, <3>2, <3>3
  <2> QED BY <2>1, <2>4, <2>5, <2>6
<1>5. IsFiniteSet(F) /\ Cardinality(F) = n
  <2> DEFINE e == p + n - 1
  <2>1. p \in Int /\ e \in Int /\ ~(p > e) /\ e - p + 1 = n
    OBVIOUS
  <2> HIDE DEF e
  <2>2. IsFiniteSet(p..e) /\ Cardinality(p..e) = n
    BY <2>1, FS_Interval
  <2> QED BY <2>2 DEF Frames, e
<1> HIDE DEF d, F
<1>6. WordsOf(M \ F) = WordsOf(M) \ Area(d)
  <2>1. M \ F \in SUBSET (1..MaxFrames) /\ F \in SUBSET (1..MaxFrames) /\ (M \ F) \cap F = {} /\ (M \ F) \cup F = M
    BY <1>2, <1>4
  <2>2. WordsOf(M \ F) \cap WordsOf(F) = {} /\ WordsOf((M \ F) \cup F) = WordsOf(M \ F) \cup WordsOf(F)
    BY <2>1, WordsApart
  <2> QED BY <1>3, <2>1, <2>2
<1>7. d \in D /\ ~IsLoose(d)
  BY DEF d, IsLoose, FramesTile
<1>8. Tiled(E, WordsOf(M \ F))
  <2> DEFINE U == WordsOf(M)
  <2>1. Tiled(D, U) /\ d \in D
    BY <1>7 DEF Store
  <2> HIDE DEF U
  <2>2. Tiled(D \ {d}, U \ Area(d))
    BY <2>1, TiledLess
  <2> QED BY <1>6, <2>2 DEF U
<1>9. /\ k \in Metas /\ k.mem = m.mem /\ k.lists = m.lists
      /\ k.mapped = M \ F /\ k.committed = m.committed - n
  <2>1. M \ F \in SUBSET (1..MaxFrames)
    BY <1>2
  <2>2. m.committed - n \in Int
    <3>1. m.committed \in Int
      BY <1>2 DEF Metas
    <3> QED BY <3>1
  <2>3. k = [m EXCEPT !.mapped = m.mapped \ F, !.committed = m.committed - n]
    BY DEF UnmapPages, F
  <2> DEFINE A == m.mapped \ F
             b == m.committed - n
  <2> HIDE DEF A, b
  <2>4. /\ k \in Metas /\ k.lists = m.lists /\ k.mem = m.mem
        /\ k.mapped = A /\ k.committed = b
    <3>1. A \in SUBSET (1..MaxFrames) /\ b \in Int /\ k = [m EXCEPT !.mapped = A, !.committed = b]
      BY <2>1, <2>2, <2>3 DEF A, b
    <3> QED BY <1>2, <3>1 DEF Metas
  <2> QED BY <2>4 DEF A, b
<1> HIDE DEF k
<1>10. k.committed = Cardinality(k.mapped)
  <2>1. IsFiniteSet(1..MaxFrames)
    BY Sizes, FS_Interval
  <2>2. IsFiniteSet(M) /\ Cardinality(M) \in Nat
    BY <1>2, <2>1, FS_Subset, FS_CardinalityType
  <2>3. Cardinality(M \ F) = Cardinality(M) - Cardinality(M \cap F) /\ M \cap F = F
    BY <1>4, <2>2, FS_Difference
  <2> QED BY <1>2, <1>5, <1>9, <2>3
<1>11. LooseSound(E)
  BY DEF Store, LooseSound
<1>12. \A t, c : LooseIn(E, t, c) = LooseIn(D, t, c)
  BY <1>7, LooseOnce DEF LooseIn
<1>13. NextWord(k) = NextWord(m)
  BY <1>9 DEF NextWord
<1>14. Linked(k, E)
  BY <1>9, <1>12, <1>13 DEF Store, Linked
<1>15. Held(E) = Held(D) \ {d}
  BY DEF Held
<1>16. Store(k, E)
  BY <1>8, <1>9, <1>10, <1>11, <1>14 DEF Store
<1> QED BY <1>9, <1>15, <1>16 DEF d, k, PagesUnmapped
----------------------------------------------------------------------------
\* Cells are cut up.

\* A held tile gives way to others that are held.
LEMMA StoreAnew ==
  ASSUME NEW m, NEW D, Store(m, D), NEW d \in D, ~IsLoose(d),
         NEW F, Tiled(F, Area(d)), \A e \in F : ~IsLoose(e)
  PROVE  Store(m, (D \ {d}) \cup F) /\ Held((D \ {d}) \cup F) = (Held(D) \ {d}) \cup F
<1> DEFINE E == (D \ {d}) \cup F
<1>1. Tiled(E, WordsOf(m.mapped))
  <2> DEFINE U == WordsOf(m.mapped)
  <2>1. Tiled(D, U)
    BY DEF Store
  <2> HIDE DEF U
  <2> QED BY <2>1, TiledAnew DEF U
<1>2. \A t, c : LooseIn(E, t, c) = LooseIn(D, t, c)
  BY LooseOnce DEF LooseIn
<1>3. LooseSound(E)
  BY DEF Store, LooseSound
<1>4. Held(E) = (Held(D) \ {d}) \cup F
  BY DEF Held
<1>5. Linked(m, E)
  <2> HIDE DEF E
  <2> QED BY <1>2 DEF Store, Linked
<1> QED BY <1>1, <1>3, <1>4, <1>5 DEF Store

\* What cutting up the cell at a, of class k, down to class c leaves of it
CutTo(m, D, h, a, k, c, n) ==
  \E E : /\ Store(n, E) /\ <<h, a, 2^c>> \in E /\ Aligned(a, c)
         /\ Held(E) = (Held(D) \ {<<h, a, 2^k>>}) \cup {<<h, a, 2^c>>}
         /\ n.mapped = m.mapped
         /\ \A w \in Words : w \notin Area(<<h, a, 2^k>>) => n.mem[w] = m.mem[w]

\* The second half of a cell goes to the list of the class below.
LEMMA HalveSound ==
  ASSUME NEW m, NEW D, Store(m, D), NEW t \in Threads, NEW k \in CellClasses, k # 0,
         NEW h, h[1] # "free", NEW a, <<h, a, 2^k>> \in D, Aligned(a, k)
  PROVE  CutTo(m, D, h, a, k, k - 1, Halve(m, t, a, k))
<1> DEFINE c == k - 1
           s == 2^c
           d == <<h, a, 2^k>>
           g == <<"half">>
           x == <<h, a, s>>
           y == <<g, a + s, s>>
           F == {x, y}
           G == (D \ {d}) \cup F
           n == Halve(m, t, a, k)
<1>1. k \in Nat /\ c \in Nat /\ c \in CellClasses /\ s \in Nat \ {0} /\ k = c + 1
  <2>1. k \in Nat /\ c \in Nat /\ c \in CellClasses /\ k = c + 1
    BY Sizes DEF CellClasses
  <2> QED BY <2>1, Sizes
<1>2. 2^k = 2 * s
  BY <1>1, PowerStep
<1>3. a \in Nat /\ Area(d) = a..(a + 2 * s - 1)
  <2>1. d \in D /\ Tile(d)
    BY StoreAreas
  <2> QED BY <1>2, <2>1 DEF Tile, Area
<1>4. Aligned(a, c) /\ Aligned(a + s, c) /\ a + s \in Nat
  <2> DEFINE j == a \div 2^k
  <2>1. j \in Nat /\ a = j * 2^k
    BY <1>1, <1>3, AlignedMultiple
  <2> HIDE DEF j
  <2>2. 2 * j \in Nat /\ 2 * j + 1 \in Nat
    BY <2>1
  <2>3. Aligned((2 * j) * s, c) /\ Aligned((2 * j + 1) * s, c)
    BY <1>1, <2>2, AlignedMultiple
  <2> HIDE DEF s, c
  <2>4. a = (2 * j) * s /\ a + s = (2 * j + 1) * s /\ a + s \in Nat
    BY <1>1, <1>2, <1>3, <2>1
  <2> QED BY <2>3, <2>4
<1>5. Tiled(F, Area(d))
  <2>1. a \in Nat /\ s \in Nat \ {0}
    BY <1>1, <1>3
  <2> HIDE DEF s, g
  <2>2. Tiled({<<h, a, s>>, <<g, a + s, s>>}, a..(a + 2 * s - 1))
    BY <2>1, TiledTwo
  <2> HIDE DEF d
  <2> QED BY <1>3, <2>2
<1>6. ~IsLoose(d) /\ ~IsLoose(x) /\ ~IsLoose(y) /\ d \in D
  BY DEF IsLoose
<1>7. Store(m, G) /\ Held(G) = (Held(D) \ {d}) \cup F
  <2>1. \A e \in F : ~IsLoose(e)
    BY <1>6
  <2> HIDE DEF d, F
  <2>2. Tiled(F, Area(d)) /\ d \in D /\ ~IsLoose(d)
    BY <1>5, <1>6
  <2>3. Store(m, (D \ {d}) \cup F) /\ Held((D \ {d}) \cup F) = (Held(D) \ {d}) \cup F
    BY <2>1, <2>2, StoreAnew
  <2> QED BY <2>3
<1>8. y \notin D
  <2> SUFFICES ASSUME y \in D PROVE FALSE
    OBVIOUS
  <2>1. y[2] \in Area(y) /\ y[2] \in Area(d)
    <3>1. y[2] \in Area(y)
      BY StoreAreas
    <3>2. y[2] = a + s /\ a <= a + s /\ a + s <= a + 2 * s - 1
      BY <1>1, <1>3
    <3> QED BY <1>3, <1>4, <3>1, <3>2
  <2>2. y = d
    BY <1>6, <2>1 DEF Store, Tiled
  <2> HIDE DEF s, c
  <2>3. s = 2^k
    BY <2>2
  <2> QED BY <1>1, <1>2, <2>3
<1>9. PICK E :
         /\ Store(n, E) /\ Held(E) = Held(G) \ {y} /\ n.mapped = m.mapped
      /\ \A w \in Words \ {a + s} : n.mem[w] = m.mem[w]
  <2>1. y \in G /\ g[1] # "free"
    OBVIOUS
  <2>2. n = PushCell(m, t, a + s, c)
    BY DEF Halve
  <2> DEFINE b == a + s
  <2>3. c \in CellClasses /\ Aligned(b, c) /\ <<g, b, 2^c>> \in G /\ Store(m, G)
    BY <1>1, <1>4, <1>7, <2>1
  <2> HIDE DEF G, g, c, b
  <2>4. Pushed(m, G, t, c, g, b, PushCell(m, t, b, c))
    BY <2>1, <2>3, PushSound
  <2> HIDE DEF n
  <2> QED BY <2>2, <2>4 DEF b, s, Pushed
<1>10. Held(E) = (Held(D) \ {d}) \cup {x} /\ x \in Held(E) /\ x \in E
  <2>1. x # y
    BY <1>1, <1>3
  <2>2. y \notin Held(D)
    BY <1>8 DEF Held
  <2>3. Held(E) = (Held(D) \ {d}) \cup {x}
    <3> HIDE DEF G, d, x, y
    <3> QED BY <1>7, <1>9, <2>1, <2>2
  <2> HIDE DEF x
  <2> QED BY <2>3 DEF Held
<1>11. a + s \in Area(d)
  BY <1>1, <1>3
<1> HIDE DEF n
<1>12. \A w \in Words : w \notin Area(d) => n.mem[w] = m.mem[w]
  BY <1>9, <1>11
<1> QED BY <1>4, <1>9, <1>10, <1>12 DEF CutTo, n

\* Halving once more what has been halved before
LEMMA CutMore ==
  ASSUME NEW m, NEW D, Store(m, D), NEW t \in Threads, NEW k \in CellClasses,
         NEW h, h[1] # "free", NEW a, <<h, a, 2^k>> \in D,
         NEW i \in 1..k, NEW x, CutTo(m, D, h, a, k, i, x)
  PROVE  CutTo(m, D, h, a, k, i - 1, Halve(x, t, a, i))
<1> DEFINE d == <<h, a, 2^k>>
           e == <<h, a, 2^i>>
           f == <<h, a, 2^(i - 1)>>
<1>0. k \in 0..LogPage /\ i \in CellClasses /\ i # 0 /\ 2^i <= 2^k /\ 2^i \in Nat /\ 2^k \in Nat /\ LogPage \in Nat
  <2>1. k \in 0..LogPage /\ i \in CellClasses /\ i # 0 /\ k \in Nat /\ i \in 0..k /\ LogPage \in Nat
    BY Sizes DEF CellClasses
  <2> QED BY <2>1, Sizes, PowerGrows
<1>1. PICK E : /\ Store(x, E) /\ e \in E /\ Aligned(a, i)
               /\ Held(E) = (Held(D) \ {d}) \cup {e}
               /\ x.mapped = m.mapped
               /\ \A w \in Words : w \notin Area(d) => x.mem[w] = m.mem[w]
  BY DEF CutTo
<1>2. CutTo(x, E, h, a, i, i - 1, Halve(x, t, a, i))
  BY <1>0, <1>1, HalveSound
<1> DEFINE n == Halve(x, t, a, i)
<1> HIDE DEF n
<1>3. PICK G : /\ Store(n, G) /\ f \in G /\ Aligned(a, i - 1)
               /\ Held(G) = (Held(E) \ {e}) \cup {f}
               /\ n.mapped = x.mapped
               /\ \A w \in Words : w \notin Area(e) => n.mem[w] = x.mem[w]
  BY <1>2 DEF CutTo, n
<1>4. a \in Nat /\ Area(e) \subseteq Area(d)
  <2>1. Tile(d) /\ d \in D
    BY StoreAreas
  <2> QED BY <1>0, <2>1 DEF Tile, Area
<1>5. e \notin Held(D) \ {d}
  <2> SUFFICES ASSUME e \in D, e # d PROVE FALSE
    BY DEF Held
  <2>1. e[2] \in Area(e) /\ d[2] \in Area(d) /\ e[2] = d[2] /\ d \in D
    BY StoreAreas
  <2>2. Area(e) \cap Area(d) # {}
    BY <2>1
  <2> HIDE DEF d, e
  <2> QED BY <2>1, <2>2 DEF Store, Tiled
<1>6. Held(G) = (Held(D) \ {d}) \cup {f}
  <2> HIDE DEF d, e, f
  <2> QED BY <1>1, <1>3, <1>5
<1>7. \A w \in Words : w \notin Area(d) => n.mem[w] = m.mem[w]
  <2> HIDE DEF d, e, f
  <2> QED BY <1>1, <1>3, <1>4
<1> QED BY <1>1, <1>3, <1>6, <1>7 DEF CutTo, n

\* Halves meets its recursive equation: its value at i depends on that at i + 1 only.
LEMMA HalvesUnfold ==
  ASSUME NEW m, NEW t, NEW a, NEW k \in Nat, NEW c \in 0..k
  PROVE  LET at == Halves(m, t, a, k, c)
         IN  at = [i \in c..k |-> IF i = k THEN m ELSE Halve(at[i + 1], t, a, i + 1)]
<1> DEFINE Step(f, i) == IF i = k THEN m ELSE Halve(f[i + 1], t, a, i + 1)
           T == {j \in 0..(k - c) : ~\E f : f = [i \in (k - j)..k |-> Step(f, i)]}
<1>1. ASSUME T # {} PROVE FALSE
  <2>1. PICK j \in T : \A l \in T : j <= l
    <3>1. T \in SUBSET Nat
      OBVIOUS
    <3> QED BY <1>1, <3>1, NatMin
  <2>2. CASE j = 0
    <3> DEFINE g == [i \in (k - j)..k |-> m]
    <3>1. g = [i \in (k - j)..k |-> Step(g, i)]
      BY <2>2
    <3> QED BY <2>1, <3>1
  <2>3. CASE j # 0
    <3>0. j \in 1..(k - c) /\ j - 1 \in 0..(k - c)
      BY <2>1, <2>3
    <3>1. j - 1 \notin T
      <4> HIDE DEF T
      <4> QED BY <2>1, <3>0
    <3>2. PICK f : f = [i \in (k - (j - 1))..k |-> Step(f, i)]
      BY <3>0, <3>1
    <3> DEFINE g == [i \in (k - j)..k |-> IF i = k - j THEN Step(f, i) ELSE f[i]]
    <3> HIDE DEF Step, T
    <3>3. \A i \in (k - j)..k : i # k - j => i \in (k - (j - 1))..k /\ f[i] = Step(f, i)
      <4> SUFFICES ASSUME NEW i \in (k - j)..k, i # k - j
                   PROVE  i \in (k - (j - 1))..k /\ f[i] = Step(f, i)
        OBVIOUS
      <4>1. i \in (k - (j - 1))..k
        BY <3>0
      <4> QED BY <3>2, <4>1
    <3>4. \A i \in (k - j)..k : Step(g, i) = Step(f, i)
      <4> SUFFICES ASSUME NEW i \in (k - j)..k PROVE Step(g, i) = Step(f, i)
        OBVIOUS
      <4>1. CASE i = k
        BY <4>1 DEF Step
      <4>2. CASE i # k
        <5>1. i + 1 \in (k - j)..k /\ i + 1 # k - j
          BY <3>0, <4>2
        <5>2. g[i + 1] = f[i + 1]
          BY <5>1
        <5> HIDE DEF g
        <5> QED BY <5>2 DEF Step
      <4> QED BY <4>1, <4>2
    <3>5. g = [i \in (k - j)..k |-> Step(g, i)]
      <4>1. \A i \in (k - j)..k : g[i] = Step(g, i)
        BY <3>3, <3>4
      <4> QED BY <4>1
    <3>6. \E u : u = [i \in (k - j)..k |-> Step(u, i)]
      <4> HIDE DEF g
      <4> QED BY <3>5
    <3> QED BY <2>1, <3>6 DEF Step, T
  <2> QED BY <2>2, <2>3
<1>2. k - c \in 0..(k - c) /\ k - (k - c) = c
  OBVIOUS
<1>3. \E f : f = [i \in (k - (k - c))..k |-> Step(f, i)]
  BY <1>1, <1>2
<1> QED BY <1>2, <1>3 DEF Halves

\* A cell is halved down to a class: what is cut off is in the lists.
LEMMA HalvesSound ==
  ASSUME NEW m, NEW D, Store(m, D), NEW t \in Threads, NEW k \in CellClasses, NEW c \in 0..k,
         NEW h, h[1] # "free", NEW a, <<h, a, 2^k>> \in D, Aligned(a, k)
  PROVE  CutTo(m, D, h, a, k, c, Halves(m, t, a, k, c)[c])
<1> DEFINE at == Halves(m, t, a, k, c)
           T == {j \in 0..(k - c) : ~CutTo(m, D, h, a, k, k - j, at[k - j])}
<1>1. k \in Nat
  BY Sizes
<1>2. at = [i \in c..k |-> IF i = k THEN m ELSE Halve(at[i + 1], t, a, i + 1)]
  BY <1>1, HalvesUnfold
<1> HIDE DEF at
<1>3. ASSUME T # {} PROVE FALSE
  <2>1. PICK j \in T : \A l \in T : j <= l
    <3>1. T \in SUBSET Nat
      BY <1>1
    <3> QED BY <1>3, <3>1, NatMin
  <2>2. CASE j = 0
    <3>0. 0 \in 0..(k - c) /\ k - 0 = k
      BY <1>1
    <3>1. at[k] = m
      BY <1>1, <1>2
    <3>2. <<h, a, 2^k>> \in Held(D)
      BY DEF Held, IsLoose
    <3>3. Held(D) = (Held(D) \ {<<h, a, 2^k>>}) \cup {<<h, a, 2^k>>}
      BY <3>2
    <3>4. CutTo(m, D, h, a, k, k, m)
      BY <3>3 DEF CutTo
    <3> QED BY <1>1, <2>1, <2>2, <3>0, <3>1, <3>4
  <2>3. CASE j # 0
    <3>1. j - 1 \in 0..(k - c) /\ j - 1 \notin T /\ k - (j - 1) = k - j + 1
      BY <1>1, <2>1, <2>3
    <3>2. CutTo(m, D, h, a, k, k - j + 1, at[k - j + 1])
      BY <3>1
    <3>3. k - j \in c..k /\ k - j # k /\ k - j + 1 \in 1..k /\ (k - j + 1) - 1 = k - j
      BY <1>1, <2>1, <2>3
    <3>4. at[k - j] = Halve(at[k - j + 1], t, a, k - j + 1)
      BY <1>2, <3>3
    <3> DEFINE i == k - j + 1
    <3> HIDE DEF i
    <3>5. CutTo(m, D, h, a, k, i - 1, Halve(at[i], t, a, i))
      <4>1. i \in 1..k /\ CutTo(m, D, h, a, k, i, at[i])
        BY <3>2, <3>3 DEF i
      <4> QED BY <4>1, CutMore
    <3>6. CutTo(m, D, h, a, k, k - j, at[k - j])
      BY <3>3, <3>4, <3>5 DEF i
    <3> QED BY <2>1, <3>6
  <2> QED BY <2>2, <2>3
<1>4. k - c \in 0..(k - c) /\ k - (k - c) = c
  BY <1>1
<1> QED BY <1>3, <1>4 DEF at
----------------------------------------------------------------------------
\* allocate_cell

\* What a list has is what its links lead to.
LEMMA ChainIs ==
  ASSUME NEW m, NEW D, Store(m, D), NEW t \in Threads, NEW c \in CellClasses
  PROVE  Chain(m, m.lists[t][c]) = LooseIn(D, t, c) /\ IsFiniteSet(LooseIn(D, t, c))
<1>1. /\ Listed(LooseIn(D, t, c), m.lists[t][c], NextWord(m), Zero)
      /\ LooseIn(D, t, c) \in SUBSET Linkable
  BY StoreAreas DEF Store, Linked
<1>2. DOMAIN NextWord(m) = Linkable /\ IsFiniteSet(Linkable) /\ Zero \notin Linkable
  <2>1. IsFiniteSet(Linkable)
    BY WordsParts, FS_Subset DEF Linkable
  <2> QED BY <2>1 DEF NextWord, Linkable
<1>3. ListCells(m.lists[t][c], NextWord(m), Zero) = LooseIn(D, t, c)
  <2> DEFINE L == LooseIn(D, t, c)
             w == NextWord(m)
             x == m.lists[t][c]
  <2>1. /\ IsFiniteSet(DOMAIN w) /\ Zero \notin DOMAIN w /\ L \in SUBSET DOMAIN w
        /\ Listed(L, x, w, Zero)
    BY <1>1, <1>2
  <2> HIDE DEF L, w, x
  <2>2. ListCells(x, w, Zero) = L
    BY <2>1, ListedFollowed
  <2> QED BY <2>2 DEF L, w, x
<1>4. IsFiniteSet(LooseIn(D, t, c))
  BY <1>1, <1>2, FS_Subset
<1> QED BY <1>3, <1>4 DEF Chain, NextWord, Linkable

\* The pages that can still be mapped
LEMMA RoomIs ==
  ASSUME NEW m
  PROVE  /\ Room(m, 1) = (1..MaxFrames) \ m.mapped /\ IsFiniteSet(Room(m, 1))
         /\ Cardinality(Room(m, 1)) \in Nat
<1>1. MaxFrames \in Nat
  BY Sizes
<1>2. \A p \in 1..MaxFrames : Frames(p, 1) = {p}
  BY <1>1 DEF Frames
<1>3. MaxFrames - 1 + 1 = MaxFrames
  BY <1>1
<1>4. Room(m, 1) = {p \in 1..MaxFrames : {p} \cap m.mapped = {}}
  BY <1>2, <1>3 DEF Room
<1>5. Room(m, 1) = (1..MaxFrames) \ m.mapped
  BY <1>4
<1>6. IsFiniteSet(1..MaxFrames)
  BY <1>1, FS_Interval
<1> QED BY <1>5, <1>6, FS_Subset, FS_CardinalityType

\* Cells of a page that can be had: those listed and those that can be mapped
LEMMA EnoughIs ==
  ASSUME NEW m, NEW D, Store(m, D), NEW t \in Threads, NEW n
  PROVE  /\ EnoughCells(m, t, n) <=>
              n <= Cardinality(LooseIn(D, t, LogPage)) + Cardinality(Room(m, 1))
         /\ Cardinality(LooseIn(D, t, LogPage)) \in Nat
<1>1. LogPage \in CellClasses
  BY Sizes DEF CellClasses
<1> QED BY <1>1, ChainIs, FS_CardinalityType DEF EnoughCells

\* The words that others rely on: those of what is held, and those of page 0
Kept(D, w) == w < PageWords \/ \E d \in Held(D) : w \in Area(d)

\* What allocating a cell of class c gives: r
\* It is apart from what is held, and no word of that has changed.
Allocated(m, D, t, h, c, r) ==
  /\ \E E : /\ Store(r.meta, E) /\ <<h, r.cell, 2^c>> \in E /\ Aligned(r.cell, c)
            /\ Held(E) = Held(D) \cup {<<h, r.cell, 2^c>>}
  /\ \A d \in Held(D) : Area(d) \cap Area(<<h, r.cell, 2^c>>) = {}
  /\ \A w \in Words : Kept(D, w) => r.meta.mem[w] = m.mem[w]
  /\ c = LogPage => \A n \in Nat : EnoughCells(m, t, n + 1) => EnoughCells(r.meta, t, n)

\* A cell out of the lists, cut to the class asked for
LEMMA SplitSound ==
  ASSUME NEW m, NEW D, Store(m, D), NEW t \in Threads, NEW c \in CellClasses,
         \E k \in c..LogPage : m.lists[t][k] # Zero, NEW h, h[1] # "free"
  PROVE  Allocated(m, D, t, h, c, SplitCell(m, t, c))
<1> DEFINE k == CHOOSE j \in c..LogPage :
                  m.lists[t][j] # Zero /\ \A i \in c..(j - 1) : m.lists[t][i] = Zero
           a == m.lists[t][k]
           x == PopCell(m, t, k)
           n == Halves(x, t, a, k, c)[c]
           d == <<h, a, 2^k>>
           e == <<h, a, 2^c>>
<1>1. k \in c..LogPage /\ m.lists[t][k] # Zero /\ c \in Nat /\ LogPage \in Nat
  <2> DEFINE T == {j \in c..LogPage : m.lists[t][j] # Zero}
  <2>1. c \in Nat /\ LogPage \in Nat
    BY Sizes
  <2>2. PICK j \in T : \A i \in T : j <= i
    <3>1. T \in SUBSET Nat /\ T # {}
      BY <2>1
    <3> QED BY <3>1, NatMin
  <2>3. \A i \in c..(j - 1) : m.lists[t][i] = Zero
    BY <2>1, <2>2
  <2>4. j \in c..LogPage /\ m.lists[t][j] # Zero
    BY <2>2
  <2> QED BY <2>1, <2>3, <2>4
<1>2. SplitCell(m, t, c) = [meta |-> n, cell |-> a]
  BY DEF SplitCell
<1> HIDE DEF k
<1>3. k \in CellClasses /\ k \in Nat /\ c \in 0..k
  BY <1>1 DEF CellClasses
<1>4. Popped(m, D, t, k, h, x)
  BY <1>1, <1>3, PopSound
<1> HIDE DEF x
<1>5. PICK E : /\ Store(x, E) /\ Held(E) = Held(D) \cup {d} /\ d \in E
               /\ Aligned(a, k) /\ a \in LooseIn(D, t, k)
               /\ LooseIn(E, t, k) = LooseIn(D, t, k) \ {a}
               /\ x.mem = m.mem /\ x.mapped = m.mapped
  BY <1>4 DEF Popped
<1> HIDE DEF a
<1>6. CutTo(x, E, h, a, k, c, n)
  BY <1>3, <1>5, HalvesSound
<1>7. n = x \/ c # LogPage
  <2> SUFFICES ASSUME c = LogPage PROVE n = x
    OBVIOUS
  <2>1. k = c /\ c \in c..k
    BY <1>1
  <2> DEFINE at == Halves(x, t, a, k, c)
  <2>2. at = [i \in c..k |-> IF i = k THEN x ELSE Halve(at[i + 1], t, a, i + 1)]
    BY <1>3, HalvesUnfold
  <2> HIDE DEF at
  <2>3. at[c] = x
    BY <2>1, <2>2
  <2> QED BY <2>3 DEF at
<1> HIDE DEF n
<1>8. PICK G : /\ Store(n, G) /\ e \in G /\ Aligned(a, c)
               /\ Held(G) = (Held(E) \ {d}) \cup {e}
               /\ n.mapped = x.mapped
               /\ \A w \in Words : w \notin Area(d) => n.mem[w] = x.mem[w]
  BY <1>6 DEF CutTo
<1>9. \A b \in Held(D) : Area(b) \cap Area(d) = {}
  <2> SUFFICES ASSUME NEW b \in Held(D), Area(b) \cap Area(d) # {} PROVE FALSE
    OBVIOUS
  <2>1. b \in D /\ ~IsLoose(b) /\ b \in E
    BY <1>5 DEF Held
  <2>2. b = d
    BY <1>5, <2>1 DEF Store, Tiled
  <2>3. Loose(t, k, a) \in D /\ Loose(t, k, a)[2] = a /\ IsLoose(Loose(t, k, a))
    BY <1>5, LooseOnce DEF LooseIn
  <2>4. a \in Area(b) /\ a \in Area(Loose(t, k, a))
    <3>1. b[2] = a
      BY <2>2
    <3> QED BY <2>1, <2>3, <3>1, StoreAreas
  <2>5. b = Loose(t, k, a)
    BY <2>1, <2>3, <2>4 DEF Store, Tiled
  <2> QED BY <2>1, <2>3, <2>5
<1>10. d \notin Held(D)
  <2>1. a \in Area(d)
    <3>1. d[2] \in Area(d)
      BY <1>5, StoreAreas
    <3> QED BY <3>1
  <2> QED BY <1>9, <2>1
<1>11. Held(G) = Held(D) \cup {e}
  <2> HIDE DEF d, e
  <2> QED BY <1>5, <1>8, <1>10
<1>12. Area(e) \subseteq Area(d)
  <2>1. 2^c <= 2^k /\ 2^c \in Nat /\ 2^k \in Nat
    BY <1>3, Sizes, PowerGrows
  <2>2. a \in Nat
    <3>1. Tile(d)
      BY <1>5, StoreAreas
    <3> QED BY <3>1 DEF Tile
  <2> QED BY <2>1, <2>2 DEF Area
<1>13. \A w \in Words : Kept(D, w) => n.mem[w] = m.mem[w]
  <2> SUFFICES ASSUME NEW w \in Words, Kept(D, w) PROVE w \notin Area(d)
    BY <1>5, <1>8
  <2>1. CASE w < PageWords
    <3>1. Area(d) \subseteq WordsOf(x.mapped) /\ x.mapped \in SUBSET (1..MaxFrames)
      BY <1>5, StoreAreas DEF Store, Metas
    <3>2. \A v \in WordsOf(x.mapped) : v >= PageWords
      BY <3>1, WordsParts
    <3>3. w \in Nat /\ PageWords \in Nat
      BY Sizes, WordsParts
    <3> HIDE DEF d
    <3> QED BY <2>1, <3>1, <3>2, <3>3
  <2>2. CASE \E b \in Held(D) : w \in Area(b)
    BY <1>9, <2>2
  <2> QED BY <2>1, <2>2 DEF Kept
<1>14. c = LogPage => \A i \in Nat : EnoughCells(m, t, i + 1) => EnoughCells(n, t, i)
  <2> SUFFICES ASSUME c = LogPage, NEW i \in Nat, EnoughCells(m, t, i + 1) PROVE EnoughCells(n, t, i)
    OBVIOUS
  <2> DEFINE L == LooseIn(D, t, LogPage)
             M == LooseIn(E, t, LogPage)
  <2>1. k = LogPage /\ n = x
    BY <1>1, <1>7
  <2>2. M = L \ {a} /\ a \in L
    BY <1>5, <2>1
  <2>3. i + 1 <= Cardinality(L) + Cardinality(Room(m, 1)) /\ Cardinality(L) \in Nat
    BY EnoughIs
  <2>4. Cardinality(M) = Cardinality(L) - 1
    <3>1. IsFiniteSet(L)
      BY <1>3, <2>1, ChainIs
    <3> HIDE DEF L, M
    <3> QED BY <2>2, <3>1, FS_RemoveElement
  <2>5. Room(x, 1) = Room(m, 1)
    BY <1>5, RoomIs
  <2>6. Cardinality(Room(m, 1)) \in Nat
    BY RoomIs
  <2>7. i <= Cardinality(M) + Cardinality(Room(x, 1))
    <3> HIDE DEF L, M
    <3> QED BY <2>3, <2>4, <2>5, <2>6
  <2> QED BY <1>5, <2>1, <2>7, EnoughIs
<1>15. \A b \in Held(D) : Area(b) \cap Area(e) = {}
  <2> HIDE DEF d, e
  <2> QED BY <1>9, <1>12
<1> QED BY <1>2, <1>8, <1>11, <1>13, <1>14, <1>15 DEF Allocated

\* A page that is mapped and put into a list is as good as one that was there.
LEMMA MapPushSound ==
  ASSUME NEW m, NEW D, Store(m, D), NEW t \in Threads, Room(m, 1) # {},
         NEW k, k = PushCell(MapPages(m, 1), t, Found(m, 1) * PageWords, LogPage)
  PROVE  /\ \E E : Store(k, E) /\ Held(E) = Held(D)
         /\ k.lists[t][LogPage] # Zero
         /\ \A w \in Words : Kept(D, w) => k.mem[w] = m.mem[w]
         /\ \A n \in Nat : EnoughCells(m, t, n) => EnoughCells(k, t, n)
<1> DEFINE p == Found(m, 1)
           h == <<"page">>
           a == p * PageWords
           x == MapPages(m, 1)
           d == FramesTile(h, p, 1)
<1>0. h[1] # "free" /\ 1 \in Nat \ {0} /\ LogPage \in CellClasses /\ LogPage \in Nat
  BY Sizes DEF CellClasses
<1>1. PagesMapped(m, D, h, p, 1, x)
  <2> HIDE DEF h
  <2> QED BY <1>0, MapSound
<1>2. k = PushCell(x, t, a, LogPage)
  OBVIOUS
<1> HIDE DEF p, x
<1>3. PICK E : /\ Store(x, E) /\ Held(E) = Held(D) \cup {d} /\ d \in E
               /\ p \in Nat \ {0} /\ x.lists = m.lists /\ x.mapped = m.mapped \cup Frames(p, 1)
               /\ \A w \in Words : w \notin Area(d) => x.mem[w] = m.mem[w]
               /\ Area(d) \cap WordsOf(m.mapped) = {} /\ Area(d) \subseteq Words
               /\ \A s, c : LooseIn(E, s, c) = LooseIn(D, s, c)
  BY <1>1 DEF PagesMapped
<1>4. PageWords \in Nat \ {0} /\ PageWords = 2^LogPage /\ 1 * PageWords = PageWords
  BY Sizes
<1>5. d = <<h, a, 2^LogPage>> /\ a \in Nat /\ Aligned(a, LogPage) /\ a \in Area(d)
  <2>1. a \in Nat /\ d = <<h, a, 2^LogPage>>
    BY <1>3, <1>4 DEF FramesTile
  <2>2. Aligned(p * 2^LogPage, LogPage)
    BY <1>0, <1>3, AlignedMultiple
  <2>3. d[2] \in Area(d)
    BY <1>3, StoreAreas
  <2> QED BY <1>4, <2>1, <2>2, <2>3
<1> HIDE DEF d, a
<1>6. Pushed(x, E, t, LogPage, h, a, k)
  <2>1. <<h, a, 2^LogPage>> \in E
    BY <1>3, <1>5
  <2> HIDE DEF h
  <2> QED BY <1>0, <1>2, <1>3, <1>5, <2>1, PushSound
<1>7. PICK G : /\ Store(k, G) /\ Held(G) = Held(E) \ {<<h, a, 2^LogPage>>}
               /\ LooseIn(G, t, LogPage) = LooseIn(E, t, LogPage) \cup {a} /\ a \notin LooseIn(E, t, LogPage)
               /\ k.mapped = x.mapped
               /\ \A w \in Words \ {a} : k.mem[w] = x.mem[w]
  BY <1>6 DEF Pushed
<1>8. \A b \in Held(D) : Area(b) \cap Area(d) = {}
  <2> SUFFICES ASSUME NEW b \in Held(D) PROVE Area(b) \subseteq WordsOf(m.mapped)
    BY <1>3
  <2> QED BY StoreAreas DEF Held
<1>9. d \notin Held(D)
  BY <1>5, <1>8
<1>10. Held(G) = Held(D)
  <2> HIDE DEF h
  <2> QED BY <1>3, <1>5, <1>7, <1>9
<1>11. a # Zero
  <2>1. d[2] # Zero
    BY <1>3, StoreAreas
  <2> QED BY <1>5, <2>1
<1>12. k.lists[t][LogPage] # Zero
  <2>1. a \in LooseIn(G, t, LogPage)
    BY <1>7
  <2>2. Listed(LooseIn(G, t, LogPage), k.lists[t][LogPage], NextWord(k), Zero) /\ Zero \notin LooseIn(G, t, LogPage)
    BY <1>0, <1>7, StoreAreas DEF Store, Linked
  <2> QED BY <2>1, <2>2, ListedLinks
<1>13. \A w \in Words : Kept(D, w) => k.mem[w] = m.mem[w]
  <2> SUFFICES ASSUME NEW w \in Words, Kept(D, w) PROVE w \notin Area(d)
    BY <1>3, <1>5, <1>7
  <2>1. CASE w < PageWords
    <3>1. Area(d) \subseteq WordsOf(x.mapped) /\ x.mapped \in SUBSET (1..MaxFrames)
      BY <1>3, StoreAreas DEF Store, Metas
    <3>2. \A v \in WordsOf(x.mapped) : v >= PageWords
      BY <3>1, WordsParts
    <3>3. w \in Nat /\ PageWords \in Nat
      BY <1>4, WordsParts
    <3> QED BY <2>1, <3>1, <3>2, <3>3
  <2>2. CASE \E b \in Held(D) : w \in Area(b)
    BY <1>8, <2>2
  <2> QED BY <2>1, <2>2 DEF Kept
<1>14. ASSUME NEW n \in Nat, EnoughCells(m, t, n) PROVE EnoughCells(k, t, n)
  <2> DEFINE L == LooseIn(D, t, LogPage)
             M == LooseIn(G, t, LogPage)
  <2>1. n <= Cardinality(L) + Cardinality(Room(m, 1)) /\ Cardinality(L) \in Nat
    BY <1>14, EnoughIs
  <2>2. M = L \cup {a} /\ a \notin L
    BY <1>3, <1>7
  <2>3. Cardinality(M) = Cardinality(L) + 1
    <3>1. IsFiniteSet(L)
      BY <1>0, ChainIs
    <3> HIDE DEF L, M
    <3> QED BY <2>2, <3>1, FS_AddElement
  <2>4. Room(k, 1) = Room(m, 1) \ {p} /\ p \in Room(m, 1)
    <3>1. Frames(p, 1) = {p}
      BY <1>3 DEF Frames
    <3>2. p \in Room(m, 1)
      BY FoundRoom DEF p
    <3> QED BY <1>3, <1>7, <3>1, <3>2, RoomIs
  <2>5. Cardinality(Room(k, 1)) = Cardinality(Room(m, 1)) - 1 /\ Cardinality(Room(m, 1)) \in Nat
    <3>1. IsFiniteSet(Room(m, 1)) /\ Cardinality(Room(m, 1)) \in Nat
      BY RoomIs
    <3> DEFINE R == Room(m, 1)
    <3> HIDE DEF R
    <3>2. Cardinality(R \ {p}) = Cardinality(R) - 1
      BY <2>4, <3>1, FS_RemoveElement DEF R
    <3> QED BY <2>4, <3>1, <3>2 DEF R
  <2>6. n <= Cardinality(M) + Cardinality(Room(k, 1))
    <3> HIDE DEF L, M
    <3> QED BY <2>1, <2>3, <2>5
  <2> QED BY <1>7, <2>6, EnoughIs
<1> QED BY <1>7, <1>10, <1>12, <1>13, <1>14

\* allocate_cell hands out a cell of the class that was in nobody's hands.
LEMMA AllocateSound ==
  ASSUME NEW m, NEW D, Store(m, D), NEW t \in Threads, NEW c \in CellClasses,
         CanAllocate(m, t, c), NEW h, h[1] # "free"
  PROVE  Allocated(m, D, t, h, c, AllocateCell(m, t, c))
<1>1. CASE \E k \in c..LogPage : m.lists[t][k] # Zero
  <2>1. AllocateCell(m, t, c) = SplitCell(m, t, c)
    BY <1>1 DEF AllocateCell
  <2> QED BY <1>1, <2>1, SplitSound
<1>2. CASE ~\E k \in c..LogPage : m.lists[t][k] # Zero
  <2> DEFINE k == PushCell(MapPages(m, 1), t, Found(m, 1) * PageWords, LogPage)
             r == SplitCell(k, t, c)
  <2>1. AllocateCell(m, t, c) = r
    BY <1>2 DEF AllocateCell
  <2>2. Room(m, 1) # {}
    BY <1>2 DEF CanAllocate
  <2>3. /\ \E E : Store(k, E) /\ Held(E) = Held(D)
        /\ k.lists[t][LogPage] # Zero
        /\ \A w \in Words : Kept(D, w) => k.mem[w] = m.mem[w]
        /\ \A n \in Nat : EnoughCells(m, t, n) => EnoughCells(k, t, n)
    BY <2>2, MapPushSound
  <2> HIDE DEF k
  <2>4. PICK E : Store(k, E) /\ Held(E) = Held(D)
    BY <2>3
  <2>5. LogPage \in c..LogPage
    BY Sizes DEF CellClasses
  <2>6. Allocated(k, E, t, h, c, r)
    BY <2>3, <2>4, <2>5, SplitSound
  <2> HIDE DEF r
  <2>7. \A w : Kept(E, w) <=> Kept(D, w)
    BY <2>4 DEF Kept
  <2>8. Allocated(m, D, t, h, c, r)
    BY <2>3, <2>4, <2>6, <2>7 DEF Allocated
  <2> QED BY <2>1, <2>8
<1> QED BY <1>1, <1>2

\* With enough cells there is one.
LEMMA EnoughOne ==
  ASSUME NEW m, NEW D, Store(m, D), NEW t \in Threads, NEW n \in Nat \ {0}, EnoughCells(m, t, n)
  PROVE  CanAllocate(m, t, LogPage)
<1>1. LogPage \in CellClasses /\ LogPage \in LogPage..LogPage
  BY Sizes DEF CellClasses
<1>2. CASE m.lists[t][LogPage] # Zero
  BY <1>1, <1>2 DEF CanAllocate
<1>3. CASE m.lists[t][LogPage] = Zero
  <2>1. LooseIn(D, t, LogPage) = {}
    <3>1. Listed(LooseIn(D, t, LogPage), Zero, NextWord(m), Zero) /\ Zero \notin LooseIn(D, t, LogPage)
      BY <1>1, <1>3, StoreAreas DEF Store, Linked
    <3> QED BY <3>1, ListedLinks
  <2>2. Room(m, 1) # {}
    <3> SUFFICES ASSUME Room(m, 1) = {} PROVE FALSE
      OBVIOUS
    <3>1. n <= Cardinality(LooseIn(D, t, LogPage)) + Cardinality(Room(m, 1))
      BY EnoughIs
    <3>2. Cardinality({}) = 0
      BY FS_EmptySet
    <3> QED BY <2>1, <3>1, <3>2
  <2> QED BY <2>2 DEF CanAllocate
<1> QED BY <1>2, <1>3
----------------------------------------------------------------------------
\* Pages, by level and number: the entry of a page, and the table whose
\* entries are those of the pages in it

Id(p, l) == <<l, p \div SpanOf(l)>>
Up(e) == <<e[1] + 1, e[2] \div PageWords>>
RootId == <<Levels + 1, 0>>

\* What lies between multiples has their quotient.
LEMMA QuotientIs ==
  ASSUME NEW a \in Nat, NEW c \in Nat \ {0}, NEW k \in Nat, k * c <= a, a < (k + 1) * c
  PROVE  a \div c = k
<1> DEFINE q == a \div c
<1>1. q \in Nat /\ q * c <= a /\ a < (q + 1) * c
  BY Quotient
<1> HIDE DEF q
<1>2. k * c \in Nat /\ q * c \in Nat /\ (k + 1) * c = k * c + c /\ (q + 1) * c = q * c + c
  BY <1>1
<1>3. ~(q + 1 <= k)
  <2> SUFFICES ASSUME q + 1 <= k PROVE FALSE
    OBVIOUS
  <2>1. (q + 1) * c <= k * c
    BY <1>1
  <2> QED BY <1>1, <1>2, <2>1
<1>4. ~(k + 1 <= q)
  <2> SUFFICES ASSUME k + 1 <= q PROVE FALSE
    OBVIOUS
  <2>1. (k + 1) * c <= q * c
    BY <1>1
  <2> QED BY <1>1, <1>2, <2>1
<1> QED BY <1>1, <1>3, <1>4 DEF q

\* Dividing twice
LEMMA QuotientTwice ==
  ASSUME NEW a \in Nat, NEW b \in Nat \ {0}, NEW c \in Nat \ {0}
  PROVE  (a \div b) \div c = a \div (b * c)
<1> DEFINE x == a \div b
           y == x \div c
<1>1. x \in Nat /\ x * b <= a /\ a < (x + 1) * b
  BY Quotient
<1> HIDE DEF x
<1>2. y \in Nat /\ y * c <= x /\ x < (y + 1) * c
  BY <1>1, Quotient
<1> HIDE DEF y
<1>3. b * c \in Nat \ {0}
  OBVIOUS
<1>4. y * (b * c) <= a
  <2>1. (y * c) * b <= x * b
    BY <1>1, <1>2
  <2>2. (y * c) * b = y * (b * c) /\ y * (b * c) \in Nat /\ x * b \in Nat
    BY <1>1, <1>2
  <2> QED BY <1>1, <2>1, <2>2
<1>5. a < (y + 1) * (b * c)
  <2>1. x + 1 <= (y + 1) * c /\ (y + 1) * c \in Nat
    BY <1>1, <1>2
  <2>2. (x + 1) * b <= ((y + 1) * c) * b
    BY <1>1, <2>1
  <2>3. ((y + 1) * c) * b = (y + 1) * (b * c) /\ (y + 1) * (b * c) \in Nat /\ (x + 1) * b \in Nat
    BY <1>1, <1>2
  <2> QED BY <1>1, <2>2, <2>3
<1>6. a \div (b * c) = y
  <2> DEFINE d == b * c
  <2> HIDE DEF d
  <2>1. d \in Nat \ {0} /\ y * d <= a /\ a < (y + 1) * d
    BY <1>3, <1>4, <1>5 DEF d
  <2>2. a \div d = y
    BY <1>2, <2>1, QuotientIs
  <2> QED BY <2>2 DEF d
<1> QED BY <1>6 DEF x, y

\* A page of a level is as large as a table of the level below maps.
LEMMA Spans ==
  /\ Levels \in Nat /\ Levels >= 2
  /\ SpanOf(1) = 1
  /\ \A l \in Nat \ {0} : SpanOf(l) \in Nat \ {0} /\ SpanOf(l + 1) = SpanOf(l) * PageWords
<1>1. LogPage \in Nat \ {0} /\ PageWords = 2^LogPage
  BY Sizes
<1>2. Levels \in Nat /\ Levels >= 2
  BY TableAssumption
<1>3. SpanOf(1) = 1
  <2>1. LogPage * (1 - 1) = 0
    BY <1>1
  <2>2. 2^0 = 1
    OBVIOUS
  <2> QED BY <2>1, <2>2 DEF SpanOf
<1>4. ASSUME NEW l \in Nat \ {0}
      PROVE  SpanOf(l) \in Nat \ {0} /\ SpanOf(l + 1) = SpanOf(l) * PageWords
  <2> DEFINE n == LogPage * (l - 1)
  <2>1. n \in Nat /\ LogPage * (l + 1 - 1) = n + LogPage
    BY <1>1
  <2> HIDE DEF n
  <2>2. 2^n \in Nat \ {0} /\ 2^(n + LogPage) = 2^n * 2^LogPage
    BY <1>1, <2>1, PowerNat, PowerSum
  <2>3. SpanOf(l) = 2^n /\ SpanOf(l + 1) = 2^(n + LogPage)
    BY <2>1 DEF SpanOf, n
  <2> QED BY <1>1, <2>2, <2>3
<1> QED BY <1>2, <1>3, <1>4

\* The entry of a page one level up is that of the table it is in.
LEMMA IdUp ==
  ASSUME NEW p \in Nat, NEW l \in Nat \ {0}
  PROVE  /\ Id(p, l + 1) = Up(Id(p, l)) /\ Id(p, l) = <<l, Id(p, l)[2]>> /\ Id(p, l)[1] = l
         /\ Id(p, l)[2] \in Nat /\ GetIndex(p, l) = Id(p, l)[2] % PageWords
<1>1. SpanOf(l) \in Nat \ {0} /\ SpanOf(l + 1) = SpanOf(l) * PageWords /\ PageWords \in Nat \ {0}
  BY Spans, Sizes
<1>2. (p \div SpanOf(l)) \div PageWords = p \div SpanOf(l + 1)
  BY <1>1, QuotientTwice
<1>3. p \div SpanOf(l) \in Nat
  BY <1>1
<1> QED BY <1>2, <1>3 DEF Id, Up, GetIndex

\* All pages that are mapped are below the root.
LEMMA IdTop ==
  ASSUME NEW p \in Mapped
  PROVE  p \in Nat /\ Id(p, Levels + 1) = RootId
<1> DEFINE s == SpanOf(Levels + 1)
<1>1. s \in Nat \ {0} /\ Levels + 1 \in Nat \ {0}
  BY Spans
<1>2. p \in Nat /\ p <= s - 1
  BY <1>1 DEF Mapped
<1> HIDE DEF s
<1>3. p \div s = 0
  <2>1. 0 * s <= p /\ p < (0 + 1) * s
    BY <1>1, <1>2
  <2> QED BY <1>1, <1>2, <2>1, QuotientIs
<1> QED BY <1>2, <1>3 DEF Id, RootId, s

\* A page covers those with its number.
LEMMA CoveredId ==
  ASSUME NEW a \in Nat, NEW l \in Nat \ {0}, a % SpanOf(l) = 0, NEW p \in Nat
  PROVE  p \in Covered(<<a, l>>) <=> Id(p, l) = Id(a, l)
<1> DEFINE s == SpanOf(l)
           k == a \div s
<1>1. s \in Nat \ {0}
  BY Spans
<1> HIDE DEF s
<1>2. k \in Nat /\ a = k * s
  <2>1. a % s = 0
    BY DEF s
  <2>2. a \div s \in Nat /\ a = s * (a \div s) + (a % s)
    BY <1>1
  <2>3. s * (a \div s) = (a \div s) * s /\ (a \div s) * s \in Nat
    BY <1>1, <2>2
  <2> QED BY <2>1, <2>2, <2>3
<1> HIDE DEF k
<1>3. p \in Covered(<<a, l>>) <=> k * s <= p /\ p < (k + 1) * s
  <2>1. Covered(<<a, l>>) = a..(a + s - 1)
    BY DEF Covered, s
  <2>2. (k + 1) * s = a + s
    BY <1>1, <1>2
  <2> QED BY <1>1, <1>2, <2>1, <2>2
<1>4. p \div s \in Nat /\ (p \div s) * s <= p /\ p < (p \div s + 1) * s
  BY <1>1, Quotient
<1>5. p \in Covered(<<a, l>>) <=> p \div s = k
  <2>1. ASSUME p \in Covered(<<a, l>>) PROVE p \div s = k
    BY <1>1, <1>2, <1>3, <2>1, QuotientIs
  <2>2. ASSUME p \div s = k PROVE p \in Covered(<<a, l>>)
    BY <1>3, <1>4, <2>2
  <2> QED BY <2>1, <2>2
<1> QED BY <1>5 DEF Id, k, s
----------------------------------------------------------------------------
\* Trees: tab maps the tables there are, named by the entries that point to
\* them, to their addresses, and val the pages in them to their pointer_meta.

TableWords(tab, e) == tab[e]..(tab[e] + PageWords - 1)
Slot(tab, e) == tab[Up(e)] + (e[2] % PageWords)
InTable(tab) == {e \in (1..Levels) \X Nat : Up(e) \in DOMAIN tab}
UsedIn(w, a) == Cardinality({b \in a..(a + PageWords - 1) : w[b] # Empty})

\* The tables are apart, and each but the root has one above it.
Layout(tab) ==
  /\ RootId \in DOMAIN tab /\ tab[RootId] = Root
  /\ \A e \in DOMAIN tab : e = RootId \/ (e \in (2..Levels) \X Nat /\ Up(e) \in DOMAIN tab)
  /\ \A e \in DOMAIN tab : tab[e] \in Nat /\ TableWords(tab, e) \subseteq Words
  /\ \A e, f \in DOMAIN tab : TableWords(tab, e) \cap TableWords(tab, f) # {} => e = f

\* What the entry of e says, where the table x counts n too many
Entry(w, tab, val, x, n, e) ==
  IF e \in DOMAIN tab THEN TableEntry(tab[e], UsedIn(w, tab[e]) + (IF e = x THEN n ELSE 0))
  ELSE IF e \in DOMAIN val THEN PageEntry(val[e]) ELSE Empty

\* The words w are the entries of these tables and pages.
Tree(w, tab, val, x, n) ==
  /\ w \in [Words -> Entries] /\ Layout(tab)
  /\ \A e \in DOMAIN val : e \in InTable(tab) /\ e[1] < Levels /\ e \notin DOMAIN tab
  /\ \A e \in InTable(tab) : w[Slot(tab, e)] = Entry(w, tab, val, x, n, e)

\* Entries are in the words of their tables, each in one of its own.
LEMMA Slots1 ==
  ASSUME NEW tab, Layout(tab), NEW e \in InTable(tab)
  PROVE  /\ Slot(tab, e) \in TableWords(tab, Up(e)) /\ Slot(tab, e) \in Words /\ Up(e) \in DOMAIN tab
         /\ e[1] \in Nat /\ e[2] \in Nat /\ e = <<e[1], e[2]>> /\ tab[Up(e)] \in Nat
         /\ e # RootId /\ e[1] >= 1 /\ e[1] <= Levels
<1>1. PageWords \in Nat \ {0} /\ Levels \in Nat
  BY Sizes, Spans
<1>2. Up(e) \in DOMAIN tab /\ e[1] \in Nat /\ e[2] \in Nat /\ e = <<e[1], e[2]>> /\ e[1] <= Levels /\ e[1] >= 1
  BY <1>1 DEF InTable
<1>3. e[2] % PageWords \in 0..(PageWords - 1)
  BY <1>1, <1>2
<1>4. tab[Up(e)] \in Nat /\ TableWords(tab, Up(e)) \subseteq Words
  BY <1>2 DEF Layout
<1>5. Slot(tab, e) \in TableWords(tab, Up(e))
  BY <1>1, <1>3, <1>4 DEF Slot, TableWords
<1> QED BY <1>1, <1>2, <1>4, <1>5 DEF RootId

\* An entry has its slot for itself.
LEMMA SlotsApart ==
  ASSUME NEW tab, Layout(tab), NEW e \in InTable(tab), NEW f \in InTable(tab), Slot(tab, e) = Slot(tab, f)
  PROVE  e = f
<1>1. PageWords \in Nat \ {0}
  BY Sizes
<1>2. /\ Slot(tab, e) \in TableWords(tab, Up(e)) /\ Up(e) \in DOMAIN tab
      /\ e[1] \in Nat /\ e[2] \in Nat /\ e = <<e[1], e[2]>> /\ tab[Up(e)] \in Nat
  BY Slots1
<1>3. /\ Slot(tab, f) \in TableWords(tab, Up(f)) /\ Up(f) \in DOMAIN tab
      /\ f[1] \in Nat /\ f[2] \in Nat /\ f = <<f[1], f[2]>> /\ tab[Up(f)] \in Nat
  BY Slots1
<1>4. Up(e) = Up(f)
  BY <1>2, <1>3 DEF Layout
<1>5. e[1] = f[1] /\ e[2] \div PageWords = f[2] \div PageWords
  BY <1>2, <1>3, <1>4 DEF Up
<1>6. e[2] % PageWords = f[2] % PageWords
  <2>1. e[2] % PageWords \in Nat /\ f[2] % PageWords \in Nat
    BY <1>1, <1>2, <1>3
  <2> QED BY <1>2, <1>3, <1>4, <2>1 DEF Slot
<1>7. e[2] = f[2]
  <2>1. \A a \in Nat : a = PageWords * (a \div PageWords) + (a % PageWords)
    BY <1>1
  <2> QED BY <1>2, <1>3, <1>5, <1>6, <2>1
<1> QED BY <1>2, <1>3, <1>5, <1>7

\* Each word of a table is an entry.
LEMMA SlotsAll ==
  ASSUME NEW tab, Layout(tab), NEW f \in DOMAIN tab, NEW b \in TableWords(tab, f)
  PROVE  \E e \in InTable(tab) : Up(e) = f /\ Slot(tab, e) = b
<1> DEFINE P == PageWords
           i == b - tab[f]
<1>1. P \in Nat \ {0} /\ Levels \in Nat /\ Levels >= 2 /\ tab[f] \in Nat
  BY Sizes, Spans DEF Layout
<1>2. i \in Nat /\ i < P /\ b = tab[f] + i
  BY <1>1 DEF TableWords
<1>3. f \in (2..(Levels + 1)) \X Nat
  BY <1>1 DEF Layout, RootId
<1> HIDE DEF i, P
<1> DEFINE l == f[1]
           k == f[2]
           j == k * P + i
           e == <<l - 1, j>>
<1>4. l \in 2..(Levels + 1) /\ k \in Nat /\ f = <<l, k>>
  BY <1>3
<1> HIDE DEF l, k
<1>5. k * P \in Nat /\ j \in Nat
  BY <1>1, <1>2, <1>4
<1>6. j \div P = k
  <2>1. k * P <= j /\ j < (k + 1) * P
    <3>1. (k + 1) * P = k * P + P
      BY <1>1, <1>4
    <3> QED BY <1>1, <1>2, <1>5, <3>1
  <2> HIDE DEF j
  <2> QED BY <1>1, <1>4, <1>5, <2>1, QuotientIs
<1>7. j % P = i
  <2>1. j = P * (j \div P) + (j % P) /\ j % P \in Nat
    <3> HIDE DEF j
    <3> QED BY <1>1, <1>5
  <2>2. P * k = k * P
    BY <1>1, <1>4
  <2> QED BY <1>2, <1>5, <1>6, <2>1, <2>2
<1>8. Up(e) = f
  <2> HIDE DEF j
  <2> QED BY <1>1, <1>4, <1>6 DEF Up, P
<1>9. Slot(tab, e) = b
  <2> HIDE DEF j
  <2> QED BY <1>2, <1>7, <1>8 DEF Slot, P
<1>10. e \in InTable(tab)
  <2> HIDE DEF j
  <2>1. l - 1 \in 1..Levels
    BY <1>1, <1>4
  <2> QED BY <1>5, <1>8, <2>1 DEF InTable
<1> QED BY <1>8, <1>9, <1>10

----------------------------------------------------------------------------
\* Counts

\* The number of used entries is zero when all are empty.
LEMMA UsedNat ==
  ASSUME NEW w, NEW a \in Nat
  PROVE  /\ IsFiniteSet({b \in a..(a + PageWords - 1) : w[b] # Empty})
         /\ UsedIn(w, a) \in Nat
         /\ UsedIn(w, a) = 0 <=> \A b \in a..(a + PageWords - 1) : w[b] = Empty
<1> DEFINE S == {b \in a..(a + PageWords - 1) : w[b] # Empty}
<1>1. PageWords \in Nat \ {0}
  BY Sizes
<1>2. IsFiniteSet(a..(a + PageWords - 1))
  BY <1>1, FS_Interval
<1>3. IsFiniteSet(S)
  BY <1>2, FS_Subset
<1>4. Cardinality(S) \in Nat /\ (Cardinality(S) = 0 <=> S = {})
  <2> HIDE DEF S
  <2> QED BY <1>3, FS_CardinalityType, FS_EmptySet
<1> QED BY <1>3, <1>4 DEF UsedIn

\* One word of a table changes.
LEMMA UsedChange ==
  ASSUME NEW w, NEW x, NEW a \in Nat, NEW s \in a..(a + PageWords - 1),
         \A b \in a..(a + PageWords - 1) : b # s => x[b] = w[b]
  PROVE  /\ w[s] = Empty /\ x[s] # Empty => UsedIn(x, a) = UsedIn(w, a) + 1
         /\ w[s] # Empty /\ x[s] = Empty => UsedIn(x, a) = UsedIn(w, a) - 1
         /\ (w[s] = Empty <=> x[s] = Empty) => UsedIn(x, a) = UsedIn(w, a)
<1> DEFINE A == a..(a + PageWords - 1)
           S == {b \in A : w[b] # Empty}
           T == {b \in A : x[b] # Empty}
<1>1. IsFiniteSet(S) /\ IsFiniteSet(T)
  BY UsedNat
<1>2. UsedIn(w, a) = Cardinality(S) /\ UsedIn(x, a) = Cardinality(T)
  BY DEF UsedIn
<1>3. ASSUME w[s] = Empty, x[s] # Empty PROVE Cardinality(T) = Cardinality(S) + 1
  <2>1. T = S \cup {s} /\ s \notin S
    BY <1>3
  <2> HIDE DEF S, T
  <2> QED BY <1>1, <2>1, FS_AddElement
<1>4. ASSUME w[s] # Empty, x[s] = Empty PROVE Cardinality(T) = Cardinality(S) - 1
  <2>1. T = S \ {s} /\ s \in S
    BY <1>4
  <2> HIDE DEF S, T
  <2> QED BY <1>1, <2>1, FS_RemoveElement
<1>5. ASSUME w[s] = Empty <=> x[s] = Empty PROVE T = S
  BY <1>5
<1> QED BY <1>2, <1>3, <1>4, <1>5

\* It depends on the words of the table only.
LEMMA UsedSame ==
  ASSUME NEW w, NEW x, NEW a, \A b \in a..(a + PageWords - 1) : x[b] = w[b]
  PROVE  UsedIn(x, a) = UsedIn(w, a)
BY DEF UsedIn

\* The words of the tables agree, except for the entry of e.
Agree(w, x, tab, e) ==
  \A f \in DOMAIN tab : \A b \in TableWords(tab, f) : b # Slot(tab, e) => x[b] = w[b]

\* Writing one slot changes the number of used entries of its table, by one at most, and of no other.
LEMMA EntryWritten ==
  ASSUME NEW tab, Layout(tab), NEW e \in InTable(tab), NEW w, NEW x, Agree(w, x, tab, e)
  PROVE  /\ \A g \in InTable(tab) : g # e => x[Slot(tab, g)] = w[Slot(tab, g)]
         /\ \A f \in DOMAIN tab : f # Up(e) => UsedIn(x, tab[f]) = UsedIn(w, tab[f])
         /\ LET s == Slot(tab, e)  a == tab[Up(e)]
            IN  /\ w[s] = Empty /\ x[s] # Empty => UsedIn(x, a) = UsedIn(w, a) + 1
                /\ w[s] # Empty /\ x[s] = Empty => UsedIn(x, a) = UsedIn(w, a) - 1
                /\ (w[s] = Empty <=> x[s] = Empty) => UsedIn(x, a) = UsedIn(w, a)
<1> DEFINE s == Slot(tab, e)
<1>1. s \in TableWords(tab, Up(e)) /\ Up(e) \in DOMAIN tab /\ tab[Up(e)] \in Nat
  BY Slots1
<1>2. \A g \in InTable(tab) : g # e => x[Slot(tab, g)] = w[Slot(tab, g)]
  <2> SUFFICES ASSUME NEW g \in InTable(tab), g # e PROVE x[Slot(tab, g)] = w[Slot(tab, g)]
    OBVIOUS
  <2>1. Slot(tab, g) \in TableWords(tab, Up(g)) /\ Up(g) \in DOMAIN tab
    BY Slots1
  <2>2. Slot(tab, g) # s
    BY SlotsApart
  <2> QED BY <2>1, <2>2 DEF Agree
<1>3. ASSUME NEW f \in DOMAIN tab, f # Up(e) PROVE UsedIn(x, tab[f]) = UsedIn(w, tab[f])
  <2>1. s \notin TableWords(tab, f)
    BY <1>1, <1>3 DEF Layout
  <2>2. \A b \in TableWords(tab, f) : x[b] = w[b]
    BY <2>1 DEF Agree
  <2> QED BY <2>2, UsedSame DEF TableWords
<1>4. \A b \in TableWords(tab, Up(e)) : b # s => x[b] = w[b]
  BY <1>1 DEF Agree
<1> DEFINE a == tab[Up(e)]
<1>5. /\ w[s] = Empty /\ x[s] # Empty => UsedIn(x, a) = UsedIn(w, a) + 1
      /\ w[s] # Empty /\ x[s] = Empty => UsedIn(x, a) = UsedIn(w, a) - 1
      /\ (w[s] = Empty <=> x[s] = Empty) => UsedIn(x, a) = UsedIn(w, a)
  <2>1. a \in Nat /\ s \in a..(a + PageWords - 1) /\ \A b \in a..(a + PageWords - 1) : b # s => x[b] = w[b]
    BY <1>1, <1>4 DEF TableWords
  <2> HIDE DEF a, s
  <2> QED BY <2>1, UsedChange
<1> QED BY <1>2, <1>3, <1>5
----------------------------------------------------------------------------
\* How a tree changes

\* A table or a page more, or less
Put(f, e, v) == [g \in DOMAIN f \cup {e} |-> IF g = e THEN v ELSE f[g]]
Drop(f, e) == [g \in DOMAIN f \ {e} |-> f[g]]

\* Entries of tables and pages are not empty, and can be told apart.
LEMMA EntryKinds ==
  /\ \A a, n : TableEntry(a, n) # Empty /\ IsTable(TableEntry(a, n)) /\ ~IsPage(TableEntry(a, n))
               /\ TableEntry(a, n)[2] = a /\ TableEntry(a, n)[3] = n
  /\ \A v : PageEntry(v) # Empty /\ IsPage(PageEntry(v)) /\ ~IsTable(PageEntry(v)) /\ PageEntry(v)[2] = v
  /\ ~IsTable(Empty) /\ ~IsPage(Empty)
BY DEF TableEntry, PageEntry, IsTable, IsPage, Empty

\* The tables of a tree have addresses and counts.
LEMMA TreeUsed ==
  ASSUME NEW w, NEW tab, NEW val, NEW x, NEW n, Tree(w, tab, val, x, n), NEW e \in DOMAIN tab
  PROVE  UsedIn(w, tab[e]) \in Nat /\ tab[e] \in Nat
<1>1. tab[e] \in Nat
  BY DEF Tree, Layout
<1> QED BY <1>1, UsedNat

\* No more than the words of the tables matter.
LEMMA TreeKept ==
  ASSUME NEW w, NEW tab, NEW val, NEW x, NEW n, Tree(w, tab, val, x, n),
         NEW u \in [Words -> Entries],
         \A f \in DOMAIN tab : \A b \in TableWords(tab, f) : u[b] = w[b]
  PROVE  Tree(u, tab, val, x, n)
<1>1. Layout(tab)
  BY DEF Tree
<1>2. ASSUME NEW e \in DOMAIN tab PROVE UsedIn(u, tab[e]) = UsedIn(w, tab[e])
  BY UsedSame DEF TableWords
<1>3. ASSUME NEW e \in InTable(tab) PROVE u[Slot(tab, e)] = Entry(u, tab, val, x, n, e)
  <2>1. Slot(tab, e) \in TableWords(tab, Up(e)) /\ Up(e) \in DOMAIN tab
    BY <1>1, Slots1
  <2>2. u[Slot(tab, e)] = w[Slot(tab, e)] /\ w[Slot(tab, e)] = Entry(w, tab, val, x, n, e)
    BY <2>1 DEF Tree
  <2> QED BY <1>2, <2>2 DEF Entry
<1> QED BY <1>3 DEF Tree

\* The root table is not counted.
LEMMA TreeRoot ==
  ASSUME NEW w, NEW tab, NEW val, NEW n
  PROVE  /\ \A m : Tree(w, tab, val, RootId, n) <=> Tree(w, tab, val, RootId, m)
         /\ \A x : Tree(w, tab, val, RootId, n) => Tree(w, tab, val, x, 0)
         /\ \A x : Tree(w, tab, val, x, 0) => Tree(w, tab, val, RootId, n)
<1>1. Layout(tab) => RootId \notin InTable(tab)
  BY Slots1
<1>2. ASSUME NEW x, NEW y, NEW m, NEW k, NEW e \in InTable(tab), Layout(tab),
             x # e \/ m = 0, y # e \/ k = 0
      PROVE  Entry(w, tab, val, x, m, e) = Entry(w, tab, val, y, k, e)
  BY <1>2 DEF Entry
<1>3. ASSUME NEW x, NEW y, NEW m, NEW k, Tree(w, tab, val, x, m), x = RootId \/ m = 0, y = RootId \/ k = 0
      PROVE  Tree(w, tab, val, y, k)
  BY <1>1, <1>2, <1>3 DEF Tree
<1> QED BY <1>3

\* A page is put into an entry: one more than its table counts.
LEMMA PageAdded ==
  ASSUME NEW w, NEW tab, NEW val, Tree(w, tab, val, RootId, 0),
         NEW e \in InTable(tab), e[1] < Levels, e \notin DOMAIN tab, e \notin DOMAIN val,
         NEW v, NEW u \in [Words -> Entries], u[Slot(tab, e)] = PageEntry(v), Agree(w, u, tab, e)
  PROVE  Tree(u, tab, Put(val, e, v), Up(e), -1)
<1> DEFINE z == Put(val, e, v)
<1>1. Layout(tab) /\ RootId \notin InTable(tab)
  BY Slots1 DEF Tree
<1>2. DOMAIN z = DOMAIN val \cup {e} /\ z[e] = v /\ \A g \in DOMAIN val : g # e => z[g] = val[g]
  BY DEF Put
<1> HIDE DEF z
<1>3. w[Slot(tab, e)] = Empty /\ u[Slot(tab, e)] # Empty
  BY EntryKinds DEF Tree, Entry
<1>4. /\ \A g \in InTable(tab) : g # e => u[Slot(tab, g)] = w[Slot(tab, g)]
      /\ \A f \in DOMAIN tab : f # Up(e) => UsedIn(u, tab[f]) = UsedIn(w, tab[f])
      /\ UsedIn(u, tab[Up(e)]) = UsedIn(w, tab[Up(e)]) + 1
  BY <1>1, <1>3, EntryWritten
<1>5. \A f \in DOMAIN tab : UsedIn(w, tab[f]) \in Nat
  BY TreeUsed
<1>6. ASSUME NEW g \in InTable(tab) PROVE u[Slot(tab, g)] = Entry(u, tab, z, Up(e), -1, g)
  <2>1. w[Slot(tab, g)] = Entry(w, tab, val, RootId, 0, g)
    BY DEF Tree
  <2>2. CASE g = e
    BY <1>2, <2>2 DEF Entry
  <2>3. CASE g # e /\ g \in DOMAIN tab
    <3>1. UsedIn(w, tab[g]) + 0 = UsedIn(u, tab[g]) + (IF g = Up(e) THEN -1 ELSE 0)
      BY <1>4, <1>5, <2>3
    <3> QED BY <1>1, <1>4, <2>1, <2>3, <3>1 DEF Entry
  <2>4. CASE g # e /\ g \notin DOMAIN tab
    BY <1>2, <1>4, <2>1, <2>4 DEF Entry
  <2> QED BY <2>2, <2>3, <2>4
<1>7. \A g \in DOMAIN z : g \in InTable(tab) /\ g[1] < Levels /\ g \notin DOMAIN tab
  BY <1>2 DEF Tree
<1> QED BY <1>1, <1>6, <1>7 DEF Tree, z

\* A page is taken out: one less.
LEMMA PageGone ==
  ASSUME NEW w, NEW tab, NEW val, Tree(w, tab, val, RootId, 0), NEW e \in DOMAIN val,
         NEW u \in [Words -> Entries], u[Slot(tab, e)] = Empty, Agree(w, u, tab, e)
  PROVE  Tree(u, tab, Drop(val, e), Up(e), 1)
<1> DEFINE z == Drop(val, e)
<1>1. Layout(tab) /\ RootId \notin InTable(tab) /\ e \in InTable(tab) /\ e \notin DOMAIN tab
  BY Slots1 DEF Tree
<1>2. DOMAIN z = DOMAIN val \ {e} /\ \A g \in DOMAIN val : g # e => z[g] = val[g]
  BY DEF Drop
<1> HIDE DEF z
<1>3. w[Slot(tab, e)] # Empty
  BY <1>1, EntryKinds DEF Tree, Entry
<1>4. /\ \A g \in InTable(tab) : g # e => u[Slot(tab, g)] = w[Slot(tab, g)]
      /\ \A f \in DOMAIN tab : f # Up(e) => UsedIn(u, tab[f]) = UsedIn(w, tab[f])
      /\ UsedIn(u, tab[Up(e)]) = UsedIn(w, tab[Up(e)]) - 1
  BY <1>1, <1>3, EntryWritten
<1>5. \A f \in DOMAIN tab : UsedIn(w, tab[f]) \in Nat
  BY TreeUsed
<1>6. ASSUME NEW g \in InTable(tab) PROVE u[Slot(tab, g)] = Entry(u, tab, z, Up(e), 1, g)
  <2>1. w[Slot(tab, g)] = Entry(w, tab, val, RootId, 0, g)
    BY DEF Tree
  <2>2. CASE g = e
    BY <1>1, <1>2, <2>2 DEF Entry
  <2>3. CASE g # e /\ g \in DOMAIN tab
    <3>1. UsedIn(w, tab[g]) + 0 = UsedIn(u, tab[g]) + (IF g = Up(e) THEN 1 ELSE 0)
      BY <1>4, <1>5, <2>3
    <3> QED BY <1>1, <1>4, <2>1, <2>3, <3>1 DEF Entry
  <2>4. CASE g # e /\ g \notin DOMAIN tab
    BY <1>2, <1>4, <2>1, <2>4 DEF Entry
  <2> QED BY <2>2, <2>3, <2>4
<1>7. \A g \in DOMAIN z : g \in InTable(tab) /\ g[1] < Levels /\ g \notin DOMAIN tab
  BY <1>2 DEF Tree
<1> QED BY <1>1, <1>6, <1>7 DEF Tree, z

\* The value of a page
LEMMA PageChanged ==
  ASSUME NEW w, NEW tab, NEW val, Tree(w, tab, val, RootId, 0), NEW e \in DOMAIN val,
         NEW v, NEW u \in [Words -> Entries], u[Slot(tab, e)] = PageEntry(v), Agree(w, u, tab, e)
  PROVE  Tree(u, tab, Put(val, e, v), RootId, 0)
<1> DEFINE z == Put(val, e, v)
<1>1. Layout(tab) /\ RootId \notin InTable(tab) /\ e \in InTable(tab) /\ e \notin DOMAIN tab
  BY Slots1 DEF Tree
<1>2. DOMAIN z = DOMAIN val /\ z[e] = v /\ \A g \in DOMAIN val : g # e => z[g] = val[g]
  BY DEF Put
<1> HIDE DEF z
<1>3. w[Slot(tab, e)] # Empty /\ u[Slot(tab, e)] # Empty
  BY <1>1, EntryKinds DEF Tree, Entry
<1>4. /\ \A g \in InTable(tab) : g # e => u[Slot(tab, g)] = w[Slot(tab, g)]
      /\ \A f \in DOMAIN tab : UsedIn(u, tab[f]) = UsedIn(w, tab[f])
  BY <1>1, <1>3, EntryWritten
<1>6. ASSUME NEW g \in InTable(tab) PROVE u[Slot(tab, g)] = Entry(u, tab, z, RootId, 0, g)
  <2>1. w[Slot(tab, g)] = Entry(w, tab, val, RootId, 0, g)
    BY DEF Tree
  <2>2. CASE g = e
    BY <1>1, <1>2, <2>2 DEF Entry
  <2>3. CASE g # e
    BY <1>2, <1>4, <2>1, <2>3 DEF Entry
  <2> QED BY <2>2, <2>3
<1>7. \A g \in DOMAIN z : g \in InTable(tab) /\ g[1] < Levels /\ g \notin DOMAIN tab
  BY <1>2 DEF Tree
<1> QED BY <1>1, <1>6, <1>7 DEF Tree, z

\* What a table counts too many is counted out.
LEMMA CountFixed ==
  ASSUME NEW w, NEW tab, NEW val, NEW x \in DOMAIN tab, x # RootId, NEW n \in Int, Tree(w, tab, val, x, n),
         NEW u \in [Words -> Entries], u[Slot(tab, x)] = TableEntry(tab[x], w[Slot(tab, x)][3] - n),
         Agree(w, u, tab, x)
  PROVE  Tree(u, tab, val, RootId, 0)
<1>1. Layout(tab) /\ RootId \notin InTable(tab)
  BY Slots1 DEF Tree
<1>2. x \in InTable(tab)
  BY <1>1, Spans DEF Layout, InTable
<1>3. /\ w[Slot(tab, x)] # Empty /\ u[Slot(tab, x)] # Empty
      /\ w[Slot(tab, x)][3] = UsedIn(w, tab[x]) + n
  BY <1>2, EntryKinds DEF Tree, Entry
<1>4. /\ \A g \in InTable(tab) : g # x => u[Slot(tab, g)] = w[Slot(tab, g)]
      /\ \A f \in DOMAIN tab : UsedIn(u, tab[f]) = UsedIn(w, tab[f])
  BY <1>1, <1>2, <1>3, EntryWritten
<1>5. UsedIn(w, tab[x]) \in Nat
  BY TreeUsed
<1>6. ASSUME NEW g \in InTable(tab) PROVE u[Slot(tab, g)] = Entry(u, tab, val, RootId, 0, g)
  <2>1. w[Slot(tab, g)] = Entry(w, tab, val, x, n, g)
    BY DEF Tree
  <2>2. CASE g = x
    <3>1. (UsedIn(w, tab[x]) + n) - n = UsedIn(w, tab[x]) + 0
      BY <1>5
    <3> QED BY <1>1, <1>2, <1>3, <1>4, <2>2, <3>1 DEF Entry
  <2>3. CASE g # x
    BY <1>1, <1>4, <2>1, <2>3 DEF Entry
  <2> QED BY <2>2, <2>3
<1> QED BY <1>1, <1>6 DEF Tree

\* A table is put into an entry: one more than its own table counts. It is
\* empty, and its words were those of no table.
LEMMA TableAdded ==
  ASSUME NEW w, NEW tab, NEW val, Tree(w, tab, val, RootId, 0),
         NEW e \in InTable(tab), e[1] >= 2, e \notin DOMAIN tab, e \notin DOMAIN val,
         NEW a \in Nat, a..(a + PageWords - 1) \subseteq Words,
         \A f \in DOMAIN tab : TableWords(tab, f) \cap (a..(a + PageWords - 1)) = {},
         NEW u \in [Words -> Entries], u[Slot(tab, e)] = TableEntry(a, 0), Agree(w, u, tab, e),
         \A b \in a..(a + PageWords - 1) : u[b] = Empty
  PROVE  Tree(u, Put(tab, e, a), val, Up(e), -1)
<1> DEFINE z == Put(tab, e, a)
           A == a..(a + PageWords - 1)
<1>1. /\ Layout(tab) /\ RootId \notin InTable(tab) /\ Up(e) \in DOMAIN tab
      /\ e \in (2..Levels) \X Nat /\ e # RootId /\ e # Up(e)
  <2>1. /\ Layout(tab) /\ RootId \notin InTable(tab) /\ Up(e) \in DOMAIN tab
        /\ e[1] \in Nat /\ e[2] \in Nat /\ e = <<e[1], e[2]>> /\ e # RootId /\ e[1] <= Levels
    BY Slots1 DEF Tree
  <2>2. e \in (2..Levels) \X Nat
    BY <2>1, Spans
  <2>3. Up(e)[1] = e[1] + 1
    BY DEF Up
  <2> QED BY <2>1, <2>2, <2>3
<1>2. DOMAIN z = DOMAIN tab \cup {e} /\ z[e] = a /\ \A g \in DOMAIN tab : g # e /\ z[g] = tab[g]
  BY DEF Put
<1> HIDE DEF z
<1>3. PageWords \in Nat \ {0}
  BY Sizes
<1>4. TableWords(z, e) = A /\ \A f \in DOMAIN tab : TableWords(z, f) = TableWords(tab, f)
  BY <1>2 DEF TableWords
<1>5. Layout(z)
  <2>1. RootId \in DOMAIN z /\ z[RootId] = Root
    BY <1>1, <1>2 DEF Layout
  <2>2. \A g \in DOMAIN z : g = RootId \/ (g \in (2..Levels) \X Nat /\ Up(g) \in DOMAIN z)
    BY <1>1, <1>2 DEF Layout
  <2>3. \A g \in DOMAIN z : z[g] \in Nat /\ TableWords(z, g) \subseteq Words
    BY <1>1, <1>2, <1>4 DEF Layout
  <2>4. ASSUME NEW g \in DOMAIN z, NEW f \in DOMAIN z, TableWords(z, g) \cap TableWords(z, f) # {}
        PROVE  g = f
    <3>1. CASE g \in DOMAIN tab /\ f \in DOMAIN tab
      BY <1>1, <1>4, <2>4, <3>1 DEF Layout
    <3>2. CASE g = e /\ f = e
      BY <3>2
    <3>3. CASE g \in DOMAIN tab /\ f = e
      <4>1. TableWords(tab, g) \cap A # {}
        BY <1>4, <2>4, <3>3
      <4> QED BY <3>3, <4>1
    <3>4. CASE g = e /\ f \in DOMAIN tab
      <4>1. TableWords(tab, f) \cap A # {}
        BY <1>4, <2>4, <3>4
      <4> QED BY <3>4, <4>1
    <3> QED BY <1>2, <3>1, <3>2, <3>3, <3>4
  <2> QED BY <2>1, <2>2, <2>3, <2>4 DEF Layout
<1>6. w[Slot(tab, e)] = Empty /\ u[Slot(tab, e)] # Empty
  BY EntryKinds DEF Tree, Entry
<1>7. /\ \A g \in InTable(tab) : g # e => u[Slot(tab, g)] = w[Slot(tab, g)]
      /\ \A f \in DOMAIN tab : f # Up(e) => UsedIn(u, tab[f]) = UsedIn(w, tab[f])
      /\ UsedIn(u, tab[Up(e)]) = UsedIn(w, tab[Up(e)]) + 1
  BY <1>1, <1>6, EntryWritten
<1>8. \A f \in DOMAIN tab : UsedIn(w, tab[f]) \in Nat
  BY TreeUsed
<1>9. UsedIn(u, a) = 0
  BY UsedNat
<1>10. \A g \in InTable(tab) : Slot(z, g) = Slot(tab, g)
  BY <1>2 DEF Slot, InTable
<1>11. ASSUME NEW g \in InTable(z) PROVE u[Slot(z, g)] = Entry(u, z, val, Up(e), -1, g)
  <2>1. CASE g \in InTable(tab)
    <3>1. w[Slot(tab, g)] = Entry(w, tab, val, RootId, 0, g) /\ Slot(z, g) = Slot(tab, g)
      BY <1>10, <2>1 DEF Tree
    <3>2. CASE g = e
      BY <1>1, <1>2, <1>9, <3>1, <3>2 DEF Entry
    <3>3. CASE g # e /\ g \in DOMAIN tab
      <4>1. UsedIn(w, tab[g]) + 0 = UsedIn(u, tab[g]) + (IF g = Up(e) THEN -1 ELSE 0)
        BY <1>7, <1>8, <3>3
      <4> QED BY <1>1, <1>2, <1>7, <2>1, <3>1, <3>3, <4>1 DEF Entry
    <3>4. CASE g # e /\ g \notin DOMAIN tab
      BY <1>2, <1>7, <2>1, <3>1, <3>4 DEF Entry
    <3> QED BY <3>2, <3>3, <3>4
  <2>2. CASE g \notin InTable(tab)
    <3>1. Up(g) = e
      BY <1>2, <2>2 DEF InTable
    <3>2. Slot(z, g) \in TableWords(z, Up(g)) /\ g[1] \in Nat
      BY <1>5, Slots1
    <3>3. u[Slot(z, g)] = Empty
      BY <1>4, <3>1, <3>2
    <3>4. g # e
      <4>1. Up(g)[1] = g[1] + 1
        BY DEF Up
      <4> QED BY <3>1, <3>2, <4>1
    <3>5. g \notin DOMAIN z
      <4>1. g # RootId
        BY <1>5, Slots1
      <4>2. g \notin DOMAIN tab
        BY <1>1, <2>2, <3>1, <4>1 DEF Layout
      <4> QED BY <1>2, <3>4, <4>2
    <3>6. g \notin DOMAIN val
      BY <2>2 DEF Tree
    <3> QED BY <3>3, <3>5, <3>6 DEF Entry
  <2> QED BY <2>1, <2>2
<1>12. \A g \in DOMAIN val : g \in InTable(z) /\ g[1] < Levels /\ g \notin DOMAIN z
  BY <1>2 DEF Tree, InTable
<1> QED BY <1>5, <1>11, <1>12 DEF Tree, z

\* A table with no entries is taken out: one less.
LEMMA TableGone ==
  ASSUME NEW w, NEW tab, NEW val, NEW e \in DOMAIN tab, e # RootId, Tree(w, tab, val, e, 1),
         UsedIn(w, tab[e]) = 0,
         NEW u \in [Words -> Entries], u[Slot(tab, e)] = Empty,
         \A f \in DOMAIN tab : f # e => \A b \in TableWords(tab, f) : b # Slot(tab, e) => u[b] = w[b]
  PROVE  Tree(u, Drop(tab, e), val, Up(e), 1)
<1> DEFINE z == Drop(tab, e)
<1>1. Layout(tab) /\ RootId \notin InTable(tab) /\ e \in InTable(tab) /\ e # Up(e) /\ Up(e) \in DOMAIN tab
  <2>1. Layout(tab) /\ RootId \notin InTable(tab)
    BY Slots1 DEF Tree
  <2>2. e \in InTable(tab)
    BY <2>1, Spans DEF Layout, InTable
  <2>3. e[1] \in Nat /\ Up(e)[1] = e[1] + 1 /\ Up(e) \in DOMAIN tab
    BY <2>1, <2>2, Slots1 DEF Up
  <2> QED BY <2>1, <2>2, <2>3
<1>2. DOMAIN z = DOMAIN tab \ {e} /\ \A g \in DOMAIN tab : g # e => z[g] = tab[g]
  BY DEF Drop
<1> HIDE DEF z
<1>3. \A g \in InTable(tab) : Up(g) = e => g \notin DOMAIN tab /\ g \notin DOMAIN val /\ g # e
  <2> SUFFICES ASSUME NEW g \in InTable(tab), Up(g) = e
               PROVE  g \notin DOMAIN tab /\ g \notin DOMAIN val
    BY <1>1
  <2>1. Slot(tab, g) \in TableWords(tab, e)
    BY <1>1, Slots1
  <2>2. w[Slot(tab, g)] = Empty
    <3>1. tab[e] \in Nat
      BY <1>1 DEF Layout
    <3> QED BY <2>1, <3>1, UsedNat DEF TableWords
  <2> QED BY <2>2, EntryKinds DEF Tree, Entry
<1>4. \A g \in DOMAIN z : TableWords(z, g) = TableWords(tab, g)
  BY <1>2 DEF TableWords
<1>5. Layout(z)
  <2>1. RootId \in DOMAIN z /\ z[RootId] = Root
    BY <1>1, <1>2 DEF Layout
  <2>2. ASSUME NEW g \in DOMAIN z PROVE g = RootId \/ (g \in (2..Levels) \X Nat /\ Up(g) \in DOMAIN z)
    <3>1. g \in DOMAIN tab
      BY <1>2
    <3>2. CASE g # RootId
      <4>1. g \in (2..Levels) \X Nat /\ Up(g) \in DOMAIN tab
        BY <1>1, <3>1, <3>2 DEF Layout
      <4>2. g \in InTable(tab)
        BY <4>1, Spans DEF InTable
      <4>3. Up(g) # e
        BY <1>3, <3>1, <4>2
      <4> QED BY <1>2, <4>1, <4>3
    <3> QED BY <3>2
  <2>3. \A g \in DOMAIN z : z[g] \in Nat /\ TableWords(z, g) \subseteq Words
    BY <1>1, <1>2, <1>4 DEF Layout
  <2>4. \A g, f \in DOMAIN z : TableWords(z, g) \cap TableWords(z, f) # {} => g = f
    BY <1>1, <1>2, <1>4 DEF Layout
  <2> QED BY <2>1, <2>2, <2>3, <2>4 DEF Layout
<1>6. \A g \in InTable(z) : g \in InTable(tab) /\ Up(g) # e /\ Up(g) \in DOMAIN z /\ Slot(z, g) = Slot(tab, g)
  BY <1>2 DEF Slot, InTable
<1>7. Slot(z, e) = Slot(tab, e) /\ e \in InTable(z)
  BY <1>1, <1>2 DEF Slot, InTable
<1>8. Agree(w, u, z, e)
  BY <1>2, <1>4, <1>7 DEF Agree
<1>9. w[Slot(tab, e)] # Empty
  BY <1>1, EntryKinds DEF Tree, Entry
<1>10. /\ \A g \in InTable(z) : g # e => u[Slot(z, g)] = w[Slot(z, g)]
       /\ \A f \in DOMAIN z : f # Up(e) => UsedIn(u, z[f]) = UsedIn(w, z[f])
       /\ UsedIn(u, z[Up(e)]) = UsedIn(w, z[Up(e)]) - 1
  BY <1>5, <1>7, <1>8, <1>9, EntryWritten
<1>11. \A f \in DOMAIN z : UsedIn(w, z[f]) \in Nat
  BY <1>2, TreeUsed
<1>12. ASSUME NEW g \in InTable(z) PROVE u[Slot(z, g)] = Entry(u, z, val, Up(e), 1, g)
  <2>1. w[Slot(z, g)] = Entry(w, tab, val, e, 1, g)
    BY <1>6 DEF Tree
  <2>2. CASE g = e
    <3>1. e \notin DOMAIN val
      BY DEF Tree
    <3> QED BY <1>2, <1>7, <2>2, <3>1 DEF Entry
  <2>3. CASE g # e /\ g \in DOMAIN z
    <3>1. UsedIn(w, z[g]) + 0 = UsedIn(u, z[g]) + (IF g = Up(e) THEN 1 ELSE 0)
      BY <1>10, <1>11, <2>3
    <3>2. g \in DOMAIN tab /\ z[g] = tab[g]
      BY <1>2, <2>3
    <3> QED BY <1>10, <2>1, <2>3, <3>1, <3>2 DEF Entry
  <2>4. CASE g # e /\ g \notin DOMAIN z
    BY <1>2, <1>10, <2>1, <2>4 DEF Entry
  <2> QED BY <2>2, <2>3, <2>4
<1>13. \A g \in DOMAIN val : g \in InTable(z) /\ g[1] < Levels /\ g \notin DOMAIN z
  <2> SUFFICES ASSUME NEW g \in DOMAIN val PROVE g \in InTable(z) /\ g[1] < Levels /\ g \notin DOMAIN z
    OBVIOUS
  <2>1. g \in InTable(tab) /\ g[1] < Levels /\ g \notin DOMAIN tab
    BY DEF Tree
  <2>2. Up(g) # e
    BY <1>3, <2>1
  <2> QED BY <1>2, <2>1, <2>2 DEF InTable
<1> QED BY <1>5, <1>12, <1>13 DEF Tree, z
----------------------------------------------------------------------------
\* The way to a page

\* Walk meets its recursive equation: its value at l depends on that at l + 1 only.
LEMMA WalkUnfold ==
  ASSUME NEW m, NEW p
  PROVE  LET slot == Walk(m, p)
         IN  slot = [l \in 1..Levels |->
               IF l = Levels THEN Root + GetIndex(p, l)
               ELSE LET s == slot[l + 1] IN IF IsTable(m.mem[s]) THEN m.mem[s][2] + GetIndex(p, l) ELSE s]
<1> DEFINE Step(f, l) ==
             IF l = Levels THEN Root + GetIndex(p, l)
             ELSE LET s == f[l + 1] IN IF IsTable(m.mem[s]) THEN m.mem[s][2] + GetIndex(p, l) ELSE s
           k == Levels
           T == {j \in 0..(k - 1) : ~\E f : f = [i \in (k - j)..k |-> Step(f, i)]}
<1>0. k \in Nat /\ k >= 2
  BY Spans
<1>1. ASSUME T # {} PROVE FALSE
  <2>1. PICK j \in T : \A l \in T : j <= l
    <3>1. T \in SUBSET Nat
      BY <1>0
    <3> QED BY <1>1, <3>1, NatMin
  <2>2. CASE j = 0
    <3> DEFINE g == [i \in (k - j)..k |-> Root + GetIndex(p, k)]
    <3>1. g = [i \in (k - j)..k |-> Step(g, i)]
      BY <1>0, <2>2
    <3> QED BY <2>1, <3>1
  <2>3. CASE j # 0
    <3>0. j \in 1..(k - 1) /\ j - 1 \in 0..(k - 1)
      BY <1>0, <2>1, <2>3
    <3>1. j - 1 \notin T
      <4> HIDE DEF T
      <4> QED BY <2>1, <3>0
    <3>2. PICK f : f = [i \in (k - (j - 1))..k |-> Step(f, i)]
      BY <3>0, <3>1
    <3> DEFINE g == [i \in (k - j)..k |-> IF i = k - j THEN Step(f, i) ELSE f[i]]
    <3> HIDE DEF Step, T
    <3>3. \A i \in (k - j)..k : i # k - j => i \in (k - (j - 1))..k /\ f[i] = Step(f, i)
      <4> SUFFICES ASSUME NEW i \in (k - j)..k, i # k - j
                   PROVE  i \in (k - (j - 1))..k /\ f[i] = Step(f, i)
        OBVIOUS
      <4>1. i \in (k - (j - 1))..k
        BY <1>0, <3>0
      <4> QED BY <3>2, <4>1
    <3>4. \A i \in (k - j)..k : Step(g, i) = Step(f, i)
      <4> SUFFICES ASSUME NEW i \in (k - j)..k PROVE Step(g, i) = Step(f, i)
        OBVIOUS
      <4>1. CASE i = k
        BY <4>1 DEF Step
      <4>2. CASE i # k
        <5>1. i + 1 \in (k - j)..k /\ i + 1 # k - j
          BY <1>0, <3>0, <4>2
        <5>2. g[i + 1] = f[i + 1]
          BY <5>1
        <5> HIDE DEF g
        <5> QED BY <5>2 DEF Step
      <4> QED BY <4>1, <4>2
    <3>5. g = [i \in (k - j)..k |-> Step(g, i)]
      <4>1. \A i \in (k - j)..k : g[i] = Step(g, i)
        BY <3>3, <3>4
      <4> QED BY <4>1
    <3>6. \E u : u = [i \in (k - j)..k |-> Step(u, i)]
      <4> HIDE DEF g
      <4> QED BY <3>5
    <3> QED BY <2>1, <3>6 DEF Step, T
  <2> QED BY <2>2, <2>3
<1>2. k - 1 \in 0..(k - 1) /\ k - (k - 1) = 1
  BY <1>0
<1>3. \E f : f = [i \in (k - (k - 1))..k |-> Step(f, i)]
  <2> HIDE DEF Step
  <2> QED BY <1>1, <1>2
<1> DEFINE slot == CHOOSE f : f = [i \in 1..k |-> Step(f, i)]
<1>4. slot = [i \in 1..k |-> Step(slot, i)]
  <2> HIDE DEF Step
  <2> QED BY <1>2, <1>3
<1>5. Walk(m, p) = slot
  BY DEF Walk
<1> HIDE DEF slot
<1> QED BY <1>4, <1>5

\* Above a table there are tables.
LEMMA TablesAbove ==
  ASSUME NEW tab, Layout(tab), NEW p \in Mapped, NEW l \in 1..(Levels + 1), Id(p, l) \in DOMAIN tab,
         NEW j \in l..(Levels + 1)
  PROVE  Id(p, j) \in DOMAIN tab
<1> DEFINE T == {i \in l..(Levels + 1) : Id(p, i) \notin DOMAIN tab}
<1>0. Levels \in Nat /\ p \in Nat
  BY Spans, IdTop
<1>1. ASSUME T # {} PROVE FALSE
  <2>1. PICK i \in T : \A k \in T : i <= k
    <3>1. T \in SUBSET Nat
      BY <1>0
    <3> QED BY <1>1, <3>1, NatMin
  <2>2. i \in l..(Levels + 1) /\ Id(p, i) \notin DOMAIN tab /\ i # l
    BY <2>1
  <2>3. i - 1 \in l..(Levels + 1) /\ i - 1 \in Nat \ {0} /\ (i - 1) + 1 = i /\ ~(i <= i - 1) /\ i - 1 <= Levels
    BY <1>0, <2>2
  <2>4. Id(p, i - 1) \in DOMAIN tab
    BY <2>1, <2>3
  <2>5. Id(p, (i - 1) + 1) = Up(Id(p, i - 1)) /\ Id(p, i - 1)[1] = i - 1
    BY <1>0, <2>3, IdUp
  <2>6. Id(p, i - 1) # RootId
    <3>1. RootId[1] = Levels + 1
      BY DEF RootId
    <3> QED BY <1>0, <2>3, <2>5, <3>1
  <2>7. Up(Id(p, i - 1)) \in DOMAIN tab
    BY <2>4, <2>6 DEF Layout
  <2> QED BY <2>2, <2>3, <2>5, <2>7
<1> QED BY <1>1

\* A page has an entry wherever there is a table for it.
LEMMA IdInTable ==
  ASSUME NEW tab, NEW p \in Mapped, NEW l \in 1..Levels, Id(p, l + 1) \in DOMAIN tab
  PROVE  /\ Id(p, l) \in InTable(tab) /\ Up(Id(p, l)) = Id(p, l + 1) /\ Id(p, l)[1] = l
         /\ Slot(tab, Id(p, l)) = tab[Id(p, l + 1)] + GetIndex(p, l)
<1>1. p \in Nat /\ l \in Nat \ {0} /\ Levels \in Nat
  BY Spans, IdTop
<1>2. /\ Id(p, l + 1) = Up(Id(p, l)) /\ Id(p, l) = <<l, Id(p, l)[2]>> /\ Id(p, l)[1] = l
      /\ Id(p, l)[2] \in Nat /\ GetIndex(p, l) = Id(p, l)[2] % PageWords
  BY <1>1, IdUp
<1>3. Id(p, l) \in (1..Levels) \X Nat
  BY <1>2
<1> QED BY <1>2, <1>3 DEF InTable, Slot

\* The walk ends at the entry where the tables end, or its level is reached.
LEMMA WalkEnds ==
  ASSUME NEW m, NEW tab, NEW val, NEW x, NEW n, Tree(m.mem, tab, val, x, n),
         NEW p \in Mapped, NEW l \in 1..Levels
  PROVE  \E j \in l..Levels : /\ Walk(m, p)[l] = Slot(tab, Id(p, j))
                              /\ Id(p, j + 1) \in DOMAIN tab
                              /\ j = l \/ Id(p, j) \notin DOMAIN tab
<1> DEFINE slot == Walk(m, p)
           Good(i) == \E j \in i..Levels : /\ slot[i] = Slot(tab, Id(p, j))
                                           /\ Id(p, j + 1) \in DOMAIN tab
                                           /\ j = i \/ Id(p, j) \notin DOMAIN tab
           T == {d \in 0..(Levels - 1) : ~Good(Levels - d)}
<1>0. Levels \in Nat /\ Levels >= 2 /\ p \in Nat /\ Id(p, Levels + 1) = RootId /\ Layout(tab)
  BY Spans, IdTop DEF Tree
<1>1. slot = [i \in 1..Levels |->
               IF i = Levels THEN Root + GetIndex(p, i)
               ELSE LET s == slot[i + 1] IN IF IsTable(m.mem[s]) THEN m.mem[s][2] + GetIndex(p, i) ELSE s]
  BY WalkUnfold
<1> HIDE DEF slot
<1>2. ASSUME T # {} PROVE FALSE
  <2>1. PICK d \in T : \A k \in T : d <= k
    <3>1. T \in SUBSET Nat
      BY <1>0
    <3> QED BY <1>2, <3>1, NatMin
  <2>2. CASE d = 0
    <3>0. Levels \in 1..Levels /\ Levels \in Levels..Levels /\ Levels - d = Levels
      BY <1>0, <2>2
    <3>1. slot[Levels] = Root + GetIndex(p, Levels)
      BY <1>1, <3>0
    <3>2. Id(p, Levels + 1) \in DOMAIN tab /\ tab[Id(p, Levels + 1)] = Root
      BY <1>0 DEF Layout
    <3>3. slot[Levels] = Slot(tab, Id(p, Levels))
      BY <3>0, <3>1, <3>2, IdInTable
    <3>4. Good(Levels)
      BY <3>0, <3>2, <3>3
    <3> QED BY <2>1, <3>0, <3>4
  <2>3. CASE d # 0
    <3>0. d \in 1..(Levels - 1) /\ d - 1 \in 0..(Levels - 1) /\ ~(d <= d - 1)
      BY <1>0, <2>1, <2>3
    <3> DEFINE i == Levels - d
    <3>1. i \in 1..(Levels - 1) /\ i \in 1..Levels /\ i + 1 \in 1..Levels /\ i # Levels /\ Levels - (d - 1) = i + 1
      BY <1>0, <3>0
    <3>2. Good(i + 1)
      <4>1. d - 1 \notin T
        <5> HIDE DEF T
        <5> QED BY <2>1, <3>0
      <4>2. Good(Levels - (d - 1))
        <5> HIDE DEF Good
        <5> QED BY <3>0, <4>1
      <4> QED BY <3>1, <4>2
    <3> HIDE DEF i
    <3>3. PICK j \in (i + 1)..Levels : /\ slot[i + 1] = Slot(tab, Id(p, j))
                                       /\ Id(p, j + 1) \in DOMAIN tab
                                       /\ j = i + 1 \/ Id(p, j) \notin DOMAIN tab
      BY <3>2
    <3>4. j \in 1..Levels /\ j \in i..Levels /\ i \in i..Levels
      BY <1>0, <3>1
    <3>5. Id(p, j) \in InTable(tab)
      BY <3>3, <3>4, IdInTable
    <3>6. m.mem[slot[i + 1]] = Entry(m.mem, tab, val, x, n, Id(p, j))
      BY <3>3, <3>5 DEF Tree
    <3>7. slot[i] = IF IsTable(m.mem[slot[i + 1]]) THEN m.mem[slot[i + 1]][2] + GetIndex(p, i) ELSE slot[i + 1]
      BY <1>1, <3>1
    <3>8. CASE Id(p, j) \in DOMAIN tab
      <4>1. j = i + 1 /\ Id(p, i + 1) \in DOMAIN tab
        BY <3>3, <3>8
      <4>2. slot[i] = tab[Id(p, i + 1)] + GetIndex(p, i)
        BY <3>6, <3>7, <3>8, <4>1, EntryKinds DEF Entry
      <4>3. slot[i] = Slot(tab, Id(p, i))
        BY <3>1, <4>1, <4>2, IdInTable
      <4>4. Good(i)
        BY <3>4, <4>1, <4>3
      <4> QED BY <2>1, <4>4 DEF i
    <3>9. CASE Id(p, j) \notin DOMAIN tab
      <4>1. slot[i] = slot[i + 1]
        BY <3>6, <3>7, <3>9, EntryKinds DEF Entry
      <4>2. Good(i)
        BY <3>3, <3>4, <3>9, <4>1
      <4> QED BY <2>1, <4>2 DEF i
    <3> QED BY <3>8, <3>9
  <2> QED BY <2>2, <2>3
<1>3. Levels - l \in 0..(Levels - 1) /\ Levels - (Levels - l) = l
  BY <1>0
<1>4. Good(l)
  <2> HIDE DEF Good
  <2> QED BY <1>2, <1>3
<1> QED BY <1>4 DEF slot

\* Where there are tables for it, the walk finds the entry of the page.
LEMMA WalkTo ==
  ASSUME NEW m, NEW tab, NEW val, NEW x, NEW n, Tree(m.mem, tab, val, x, n),
         NEW p \in Mapped, NEW l \in 1..Levels, Id(p, l + 1) \in DOMAIN tab
  PROVE  Walk(m, p)[l] = Slot(tab, Id(p, l))
<1>1. PICK j \in l..Levels : /\ Walk(m, p)[l] = Slot(tab, Id(p, j))
                             /\ j = l \/ Id(p, j) \notin DOMAIN tab
  BY WalkEnds
<1>2. CASE j # l
  <2>1. Levels \in Nat /\ l + 1 \in 1..(Levels + 1) /\ j \in (l + 1)..(Levels + 1)
    BY <1>2, Spans
  <2>2. Id(p, j) \in DOMAIN tab
    BY <2>1, TablesAbove DEF Tree
  <2> QED BY <1>1, <1>2, <2>2
<1> QED BY <1>1, <1>2

\* It shows where there is a table.
LEMMA WalkShows ==
  ASSUME NEW m, NEW tab, NEW val, NEW x, NEW n, Tree(m.mem, tab, val, x, n),
         NEW p \in Mapped, NEW l \in 1..Levels
  PROVE  IsTable(m.mem[Walk(m, p)[l]]) <=> Id(p, l) \in DOMAIN tab
<1>0. Levels \in Nat
  BY Spans
<1>1. PICK j \in l..Levels : /\ Walk(m, p)[l] = Slot(tab, Id(p, j))
                             /\ Id(p, j + 1) \in DOMAIN tab
                             /\ j = l \/ Id(p, j) \notin DOMAIN tab
  BY WalkEnds
<1>2. j \in 1..Levels /\ j \in l..(Levels + 1) /\ l \in 1..(Levels + 1)
  BY <1>0
<1>3. Id(p, j) \in InTable(tab)
  BY <1>1, <1>2, IdInTable
<1>4. m.mem[Walk(m, p)[l]] = Entry(m.mem, tab, val, x, n, Id(p, j))
  BY <1>1, <1>3 DEF Tree
<1>5. IsTable(m.mem[Walk(m, p)[l]]) <=> Id(p, j) \in DOMAIN tab
  BY <1>4, EntryKinds DEF Entry
<1>6. Id(p, l) \in DOMAIN tab => Id(p, j) \in DOMAIN tab
  BY <1>2, TablesAbove DEF Tree
<1> QED BY <1>1, <1>5, <1>6

\* get finds the page of any size that is there.
LEMMA GetIs ==
  ASSUME NEW m, NEW tab, NEW val, NEW x, NEW n, Tree(m.mem, tab, val, x, n), NEW p \in Mapped
  PROVE  /\ \A l \in 1..Levels : Id(p, l) \in DOMAIN val => Get(m, p) = <<val[Id(p, l)]>>
         /\ (\A l \in 1..Levels : Id(p, l) \notin DOMAIN val) => Get(m, p) = NoPage
<1>0. Levels \in Nat /\ Levels >= 2 /\ 1 \in 1..Levels /\ Layout(tab) /\ p \in Nat
  BY Spans, IdTop DEF Tree
<1>1. PICK j \in 1..Levels : /\ Walk(m, p)[1] = Slot(tab, Id(p, j))
                             /\ Id(p, j + 1) \in DOMAIN tab
                             /\ j = 1 \/ Id(p, j) \notin DOMAIN tab
  BY <1>0, WalkEnds
<1>2. Id(p, j) \in InTable(tab) /\ Id(p, j)[1] = j
  BY <1>1, IdInTable
<1>3. Id(p, j) \notin DOMAIN tab
  <2>1. Id(p, 1) \notin DOMAIN tab
    <3>1. Id(p, 1)[1] = 1 /\ RootId[1] = Levels + 1
      BY DEF Id, RootId
    <3>2. ASSUME NEW e \in DOMAIN tab PROVE e[1] # 1
      BY <1>0 DEF Layout, RootId
    <3> QED BY <3>1, <3>2
  <2> QED BY <1>1, <2>1
<1>4. m.mem[Walk(m, p)[1]] = IF Id(p, j) \in DOMAIN val THEN PageEntry(val[Id(p, j)]) ELSE Empty
  BY <1>1, <1>2, <1>3 DEF Tree, Entry
<1>5. /\ Id(p, j) \in DOMAIN val => Get(m, p) = <<val[Id(p, j)]>>
      /\ Id(p, j) \notin DOMAIN val => Get(m, p) = NoPage
  BY <1>4, EntryKinds DEF Get
<1>6. ASSUME NEW l \in 1..Levels, Id(p, l) \in DOMAIN val PROVE l = j
  <2>1. Id(p, l) \notin DOMAIN tab /\ Id(p, l) \in InTable(tab)
    BY <1>6 DEF Tree
  <2>2. Id(p, l + 1) \in DOMAIN tab
    <3>1. l \in Nat \ {0}
      BY <1>0
    <3> QED BY <1>0, <2>1, <3>1, IdUp DEF InTable
  <2>3. CASE j < l
    <3>1. j + 1 \in 1..(Levels + 1) /\ l \in (j + 1)..(Levels + 1)
      BY <1>0, <2>3
    <3> QED BY <1>0, <1>1, <2>1, <3>1, TablesAbove
  <2>4. CASE l < j
    <3>1. l + 1 \in 1..(Levels + 1) /\ j \in (l + 1)..(Levels + 1)
      BY <1>0, <2>4
    <3> QED BY <1>0, <1>3, <2>2, <3>1, TablesAbove
  <2> QED BY <1>0, <2>3, <2>4
<1> QED BY <1>5, <1>6
----------------------------------------------------------------------------
\* Pages the client may insert, and what the tree has for those it has

IsPageId(q) == q \in (Pages \X {1}) \cup LargePages

\* The tables and the entries of pages
Nodes(ins) == {RootId} \cup UNION {{Id(q[1], l) : l \in (q[2] + 1)..Levels} : q \in ins}
Leaves(ins) == {Id(q[1], q[2]) : q \in ins}

\* No page is in another.
SeparatePages(ins) ==
  /\ \A q \in ins : IsPageId(q)
  /\ \A q, r \in ins : Covered(q) \cap Covered(r) # {} => q = r

\* Pages the client may insert, and what they cover
LEMMA PageFacts ==
  ASSUME NEW q, IsPageId(q)
  PROVE  /\ q = <<q[1], q[2]>> /\ q[1] \in Mapped /\ q[1] \in Nat /\ q[2] \in 1..(Levels - 1)
         /\ q[2] \in Nat \ {0} /\ q[2] \in 1..Levels /\ q[1] % SpanOf(q[2]) = 0
         /\ q[1] \in Covered(q) /\ Covered(q) \subseteq Nat
         /\ \A p \in Nat : p \in Covered(q) <=> Id(p, q[2]) = Id(q[1], q[2])
<1>0. Levels \in Nat /\ Levels >= 2 /\ SpanOf(1) = 1
  BY Spans
<1>1. Pages \subseteq Mapped /\ LargePages \subseteq Mapped \X (2..(Levels - 1))
      /\ \A r \in LargePages : r[1] % SpanOf(r[2]) = 0
  BY TableAssumption
<1>2. /\ q = <<q[1], q[2]>> /\ q[1] \in Mapped /\ q[2] \in 1..(Levels - 1)
      /\ q[2] \in Nat \ {0} /\ q[2] \in 1..Levels
  BY <1>0, <1>1 DEF IsPageId
<1>3. q[1] \in Nat
  BY <1>2, IdTop
<1>4. q[1] % SpanOf(q[2]) = 0
  <2>1. CASE q \in LargePages
    BY <1>1, <2>1
  <2>2. CASE q \in Pages \X {1}
    <3>1. q[2] = 1
      BY <2>2
    <3>2. q[1] % 1 = 0
      BY <1>3
    <3> QED BY <1>0, <3>1, <3>2
  <2> QED BY <2>1, <2>2 DEF IsPageId
<1>5. SpanOf(q[2]) \in Nat \ {0}
  BY <1>2, Spans
<1>6. q[1] \in Covered(q) /\ Covered(q) \subseteq Nat
  BY <1>3, <1>5 DEF Covered
<1>7. ASSUME NEW p \in Nat PROVE p \in Covered(q) <=> Id(p, q[2]) = Id(q[1], q[2])
  <2>1. Covered(<<q[1], q[2]>>) = Covered(q)
    BY <1>2
  <2> QED BY <1>2, <1>3, <1>4, <2>1, CoveredId
<1> QED BY <1>2, <1>3, <1>4, <1>6, <1>7
----------------------------------------------------------------------------
\* The tables and the memory they are in

TableTile(tab, e) == <<<<"table", e>>, tab[e], PageWords>>
TableTiles(tab) == {TableTile(tab, e) : e \in DOMAIN tab \ {RootId}}
TablesAligned(tab) == \A e \in DOMAIN tab : e = RootId \/ Aligned(tab[e], LogPage)

\* As many cells of a page can be had.
Same(m, k) == \A t \in Threads, n \in Nat : EnoughCells(m, t, n) <=> EnoughCells(k, t, n)

\* The memory m has this tree, and what is held beside it is the rest.
Whole(m, tab, val, x, n, rest) ==
  \E D : /\ Store(m, D) /\ Tree(m.mem, tab, val, x, n)
         /\ Held(D) = TableTiles(tab) \cup rest /\ TablesAligned(tab)

\* Words that are held can be written.
LEMMA WriteSound ==
  ASSUME NEW m, NEW D, Store(m, D), NEW k \in Metas,
         k.lists = m.lists, k.mapped = m.mapped, k.committed = m.committed,
         \A w \in Words : ~Kept(D, w) => k.mem[w] = m.mem[w]
  PROVE  Store(k, D) /\ Same(m, k)
<1>1. ASSUME NEW d \in D, IsLoose(d) PROVE k.mem[d[2]] = m.mem[d[2]]
  <2>1. d[2] \in Area(d) /\ d[2] \in Words /\ Area(d) \subseteq WordsOf(m.mapped)
    BY StoreAreas
  <2>2. ~(d[2] < PageWords)
    <3>1. m.mapped \in SUBSET (1..MaxFrames)
      BY DEF Store, Metas
    <3>2. d[2] >= PageWords /\ d[2] \in Nat /\ PageWords \in Nat
      BY <2>1, <3>1, WordsParts, Sizes
    <3> QED BY <3>2
  <2>3. ASSUME NEW b \in Held(D), d[2] \in Area(b) PROVE FALSE
    <3>1. b \in D /\ ~IsLoose(b)
      BY DEF Held
    <3>2. b = d
      BY <2>1, <2>3, <3>1 DEF Store, Tiled
    <3> QED BY <1>1, <3>1, <3>2
  <2> QED BY <2>1, <2>2, <2>3 DEF Kept
<1>2. Store(k, D)
  BY <1>1, StoreSame
<1>3. Same(m, k)
  <2> SUFFICES ASSUME NEW t \in Threads, NEW n \in Nat PROVE EnoughCells(m, t, n) <=> EnoughCells(k, t, n)
    BY DEF Same
  <2>1. Room(m, 1) = Room(k, 1)
    BY RoomIs
  <2> QED BY <1>2, <2>1, EnoughIs
<1> QED BY <1>2, <1>3

\* The words of tables are held.
LEMMA TablesKept ==
  ASSUME NEW m, NEW D, Store(m, D), NEW tab, Layout(tab), TableTiles(tab) \subseteq Held(D),
         NEW f \in DOMAIN tab, NEW b \in TableWords(tab, f)
  PROVE  Kept(D, b) /\ b \in Words /\ (f # RootId => b \in Area(TableTile(tab, f)) /\ TableTile(tab, f) \in Held(D))
<1>1. b \in Words
  BY DEF Layout
<1>2. PageWords \in Nat \ {0}
  BY Sizes
<1>3. CASE f = RootId
  <2>1. b \in 0..(0 + PageWords - 1)
    BY <1>3 DEF Layout, TableWords, Root
  <2>2. b < PageWords
    BY <1>2, <2>1
  <2> QED BY <1>1, <1>3, <2>2 DEF Kept
<1>4. CASE f # RootId
  <2>1. TableTile(tab, f) \in Held(D)
    BY <1>4 DEF TableTiles
  <2>2. b \in Area(TableTile(tab, f))
    BY DEF Area, TableTile, TableWords
  <2> QED BY <1>1, <2>1, <2>2 DEF Kept
<1> QED BY <1>3, <1>4

\* A word is written.
Wrote(m, s, v) == [m EXCEPT !.mem[s] = v]

\* What a store leaves alone
LEMMA WriteFields ==
  ASSUME NEW m \in Metas, NEW s \in Words, NEW v \in Entries, NEW k, k = Wrote(m, s, v)
  PROVE  /\ k \in Metas /\ k.lists = m.lists /\ k.mapped = m.mapped /\ k.committed = m.committed
         /\ k.mem[s] = v /\ \A w \in Words \ {s} : k.mem[w] = m.mem[w]
         /\ k.mem \in [Words -> Entries]
<1> DEFINE A == [m.mem EXCEPT ![s] = v]
<1>1. A \in [Words -> Entries] /\ A[s] = v /\ \A w \in Words \ {s} : A[w] = m.mem[w]
  BY DEF Metas
<1>2. k = [m EXCEPT !.mem = A]
  BY DEF Wrote
<1> HIDE DEF A
<1>3. k \in Metas /\ k.lists = m.lists /\ k.mapped = m.mapped /\ k.committed = m.committed /\ k.mem = A
  BY <1>1, <1>2 DEF Metas
<1> QED BY <1>1, <1>3

\* An entry of a table is written.
LEMMA EntrySet ==
  ASSUME NEW m, NEW D, Store(m, D), NEW tab, Layout(tab), TableTiles(tab) \subseteq Held(D),
         NEW e \in InTable(tab), NEW v \in Entries, NEW k, k = Wrote(m, Slot(tab, e), v)
  PROVE  /\ Store(k, D) /\ Same(m, k) /\ k.mem \in [Words -> Entries]
         /\ k.mem[Slot(tab, e)] = v /\ Agree(m.mem, k.mem, tab, e)
<1> DEFINE s == Slot(tab, e)
<1>1. s \in TableWords(tab, Up(e)) /\ s \in Words /\ Up(e) \in DOMAIN tab
  BY Slots1
<1>2. Kept(D, s)
  BY <1>1, TablesKept
<1>3. m \in Metas
  BY DEF Store
<1> HIDE DEF s
<1>4. /\ k \in Metas /\ k.lists = m.lists /\ k.mapped = m.mapped /\ k.committed = m.committed
      /\ k.mem[s] = v /\ \A w \in Words \ {s} : k.mem[w] = m.mem[w]
      /\ k.mem \in [Words -> Entries]
  <2>1. k = Wrote(m, s, v)
    BY DEF s
  <2> QED BY <1>1, <1>3, <2>1, WriteFields
<1>5. \A w \in Words : ~Kept(D, w) => k.mem[w] = m.mem[w]
  BY <1>2, <1>4
<1>6. Store(k, D) /\ Same(m, k)
  BY <1>4, <1>5, WriteSound
<1>7. Agree(m.mem, k.mem, tab, e)
  BY <1>4 DEF Agree, Layout, s
<1> QED BY <1>4, <1>6, <1>7 DEF s

\* The count of a table is set right.
LEMMA CountSound ==
  ASSUME NEW m, NEW tab, NEW val, NEW x \in DOMAIN tab, x # RootId, NEW n \in Int, NEW d \in Int, n + d = 0, NEW rest,
         Whole(m, tab, val, x, n, rest)
  PROVE  /\ Whole(DeltaEntries(m, Slot(tab, x), d), tab, val, RootId, 0, rest)
         /\ Same(m, DeltaEntries(m, Slot(tab, x), d))
         /\ DeltaEntries(m, Slot(tab, x), d).mem[Slot(tab, x)] =
              TableEntry(tab[x], UsedIn(DeltaEntries(m, Slot(tab, x), d).mem, tab[x]))
<1>1. PICK D : Store(m, D) /\ Tree(m.mem, tab, val, x, n) /\ Held(D) = TableTiles(tab) \cup rest
           /\ TablesAligned(tab)
  BY DEF Whole
<1>2. Layout(tab) /\ x \in InTable(tab)
  BY <1>1 DEF Tree, Layout, InTable
<1> DEFINE s == Slot(tab, x)
           a == tab[x]
           u == UsedIn(m.mem, a)
           k == DeltaEntries(m, s, d)
<1>3. m.mem[s] = TableEntry(a, u + n) /\ u \in Nat /\ a \in Nat
  <2>1. u \in Nat /\ a \in Nat
    BY <1>1, TreeUsed
  <2>2. m.mem[s] = Entry(m.mem, tab, val, x, n, x)
    BY <1>1, <1>2 DEF Tree
  <2> QED BY <2>1, <2>2 DEF Entry
<1>4. s \in Words
  BY <1>2, Slots1
<1>5. m.mem[s][3] - n = u /\ m.mem[s][3] + d = u
  BY <1>3 DEF TableEntry
<1>6. k = Wrote(m, s, TableEntry(a, u))
  <2>1. [m.mem[s] EXCEPT ![3] = @ + d] = TableEntry(a, u)
    BY <1>3, <1>5 DEF TableEntry
  <2>2. k = [m EXCEPT !.mem[s] = [m.mem[s] EXCEPT ![3] = @ + d]]
    BY DEF DeltaEntries
  <2> QED BY <2>1, <2>2 DEF Wrote
<1>7. TableEntry(a, u) \in Entries
  BY <1>3 DEF TableEntry, Entries
<1> HIDE DEF k, u, a, s
<1>8. /\ Store(k, D) /\ Same(m, k) /\ k.mem \in [Words -> Entries]
      /\ k.mem[s] = TableEntry(a, u) /\ Agree(m.mem, k.mem, tab, x)
  <2>1. TableTiles(tab) \subseteq Held(D)
    BY <1>1
  <2> QED BY <1>1, <1>2, <1>6, <1>7, <2>1, EntrySet DEF s
<1>9. Tree(k.mem, tab, val, RootId, 0)
  <2>1. k.mem[Slot(tab, x)] = TableEntry(tab[x], m.mem[Slot(tab, x)][3] - n)
    BY <1>5, <1>8 DEF s, a
  <2> QED BY <1>1, <1>8, <2>1, CountFixed
<1>10. Whole(k, tab, val, RootId, 0, rest)
  BY <1>1, <1>8, <1>9 DEF Whole
<1>11. k.mem[s] = TableEntry(a, UsedIn(k.mem, a))
  <2>1. k.mem[Slot(tab, x)] = Entry(k.mem, tab, val, RootId, 0, x)
    BY <1>2, <1>9 DEF Tree
  <2>2. UsedIn(k.mem, tab[x]) \in Nat
    BY <1>9, TreeUsed
  <2> QED BY <2>1, <2>2 DEF Entry, s, a
<1> QED BY <1>8, <1>10, <1>11 DEF k, s, a
----------------------------------------------------------------------------
\* insert_pages, one table after the other

\* A table for the entry of e is put into memory: what that leaves
Grown(m, tab, val, rest, e, x, n, t, k) ==
  \E a : /\ Whole(k, Put(tab, e, a), val, x, n, rest)
         /\ \A i \in Nat : EnoughCells(m, t, i + 1) => EnoughCells(k, t, i)

\* get_or_allocate_next_page_table adds an empty table, for which one is still to be counted.
LEMMA GrowSound ==
  ASSUME NEW m, NEW tab, NEW val, NEW rest, Whole(m, tab, val, RootId, 0, rest),
         NEW e \in InTable(tab), e[1] >= 2, e \notin DOMAIN tab, e \notin DOMAIN val,
         NEW t \in Threads, CanAllocate(m, t, LogPage),
         NEW r, r = AllocateCell(m, t, LogPage)
  PROVE  Grown(m, tab, val, rest, e, Up(e), -1, t, Wrote(NewTable(r.meta, r.cell), Slot(tab, e), TableEntry(r.cell, 0)))
<1>1. PICK D : Store(m, D) /\ Tree(m.mem, tab, val, RootId, 0) /\ Held(D) = TableTiles(tab) \cup rest
           /\ TablesAligned(tab)
  BY DEF Whole
<1> DEFINE h == <<"table", e>>
           a == r.cell
           A == a..(a + PageWords - 1)
           d == <<h, a, PageWords>>
           s == Slot(tab, e)
           y == NewTable(r.meta, a)
           k == Wrote(y, s, TableEntry(a, 0))
           z == Put(tab, e, a)
<1>2. Layout(tab)
  BY <1>1 DEF Tree
<1>3. LogPage \in CellClasses /\ PageWords = 2^LogPage /\ PageWords \in Nat \ {0}
  BY Sizes DEF CellClasses
<1>4. Allocated(m, D, t, h, LogPage, r)
  BY <1>1, <1>3, AllocateSound
<1>5. PICK E : Store(r.meta, E) /\ d \in E /\ Held(E) = Held(D) \cup {d} /\ Aligned(a, LogPage)
  BY <1>3, <1>4 DEF Allocated
<1>6. /\ \A b \in Held(D) : Area(b) \cap Area(d) = {}
      /\ \A w \in Words : Kept(D, w) => r.meta.mem[w] = m.mem[w]
      /\ \A n \in Nat : EnoughCells(m, t, n + 1) => EnoughCells(r.meta, t, n)
  BY <1>3, <1>4 DEF Allocated
<1>7. a \in Nat /\ Area(d) = A /\ A \subseteq Words /\ \A w \in A : w >= PageWords
  <2>1. Tile(d) /\ Area(d) \subseteq WordsOf(r.meta.mapped) /\ WordsOf(r.meta.mapped) \subseteq Words
    BY <1>5, StoreAreas
  <2>2. r.meta.mapped \in SUBSET (1..MaxFrames)
    BY <1>5 DEF Store, Metas
  <2>3. \A w \in WordsOf(r.meta.mapped) : w >= PageWords
    BY <2>2, WordsParts
  <2>4. Area(d) = A /\ a \in Nat
    BY <2>1 DEF Area, Tile
  <2> QED BY <2>1, <2>3, <2>4
<1>8. TableTiles(tab) \subseteq Held(D) /\ TableTiles(tab) \subseteq Held(E)
  BY <1>1, <1>5
<1>9. \A f \in DOMAIN tab : \A b \in TableWords(tab, f) : Kept(D, b) /\ b \in Words /\ b \notin A
  <2> SUFFICES ASSUME NEW f \in DOMAIN tab, NEW b \in TableWords(tab, f)
               PROVE  Kept(D, b) /\ b \in Words /\ b \notin A
    OBVIOUS
  <2>1. Kept(D, b) /\ b \in Words /\ (f # RootId => b \in Area(TableTile(tab, f)) /\ TableTile(tab, f) \in Held(D))
    BY <1>1, <1>2, <1>8, TablesKept
  <2>2. CASE f = RootId
    <3>1. b \in 0..(0 + PageWords - 1)
      BY <1>2, <2>2 DEF Layout, TableWords, Root
    <3>2. ~(b >= PageWords)
      BY <1>3, <3>1
    <3> QED BY <1>7, <2>1, <3>2
  <2>3. CASE f # RootId
    BY <1>6, <1>7, <2>1, <2>3
  <2> QED BY <2>2, <2>3
<1>10. s \in TableWords(tab, Up(e)) /\ s \in Words /\ Up(e) \in DOMAIN tab
  BY <1>2, Slots1
<1>11. s \notin A
  BY <1>9, <1>10
<1>12. /\ y \in Metas /\ y.lists = r.meta.lists /\ y.mapped = r.meta.mapped /\ y.committed = r.meta.committed
       /\ \A w \in Words : y.mem[w] = IF w \in A THEN Empty ELSE r.meta.mem[w]
  <2>1. Empty \in Entries
    BY DEF Empty, Entries
  <2>2. y = Set(r.meta, A, Empty) /\ r.meta \in Metas
    BY <1>5 DEF NewTable, Store
  <2> HIDE DEF A, y
  <2> QED BY <2>1, <2>2, SetFields
<1> HIDE DEF y, s
<1>13. /\ k \in Metas /\ k.lists = y.lists /\ k.mapped = y.mapped /\ k.committed = y.committed
       /\ k.mem[s] = TableEntry(a, 0) /\ \A w \in Words \ {s} : k.mem[w] = y.mem[w]
       /\ k.mem \in [Words -> Entries]
  <2>1. TableEntry(a, 0) \in Entries
    BY <1>7 DEF TableEntry, Entries
  <2> QED BY <1>10, <1>12, <2>1, WriteFields
<1> HIDE DEF k, A, d
<1>14. \A w \in Words : ~Kept(E, w) => k.mem[w] = r.meta.mem[w]
  <2> SUFFICES ASSUME NEW w \in Words, ~Kept(E, w) PROVE w # s /\ w \notin A
    BY <1>12, <1>13
  <2>1. Kept(E, s)
    BY <1>2, <1>5, <1>8, <1>10, TablesKept
  <2>2. w \notin Area(d)
    <3>1. d \in Held(E)
      BY <1>5
    <3> QED BY <3>1 DEF Kept
  <2> QED BY <1>7, <2>1, <2>2
<1>15. Store(k, E) /\ Same(r.meta, k)
  BY <1>5, <1>12, <1>13, <1>14, WriteSound
<1>16. Tree(k.mem, z, val, Up(e), -1)
  <2>1. Agree(m.mem, k.mem, tab, e)
    <3> SUFFICES ASSUME NEW f \in DOMAIN tab, NEW b \in TableWords(tab, f), b # s PROVE k.mem[b] = m.mem[b]
      BY DEF Agree, s
    <3> QED BY <1>6, <1>9, <1>12, <1>13
  <2>2. \A b \in A : k.mem[b] = Empty
    BY <1>7, <1>11, <1>12, <1>13
  <2>3. \A f \in DOMAIN tab : TableWords(tab, f) \cap A = {}
    BY <1>9
  <2>4. k.mem[Slot(tab, e)] = TableEntry(a, 0)
    BY <1>13 DEF s
  <2> HIDE DEF a, z
  <2> QED BY <1>1, <1>7, <1>13, <2>1, <2>2, <2>3, <2>4, TableAdded DEF A, z
<1>17. Held(E) = TableTiles(z) \cup rest
  <2>1. e # RootId /\ DOMAIN z = DOMAIN tab \cup {e} /\ z[e] = a /\ \A f \in DOMAIN tab : z[f] = tab[f]
    <3>1. e # RootId
      BY <1>2, Slots1
    <3> QED BY <3>1 DEF Put
  <2>2. TableTile(z, e) = d /\ \A f \in DOMAIN tab : TableTile(z, f) = TableTile(tab, f)
    BY <2>1 DEF TableTile, d
  <2> HIDE DEF z
  <2>3. TableTiles(z) = TableTiles(tab) \cup {d}
    BY <2>1, <2>2 DEF TableTiles
  <2> QED BY <1>1, <1>5, <2>3
<1>18. Whole(k, z, val, Up(e), -1, rest)
  <2>1. TablesAligned(z)
    BY <1>1, <1>5 DEF TablesAligned, Put
  <2> QED BY <1>15, <1>16, <1>17, <2>1 DEF Whole
<1>19. \A n \in Nat : EnoughCells(m, t, n + 1) => EnoughCells(k, t, n)
  BY <1>6, <1>15 DEF Same
<1>20. Grown(m, tab, val, rest, e, Up(e), -1, t, k)
  <2> HIDE DEF a
  <2> QED BY <1>18, <1>19 DEF Grown
<1> QED BY <1>20 DEF k, y, s

\* get_or_allocate_next_page_table: a table for p below that of level l + 2
LEMMA NextTableSound ==
  ASSUME NEW m, NEW tab, NEW val, NEW rest, Whole(m, tab, val, RootId, 0, rest),
         NEW p \in Mapped, NEW l \in 1..(Levels - 1), Id(p, l + 2) \in DOMAIN tab, NEW t \in Threads
  PROVE  /\ Id(p, l + 1) \in DOMAIN tab => NextTable(m, t, p, l) = m
         /\ Id(p, l + 1) \notin DOMAIN tab /\ Id(p, l + 1) \notin DOMAIN val /\ CanAllocate(m, t, LogPage) =>
              Grown(m, tab, val, rest, Id(p, l + 1), RootId, 0, t, NextTable(m, t, p, l))
<1>1. PICK D : Store(m, D) /\ Tree(m.mem, tab, val, RootId, 0) /\ Held(D) = TableTiles(tab) \cup rest
           /\ TablesAligned(tab)
  BY DEF Whole
<1> DEFINE e == Id(p, l + 1)
           r == AllocateCell(m, t, LogPage)
           k == Wrote(NewTable(r.meta, r.cell), Slot(tab, e), TableEntry(r.cell, 0))
<1>2. Levels \in Nat /\ l \in Nat /\ l + 1 \in 1..Levels /\ l + 1 + 1 = l + 2 /\ l + 1 \in Nat /\ l + 1 >= 2
  BY Spans
<1>3. Walk(m, p)[l + 1] = Slot(tab, e)
  BY <1>1, <1>2, WalkTo
<1>4. IsTable(m.mem[Walk(m, p)[l + 1]]) <=> e \in DOMAIN tab
  BY <1>1, <1>2, WalkShows
<1>5. ASSUME e \notin DOMAIN tab, e \notin DOMAIN val, CanAllocate(m, t, LogPage)
      PROVE  Grown(m, tab, val, rest, e, RootId, 0, t, NextTable(m, t, p, l))
  <2>1. e \in InTable(tab) /\ Up(e) = Id(p, l + 2) /\ e[1] = l + 1
    <3>1. Id(p, l + 1 + 1) \in DOMAIN tab
      BY <1>2
    <3> QED BY <1>2, <3>1, IdInTable
  <2>2. Grown(m, tab, val, rest, e, Up(e), -1, t, k)
    <3>1. e[1] >= 2
      BY <1>2, <2>1
    <3> HIDE DEF e, r
    <3> QED BY <1>5, <2>1, <3>1, GrowSound DEF r
  <2>3. NextTable(m, t, p, l) = CountCreated(k, p, l)
    BY <1>3, <1>4, <1>5 DEF NextTable, Wrote
  <2> HIDE DEF k, e
  <2>4. PICK a : /\ Whole(k, Put(tab, e, a), val, Up(e), -1, rest)
                 /\ \A i \in Nat : EnoughCells(m, t, i + 1) => EnoughCells(k, t, i)
    BY <2>2 DEF Grown
  <2> DEFINE z == Put(tab, e, a)
  <2>5. PICK E : Store(k, E) /\ Tree(k.mem, z, val, Up(e), -1) /\ Held(E) = TableTiles(z) \cup rest
             /\ TablesAligned(z)
    BY <2>4 DEF Whole
  <2>6. Up(e) \in DOMAIN z
    BY <2>1 DEF Put
  <2>7. CASE l + 2 <= Levels
    <3>1. l + 2 \in 1..Levels /\ l + 2 \in 1..(Levels + 1) /\ l + 2 + 1 \in (l + 2)..(Levels + 1)
      BY <1>2, <2>7
    <3>2. Id(p, l + 2 + 1) \in DOMAIN z /\ Layout(z)
      <4>1. Layout(z)
        BY <2>5 DEF Tree
      <4> HIDE DEF z
      <4> QED BY <2>1, <2>6, <3>1, <4>1, TablesAbove
    <3>3. Walk(k, p)[l + 2] = Slot(z, Id(p, l + 2))
      <4> HIDE DEF z
      <4> QED BY <2>5, <3>1, <3>2, WalkTo
    <3>4. Up(e) # RootId
      <4>1. Up(e)[1] = l + 2
        BY <2>1 DEF Id
      <4> QED BY <1>2, <2>7, <4>1 DEF RootId
    <3>5. CountCreated(k, p, l) = DeltaEntries(k, Slot(z, Up(e)), 1)
      BY <2>1, <2>7, <3>3 DEF CountCreated
    <3> DEFINE n == CountCreated(k, p, l)
    <3>6. Whole(n, z, val, RootId, 0, rest) /\ Same(k, n)
      <4>1. -1 \in Int /\ 1 \in Int /\ -1 + 1 = 0
        OBVIOUS
      <4> HIDE DEF z
      <4> QED BY <2>4, <2>6, <3>4, <3>5, <4>1, CountSound DEF z
    <3>7. \A i \in Nat : EnoughCells(m, t, i + 1) => EnoughCells(n, t, i)
      BY <2>4, <3>6 DEF Same
    <3> QED BY <2>3, <3>6, <3>7 DEF Grown
  <2>8. CASE ~(l + 2 <= Levels)
    <3>1. l + 2 = Levels + 1
      BY <1>2, <2>8
    <3>2. Up(e) = RootId
      BY <2>1, <3>1, IdTop
    <3>3. Tree(k.mem, z, val, RootId, 0)
      <4> HIDE DEF z
      <4> QED BY <2>5, <3>2, TreeRoot
    <3>4. Whole(k, z, val, RootId, 0, rest)
      BY <2>5, <3>3 DEF Whole
    <3>5. CountCreated(k, p, l) = k
      BY <2>8 DEF CountCreated
    <3> QED BY <2>3, <2>4, <3>4, <3>5 DEF Grown
  <2> QED BY <2>7, <2>8
<1>6. e \in DOMAIN tab => NextTable(m, t, p, l) = m
  BY <1>4 DEF NextTable
<1> QED BY <1>5, <1>6

\* Downward meets its recursive equation.
LEMMA DownwardUnfold ==
  ASSUME NEW m, NEW t, NEW q, q[2] \in 1..Levels
  PROVE  LET at == Downward(m, t, q)
         IN  at = [l \in q[2]..Levels |-> IF l = Levels THEN m ELSE NextTable(at[l + 1], t, q[1], l)]
<1> DEFINE k == Levels
           c == q[2]
<1>0. k \in Nat /\ c \in Nat /\ c <= k
  BY Spans
<1> HIDE DEF k, c
<1> DEFINE Step(f, i) == IF i = k THEN m ELSE NextTable(f[i + 1], t, q[1], i)
           T == {j \in 0..(k - c) : ~\E f : f = [i \in (k - j)..k |-> Step(f, i)]}
<1>1. ASSUME T # {} PROVE FALSE
  <2>1. PICK j \in T : \A l \in T : j <= l
    <3>1. T \in SUBSET Nat
      OBVIOUS
    <3> QED BY <1>1, <3>1, NatMin
  <2>2. CASE j = 0
    <3> DEFINE g == [i \in (k - j)..k |-> m]
    <3>1. g = [i \in (k - j)..k |-> Step(g, i)]
      BY <1>0, <2>2
    <3> QED BY <2>1, <3>1
  <2>3. CASE j # 0
    <3>0. j \in 1..(k - c) /\ j - 1 \in 0..(k - c)
      BY <1>0, <2>1, <2>3
    <3>1. j - 1 \notin T
      <4> HIDE DEF T
      <4> QED BY <2>1, <3>0
    <3>2. PICK f : f = [i \in (k - (j - 1))..k |-> Step(f, i)]
      BY <3>0, <3>1
    <3> DEFINE g == [i \in (k - j)..k |-> IF i = k - j THEN Step(f, i) ELSE f[i]]
    <3> HIDE DEF Step, T
    <3>3. \A i \in (k - j)..k : i # k - j => i \in (k - (j - 1))..k /\ f[i] = Step(f, i)
      <4> SUFFICES ASSUME NEW i \in (k - j)..k, i # k - j
                   PROVE  i \in (k - (j - 1))..k /\ f[i] = Step(f, i)
        OBVIOUS
      <4>1. i \in (k - (j - 1))..k
        BY <1>0, <3>0
      <4> QED BY <3>2, <4>1
    <3>4. \A i \in (k - j)..k : Step(g, i) = Step(f, i)
      <4> SUFFICES ASSUME NEW i \in (k - j)..k PROVE Step(g, i) = Step(f, i)
        OBVIOUS
      <4>1. CASE i = k
        BY <4>1 DEF Step
      <4>2. CASE i # k
        <5>1. i + 1 \in (k - j)..k /\ i + 1 # k - j
          BY <1>0, <3>0, <4>2
        <5>2. g[i + 1] = f[i + 1]
          BY <5>1
        <5> HIDE DEF g
        <5> QED BY <5>2 DEF Step
      <4> QED BY <4>1, <4>2
    <3>5. g = [i \in (k - j)..k |-> Step(g, i)]
      <4>1. \A i \in (k - j)..k : g[i] = Step(g, i)
        BY <1>0, <3>3, <3>4
      <4> QED BY <4>1
    <3>6. \E u : u = [i \in (k - j)..k |-> Step(u, i)]
      <4> HIDE DEF g
      <4> QED BY <3>5
    <3> QED BY <2>1, <3>6 DEF Step, T
  <2> QED BY <2>2, <2>3
<1>2. k - c \in 0..(k - c) /\ k - (k - c) = c
  BY <1>0
<1>3. \E f : f = [i \in (k - (k - c))..k |-> Step(f, i)]
  BY <1>1, <1>2
<1> DEFINE at == CHOOSE f : f = [i \in c..k |-> Step(f, i)]
<1>4. at = [i \in c..k |-> Step(at, i)]
  <2> HIDE DEF Step
  <2> QED BY <1>2, <1>3
<1>5. Downward(m, t, q) = at
  BY DEF Downward, k, c
<1> HIDE DEF at
<1> QED BY <1>4, <1>5 DEF k, c

\* What Upward computes: at
Rising(m, t, q, at) ==
  at = [l \in q[2]..Levels |->
         IF l = q[2] THEN [meta |-> Wrote(m, Walk(m, q[1])[q[2]], Empty), dead |-> TRUE]
         ELSE Decrease(at[l - 1], t, Walk(m, q[1])[l])]

\* Upward meets its recursive equation.
LEMMA UpwardUnfold ==
  ASSUME NEW m, NEW t, NEW q, q[2] \in 1..Levels
  PROVE  Rising(m, t, q, Upward(m, t, q))
<1> DEFINE k == Levels
           c == q[2]
           slot == Walk(m, q[1])
           first == [meta |-> Wrote(m, slot[q[2]], Empty), dead |-> TRUE]
<1>0. k \in Nat /\ c \in Nat /\ c <= k
  BY Spans
<1> HIDE DEF k, c, slot, first
<1> DEFINE Step(f, i) == IF i = c THEN first ELSE Decrease(f[i - 1], t, slot[i])
           T == {j \in 0..(k - c) : ~\E f : f = [i \in c..(c + j) |-> Step(f, i)]}
<1>1. ASSUME T # {} PROVE FALSE
  <2>1. PICK j \in T : \A l \in T : j <= l
    <3>1. T \in SUBSET Nat
      OBVIOUS
    <3> QED BY <1>1, <3>1, NatMin
  <2>2. CASE j = 0
    <3> DEFINE g == [i \in c..(c + j) |-> first]
    <3>1. g = [i \in c..(c + j) |-> Step(g, i)]
      BY <1>0, <2>2
    <3> QED BY <2>1, <3>1
  <2>3. CASE j # 0
    <3>0. j \in 1..(k - c) /\ j - 1 \in 0..(k - c)
      BY <1>0, <2>1, <2>3
    <3>1. j - 1 \notin T
      <4> HIDE DEF T
      <4> QED BY <2>1, <3>0
    <3>2. PICK f : f = [i \in c..(c + (j - 1)) |-> Step(f, i)]
      BY <3>0, <3>1
    <3> DEFINE g == [i \in c..(c + j) |-> IF i = c + j THEN Step(f, i) ELSE f[i]]
    <3> HIDE DEF Step, T
    <3>3. \A i \in c..(c + j) : i # c + j => i \in c..(c + (j - 1)) /\ f[i] = Step(f, i)
      <4> SUFFICES ASSUME NEW i \in c..(c + j), i # c + j
                   PROVE  i \in c..(c + (j - 1)) /\ f[i] = Step(f, i)
        OBVIOUS
      <4>1. i \in c..(c + (j - 1))
        BY <1>0, <3>0
      <4> QED BY <3>2, <4>1
    <3>4. \A i \in c..(c + j) : Step(g, i) = Step(f, i)
      <4> SUFFICES ASSUME NEW i \in c..(c + j) PROVE Step(g, i) = Step(f, i)
        OBVIOUS
      <4>1. CASE i = c
        BY <4>1 DEF Step
      <4>2. CASE i # c
        <5>1. i - 1 \in c..(c + j) /\ i - 1 # c + j
          BY <1>0, <3>0, <4>2
        <5>2. g[i - 1] = f[i - 1]
          BY <5>1
        <5> HIDE DEF g
        <5> QED BY <5>2 DEF Step
      <4> QED BY <4>1, <4>2
    <3>5. g = [i \in c..(c + j) |-> Step(g, i)]
      <4>1. \A i \in c..(c + j) : g[i] = Step(g, i)
        BY <1>0, <3>3, <3>4
      <4> QED BY <4>1
    <3>6. \E u : u = [i \in c..(c + j) |-> Step(u, i)]
      <4> HIDE DEF g
      <4> QED BY <3>5
    <3> QED BY <2>1, <3>6 DEF Step, T
  <2> QED BY <2>2, <2>3
<1>2. k - c \in 0..(k - c) /\ c + (k - c) = k
  BY <1>0
<1>3. \E f : f = [i \in c..(c + (k - c)) |-> Step(f, i)]
  BY <1>1, <1>2
<1> DEFINE at == CHOOSE f : f = [i \in c..k |-> Step(f, i)]
<1>4. at = [i \in c..k |-> Step(at, i)]
  <2> HIDE DEF Step
  <2> QED BY <1>2, <1>3
<1>5. Upward(m, t, q) = at
  BY DEF Upward, Wrote, k, c, slot, first
<1> HIDE DEF at
<1> QED BY <1>4, <1>5 DEF Rising, k, c, slot, first

\* The levels below l for whose entries of p there are no tables yet
Lacking(tab, p, low, l) == {i \in low..(l - 1) : Id(p, i + 1) \notin DOMAIN tab}

\* What going down to level l leaves behind: k
Down(tab, val, rest, p, low, t, l, k) ==
  \E u : /\ Whole(k, u, val, RootId, 0, rest)
         /\ DOMAIN u = DOMAIN tab \cup {Id(p, j) : j \in (l + 1)..Levels}
         /\ EnoughCells(k, t, Cardinality(Lacking(tab, p, low, l)))

\* One level on the way down: the table is there or is allocated, and is counted two levels up.
LEMMA DownOne ==
  ASSUME NEW tab, NEW val, NEW rest, NEW p \in Mapped, NEW low \in 1..(Levels - 1), NEW t \in Threads,
         NEW l \in low..(Levels - 1), NEW m, Down(tab, val, rest, p, low, t, l + 1, m),
         Id(p, l + 1) \notin DOMAIN val, RootId \in DOMAIN tab
  PROVE  Down(tab, val, rest, p, low, t, l, NextTable(m, t, p, l))
<1> DEFINE k == NextTable(m, t, p, l)
           e == Id(p, l + 1)
           L == Lacking(tab, p, low, l)
           M == Lacking(tab, p, low, l + 1)
<1>1. PICK u : /\ Whole(m, u, val, RootId, 0, rest)
               /\ DOMAIN u = DOMAIN tab \cup {Id(p, j) : j \in (l + 2)..Levels}
               /\ EnoughCells(m, t, Cardinality(M))
  <2>1. l + 1 + 1 = l + 2
    BY Spans
  <2> QED BY <2>1 DEF Down
<1>2. Levels \in Nat /\ low \in Nat /\ l \in Nat /\ l \in 1..(Levels - 1) /\ l + 1 <= Levels
  BY Spans
<1>3. Id(p, l + 2) \in DOMAIN u
  <2>1. CASE l + 2 <= Levels
    BY <1>1, <1>2, <2>1
  <2>2. CASE ~(l + 2 <= Levels)
    <3>1. l + 2 = Levels + 1
      BY <1>2, <2>2
    <3> QED BY <1>1, <3>1, IdTop
  <2> QED BY <2>1, <2>2
<1>4. e \in DOMAIN u <=> e \in DOMAIN tab
  <2>1. \A j \in (l + 2)..Levels : Id(p, j) # e
    <3> SUFFICES ASSUME NEW j \in (l + 2)..Levels PROVE Id(p, j)[1] # e[1]
      OBVIOUS
    <3> QED BY <1>2 DEF Id
  <2> HIDE DEF e
  <2> QED BY <1>1, <2>1
<1>5. {Id(p, j) : j \in (l + 1)..Levels} = {Id(p, j) : j \in (l + 2)..Levels} \cup {e}
  <2>1. (l + 1)..Levels = ((l + 2)..Levels) \cup {l + 1}
    BY <1>2
  <2> QED BY <2>1
<1>6. L = M \ {l} /\ (l \in M <=> e \notin DOMAIN tab) /\ IsFiniteSet(M) /\ IsFiniteSet(L)
  <2>1. L \subseteq low..(l - 1) /\ M \subseteq low..l /\ IsFiniteSet(low..l)
    <3>1. l + 1 - 1 = l /\ low..(l - 1) \subseteq low..l
      BY <1>2
    <3>2. IsFiniteSet(low..l)
      BY <1>2, FS_Interval
    <3> QED BY <3>1, <3>2 DEF Lacking
  <2>2. IsFiniteSet(M)
    BY <2>1, FS_Subset
  <2>3. low..(l + 1 - 1) = low..l /\ low..(l - 1) = (low..l) \ {l} /\ l \in low..l
    BY <1>2
  <2>4. L = M \ {l} /\ (l \in M <=> e \notin DOMAIN tab)
    BY <2>3 DEF Lacking
  <2> HIDE DEF L, M
  <2> QED BY <2>2, <2>4, FS_Subset
<1> HIDE DEF L, M
<1>7. CASE e \in DOMAIN tab
  <2>1. k = m
    BY <1>1, <1>2, <1>3, <1>4, <1>7, NextTableSound
  <2>2. L = M
    BY <1>6, <1>7
  <2>3. DOMAIN u = DOMAIN tab \cup {Id(p, j) : j \in (l + 1)..Levels}
    BY <1>1, <1>5, <1>7
  <2> QED BY <1>1, <2>1, <2>2, <2>3 DEF Down, L
<1>8. CASE e \notin DOMAIN tab
  <2>1. Cardinality(M) = Cardinality(L) + 1 /\ Cardinality(L) \in Nat
    <3>1. M = L \cup {l} /\ l \notin L
      BY <1>6, <1>8
    <3> QED BY <1>6, <3>1, FS_AddElement, FS_CardinalityType
  <2>2. CanAllocate(m, t, LogPage)
    <3>1. PICK D : Store(m, D)
      BY <1>1 DEF Whole
    <3>2. Cardinality(M) \in Nat \ {0}
      BY <2>1
    <3> QED BY <1>1, <3>1, <3>2, EnoughOne
  <2>3. Grown(m, u, val, rest, e, RootId, 0, t, k)
    BY <1>1, <1>2, <1>3, <1>4, <1>8, <2>2, NextTableSound
  <2> HIDE DEF k, e
  <2>4. PICK a : /\ Whole(k, Put(u, e, a), val, RootId, 0, rest)
                 /\ \A i \in Nat : EnoughCells(m, t, i + 1) => EnoughCells(k, t, i)
    BY <2>3 DEF Grown
  <2>5. DOMAIN Put(u, e, a) = DOMAIN tab \cup {Id(p, j) : j \in (l + 1)..Levels}
    <3>1. DOMAIN Put(u, e, a) = DOMAIN u \cup {e}
      BY DEF Put
    <3> QED BY <1>1, <1>5, <3>1
  <2>6. EnoughCells(k, t, Cardinality(L))
    BY <1>1, <2>1, <2>4
  <2> QED BY <2>4, <2>5, <2>6 DEF Down, L, k
<1> QED BY <1>7, <1>8

\* The way down to a level, from the root
LEMMA DownSound ==
  ASSUME NEW m, NEW tab, NEW val, NEW rest, Whole(m, tab, val, RootId, 0, rest),
         NEW p \in Mapped, NEW low \in 1..(Levels - 1), NEW t \in Threads,
         EnoughCells(m, t, Cardinality(Missing(m, <<p, low>>))),
         \A j \in (low + 1)..Levels : Id(p, j) \notin DOMAIN val
  PROVE  Down(tab, val, rest, p, low, t, low, Downward(m, t, <<p, low>>)[low])
<1> DEFINE at == Downward(m, t, <<p, low>>)
           Good(j) == Down(tab, val, rest, p, low, t, Levels - j, at[Levels - j])
           T == {j \in 0..(Levels - low) : ~Good(j)}
<1>1. Levels \in Nat /\ low \in Nat /\ low <= Levels /\ low \in 1..Levels
  BY Spans
<1>2. at = [l \in low..Levels |-> IF l = Levels THEN m ELSE NextTable(at[l + 1], t, p, l)]
  <2> DEFINE q == <<p, low>>
  <2>1. q[2] = low /\ q[1] = p
    OBVIOUS
  <2> DEFINE f == Downward(m, t, q)
  <2> HIDE DEF q
  <2>2. f = [l \in q[2]..Levels |-> IF l = Levels THEN m ELSE NextTable(f[l + 1], t, q[1], l)]
    BY <1>1, <2>1, DownwardUnfold
  <2> HIDE DEF f
  <2>3. f = [l \in low..Levels |-> IF l = Levels THEN m ELSE NextTable(f[l + 1], t, p, l)]
    BY <2>1, <2>2
  <2> QED BY <2>3 DEF f, q
<1>3. PICK D : Store(m, D) /\ Tree(m.mem, tab, val, RootId, 0) /\ Held(D) = TableTiles(tab) \cup rest
           /\ TablesAligned(tab)
  BY DEF Whole
<1>4. RootId \in DOMAIN tab
  BY <1>3 DEF Tree, Layout
<1>5. Missing(m, <<p, low>>) = Lacking(tab, p, low, Levels)
  <2>1. \A l \in low..(Levels - 1) : IsTable(m.mem[Walk(m, p)[l + 1]]) <=> Id(p, l + 1) \in DOMAIN tab
    <3> SUFFICES ASSUME NEW l \in low..(Levels - 1)
                 PROVE  IsTable(m.mem[Walk(m, p)[l + 1]]) <=> Id(p, l + 1) \in DOMAIN tab
      OBVIOUS
    <3>1. l + 1 \in 1..Levels
      BY <1>1
    <3> QED BY <1>3, <3>1, WalkShows
  <2> QED BY <2>1 DEF Missing, Lacking
<1> HIDE DEF at
<1>6. ASSUME T # {} PROVE FALSE
  <2>1. PICK j \in T : \A i \in T : j <= i
    <3>1. T \in SUBSET Nat
      BY <1>1
    <3> QED BY <1>6, <3>1, NatMin
  <2> HIDE DEF Good
  <2>2. CASE j = 0
    <3>1. Levels - j = Levels /\ at[Levels] = m
      BY <1>1, <1>2, <2>2
    <3>2. {Id(p, i) : i \in (Levels + 1)..Levels} = {}
      <4>1. (Levels + 1)..Levels = {}
        BY <1>1
      <4> QED BY <4>1
    <3>3. DOMAIN tab = DOMAIN tab \cup {Id(p, i) : i \in (Levels + 1)..Levels}
      BY <3>2
    <3>4. Good(j)
      BY <1>5, <3>1, <3>3 DEF Down, Good
    <3> QED BY <2>1, <3>4
  <2>3. CASE j # 0
    <3> DEFINE l == Levels - j
    <3>1. j - 1 \in 0..(Levels - low) /\ j - 1 \notin T /\ Levels - (j - 1) = l + 1
          /\ l \in low..(Levels - 1) /\ l \in low..Levels /\ l # Levels /\ l + 1 \in (low + 1)..Levels
      BY <1>1, <2>1, <2>3
    <3>2. Good(j - 1)
      BY <3>1
    <3>3. at[l] = NextTable(at[l + 1], t, p, l)
      <4> HIDE DEF l
      <4> QED BY <1>2, <3>1
    <3> HIDE DEF l
    <3>4. Down(tab, val, rest, p, low, t, l + 1, at[l + 1])
      BY <3>1, <3>2 DEF Good
    <3>5. Id(p, l + 1) \notin DOMAIN val
      BY <3>1
    <3>6. Down(tab, val, rest, p, low, t, l, at[l])
      BY <1>4, <3>1, <3>3, <3>4, <3>5, DownOne
    <3>7. Good(j)
      BY <3>6 DEF Good, l
    <3> QED BY <2>1, <3>7
  <2> QED BY <2>2, <2>3
<1>7. Levels - low \in 0..(Levels - low) /\ Levels - (Levels - low) = low
  BY <1>1
<1>8. Good(Levels - low)
  <2> HIDE DEF Good
  <2> QED BY <1>6, <1>7
<1> QED BY <1>7, <1>8 DEF at

\* With a page there is more of: what the tables and pages are afterwards
Inserted(tab, val, rest, p, low, v, k) ==
  \E u : /\ Whole(k, u, Put(val, Id(p, low), v), RootId, 0, rest)
         /\ DOMAIN u = DOMAIN tab \cup {Id(p, j) : j \in (low + 1)..Levels}

\* insert_one_page adds its entry and the tables it needs, with all counts exact.
LEMMA InsertSound ==
  ASSUME NEW m, NEW tab, NEW val, NEW rest, Whole(m, tab, val, RootId, 0, rest),
         NEW p \in Mapped, NEW low \in 1..(Levels - 1), NEW t \in Threads,
         EnoughCells(m, t, Cardinality(Missing(m, <<p, low>>))),
         \A j \in low..Levels : Id(p, j) \notin DOMAIN val, Id(p, low) \notin DOMAIN tab
  PROVE  Inserted(tab, val, rest, p, low, NoMeta, InsertOnePage(m, t, <<p, low>>))
<1> DEFINE n == Downward(m, t, <<p, low>>)[low]
           e == Id(p, low)
           x == Id(p, low + 1)
           k == InsertOnePage(m, t, <<p, low>>)
           slot == Walk(n, p)
           y == Wrote(n, slot[low], PageEntry(NoMeta))
<1>1. Levels \in Nat /\ low \in Nat /\ low \in 1..Levels /\ low + 1 \in 1..Levels /\ low >= 1 /\ low < Levels
      /\ low + 1 \in (low + 1)..Levels /\ low + 1 \in 1..(Levels + 1) /\ low + 1 + 1 \in (low + 1)..(Levels + 1)
  BY Spans
<1>2. k = DeltaEntries(y, slot[low + 1], 1)
  BY DEF InsertOnePage, Wrote
<1>3. Down(tab, val, rest, p, low, t, low, n)
  <2>1. \A j \in (low + 1)..Levels : Id(p, j) \notin DOMAIN val
    BY <1>1
  <2> QED BY <2>1, DownSound
<1> HIDE DEF n, k
<1>4. PICK u : /\ Whole(n, u, val, RootId, 0, rest)
               /\ DOMAIN u = DOMAIN tab \cup {Id(p, j) : j \in (low + 1)..Levels}
  BY <1>3 DEF Down
<1>5. PICK D : Store(n, D) /\ Tree(n.mem, u, val, RootId, 0) /\ Held(D) = TableTiles(u) \cup rest
           /\ TablesAligned(u)
  BY <1>4 DEF Whole
<1>6. Layout(u) /\ x \in DOMAIN u
  BY <1>1, <1>4, <1>5 DEF Tree
<1>7. Id(p, low + 1 + 1) \in DOMAIN u
  BY <1>1, <1>6, TablesAbove
<1>8. slot[low] = Slot(u, e) /\ slot[low + 1] = Slot(u, x)
  BY <1>1, <1>5, <1>6, <1>7, WalkTo
<1>9. e \in InTable(u) /\ Up(e) = x /\ e[1] = low
  BY <1>1, <1>6, IdInTable
<1>10. x # RootId
  <2>1. x[1] = low + 1
    BY DEF Id
  <2> QED BY <1>1, <2>1 DEF RootId
<1>11. e \notin DOMAIN u /\ e \notin DOMAIN val
  <2>1. \A j \in (low + 1)..Levels : Id(p, j) # e
    <3> SUFFICES ASSUME NEW j \in (low + 1)..Levels PROVE Id(p, j)[1] # e[1]
      OBVIOUS
    <3> QED BY <1>1 DEF Id
  <2>2. e \notin DOMAIN val
    <3>1. low \in low..Levels
      BY <1>1
    <3> QED BY <3>1
  <2>3. e \notin DOMAIN tab
    OBVIOUS
  <2> HIDE DEF e
  <2> QED BY <1>4, <2>1, <2>2, <2>3
<1> HIDE DEF slot, y
<1> DEFINE z == Put(val, e, NoMeta)
<1>12. /\ Store(y, D) /\ Same(n, y) /\ y.mem \in [Words -> Entries]
       /\ y.mem[Slot(u, e)] = PageEntry(NoMeta) /\ Agree(n.mem, y.mem, u, e)
  <2>1. PageEntry(NoMeta) \in Entries
    BY DEF PageEntry, NoMeta, Entries
  <2>2. y = Wrote(n, Slot(u, e), PageEntry(NoMeta)) /\ TableTiles(u) \subseteq Held(D)
    BY <1>5, <1>8 DEF y
  <2> HIDE DEF e
  <2> QED BY <1>5, <1>6, <1>9, <2>1, <2>2, EntrySet
<1> HIDE DEF e, x
<1>13. Tree(y.mem, u, z, x, -1)
  BY <1>1, <1>5, <1>9, <1>11, <1>12, PageAdded
<1>14. Whole(y, u, z, x, -1, rest)
  BY <1>5, <1>12, <1>13 DEF Whole
<1>15. Whole(k, u, z, RootId, 0, rest)
  <2>1. -1 \in Int /\ 1 \in Int /\ -1 + 1 = 0
    OBVIOUS
  <2> HIDE DEF z
  <2> QED BY <1>2, <1>6, <1>8, <1>10, <1>14, <2>1, CountSound
<1> QED BY <1>4, <1>15 DEF Inserted, k, e

\* The value of a page of the smallest size is set.
LEMMA SetMetaSound ==
  ASSUME NEW m, NEW tab, NEW val, NEW rest, NEW p \in Mapped, NEW w, NEW v \in Values,
         Inserted(tab, val, rest, p, 1, w, m)
  PROVE  Inserted(tab, val, rest, p, 1, v, SetPointerMeta(m, p, v))
<1> DEFINE e == Id(p, 1)
           k == SetPointerMeta(m, p, v)
           z == Put(val, e, w)
<1>0. Levels \in Nat /\ 1 \in 1..Levels /\ 1 + 1 = 2 /\ 2 \in 2..Levels
  BY Spans
<1>1. PICK u : /\ Whole(m, u, z, RootId, 0, rest)
               /\ DOMAIN u = DOMAIN tab \cup {Id(p, j) : j \in 2..Levels}
  BY <1>0 DEF Inserted
<1>2. PICK D : Store(m, D) /\ Tree(m.mem, u, z, RootId, 0) /\ Held(D) = TableTiles(u) \cup rest
           /\ TablesAligned(u)
  BY <1>1 DEF Whole
<1>3. Id(p, 1 + 1) \in DOMAIN u /\ Layout(u)
  BY <1>0, <1>1, <1>2 DEF Tree
<1>4. Walk(m, p)[1] = Slot(u, e)
  <2> HIDE DEF z
  <2> QED BY <1>0, <1>2, <1>3, WalkTo
<1>5. e \in InTable(u)
  BY <1>0, <1>3, IdInTable
<1>6. e \in DOMAIN z /\ z[e] = w /\ e \notin DOMAIN u
  <2>1. e \in DOMAIN z /\ z[e] = w
    BY DEF Put
  <2> QED BY <1>2, <2>1 DEF Tree
<1>7. m.mem[Slot(u, e)] = PageEntry(w)
  BY <1>2, <1>5, <1>6 DEF Tree, Entry
<1>8. k = Wrote(m, Slot(u, e), PageEntry(v))
  <2>1. [m.mem[Slot(u, e)] EXCEPT ![2] = v] = PageEntry(v)
    BY <1>7 DEF PageEntry
  <2>2. k = [m EXCEPT !.mem[Slot(u, e)] = [m.mem[Slot(u, e)] EXCEPT ![2] = v]]
    BY <1>4 DEF SetPointerMeta
  <2> QED BY <2>1, <2>2 DEF Wrote
<1> HIDE DEF k
<1>9. /\ Store(k, D) /\ k.mem \in [Words -> Entries]
      /\ k.mem[Slot(u, e)] = PageEntry(v) /\ Agree(m.mem, k.mem, u, e)
  <2>1. PageEntry(v) \in Entries
    BY DEF PageEntry, Entries
  <2>2. TableTiles(u) \subseteq Held(D)
    BY <1>2
  <2> HIDE DEF e
  <2> QED BY <1>2, <1>3, <1>5, <1>8, <2>1, <2>2, EntrySet
<1>10. Tree(k.mem, u, Put(z, e, v), RootId, 0)
  <2> HIDE DEF z, e
  <2> QED BY <1>2, <1>6, <1>9, PageChanged
<1>11. Put(z, e, v) = Put(val, e, v)
  BY DEF Put
<1>12. Whole(k, u, Put(val, e, v), RootId, 0, rest)
  <2> HIDE DEF z
  <2> QED BY <1>2, <1>9, <1>10, <1>11 DEF Whole
<1> QED BY <1>0, <1>1, <1>12 DEF Inserted, k
----------------------------------------------------------------------------
\* delete_pages, one table after the other

NoTables(rest) == \A d \in rest : d[1][1] # "table"

\* A table that is empty is given back.
LEMMA ClearSound ==
  ASSUME NEW m, NEW tab, NEW val, NEW rest, NEW e \in DOMAIN tab, e # RootId,
         Whole(m, tab, val, e, 1, rest), NoTables(rest), NEW t \in Threads,
         NEW n, n = DeltaEntries(m, Slot(tab, e), -1), UsedIn(n.mem, tab[e]) = 0
  PROVE  Whole(ClearTable(n, t, Slot(tab, e)), Drop(tab, e), val, Up(e), 1, rest)
<1> DEFINE s == Slot(tab, e)
           a == tab[e]
           h == <<"table", e>>
           d == TableTile(tab, e)
           y == PushCell(n, t, a, LogPage)
           k == Wrote(y, s, Empty)
           z == Drop(tab, e)
<1>1. Tree(m.mem, tab, val, e, 1) /\ Layout(tab) /\ e \in InTable(tab)
  <2>1. Tree(m.mem, tab, val, e, 1)
    BY DEF Whole
  <2> QED BY <2>1 DEF Tree, Layout, InTable
<1>2. Whole(n, tab, val, RootId, 0, rest) /\ n.mem[s] = TableEntry(a, UsedIn(n.mem, a))
  <2>1. 1 \in Int /\ -1 \in Int /\ 1 + -1 = 0
    OBVIOUS
  <2> QED BY <2>1, CountSound
<1>3. \A w \in Words \ {s} : n.mem[w] = m.mem[w]
  <2>1. m.mem \in [Words -> Entries]
    BY <1>1 DEF Tree
  <2>2. n = [m EXCEPT !.mem[s] = [m.mem[s] EXCEPT ![3] = @ + -1]]
    BY DEF DeltaEntries
  <2>3. m \in Metas
    BY DEF Whole, Store
  <2> QED BY <2>1, <2>2, <2>3 DEF Metas
<1> HIDE DEF s
<1>4. PICK D : /\ Store(n, D) /\ Tree(n.mem, tab, val, RootId, 0)
               /\ Held(D) = TableTiles(tab) \cup rest /\ TablesAligned(tab)
  BY <1>2 DEF Whole
<1>5. LogPage \in CellClasses /\ PageWords = 2^LogPage /\ PageWords \in Nat \ {0}
  BY Sizes DEF CellClasses
<1>6. d = <<h, a, 2^LogPage>> /\ d \in D /\ Aligned(a, LogPage) /\ h[1] # "free" /\ d \in TableTiles(tab)
      /\ a \in Nat /\ Area(d) = TableWords(tab, e) /\ a \in Area(d)
  <2>1. d \in TableTiles(tab)
    BY DEF TableTiles
  <2>2. d \in D
    BY <1>4, <2>1 DEF Held
  <2>3. a \in Nat
    BY <1>1, TreeUsed
  <2>4. a \in Area(d) /\ Area(d) = TableWords(tab, e)
    BY <1>5, <2>3 DEF TableTile, Area, TableWords
  <2> QED BY <1>4, <1>5, <2>1, <2>2, <2>3, <2>4 DEF TableTile, TablesAligned
<1>7. Pushed(n, D, t, LogPage, h, a, y)
  <2>1. <<h, a, 2^LogPage>> \in D
    BY <1>6
  <2> HIDE DEF h, a
  <2> QED BY <1>4, <1>5, <1>6, <2>1, PushSound
<1> HIDE DEF y
<1>8. PICK E : /\ Store(y, E) /\ Held(E) = Held(D) \ {d}
               /\ \A w \in Words \ {a} : y.mem[w] = n.mem[w]
  BY <1>6, <1>7 DEF Pushed
<1>9. s \in TableWords(tab, Up(e)) /\ s \in Words /\ Up(e) \in DOMAIN tab /\ Up(e) # e
  <2>1. s \in TableWords(tab, Up(e)) /\ s \in Words /\ Up(e) \in DOMAIN tab /\ e[1] \in Nat
    BY <1>1, Slots1 DEF s
  <2>2. Up(e)[1] = e[1] + 1
    BY DEF Up
  <2> QED BY <2>1, <2>2
<1>10. \A f \in DOMAIN tab : f # e => TableWords(tab, f) \cap TableWords(tab, e) = {}
  BY <1>1 DEF Layout
<1>11. TableTiles(tab) \subseteq Held(D)
  BY <1>4
<1>12. Kept(E, s)
  <2>1. /\ Kept(D, s) /\ s \in Words
        /\ Up(e) # RootId => s \in Area(TableTile(tab, Up(e))) /\ TableTile(tab, Up(e)) \in Held(D)
    BY <1>1, <1>4, <1>9, <1>11, TablesKept
  <2>2. CASE Up(e) = RootId
    <3>1. s \in 0..(0 + PageWords - 1)
      BY <1>1, <1>9, <2>2 DEF Layout, TableWords, Root
    <3>2. s < PageWords
      BY <1>5, <3>1
    <3> QED BY <3>2 DEF Kept
  <2>3. CASE Up(e) # RootId
    <3>1. TableTile(tab, Up(e)) # d
      BY <1>9 DEF TableTile
    <3> QED BY <1>8, <2>1, <2>3, <3>1 DEF Kept
  <2> QED BY <2>2, <2>3
<1>13. /\ k \in Metas /\ k.lists = y.lists /\ k.mapped = y.mapped /\ k.committed = y.committed
       /\ k.mem[s] = Empty /\ \A w \in Words \ {s} : k.mem[w] = y.mem[w]
       /\ k.mem \in [Words -> Entries]
  <2>1. Empty \in Entries
    BY DEF Empty, Entries
  <2>2. y \in Metas
    BY <1>8 DEF Store
  <2> QED BY <1>9, <2>1, <2>2, WriteFields
<1>14. ClearTable(n, t, s) = k
  <2>1. n.mem[s][2] = a
    BY <1>2 DEF TableEntry
  <2> QED BY <2>1 DEF ClearTable, Wrote, y
<1> HIDE DEF k, d
<1>15. Store(k, E)
  <2>1. \A w \in Words : ~Kept(E, w) => k.mem[w] = y.mem[w]
    BY <1>12, <1>13
  <2> QED BY <1>8, <1>13, <2>1, WriteSound
<1>16. Tree(k.mem, z, val, Up(e), 1)
  <2>1. UsedIn(m.mem, tab[e]) = 0
    <3>1. \A b \in a..(a + PageWords - 1) : n.mem[b] = m.mem[b]
      <4> SUFFICES ASSUME NEW b \in TableWords(tab, e) PROVE b \in Words \ {s}
        BY <1>3 DEF TableWords
      <4>1. b \in Words
        BY <1>1 DEF Layout
      <4>2. s \notin TableWords(tab, e)
        BY <1>9, <1>10
      <4> QED BY <4>1, <4>2
    <3> QED BY <3>1, UsedSame
  <2>2. \A f \in DOMAIN tab : f # e => \A b \in TableWords(tab, f) : b # Slot(tab, e) => k.mem[b] = m.mem[b]
    <3> SUFFICES ASSUME NEW f \in DOMAIN tab, f # e, NEW b \in TableWords(tab, f), b # s
                 PROVE  k.mem[b] = m.mem[b]
      BY DEF s
    <3>1. b \in Words
      BY <1>1 DEF Layout
    <3>2. b # a
      BY <1>6, <1>10
    <3> QED BY <1>3, <1>8, <1>13, <3>1, <3>2
  <2>3. k.mem[Slot(tab, e)] = Empty
    BY <1>13 DEF s
  <2> QED BY <1>1, <1>13, <2>1, <2>2, <2>3, TableGone
<1>17. Held(E) = TableTiles(z) \cup rest /\ TablesAligned(z)
  <2>1. DOMAIN z = DOMAIN tab \ {e} /\ \A f \in DOMAIN z : z[f] = tab[f]
    BY DEF Drop
  <2>2. TablesAligned(z)
    BY <1>4, <2>1 DEF TablesAligned
  <2>3. d \notin rest
    <3>1. d[1][1] = "table"
      BY DEF d, TableTile
    <3> QED BY <3>1 DEF NoTables
  <2>4. TableTiles(z) = TableTiles(tab) \ {d}
    <3>1. \A f \in DOMAIN z : TableTile(z, f) = TableTile(tab, f)
      BY <2>1 DEF TableTile
    <3>2. \A f \in DOMAIN tab : TableTile(tab, f) = d => f = e
      BY DEF d, TableTile
    <3> HIDE DEF z
    <3> QED BY <2>1, <3>1, <3>2 DEF TableTiles, d
  <2> HIDE DEF z
  <2> QED BY <1>4, <1>8, <2>2, <2>3, <2>4
<1>18. Whole(k, z, val, Up(e), 1, rest)
  BY <1>15, <1>16, <1>17 DEF Whole
<1> QED BY <1>14, <1>18 DEF s

\* Pages with the same number have the same numbers further up.
LEMMA IdAbove ==
  ASSUME NEW p \in Nat, NEW r \in Nat, NEW l \in Nat \ {0}, Id(p, l) = Id(r, l), NEW j \in Nat, l <= j
  PROVE  Id(p, j) = Id(r, j)
<1> DEFINE T == {i \in Nat : l <= i /\ Id(p, i) # Id(r, i)}
<1>1. ASSUME T # {} PROVE FALSE
  <2>1. PICK i \in T : \A k \in T : i <= k
    <3>1. T \in SUBSET Nat
      OBVIOUS
    <3> QED BY <1>1, <3>1, NatMin
  <2>2. i \in Nat /\ i - 1 \in Nat \ {0} /\ l <= i - 1 /\ i - 1 \notin T /\ i - 1 + 1 = i
    <3>1. i # l /\ i \in Nat /\ l <= i
      BY <2>1
    <3>2. i - 1 \in Nat \ {0} /\ l <= i - 1 /\ i - 1 + 1 = i
      BY <3>1
    <3>3. i - 1 \notin T
      <4> HIDE DEF T
      <4>1. ~(i <= i - 1)
        BY <3>1
      <4> QED BY <2>1, <4>1
    <3> QED BY <3>1, <3>2, <3>3
  <2>3. Id(p, i - 1) = Id(r, i - 1)
    BY <2>2
  <2>4. Id(p, i) = Up(Id(p, i - 1)) /\ Id(r, i) = Up(Id(r, i - 1))
    BY <2>2, IdUp
  <2>5. Id(p, i) = Id(r, i)
    BY <2>3, <2>4
  <2> QED BY <2>1, <2>5
<1> QED BY <1>1

\* Tables count their tables and pages.
LEMMA UsedMeans ==
  ASSUME NEW w, NEW tab, NEW val, NEW x, NEW n, Tree(w, tab, val, x, n), NEW e \in DOMAIN tab
  PROVE  UsedIn(w, tab[e]) = 0 <=>
           \A g \in InTable(tab) : Up(g) = e => g \notin DOMAIN tab /\ g \notin DOMAIN val
<1>1. Layout(tab) /\ tab[e] \in Nat /\ \A g \in InTable(tab) : w[Slot(tab, g)] = Entry(w, tab, val, x, n, g)
  BY TreeUsed DEF Tree
<1>2. UsedIn(w, tab[e]) = 0 <=> \A b \in TableWords(tab, e) : w[b] = Empty
  BY <1>1, UsedNat DEF TableWords
<1>3. ASSUME NEW g \in InTable(tab)
      PROVE  w[Slot(tab, g)] = Empty <=> g \notin DOMAIN tab /\ g \notin DOMAIN val
  BY <1>1, EntryKinds DEF Entry
<1>4. ASSUME \A g \in InTable(tab) : Up(g) = e => g \notin DOMAIN tab /\ g \notin DOMAIN val,
             NEW b \in TableWords(tab, e)
      PROVE  w[b] = Empty
  <2>1. PICK g \in InTable(tab) : Up(g) = e /\ Slot(tab, g) = b
    BY <1>1, SlotsAll
  <2> QED BY <1>3, <1>4, <2>1
<1>5. ASSUME \A b \in TableWords(tab, e) : w[b] = Empty, NEW g \in InTable(tab), Up(g) = e
      PROVE  g \notin DOMAIN tab /\ g \notin DOMAIN val
  <2>1. Slot(tab, g) \in TableWords(tab, e)
    BY <1>1, <1>5, Slots1
  <2> QED BY <1>3, <1>5, <2>1
<1> QED BY <1>2, <1>4, <1>5

\* The pages above the one at p, from level l on
Path(p, l) == {Id(p, j) : j \in l..Levels}

\* A table has entries if it is above a page, and then so are those above it.
LEMMA NodeUsed ==
  ASSUME NEW w, NEW tab, NEW val, NEW x, NEW n, Tree(w, tab, val, x, n),
         NEW ins, \A q \in ins : IsPageId(q), DOMAIN val = Leaves(ins),
         NEW p \in Mapped, NEW l \in 2..Levels, DOMAIN tab = Nodes(ins) \cup Path(p, l)
  PROVE  /\ Id(p, l) \in DOMAIN tab /\ Id(p, l) # RootId
         /\ UsedIn(w, tab[Id(p, l)]) # 0 => DOMAIN tab = Nodes(ins)
         /\ UsedIn(w, tab[Id(p, l)]) = 0 => DOMAIN tab \ {Id(p, l)} = Nodes(ins) \cup Path(p, l + 1)
<1> DEFINE e == Id(p, l)
<1>1. Levels \in Nat /\ l \in Nat \ {0} /\ l \in l..Levels /\ p \in Nat /\ e[1] = l /\ RootId[1] = Levels + 1
      /\ l # Levels + 1 /\ l - 1 \in Nat \ {0} /\ l - 1 + 1 = l
  BY Spans, IdTop DEF Id, RootId
<1>2. e \in DOMAIN tab /\ e # RootId
  BY <1>1 DEF Path
<1>3. \A j \in l..Levels : Id(p, j)[1] = j
  BY DEF Id
<1>4. Path(p, l) = Path(p, l + 1) \cup {e} /\ e \notin Path(p, l + 1)
  <2>1. l..Levels = ((l + 1)..Levels) \cup {l}
    BY <1>1
  <2>2. \A j \in (l + 1)..Levels : Id(p, j) # e
    <3> SUFFICES ASSUME NEW j \in (l + 1)..Levels PROVE Id(p, j)[1] # e[1]
      OBVIOUS
    <3> QED BY <1>1 DEF Id
  <2> QED BY <2>1, <2>2 DEF Path
<1>5. ASSUME e \in Nodes(ins) PROVE Path(p, l) \subseteq Nodes(ins)
  <2>1. PICK q, i : q \in ins /\ i \in (q[2] + 1)..Levels /\ e = Id(q[1], i)
    BY <1>2, <1>5 DEF Nodes
  <2>2. q[1] \in Nat /\ q[2] \in Nat
    BY <2>1, PageFacts
  <2>3. i = l
    <3>1. Id(q[1], i)[1] = i
      BY DEF Id
    <3> QED BY <1>1, <2>1, <3>1
  <2>4. ASSUME NEW j \in l..Levels PROVE Id(p, j) \in Nodes(ins)
    <3>1. Id(p, j) = Id(q[1], j)
      BY <1>1, <2>1, <2>2, <2>3, IdAbove
    <3>2. j \in (q[2] + 1)..Levels
      BY <1>1, <2>1, <2>2, <2>3
    <3> QED BY <2>1, <3>1, <3>2 DEF Nodes
  <2> QED BY <2>4 DEF Path
<1>6. UsedIn(w, tab[e]) = 0 <=>
        \A g \in InTable(tab) : Up(g) = e => g \notin DOMAIN tab /\ g \notin DOMAIN val
  BY <1>2, UsedMeans
<1>7. ASSUME UsedIn(w, tab[e]) # 0 PROVE e \in Nodes(ins)
  <2>1. PICK g \in InTable(tab) : Up(g) = e /\ (g \in DOMAIN tab \/ g \in DOMAIN val)
    BY <1>6, <1>7
  <2>2. g[1] = l - 1
    <3>1. Up(g)[1] = g[1] + 1 /\ g[1] \in Nat
      BY DEF Up, InTable
    <3> QED BY <1>1, <2>1, <3>1
  <2>3. g # RootId /\ g \notin Path(p, l)
    <3>1. g[1] # Levels + 1 /\ \A j \in l..Levels : g[1] # j
      BY <1>1, <2>2
    <3> QED BY <1>1, <1>3, <3>1 DEF Path
  <2>4. PICK q, i : q \in ins /\ i \in q[2]..Levels /\ g = Id(q[1], i)
    <3>1. CASE g \in DOMAIN tab
      <4>1. PICK q, i : q \in ins /\ i \in (q[2] + 1)..Levels /\ g = Id(q[1], i)
        BY <2>3, <3>1 DEF Nodes
      <4>2. q[2] \in Nat
        BY <4>1, PageFacts
      <4>3. i \in q[2]..Levels
        BY <1>1, <4>1, <4>2
      <4> QED BY <4>1, <4>3
    <3>2. CASE g \in DOMAIN val
      <4>1. PICK q \in ins : g = Id(q[1], q[2])
        BY <3>2 DEF Leaves
      <4>2. q[2] \in 1..(Levels - 1)
        BY PageFacts
      <4>3. q[2] \in q[2]..Levels
        BY <1>1, <4>2
      <4> QED BY <4>1, <4>3
    <3> QED BY <2>1, <3>1, <3>2
  <2>5. q[1] \in Nat /\ q[2] \in Nat \ {0}
    BY <2>4, PageFacts
  <2>6. i = l - 1 /\ i + 1 = l /\ i \in Nat \ {0} /\ l \in (q[2] + 1)..Levels
    <3>1. g[1] = i
      BY <2>4 DEF Id
    <3>2. i = l - 1
      BY <2>2, <3>1
    <3> QED BY <1>1, <2>4, <2>5, <3>2
  <2>7. e = Id(q[1], l)
    <3>1. Id(q[1], i + 1) = Up(Id(q[1], i))
      BY <2>5, <2>6, IdUp
    <3> QED BY <2>1, <2>4, <2>6, <3>1
  <2> QED BY <2>4, <2>6, <2>7 DEF Nodes
<1>8. ASSUME e \in Nodes(ins) PROVE UsedIn(w, tab[e]) # 0
  <2>1. PICK q, i : q \in ins /\ i \in (q[2] + 1)..Levels /\ e = Id(q[1], i)
    BY <1>2, <1>8 DEF Nodes
  <2>2. q[1] \in Nat /\ q[2] \in Nat \ {0}
    BY <2>1, PageFacts
  <2>3. i = l
    <3>1. Id(q[1], i)[1] = i
      BY DEF Id
    <3> QED BY <1>1, <2>1, <3>1
  <2> DEFINE g == Id(q[1], l - 1)
  <2>4. Up(g) = e /\ g[1] = l - 1 /\ g = <<l - 1, g[2]>> /\ g[2] \in Nat
    <3> DEFINE j == l - 1
    <3>1. j \in Nat \ {0} /\ j + 1 = l /\ q[1] \in Nat /\ e = Id(q[1], l)
      BY <1>1, <2>1, <2>2, <2>3
    <3> HIDE DEF j, e
    <3>2. Id(q[1], j + 1) = Up(Id(q[1], j)) /\ Id(q[1], j) = <<j, Id(q[1], j)[2]>> /\ Id(q[1], j)[1] = j
          /\ Id(q[1], j)[2] \in Nat
      BY <3>1, IdUp
    <3> QED BY <3>1, <3>2 DEF j
  <2>5. g \in InTable(tab)
    <3>1. l - 1 \in 1..Levels
      BY <1>1
    <3> HIDE DEF g
    <3> QED BY <1>2, <2>4, <3>1 DEF InTable
  <2>6. g \in DOMAIN tab \/ g \in DOMAIN val
    <3>1. CASE l - 1 = q[2]
      BY <2>1, <3>1 DEF Leaves
    <3>2. CASE l - 1 # q[2]
      <4>1. l - 1 \in (q[2] + 1)..Levels
        BY <1>1, <2>1, <2>2, <2>3, <3>2
      <4> QED BY <2>1, <4>1 DEF Nodes
    <3> QED BY <3>1, <3>2
  <2> HIDE DEF g
  <2> QED BY <1>6, <2>4, <2>5, <2>6
<1> HIDE DEF e
<1>9. UsedIn(w, tab[e]) # 0 => DOMAIN tab = Nodes(ins)
  BY <1>5, <1>7
<1>10. UsedIn(w, tab[e]) = 0 => DOMAIN tab \ {e} = Nodes(ins) \cup Path(p, l + 1)
  BY <1>4, <1>8
<1> QED BY <1>2, <1>9, <1>10 DEF e

\* What going up to level l leaves behind, with a page less: x
Dying(ins, val, rest, tab, p, l, x) ==
  \E u : /\ \A f \in DOMAIN u : f \in DOMAIN tab /\ u[f] = tab[f]
         /\ IF x.dead THEN /\ Whole(x.meta, u, val, Id(p, l + 1), 1, rest)
                           /\ DOMAIN u = Nodes(ins) \cup Path(p, l + 1)
                      ELSE /\ Whole(x.meta, u, val, RootId, 0, rest)
                           /\ DOMAIN u = Nodes(ins)

\* One level on the way up: a table that has just lost its last entry is cleared.
LEMMA UpOne ==
  ASSUME NEW ins, \A q \in ins : IsPageId(q), NEW val, DOMAIN val = Leaves(ins), NEW tab,
         NEW rest, NoTables(rest), NEW p \in Mapped, NEW l \in 2..Levels, NEW t \in Threads,
         NEW x, Dying(ins, val, rest, tab, p, l - 1, x)
  PROVE  Dying(ins, val, rest, tab, p, l, Decrease(x, t, Slot(tab, Id(p, l))))
<1> DEFINE e == Id(p, l)
           s == Slot(tab, e)
           n == DeltaEntries(x.meta, s, -1)
           busy == n.mem[s][3]
           k == Decrease(x, t, s)
<1>1. Levels \in Nat /\ l - 1 + 1 = l /\ l \in 1..Levels /\ l \in 1..(Levels + 1) /\ l + 1 \in l..(Levels + 1)
  BY Spans
<1>2. PICK u : /\ \A f \in DOMAIN u : f \in DOMAIN tab /\ u[f] = tab[f]
               /\ IF x.dead THEN /\ Whole(x.meta, u, val, e, 1, rest)
                                 /\ DOMAIN u = Nodes(ins) \cup Path(p, l)
                            ELSE /\ Whole(x.meta, u, val, RootId, 0, rest)
                                 /\ DOMAIN u = Nodes(ins)
  BY <1>1 DEF Dying
<1>3. CASE ~x.dead
  <2>1. Decrease(x, t, Slot(tab, Id(p, l))) = x
    BY <1>3 DEF Decrease
  <2>2. /\ Whole(x.meta, u, val, RootId, 0, rest)
        /\ DOMAIN u = Nodes(ins)
    BY <1>2, <1>3
  <2>3. Dying(ins, val, rest, tab, p, l, x)
    BY <1>2, <1>3, <2>2 DEF Dying
  <2> QED BY <2>1, <2>3
<1>4. CASE x.dead
  <2>1. Whole(x.meta, u, val, e, 1, rest) /\ DOMAIN u = Nodes(ins) \cup Path(p, l)
    BY <1>2, <1>4
  <2>2. Tree(x.meta.mem, u, val, e, 1)
    BY <2>1 DEF Whole
  <2>3. Layout(u)
    BY <2>2 DEF Tree
  <2>4. e \in DOMAIN u /\ e # RootId
    BY <2>1, <2>2, NodeUsed
  <2>5. Id(p, l + 1) \in DOMAIN u /\ Up(e) = Id(p, l + 1)
    <3>1. Id(p, l + 1) \in DOMAIN u
      BY <1>1, <2>3, <2>4, TablesAbove
    <3> QED BY <1>1, <3>1, IdInTable
  <2>6. Slot(u, e) = s
    BY <1>2, <2>5 DEF Slot
  <2>7. Whole(n, u, val, RootId, 0, rest) /\ n.mem[s] = TableEntry(u[e], UsedIn(n.mem, u[e]))
    <3>1. 1 \in Int /\ -1 \in Int /\ 1 + -1 = 0
      OBVIOUS
    <3> DEFINE y == DeltaEntries(x.meta, Slot(u, e), -1)
    <3> HIDE DEF s, e
    <3>2. Whole(y, u, val, RootId, 0, rest) /\ y.mem[Slot(u, e)] = TableEntry(u[e], UsedIn(y.mem, u[e]))
      BY <2>1, <2>4, <3>1, CountSound
    <3>3. y = n
      BY <2>6
    <3> HIDE DEF y, n
    <3> QED BY <2>6, <3>2, <3>3
  <2>8. busy = UsedIn(n.mem, u[e])
    BY <2>7 DEF TableEntry
  <2>9. Tree(n.mem, u, val, RootId, 0)
    BY <2>7 DEF Whole
  <2>10. /\ busy # 0 => DOMAIN u = Nodes(ins)
         /\ busy = 0 => DOMAIN u \ {e} = Nodes(ins) \cup Path(p, l + 1)
    <3> HIDE DEF busy, n
    <3> QED BY <2>1, <2>8, <2>9, NodeUsed
  <2>11. k = [meta |-> IF busy = 0 THEN ClearTable(n, t, s) ELSE n, dead |-> busy = 0]
    BY <1>4 DEF Decrease, GoesOn
  <2> HIDE DEF k, busy, n, s, e
  <2>12. CASE busy # 0
    <3>1. k.meta = n /\ ~k.dead
      BY <2>11, <2>12
    <3> QED BY <1>2, <2>7, <2>10, <2>12, <3>1 DEF Dying, k, s, e
  <2>13. CASE busy = 0
    <3> DEFINE z == Drop(u, e)
    <3>1. k.meta = ClearTable(n, t, s) /\ k.dead
      BY <2>11, <2>13
    <3>2. Whole(ClearTable(n, t, s), z, val, Up(e), 1, rest)
      <4>1. n = DeltaEntries(x.meta, s, -1)
        BY DEF n
      <4>2. UsedIn(n.mem, u[e]) = 0
        BY <2>8, <2>13
      <4> QED BY <2>1, <2>4, <2>6, <4>1, <4>2, ClearSound
    <3>3. DOMAIN z = Nodes(ins) \cup Path(p, l + 1) /\ \A f \in DOMAIN z : f \in DOMAIN tab /\ z[f] = tab[f]
      <4>1. DOMAIN z = DOMAIN u \ {e} /\ \A f \in DOMAIN z : z[f] = u[f]
        BY DEF Drop
      <4> HIDE DEF z
      <4> QED BY <1>2, <2>10, <2>13, <4>1
    <3> HIDE DEF z
    <3> QED BY <2>5, <3>1, <3>2, <3>3 DEF Dying, k, s, e
  <2> QED BY <2>12, <2>13
<1> QED BY <1>3, <1>4

\* Without one of the pages: the tables and pages that are left
LEMMA WithoutPage ==
  ASSUME NEW ins, SeparatePages(ins), NEW q \in ins
  PROVE  /\ Nodes(ins) = Nodes(ins \ {q}) \cup Path(q[1], q[2] + 1)
         /\ Leaves(ins) \ {Id(q[1], q[2])} = Leaves(ins \ {q})
         /\ Id(q[1], q[2]) \in Leaves(ins)
<1>1. \A r \in ins : IsPageId(r)
  BY DEF SeparatePages
<1>2. ins = (ins \ {q}) \cup {q}
  OBVIOUS
<1>3. Nodes(ins) = Nodes(ins \ {q}) \cup Path(q[1], q[2] + 1)
  <2> DEFINE N(r) == {Id(r[1], l) : l \in (r[2] + 1)..Levels}
  <2> HIDE DEF N
  <2>1. UNION {N(r) : r \in ins} = (UNION {N(r) : r \in ins \ {q}}) \cup N(q)
    BY <1>2
  <2>2. N(q) = Path(q[1], q[2] + 1)
    BY DEF N, Path
  <2>3. /\ Nodes(ins) = {RootId} \cup UNION {N(r) : r \in ins}
        /\ Nodes(ins \ {q}) = {RootId} \cup UNION {N(r) : r \in ins \ {q}}
    BY DEF Nodes, N
  <2> QED BY <2>1, <2>2, <2>3
<1>4. ASSUME NEW r \in ins, Id(r[1], r[2]) = Id(q[1], q[2]) PROVE r = q
  <2>1. r[2] = q[2]
    BY <1>4 DEF Id
  <2>2. q[1] \in Nat /\ q[1] \in Covered(q)
    BY <1>1, PageFacts
  <2>3. q[1] \in Covered(r)
    <3>1. q[1] \in Covered(r) <=> Id(q[1], r[2]) = Id(r[1], r[2])
      BY <1>1, <2>2, PageFacts
    <3> QED BY <1>4, <2>1, <3>1
  <2> QED BY <2>2, <2>3 DEF SeparatePages
<1>5. Leaves(ins) \ {Id(q[1], q[2])} = Leaves(ins \ {q})
  BY <1>4 DEF Leaves
<1>6. Id(q[1], q[2]) \in Leaves(ins)
  BY DEF Leaves
<1> QED BY <1>3, <1>5, <1>6

\* With a page there is less of: what the tables and pages are afterwards
Deleted(ins, val, rest, q, k) ==
  \E u : /\ Whole(k, u, Drop(val, Id(q[1], q[2])), RootId, 0, rest)
         /\ DOMAIN u = Nodes(ins \ {q})

\* delete_one_page takes away its entry, and just the tables nothing else needs.
LEMMA DeleteSound ==
  ASSUME NEW m, NEW tab, NEW val, NEW rest, Whole(m, tab, val, RootId, 0, rest), NoTables(rest),
         NEW ins, SeparatePages(ins), NEW q \in ins, DOMAIN tab = Nodes(ins), DOMAIN val = Leaves(ins),
         NEW t \in Threads
  PROVE  Deleted(ins, val, rest, q, DeleteOnePage(m, t, q))
<1> DEFINE p == q[1]
           low == q[2]
           e == Id(p, low)
           J == ins \ {q}
           z == Drop(val, e)
           slot == Walk(m, p)
           at == Upward(m, t, q)
           y == Wrote(m, slot[low], Empty)
           first == [meta |-> y, dead |-> TRUE]
           Good(j) == Dying(J, z, rest, tab, p, low + j, at[low + j])
           T == {j \in 0..(Levels - low) : ~Good(j)}
<1>1. \A r \in ins : IsPageId(r)
  BY DEF SeparatePages
<1>2. p \in Mapped /\ low \in Nat \ {0} /\ low \in 1..(Levels - 1) /\ low \in 1..Levels /\ Levels \in Nat
      /\ low + 1 \in (low + 1)..Levels /\ low <= Levels
  <2>1. p \in Mapped /\ low \in Nat \ {0} /\ low \in 1..(Levels - 1) /\ low \in 1..Levels
    BY <1>1, PageFacts
  <2> QED BY <2>1, Spans
<1>3. /\ Nodes(ins) = Nodes(J) \cup Path(p, low + 1)
      /\ Leaves(ins) \ {e} = Leaves(J) /\ e \in Leaves(ins)
  BY WithoutPage
<1>4. at = [l \in low..Levels |-> IF l = low THEN first ELSE Decrease(at[l - 1], t, slot[l])]
  <2>1. q[2] \in 1..Levels
    BY <1>2
  <2>2. Rising(m, t, q, at)
    BY <2>1, UpwardUnfold
  <2> QED BY <2>2 DEF Rising
<1>5. PICK D : /\ Store(m, D) /\ Tree(m.mem, tab, val, RootId, 0)
               /\ Held(D) = TableTiles(tab) \cup rest /\ TablesAligned(tab)
  BY DEF Whole
<1>6. Layout(tab)
  BY <1>5 DEF Tree
<1>7. ASSUME NEW l \in low..Levels PROVE slot[l] = Slot(tab, Id(p, l))
  <2>1. l \in 1..Levels
    BY <1>2
  <2>2. Id(p, l + 1) \in DOMAIN tab
    <3>1. CASE l = Levels
      BY <1>2, <1>6, <3>1, IdTop DEF Layout
    <3>2. CASE l # Levels
      <4>1. l + 1 \in (low + 1)..Levels
        BY <1>2, <3>2
      <4> QED BY <1>3, <4>1 DEF Path
    <3> QED BY <3>1, <3>2
  <2>3. Tree(m.mem, tab, val, RootId, 0) /\ p \in Mapped
    BY <1>2, <1>5
  <2> HIDE DEF p
  <2> QED BY <2>1, <2>2, <2>3, WalkTo
<1> HIDE DEF at, slot
<1>8. Id(p, low + 1) \in DOMAIN tab /\ e \in InTable(tab) /\ Up(e) = Id(p, low + 1)
  <2>1. Id(p, low + 1) \in DOMAIN tab
    BY <1>2, <1>3 DEF Path
  <2> QED BY <1>2, <2>1, IdInTable
<1>9. Whole(y, tab, z, Id(p, low + 1), 1, rest)
  <2>1. slot[low] = Slot(tab, e)
    <3>1. low \in low..Levels
      BY <1>2
    <3> QED BY <1>7, <3>1
  <2>2. y = Wrote(m, Slot(tab, e), Empty) /\ Empty \in Entries /\ TableTiles(tab) \subseteq Held(D)
    BY <1>5, <2>1 DEF Empty, Entries
  <2> HIDE DEF y, e
  <2>3. /\ Store(y, D) /\ y.mem \in [Words -> Entries]
        /\ y.mem[Slot(tab, e)] = Empty /\ Agree(m.mem, y.mem, tab, e)
    BY <1>5, <1>6, <1>8, <2>2, EntrySet
  <2>4. Tree(y.mem, tab, z, Up(e), 1)
    <3>1. e \in DOMAIN val
      BY <1>3
    <3> QED BY <1>5, <2>3, <3>1, PageGone
  <2> HIDE DEF z
  <2> QED BY <1>5, <1>8, <2>3, <2>4 DEF Whole
<1>10. DOMAIN z = Leaves(J)
  <2>1. DOMAIN z = DOMAIN val \ {e}
    BY DEF Drop
  <2> QED BY <1>3, <2>1
<1> HIDE DEF z, y, e
<1>11. ASSUME T # {} PROVE FALSE
  <2>1. PICK j \in T : \A i \in T : j <= i
    <3>1. T \in SUBSET Nat
      BY <1>2
    <3> QED BY <1>11, <3>1, NatMin
  <2> HIDE DEF Good
  <2>2. CASE j = 0
    <3>1. low + j = low /\ low \in low..Levels
      BY <1>2, <2>2
    <3>2. at[low] = first
      BY <1>4, <3>1
    <3>3. Dying(J, z, rest, tab, p, low, first)
      BY <1>3, <1>9 DEF Dying
    <3> HIDE DEF first
    <3>4. Good(j)
      BY <3>1, <3>2, <3>3 DEF Good
    <3> QED BY <2>1, <3>4
  <2>3. CASE j # 0
    <3> DEFINE l == low + j
    <3>1. j - 1 \in 0..(Levels - low) /\ j - 1 \notin T /\ low + (j - 1) = l - 1
          /\ l \in 2..Levels /\ l \in low..Levels /\ l # low
      BY <1>2, <2>1, <2>3
    <3>2. Good(j - 1)
      BY <3>1
    <3>3. at[l] = Decrease(at[l - 1], t, slot[l])
      <4> HIDE DEF l
      <4> QED BY <1>4, <3>1
    <3> HIDE DEF l
    <3>4. Dying(J, z, rest, tab, p, l - 1, at[l - 1])
      BY <3>1, <3>2 DEF Good
    <3>5. \A r \in J : IsPageId(r)
      BY <1>1
    <3> HIDE DEF J, p
    <3>6. Dying(J, z, rest, tab, p, l, Decrease(at[l - 1], t, Slot(tab, Id(p, l))))
      BY <1>2, <1>10, <3>1, <3>4, <3>5, UpOne
    <3>7. slot[l] = Slot(tab, Id(p, l))
      BY <1>7, <3>1
    <3>8. Good(j)
      BY <3>3, <3>6, <3>7 DEF Good, l
    <3> QED BY <2>1, <3>8
  <2> QED BY <2>2, <2>3
<1>12. Levels - low \in 0..(Levels - low) /\ low + (Levels - low) = Levels
  BY <1>2
<1>13. Dying(J, z, rest, tab, p, Levels, at[Levels])
  <2>1. Good(Levels - low)
    <3> HIDE DEF Good
    <3> QED BY <1>11, <1>12
  <2> QED BY <1>12, <2>1
<1> DEFINE k == at[Levels].meta
<1>14. PICK u : IF at[Levels].dead THEN /\ Whole(k, u, z, Id(p, Levels + 1), 1, rest)
                                        /\ DOMAIN u = Nodes(J) \cup Path(p, Levels + 1)
                ELSE /\ Whole(k, u, z, RootId, 0, rest)
                     /\ DOMAIN u = Nodes(J)
  BY <1>13 DEF Dying
<1>15. Path(p, Levels + 1) = {} /\ Id(p, Levels + 1) = RootId
  <2>1. (Levels + 1)..Levels = {}
    BY <1>2
  <2> QED BY <1>2, <2>1, IdTop DEF Path
<1>16. Whole(k, u, z, RootId, 0, rest) /\ DOMAIN u = Nodes(J)
  <2>1. DOMAIN u = Nodes(J) /\ (Whole(k, u, z, RootId, 1, rest) \/ Whole(k, u, z, RootId, 0, rest))
    BY <1>14, <1>15
  <2>2. Whole(k, u, z, RootId, 1, rest) => Whole(k, u, z, RootId, 0, rest)
    BY TreeRoot DEF Whole
  <2> QED BY <2>1, <2>2
<1>17. DeleteOnePage(m, t, q) = k
  BY DEF DeleteOnePage, at
<1> QED BY <1>16, <1>17 DEF Deleted, z, e
----------------------------------------------------------------------------
\* What the tables and the others have

BoxWords(b) == IF RequestLarge(b[2]) THEN PagesFor(b[2]) * PageWords ELSE 2^CellClass(b[2])
BoxTile(b) == <<<<"box", b>>, b[1], BoxWords(b)>>
LostTile(c) == <<<<"lost", c>>, c[1], c[2]>>
Rest(B, L) == {BoxTile(b) : b \in B} \cup {LostTile(c) : c \in L}

\* A box starts where a cell of its class may, or a page.
BoxSound(b) ==
  /\ b = <<b[1], b[2]>> /\ b[2] \in Nat
  /\ Aligned(b[1], IF RequestLarge(b[2]) THEN LogPage ELSE CellClass(b[2]))

\* The tree has just the tables and entries of the pages in ins; what else is held
\* are the boxes B and the lost cells L.
Sound(m, B, L, ins, tab, val) ==
  /\ Whole(m, tab, val, RootId, 0, Rest(B, L))
  /\ DOMAIN tab = Nodes(ins) /\ DOMAIN val = Leaves(ins)
  /\ \A e \in DOMAIN val : val[e] \in Values \cup {NoMeta}
  /\ SeparatePages(ins)
  /\ \A b \in B : BoxSound(b)

\* Boxes and lost cells are not tables and in no list.
LEMMA RestNoTables ==
  ASSUME NEW B, NEW L
  PROVE  NoTables(Rest(B, L)) /\ \A b : BoxTile(b)[1][1] # "free" /\ LostTile(b)[1][1] # "free"
<1>1. \A b : BoxTile(b)[1][1] = "box" /\ LostTile(b)[1][1] = "lost"
  BY DEF BoxTile, LostTile
<1>2. \A d \in Rest(B, L) : d[1][1] \in {"box", "lost"}
  BY <1>1 DEF Rest
<1> QED BY <1>1, <1>2 DEF NoTables

\* The class of a request is that of a cell that has the words.
LEMMA CellClassIs ==
  ASSUME NEW n \in Nat, ~RequestLarge(n)
  PROVE  CellClass(n) \in CellClasses /\ n <= 2^CellClass(n)
<1> DEFINE P(c) == n <= 2^c /\ (c = 0 \/ 2^(c - 1) < n)
           T == {c \in CellClasses : n <= 2^c}
<1>1. LogPage \in T /\ T \in SUBSET Nat
  BY Sizes DEF RequestLarge, CellClasses
<1>2. PICK c \in T : \A k \in T : c <= k
  BY <1>1, NatMin
<1>3. c \in Nat /\ c <= LogPage /\ LogPage \in Nat
  BY <1>1, <1>2, Sizes DEF CellClasses
<1>4. c = 0 \/ 2^(c - 1) < n
  <2> SUFFICES ASSUME c # 0 PROVE 2^(c - 1) < n
    OBVIOUS
  <2>1. c - 1 \in CellClasses /\ ~(c <= c - 1)
    BY <1>3 DEF CellClasses
  <2>2. c - 1 \notin T
    BY <1>2, <2>1
  <2>3. 2^(c - 1) \in Nat
    BY <2>1, Sizes
  <2> QED BY <2>1, <2>2, <2>3
<1>5. P(c) /\ c \in CellClasses
  BY <1>2, <1>4
<1> HIDE DEF P
<1>6. P(CHOOSE k \in CellClasses : P(k)) /\ (CHOOSE k \in CellClasses : P(k)) \in CellClasses
  BY <1>5
<1> QED BY <1>6 DEF P, CellClass

\* The pages of a large request have its words.
LEMMA PagesForIs ==
  ASSUME NEW n \in Nat, RequestLarge(n)
  PROVE  PagesFor(n) \in Nat \ {0} /\ n <= PagesFor(n) * PageWords
<1> DEFINE P == PageWords
           k == (n + P - 1) \div P
<1>1. P \in Nat \ {0} /\ n > P
  BY Sizes DEF RequestLarge
<1> HIDE DEF P
<1>2. n + P - 1 \in Nat
  BY <1>1
<1>3. k \in Nat /\ k * P <= n + P - 1 /\ n + P - 1 < (k + 1) * P
  BY <1>1, <1>2, Quotient
<1> HIDE DEF k
<1>4. (k + 1) * P = k * P + P /\ k * P \in Nat
  BY <1>1, <1>3
<1>5. n <= k * P
  BY <1>1, <1>3, <1>4
<1>6. k # 0
  <2>1. 0 * P = 0
    BY <1>1
  <2> QED BY <1>1, <1>5, <2>1
<1> QED BY <1>3, <1>5, <1>6 DEF PagesFor, k, P

\* What is held by others has no words of tables.
LEMMA TablesElsewhere ==
  ASSUME NEW m, NEW D, Store(m, D), NEW tab, Layout(tab), TableTiles(tab) \subseteq Held(D),
         NEW d, \A b \in Held(D) : Area(b) \cap Area(d) = {},
         \A w \in Area(d) : w >= PageWords,
         NEW f \in DOMAIN tab, NEW b \in TableWords(tab, f)
  PROVE  Kept(D, b) /\ b \in Words /\ b \notin Area(d)
<1>1. Kept(D, b) /\ b \in Words /\ (f # RootId => b \in Area(TableTile(tab, f)) /\ TableTile(tab, f) \in Held(D))
  BY TablesKept
<1>2. PageWords \in Nat \ {0}
  BY Sizes
<1>3. CASE f = RootId
  <2>1. b \in 0..(0 + PageWords - 1)
    BY <1>3 DEF Layout, TableWords, Root
  <2>2. ~(b >= PageWords)
    BY <1>2, <2>1
  <2> QED BY <1>1, <2>2
<1>4. CASE f # RootId
  BY <1>1, <1>4
<1> QED BY <1>3, <1>4

\* The words of tiles are those of pages.
LEMMA AreaAbove ==
  ASSUME NEW m, NEW D, Store(m, D), NEW d \in D
  PROVE  /\ Area(d) \subseteq Words /\ \A w \in Area(d) : w >= PageWords
<1>1. Area(d) \subseteq WordsOf(m.mapped) /\ WordsOf(m.mapped) \subseteq Words
  BY StoreAreas
<1>2. m.mapped \in SUBSET (1..MaxFrames)
  BY DEF Store, Metas
<1>3. \A w \in WordsOf(m.mapped) : w >= PageWords
  BY <1>2, WordsParts
<1> QED BY <1>1, <1>3

\* A tile that is new is that of a new box: the tables keep what they have.
LEMMA BoxAdded ==
  ASSUME NEW m, NEW B, NEW L, NEW ins, NEW tab, NEW val, Sound(m, B, L, ins, tab, val),
         NEW b, BoxSound(b), NEW k, NEW D, NEW E, Store(m, D), Tree(m.mem, tab, val, RootId, 0),
         Held(D) = TableTiles(tab) \cup Rest(B, L),
         Store(k, E), BoxTile(b) \in E, Held(E) = Held(D) \cup {BoxTile(b)},
         \A d \in Held(D) : Area(d) \cap Area(BoxTile(b)) = {},
         \A w \in Words : Kept(D, w) /\ w \notin Area(BoxTile(b)) => k.mem[w] = m.mem[w]
  PROVE  Sound(k, B \cup {b}, L, ins, tab, val)
<1> DEFINE d == BoxTile(b)
           R == Rest(B, L)
           Q == Rest(B \cup {b}, L)
<1>1. Layout(tab) /\ TableTiles(tab) \subseteq Held(D)
  BY DEF Tree
<1>2. \A w \in Area(d) : w >= PageWords
  BY AreaAbove
<1>3. Tree(k.mem, tab, val, RootId, 0)
  <2>1. \A f \in DOMAIN tab : \A w \in TableWords(tab, f) : k.mem[w] = m.mem[w]
    <3> SUFFICES ASSUME NEW f \in DOMAIN tab, NEW w \in TableWords(tab, f) PROVE k.mem[w] = m.mem[w]
      OBVIOUS
    <3>1. Kept(D, w) /\ w \in Words /\ w \notin Area(d)
      <4> HIDE DEF d
      <4>1. \A g \in Held(D) : Area(g) \cap Area(d) = {}
        BY DEF d
      <4> QED BY <1>1, <1>2, <4>1, TablesElsewhere
    <3> QED BY <3>1
  <2>2. k.mem \in [Words -> Entries]
    BY DEF Store, Metas
  <2> QED BY <2>1, <2>2, TreeKept
<1>4. Q = R \cup {d}
  BY DEF Rest
<1>5. Held(E) = TableTiles(tab) \cup Q
  <2> HIDE DEF d, Q
  <2> QED BY <1>4 DEF d
<1>6. TablesAligned(tab)
  BY DEF Sound, Whole
<1>7. Whole(k, tab, val, RootId, 0, Q)
  BY <1>3, <1>5, <1>6 DEF Whole
<1> QED BY <1>7 DEF Sound

\* AllocateBox
LEMMA BoxSmall ==
  ASSUME NEW B, NEW L, NEW ins, NEW tab, NEW val, NEW m, Sound(m, B, L, ins, tab, val),
         NEW t \in Threads, NEW n \in Nat, ~RequestLarge(n), CanAllocate(m, t, CellClass(n)),
         NEW r, r = AllocateCell(m, t, CellClass(n))
  PROVE  Sound(Set(r.meta, r.cell..(r.cell + n - 1), Written), B \cup {<<r.cell, n>>}, L, ins, tab, val)
<1> DEFINE c == CellClass(n)
           a == r.cell
           b == <<a, n>>
           h == <<"box", b>>
           d == BoxTile(b)
           S == a..(a + n - 1)
           k == Set(r.meta, S, Written)
<1>1. PICK D : /\ Store(m, D) /\ Tree(m.mem, tab, val, RootId, 0)
               /\ Held(D) = TableTiles(tab) \cup Rest(B, L)
  BY DEF Sound, Whole
<1>2. c \in CellClasses /\ n <= 2^c /\ 2^c \in Nat
  BY CellClassIs, Sizes
<1>3. d = <<h, a, 2^c>>
  BY DEF BoxTile, BoxWords
<1> HIDE DEF c
<1>4. Allocated(m, D, t, h, c, r)
  <2>1. h[1] # "free" /\ CanAllocate(m, t, c) /\ r = AllocateCell(m, t, c)
    BY DEF c
  <2> HIDE DEF h
  <2> QED BY <1>1, <1>2, <2>1, AllocateSound
<1> HIDE DEF d
<1>5. PICK E : Store(r.meta, E) /\ d \in E /\ Aligned(a, c) /\ Held(E) = Held(D) \cup {d}
  BY <1>3, <1>4 DEF Allocated
<1>6. /\ \A g \in Held(D) : Area(g) \cap Area(d) = {}
      /\ \A w \in Words : Kept(D, w) => r.meta.mem[w] = m.mem[w]
  BY <1>3, <1>4 DEF Allocated
<1>7. S \subseteq Area(d)
  <2>1. Area(d) = a..(a + 2^c - 1) /\ a \in Nat
    <3>1. Tile(d)
      BY <1>5, StoreAreas
    <3> QED BY <1>3, <3>1 DEF Tile, Area
  <2> QED BY <1>2, <2>1
<1> HIDE DEF S
<1>8. /\ k \in Metas /\ k.lists = r.meta.lists /\ k.mapped = r.meta.mapped /\ k.committed = r.meta.committed
      /\ \A w \in Words : k.mem[w] = IF w \in S THEN Written ELSE r.meta.mem[w]
  <2>1. Written \in Entries /\ r.meta \in Metas
    BY <1>5 DEF Written, Entries, Store
  <2> QED BY <2>1, SetFields
<1> HIDE DEF k
<1>9. Store(k, E)
  <2>1. \A w \in Words : ~Kept(E, w) => k.mem[w] = r.meta.mem[w]
    <3>1. d \in Held(E)
      BY <1>5
    <3> QED BY <1>7, <1>8, <3>1 DEF Kept
  <2> QED BY <1>5, <1>8, <2>1, WriteSound
<1>10. BoxSound(b)
  BY <1>5 DEF BoxSound, c
<1>11. \A w \in Words : Kept(D, w) /\ w \notin Area(d) => k.mem[w] = m.mem[w]
  BY <1>6, <1>7, <1>8
<1> HIDE DEF b
<1>12. Sound(k, B \cup {b}, L, ins, tab, val)
  BY <1>1, <1>5, <1>6, <1>9, <1>10, <1>11, BoxAdded DEF d
<1> QED BY <1>12 DEF k, S, b

\* AllocateLarge
LEMMA BoxLarge ==
  ASSUME NEW B, NEW L, NEW ins, NEW tab, NEW val, NEW m, Sound(m, B, L, ins, tab, val),
         NEW n \in Nat, RequestLarge(n), Room(m, PagesFor(n)) # {},
         NEW a, a = Found(m, PagesFor(n)) * PageWords
  PROVE  Sound(Set(MapPages(m, PagesFor(n)), a..(a + n - 1), Written), B \cup {<<a, n>>}, L, ins, tab, val)
<1> DEFINE N == PagesFor(n)
           p == Found(m, N)
           b == <<a, n>>
           h == <<"box", b>>
           d == BoxTile(b)
           x == MapPages(m, N)
           S == a..(a + n - 1)
           k == Set(x, S, Written)
<1>1. PICK D : /\ Store(m, D) /\ Tree(m.mem, tab, val, RootId, 0)
               /\ Held(D) = TableTiles(tab) \cup Rest(B, L)
  BY DEF Sound, Whole
<1>2. N \in Nat \ {0} /\ n <= N * PageWords
  BY PagesForIs
<1>3. d = FramesTile(h, p, N)
  BY DEF BoxTile, BoxWords, FramesTile
<1> HIDE DEF N
<1>4. PagesMapped(m, D, h, p, N, x)
  <2>1. h[1] # "free" /\ Room(m, N) # {}
    BY DEF N
  <2> HIDE DEF h
  <2> QED BY <1>1, <1>2, <2>1, MapSound
<1>0. a = p * PageWords
  BY DEF N
<1> HIDE DEF d, x, p
<1>5. PICK E : /\ Store(x, E) /\ Held(E) = Held(D) \cup {d} /\ d \in E
               /\ p \in Nat \ {0}
               /\ \A w \in Words : w \notin Area(d) => x.mem[w] = m.mem[w]
               /\ Area(d) \cap WordsOf(m.mapped) = {} /\ Area(d) \subseteq Words
  BY <1>3, <1>4 DEF PagesMapped
<1>6. \A g \in Held(D) : Area(g) \cap Area(d) = {}
  <2> SUFFICES ASSUME NEW g \in Held(D) PROVE Area(g) \subseteq WordsOf(m.mapped)
    BY <1>5
  <2> QED BY <1>1, StoreAreas DEF Held
<1>7. S \subseteq Area(d) /\ Aligned(a, LogPage)
  <2>1. Area(d) = a..(a + N * PageWords - 1) /\ a \in Nat
    <3>1. Tile(d)
      BY <1>5, StoreAreas
    <3> QED BY <1>0, <1>3, <3>1 DEF Tile, Area, FramesTile
  <2>2. N * PageWords \in Nat
    BY <1>2, Sizes
  <2>3. Aligned(p * 2^LogPage, LogPage)
    BY <1>5, Sizes, AlignedMultiple
  <2>4. a = p * 2^LogPage
    BY <1>0, Sizes
  <2> QED BY <1>2, <2>1, <2>2, <2>3, <2>4
<1> HIDE DEF S
<1>8. /\ k \in Metas /\ k.lists = x.lists /\ k.mapped = x.mapped /\ k.committed = x.committed
      /\ \A w \in Words : k.mem[w] = IF w \in S THEN Written ELSE x.mem[w]
  <2>1. Written \in Entries /\ x \in Metas
    BY <1>5 DEF Written, Entries, Store
  <2> QED BY <2>1, SetFields
<1> HIDE DEF k
<1>9. Store(k, E)
  <2>1. \A w \in Words : ~Kept(E, w) => k.mem[w] = x.mem[w]
    <3>1. d \in Held(E)
      BY <1>5
    <3> QED BY <1>7, <1>8, <3>1 DEF Kept
  <2> QED BY <1>5, <1>8, <2>1, WriteSound
<1>10. BoxSound(b)
  BY <1>7 DEF BoxSound
<1>11. \A w \in Words : Kept(D, w) /\ w \notin Area(d) => k.mem[w] = m.mem[w]
  BY <1>5, <1>7, <1>8
<1> HIDE DEF b
<1>12. Sound(k, B \cup {b}, L, ins, tab, val)
  BY <1>1, <1>5, <1>6, <1>9, <1>10, <1>11, BoxAdded DEF d
<1> QED BY <1>12 DEF k, S, b, x, N

\* A box is gone.
LEMMA BoxRemoved ==
  ASSUME NEW B, NEW L, NEW ins, NEW tab, NEW val, NEW m, Sound(m, B, L, ins, tab, val),
         NEW b \in B, NEW k, NEW D, NEW E, Store(m, D), Tree(m.mem, tab, val, RootId, 0),
         Held(D) = TableTiles(tab) \cup Rest(B, L),
         Store(k, E), Held(E) = Held(D) \ {BoxTile(b)},
         \A w \in Words : w \notin Area(BoxTile(b)) => k.mem[w] = m.mem[w]
  PROVE  Sound(k, B \ {b}, L, ins, tab, val)
<1> DEFINE d == BoxTile(b)
           R == Rest(B, L)
           Q == Rest(B \ {b}, L)
<1>1. Layout(tab) /\ TableTiles(tab) \subseteq Held(D)
  BY DEF Tree
<1>2. d[1] = <<"box", b>> /\ d \in R /\ d \in D
  <2>1. d[1] = <<"box", b>> /\ d \in R
    BY DEF BoxTile, Rest
  <2> QED BY <2>1 DEF Held
<1>3. \A f : TableTile(tab, f) # d
  <2>1. \A f : TableTile(tab, f)[1][1] = "table"
    BY DEF TableTile
  <2> QED BY <1>2, <2>1
<1>4. d \notin TableTiles(tab)
  BY <1>3 DEF TableTiles
<1>5. \A f \in DOMAIN tab : \A w \in TableWords(tab, f) : k.mem[w] = m.mem[w]
  <2> SUFFICES ASSUME NEW f \in DOMAIN tab, NEW w \in TableWords(tab, f), w \in Area(d) PROVE FALSE
    BY <1>1 DEF Layout
  <2>1. Kept(D, w) /\ w \in Words /\ (f # RootId => w \in Area(TableTile(tab, f)) /\ TableTile(tab, f) \in Held(D))
    BY <1>1, TablesKept
  <2>2. PageWords \in Nat \ {0}
    BY Sizes
  <2>3. CASE f = RootId
    <3>1. w \in 0..(0 + PageWords - 1)
      BY <1>1, <2>3 DEF Layout, TableWords, Root
    <3>2. w >= PageWords
      BY <1>2, AreaAbove
    <3> QED BY <2>2, <3>1, <3>2
  <2>4. CASE f # RootId
    <3>1. TableTile(tab, f) \in D
      BY <2>1, <2>4 DEF Held
    <3>2. Area(TableTile(tab, f)) \cap Area(d) # {}
      BY <2>1, <2>4
    <3> HIDE DEF d
    <3> QED BY <1>2, <1>3, <3>1, <3>2 DEF Store, Tiled
  <2> QED BY <2>3, <2>4
<1>6. Tree(k.mem, tab, val, RootId, 0)
  <2>1. k.mem \in [Words -> Entries]
    BY DEF Store, Metas
  <2> QED BY <1>5, <2>1, TreeKept
<1>7. Q = R \ {d}
  <2>1. \A x \in B : BoxTile(x) = d => x = b
    BY DEF BoxTile
  <2>2. \A x : LostTile(x) # d
    <3>1. \A x : LostTile(x)[1][1] = "lost"
      BY DEF LostTile
    <3> QED BY <1>2, <3>1
  <2> HIDE DEF d
  <2>3. {BoxTile(x) : x \in B \ {b}} = {BoxTile(x) : x \in B} \ {d}
    BY <2>1 DEF d
  <2> QED BY <2>2, <2>3 DEF Rest
<1>8. Held(E) = TableTiles(tab) \cup Q
  <2> HIDE DEF d, Q, R
  <2>1. Held(D) = TableTiles(tab) \cup R /\ Held(E) = Held(D) \ {d}
    BY DEF d, R
  <2> QED BY <1>4, <1>7, <2>1
<1>9. TablesAligned(tab)
  BY DEF Sound, Whole
<1>10. Whole(k, tab, val, RootId, 0, Q)
  BY <1>6, <1>8, <1>9 DEF Whole
<1> QED BY <1>10 DEF Sound

\* Deallocate
LEMMA BoxDropped ==
  ASSUME NEW B, NEW L, NEW ins, NEW tab, NEW val, NEW m, Sound(m, B, L, ins, tab, val),
         NEW b \in B, NEW t \in Threads,
         NEW k, k = IF RequestLarge(b[2]) THEN UnmapPages(m, b[1] \div PageWords, PagesFor(b[2]))
                    ELSE LET c == CellClass(b[2]) IN PushCell(m, t, (b[1] \div 2^c) * 2^c, c)
  PROVE  Sound(k, B \ {b}, L, ins, tab, val)
<1> DEFINE a == b[1]
           n == b[2]
           h == <<"box", b>>
           d == BoxTile(b)
<1>1. PICK D : /\ Store(m, D) /\ Tree(m.mem, tab, val, RootId, 0)
               /\ Held(D) = TableTiles(tab) \cup Rest(B, L)
  BY DEF Sound, Whole
<1>2. BoxSound(b) /\ n \in Nat
  BY DEF Sound, BoxSound
<1>3. d \in D /\ a \in Nat /\ d = <<h, a, BoxWords(b)>>
  <2>1. d \in Rest(B, L) /\ d = <<h, a, BoxWords(b)>>
    BY DEF Rest, BoxTile
  <2>2. d \in D
    BY <1>1, <2>1 DEF Held
  <2>3. Tile(d)
    BY <1>1, <2>2, StoreAreas
  <2> QED BY <2>1, <2>2, <2>3 DEF Tile
<1> HIDE DEF d
<1>4. CASE RequestLarge(n)
  <2> DEFINE N == PagesFor(n)
             p == a \div PageWords
  <2>1. N \in Nat \ {0} /\ BoxWords(b) = N * PageWords
    BY <1>2, <1>4, PagesForIs DEF BoxWords
  <2>2. a = p * PageWords /\ p \in Nat
    <3>1. Aligned(a, LogPage)
      BY <1>2, <1>4 DEF BoxSound
    <3> QED BY <1>3, <3>1, Sizes, AlignedMultiple
  <2>3. k = UnmapPages(m, p, N)
    BY <1>4
  <2> HIDE DEF p, N
  <2>4. d = FramesTile(h, p, N)
    BY <1>3, <2>1, <2>2 DEF FramesTile
  <2>5. PagesUnmapped(m, D, FramesTile(h, p, N), k)
    <3>1. h[1] # "free"
      OBVIOUS
    <3> HIDE DEF h
    <3> QED BY <1>1, <1>3, <2>1, <2>2, <2>3, <2>4, <3>1, UnmapSound
  <2>6. PICK E : Store(k, E) /\ Held(E) = Held(D) \ {d} /\ k.mem = m.mem
    BY <2>4, <2>5 DEF PagesUnmapped
  <2> QED BY <1>1, <2>6, BoxRemoved DEF d
<1>5. CASE ~RequestLarge(n)
  <2> DEFINE c == CellClass(n)
  <2>1. c \in CellClasses /\ BoxWords(b) = 2^c
    BY <1>2, <1>5, CellClassIs DEF BoxWords
  <2>2. Aligned(a, c)
    BY <1>2, <1>5 DEF BoxSound
  <2>3. (a \div 2^c) * 2^c = a
    <3>1. c \in Nat
      BY <2>1, Sizes
    <3> QED BY <1>3, <2>2, <3>1, AlignedMultiple
  <2>4. k = PushCell(m, t, a, c)
    BY <1>5, <2>3
  <2> HIDE DEF c
  <2>5. Pushed(m, D, t, c, h, a, k)
    <3>1. h[1] # "free" /\ <<h, a, 2^c>> \in D
      BY <1>3, <2>1
    <3> HIDE DEF h, a
    <3> QED BY <1>1, <2>1, <2>2, <2>4, <3>1, PushSound
  <2>6. PICK E : Store(k, E) /\ Held(E) = Held(D) \ {d} /\ \A w \in Words \ {a} : k.mem[w] = m.mem[w]
    BY <1>3, <2>1, <2>5 DEF Pushed
  <2>7. a \in Area(d)
    <3>1. d[2] \in Area(d)
      BY <1>1, <1>3, StoreAreas
    <3> QED BY <1>3, <3>1
  <2>8. \A w \in Words : w \notin Area(d) => k.mem[w] = m.mem[w]
    BY <2>6, <2>7
  <2> QED BY <1>1, <2>6, <2>8, BoxRemoved DEF d
<1> QED BY <1>4, <1>5

\* Tiles are given other tags.
LEMMA TiledTags ==
  ASSUME NEW D, NEW U, Tiled(D, U), NEW R,
         \A d \in D : R[d] = <<R[d][1], d[2], d[3]>>
  PROVE  Tiled({R[d] : d \in D}, U)
<1>1. \A d \in D : Tile(d) /\ Area(d) \subseteq U
  BY DEF Tiled
<1>2. ASSUME NEW d \in D PROVE R[d][2] = d[2] /\ R[d][3] = d[3] /\ Tile(R[d]) /\ Area(R[d]) = Area(d)
  <2>1. R[d][2] = d[2] /\ R[d][3] = d[3]
    OBVIOUS
  <2> QED BY <1>1, <2>1 DEF Tile, Area
<1>3. \A d, e \in D : Area(d) \cap Area(e) # {} => d = e
  BY DEF Tiled
<1>4. \A w \in U : \E d \in D : w \in Area(d)
  BY DEF Tiled
<1> QED BY <1>1, <1>2, <1>3, <1>4 DEF Tiled

\* The cells in the lists of a thread are lost with it.
CellsOf(m, t) == UNION {{<<a, 2^c>> : a \in Chain(m, m.lists[t][c])} : c \in CellClasses}

\* The cells of a thread that ends are lost; nothing else changes.
LEMMA EndSound ==
  ASSUME NEW B, NEW L, NEW ins, NEW tab, NEW val, NEW m, Sound(m, B, L, ins, tab, val),
         NEW t \in Threads, NEW k, k = [m EXCEPT !.lists[t] = [c \in CellClasses |-> Zero]]
  PROVE  Sound(k, B, L \cup CellsOf(m, t), ins, tab, val)
<1>1. PICK D : /\ Store(m, D) /\ Tree(m.mem, tab, val, RootId, 0)
               /\ Held(D) = TableTiles(tab) \cup Rest(B, L)
  BY DEF Sound, Whole
<1> DEFINE K == CellsOf(m, t)
           Mine(d) == \E c \in CellClasses : d = Loose(t, c, d[2])
           R == [d \in D |-> IF Mine(d) THEN LostTile(<<d[2], d[3]>>) ELSE d]
           E == {R[d] : d \in D}
           f == [c \in CellClasses |-> Zero]
<1>2. \A d \in D : Tile(d) /\ d[2] \in Words
  BY <1>1, StoreAreas
<1>3. \A d \in D : Mine(d) => IsLoose(d) /\ ~IsLoose(R[d]) /\ R[d] = LostTile(<<d[2], d[3]>>)
                              /\ R[d] = <<R[d][1], d[2], d[3]>>
  <2> SUFFICES ASSUME NEW d \in D, Mine(d)
               PROVE  IsLoose(d) /\ ~IsLoose(R[d]) /\ R[d] = LostTile(<<d[2], d[3]>>)
                      /\ R[d] = <<R[d][1], d[2], d[3]>>
    OBVIOUS
  <2>1. R[d] = LostTile(<<d[2], d[3]>>)
    OBVIOUS
  <2>2. IsLoose(d)
    BY LooseOnce
  <2> QED BY <2>1, <2>2 DEF LostTile, IsLoose
<1>4. \A d \in D : ~Mine(d) => R[d] = d
  OBVIOUS
<1>5. \A d \in D : R[d] = <<R[d][1], d[2], d[3]>>
  <2> SUFFICES ASSUME NEW d \in D, ~Mine(d) PROVE d = <<d[1], d[2], d[3]>>
    BY <1>3, <1>4
  <2> QED BY <1>2 DEF Tile
<1>6. Tiled(E, WordsOf(m.mapped))
  <2> HIDE DEF R
  <2> QED BY <1>1, <1>5, TiledTags DEF Store
<1> HIDE DEF R
<1>7. \A s \in Threads, c \in CellClasses, a \in Words :
        Loose(s, c, a) \in E <=> Loose(s, c, a) \in D /\ s # t
  <2> SUFFICES ASSUME NEW s \in Threads, NEW c \in CellClasses, NEW a \in Words
               PROVE  Loose(s, c, a) \in E <=> Loose(s, c, a) \in D /\ s # t
    OBVIOUS
  <2> DEFINE g == Loose(s, c, a)
  <2>1. IsLoose(g) /\ g[2] = a
    BY LooseOnce
  <2>2. Mine(g) <=> s = t
    BY <2>1, LooseOnce
  <2> HIDE DEF g, Mine
  <2>3. ASSUME g \in E PROVE g \in D /\ s # t
    <3>1. PICK d \in D : g = R[d]
      BY <2>3
    <3>2. ~Mine(d)
      BY <1>3, <2>1, <3>1
    <3>3. g = d
      BY <1>4, <3>1, <3>2
    <3> QED BY <2>2, <3>2, <3>3
  <2>4. ASSUME g \in D, s # t PROVE g \in E
    BY <1>4, <2>2, <2>4
  <2> QED BY <2>3, <2>4 DEF g
<1>8. LooseSound(E)
  <2> SUFFICES ASSUME NEW e \in E, IsLoose(e)
               PROVE  \E s \in Threads, c \in CellClasses : e = Loose(s, c, e[2]) /\ Aligned(e[2], c)
    BY DEF LooseSound
  <2>1. PICK d \in D : e = R[d]
    BY DEF E
  <2>2. ~Mine(d)
    BY <1>3, <2>1
  <2>3. e \in D
    BY <1>4, <2>1, <2>2
  <2> QED BY <1>1, <2>3 DEF Store, LooseSound
<1>9. /\ k \in Metas /\ k.mem = m.mem /\ k.mapped = m.mapped /\ k.committed = m.committed
      /\ k.lists[t] = f /\ \A s \in Threads : s # t => k.lists[s] = m.lists[s]
  <2> DEFINE A == [m.lists EXCEPT ![t] = f]
  <2>1. m \in Metas
    BY <1>1 DEF Store
  <2>2. f \in [CellClasses -> Words]
    BY WordsParts
  <2> HIDE DEF f
  <2>3. /\ A \in [Threads -> [CellClasses -> Words]] /\ A[t] = f
        /\ \A s \in Threads : s # t => A[s] = m.lists[s]
    BY <2>1, <2>2 DEF Metas
  <2>4. k = [m EXCEPT !.lists = A]
    BY DEF f
  <2> HIDE DEF A
  <2> QED BY <2>1, <2>3, <2>4 DEF Metas
<1>10. Linked(k, E)
  <2> SUFFICES ASSUME NEW s \in Threads, NEW c \in CellClasses
               PROVE  Listed(LooseIn(E, s, c), k.lists[s][c], NextWord(k), Zero)
    BY DEF Linked
  <2>1. NextWord(k) = NextWord(m)
    BY <1>9 DEF NextWord
  <2>2. CASE s = t
    <3>1. LooseIn(E, s, c) = {} /\ k.lists[s][c] = Zero
      BY <1>7, <1>9, <2>2 DEF LooseIn
    <3> QED BY <3>1, ListedNone
  <2>3. CASE s # t
    <3>1. LooseIn(E, s, c) = LooseIn(D, s, c) /\ k.lists[s] = m.lists[s]
      BY <1>7, <1>9, <2>3 DEF LooseIn
    <3> QED BY <1>1, <2>1, <3>1 DEF Store, Linked
  <2> QED BY <2>2, <2>3
<1>11. Store(k, E)
  BY <1>1, <1>6, <1>8, <1>9, <1>10 DEF Store
<1>12. \A x : x \in K <=> \E c \in CellClasses, a \in Words : Loose(t, c, a) \in D /\ x = <<a, 2^c>>
  <2>1. \A c \in CellClasses : Chain(m, m.lists[t][c]) = LooseIn(D, t, c)
    BY <1>1, ChainIs
  <2>2. K = UNION {{<<a, 2^c>> : a \in LooseIn(D, t, c)} : c \in CellClasses}
    BY <2>1 DEF CellsOf
  <2> QED BY <2>2 DEF LooseIn
<1> HIDE DEF K
<1>13. Held(E) = Held(D) \cup {LostTile(x) : x \in K}
  <2>1. ASSUME NEW e \in Held(E) PROVE e \in Held(D) \/ \E x \in K : e = LostTile(x)
    <3>1. PICK d \in D : e = R[d] /\ ~IsLoose(e)
      BY <2>1 DEF Held
    <3>2. CASE ~Mine(d)
      BY <1>4, <3>1, <3>2 DEF Held
    <3>3. CASE Mine(d)
      <4>1. PICK c \in CellClasses : d = Loose(t, c, d[2])
        BY <3>3
      <4>2. d[3] = 2^c /\ d[2] \in Words /\ Loose(t, c, d[2]) \in D
        BY <1>2, <4>1, LooseOnce
      <4>3. <<d[2], d[3]>> \in K
        BY <1>12, <4>2
      <4> QED BY <1>3, <3>1, <3>3, <4>3
    <3> QED BY <3>2, <3>3
  <2>2. ASSUME NEW e \in Held(D) PROVE e \in Held(E)
    <3>1. e \in D /\ ~IsLoose(e)
      BY DEF Held
    <3>2. ~Mine(e)
      BY <1>3, <3>1
    <3> QED BY <1>4, <3>1, <3>2 DEF Held
  <2>3. ASSUME NEW x \in K PROVE LostTile(x) \in Held(E)
    <3>1. PICK c \in CellClasses, a \in Words : Loose(t, c, a) \in D /\ x = <<a, 2^c>>
      BY <1>12
    <3> DEFINE d == Loose(t, c, a)
    <3>2. d[2] = a /\ d[3] = 2^c
      BY LooseOnce
    <3>3. Mine(d)
      BY <3>2
    <3> HIDE DEF d, Mine
    <3>4. R[d] = LostTile(x) /\ ~IsLoose(R[d]) /\ d \in D
      BY <1>3, <3>1, <3>2, <3>3 DEF d
    <3> QED BY <3>4 DEF Held
  <2> HIDE DEF E
  <2> QED BY <2>1, <2>2, <2>3
<1>14. Held(E) = TableTiles(tab) \cup Rest(B, L \cup K)
  <2>1. Rest(B, L \cup K) = Rest(B, L) \cup {LostTile(x) : x \in K}
    BY DEF Rest
  <2> HIDE DEF E
  <2> QED BY <1>1, <1>13, <2>1
<1>15. TablesAligned(tab)
  BY DEF Sound, Whole
<1>16. Whole(k, tab, val, RootId, 0, Rest(B, L \cup K))
  <2>1. Tree(k.mem, tab, val, RootId, 0)
    BY <1>1, <1>9
  <2> HIDE DEF E
  <2> QED BY <1>11, <1>14, <1>15, <2>1 DEF Whole
<1> QED BY <1>16 DEF Sound, K
----------------------------------------------------------------------------
\* Pages come and go.

\* What has no page in common with the pages there are is neither among them
\* nor above them.
LEMMA PageIsNew ==
  ASSUME NEW ins, SeparatePages(ins), NEW q, IsPageId(q),
         \A r \in ins : Covered(r) \cap Covered(q) = {}
  PROVE  /\ SeparatePages(ins \cup {q}) /\ q \notin ins
         /\ \A j \in q[2]..Levels : Id(q[1], j) \notin Leaves(ins)
         /\ Id(q[1], q[2]) \notin Nodes(ins)
<1>1. /\ q[1] \in Covered(q) /\ q[1] \in Nat /\ q[2] \in Nat \ {0} /\ q[2] \in 1..(Levels - 1)
      /\ Levels \in Nat
  BY PageFacts, Spans
<1>2. \A r \in ins : /\ IsPageId(r) /\ r[1] \in Covered(r) /\ r[1] \in Nat /\ r[2] \in Nat \ {0}
                     /\ q[1] \in Covered(r) <=> Id(q[1], r[2]) = Id(r[1], r[2])
                     /\ r[1] \in Covered(q) <=> Id(r[1], q[2]) = Id(q[1], q[2])
  <2> SUFFICES ASSUME NEW r \in ins
               PROVE  /\ IsPageId(r) /\ r[1] \in Covered(r) /\ r[1] \in Nat /\ r[2] \in Nat \ {0}
                      /\ q[1] \in Covered(r) <=> Id(q[1], r[2]) = Id(r[1], r[2])
                      /\ r[1] \in Covered(q) <=> Id(r[1], q[2]) = Id(q[1], q[2])
    OBVIOUS
  <2>1. IsPageId(r)
    BY DEF SeparatePages
  <2> QED BY <1>1, <2>1, PageFacts
<1>3. q \notin ins
  BY <1>1
<1>4. SeparatePages(ins \cup {q})
  BY DEF SeparatePages
<1>5. ASSUME NEW j \in q[2]..Levels, Id(q[1], j) \in Leaves(ins) PROVE FALSE
  <2>1. PICK r \in ins : Id(q[1], j) = Id(r[1], r[2])
    BY <1>5 DEF Leaves
  <2>2. j = r[2]
    <3>1. Id(q[1], j)[1] = j /\ Id(r[1], r[2])[1] = r[2]
      BY DEF Id
    <3> QED BY <2>1, <3>1
  <2>3. q[1] \in Covered(r)
    BY <1>2, <2>1, <2>2
  <2> QED BY <1>1, <2>3
<1>6. ASSUME Id(q[1], q[2]) \in Nodes(ins) PROVE FALSE
  <2>1. Id(q[1], q[2])[1] = q[2] /\ RootId[1] = Levels + 1
    BY DEF Id, RootId
  <2>2. Id(q[1], q[2]) # RootId
    BY <1>1, <2>1
  <2>3. PICK r, l : r \in ins /\ l \in (r[2] + 1)..Levels /\ Id(q[1], q[2]) = Id(r[1], l)
    BY <1>6, <2>2 DEF Nodes
  <2>4. l = q[2]
    <3>1. Id(r[1], l)[1] = l
      BY DEF Id
    <3> QED BY <2>1, <2>3, <3>1
  <2>5. r[1] \in Covered(q) /\ r[1] \in Covered(r)
    BY <1>2, <2>3, <2>4
  <2> QED BY <2>3, <2>5
<1> QED BY <1>3, <1>4, <1>5, <1>6

\* How the pages there are have changed
Grows(val, q, v, u) == u = Put(val, Id(q[1], q[2]), v)
Shrinks(val, q, u) == u = Drop(val, Id(q[1], q[2]))

\* A page more is what the tree has after an insertion.
LEMMA InsertedSound ==
  ASSUME NEW B, NEW L, NEW ins, NEW tab, NEW val, NEW m, Sound(m, B, L, ins, tab, val),
         NEW q, IsPageId(q), \A r \in ins : Covered(r) \cap Covered(q) = {},
         NEW v \in Values \cup {NoMeta}, NEW k, Inserted(tab, val, Rest(B, L), q[1], q[2], v, k)
  PROVE  \E u, w : Sound(k, B, L, ins \cup {q}, u, w) /\ Grows(val, q, v, w)
<1> DEFINE e == Id(q[1], q[2])
           J == ins \cup {q}
           w == Put(val, e, v)
<1>1. SeparatePages(ins)
  BY DEF Sound
<1>2. SeparatePages(J) /\ q \notin ins
  BY <1>1, PageIsNew
<1>3. PICK u : /\ Whole(k, u, w, RootId, 0, Rest(B, L))
               /\ DOMAIN u = DOMAIN tab \cup Path(q[1], q[2] + 1)
  BY DEF Inserted, Path
<1>4. J \ {q} = ins /\ q \in J
  BY <1>2
<1>5. /\ Nodes(J) = Nodes(J \ {q}) \cup Path(q[1], q[2] + 1)
      /\ Leaves(J) \ {e} = Leaves(J \ {q}) /\ e \in Leaves(J)
  BY <1>2, <1>4, WithoutPage
<1>6. DOMAIN tab = Nodes(ins) /\ DOMAIN val = Leaves(ins) /\ \A g \in DOMAIN val : val[g] \in Values \cup {NoMeta}
  BY DEF Sound
<1> HIDE DEF J
<1>7. DOMAIN u = Nodes(J)
  BY <1>3, <1>4, <1>5, <1>6
<1>8. DOMAIN w = Leaves(J) /\ \A g \in DOMAIN w : w[g] \in Values \cup {NoMeta}
  <2>1. DOMAIN w = DOMAIN val \cup {e} /\ \A g \in DOMAIN w : w[g] = IF g = e THEN v ELSE val[g]
    BY DEF Put
  <2> HIDE DEF w, e
  <2> QED BY <1>4, <1>5, <1>6, <2>1
<1>9. \A b \in B : BoxSound(b)
  BY DEF Sound
<1> HIDE DEF w
<1>10. Sound(k, B, L, J, u, w)
  BY <1>2, <1>3, <1>7, <1>8, <1>9 DEF Sound
<1> QED BY <1>10 DEF Grows, J, w

\* InsertLarge, and the first part of Insert
LEMMA InsertedOne ==
  ASSUME NEW B, NEW L, NEW ins, NEW tab, NEW val, NEW m, Sound(m, B, L, ins, tab, val),
         NEW q, IsPageId(q), \A r \in ins : Covered(r) \cap Covered(q) = {},
         NEW t \in Threads, EnoughCells(m, t, Cardinality(Missing(m, q)))
  PROVE  Inserted(tab, val, Rest(B, L), q[1], q[2], NoMeta, InsertOnePage(m, t, q))
<1> DEFINE p == q[1]
           low == q[2]
<1>1. q = <<p, low>> /\ p \in Mapped /\ low \in 1..(Levels - 1)
  BY PageFacts
<1>2. SeparatePages(ins)
  BY DEF Sound
<1>3. /\ \A j \in low..Levels : Id(p, j) \notin Leaves(ins)
      /\ Id(p, low) \notin Nodes(ins)
  BY <1>2, PageIsNew
<1>4. Whole(m, tab, val, RootId, 0, Rest(B, L)) /\ DOMAIN tab = Nodes(ins) /\ DOMAIN val = Leaves(ins)
  BY DEF Sound
<1>5. /\ EnoughCells(m, t, Cardinality(Missing(m, <<p, low>>)))
      /\ InsertOnePage(m, t, q) = InsertOnePage(m, t, <<p, low>>)
  BY <1>1
<1> HIDE DEF p, low
<1>6. Inserted(tab, val, Rest(B, L), p, low, NoMeta, InsertOnePage(m, t, <<p, low>>))
  BY <1>1, <1>3, <1>4, <1>5, InsertSound
<1> QED BY <1>5, <1>6 DEF p, low

\* Delete
LEMMA DeletedSound ==
  ASSUME NEW B, NEW L, NEW ins, NEW tab, NEW val, NEW m, Sound(m, B, L, ins, tab, val),
         NEW q \in ins, NEW t \in Threads
  PROVE  \E u, w : Sound(DeleteOnePage(m, t, q), B, L, ins \ {q}, u, w) /\ Shrinks(val, q, w)
<1> DEFINE e == Id(q[1], q[2])
           J == ins \ {q}
           w == Drop(val, e)
           k == DeleteOnePage(m, t, q)
           R == Rest(B, L)
<1>1. /\ Whole(m, tab, val, RootId, 0, R) /\ DOMAIN tab = Nodes(ins) /\ DOMAIN val = Leaves(ins)
      /\ SeparatePages(ins) /\ \A b \in B : BoxSound(b)
      /\ \A g \in DOMAIN val : val[g] \in Values \cup {NoMeta}
  BY DEF Sound
<1>2. NoTables(R)
  BY RestNoTables
<1> HIDE DEF k, R
<1>3. Deleted(ins, val, R, q, k)
  BY <1>1, <1>2, DeleteSound DEF k
<1>4. PICK u : Whole(k, u, w, RootId, 0, R) /\ DOMAIN u = Nodes(J)
  BY <1>3 DEF Deleted
<1>5. DOMAIN w = Leaves(J) /\ \A g \in DOMAIN w : w[g] \in Values \cup {NoMeta}
  <2>1. DOMAIN w = DOMAIN val \ {e} /\ \A g \in DOMAIN w : w[g] = val[g]
    BY DEF Drop
  <2>2. Leaves(ins) \ {e} = Leaves(J)
    BY <1>1, WithoutPage
  <2> HIDE DEF w, e
  <2> QED BY <1>1, <2>1, <2>2
<1>6. SeparatePages(J)
  BY <1>1 DEF SeparatePages
<1> HIDE DEF w
<1>7. Sound(k, B, L, J, u, w)
  BY <1>1, <1>4, <1>5, <1>6 DEF Sound, R
<1> QED BY <1>7 DEF Shrinks, k, w
----------------------------------------------------------------------------
\* The invariant of the tree and its memory: some tiles, tables and pages
\* explain what they are.
TreeInv == \E tab, val : Sound(meta, boxes, lost, inserted, tab, val)

\* What a step does to the pages there are
Changed(val, w) ==
  \/ inserted' = inserted /\ w = val
  \/ \E q, v : /\ IsPageId(q) /\ Others(q) /\ inserted' = inserted \cup {q}
               /\ v = NoMeta \/ (v \in Values /\ q \in Pages \X {1})
               /\ Grows(val, q, v, w)
  \/ \E q \in inserted : inserted' = inserted \ {q} /\ Shrinks(val, q, w)

\* A tree without pages
LEMMA TreeInitInv == TreeInit => TreeInv /\ inserted = {}
<1> SUFFICES ASSUME TreeInit PROVE TreeInv
  BY DEF TreeInit
<1> DEFINE tab == [e \in {RootId} |-> Root]
           val == [e \in {} |-> Root]
<1>1. /\ meta = [mem |-> [a \in Words |-> Empty], lists |-> [t \in Threads |-> [c \in CellClasses |-> Zero]],
                 mapped |-> {}, committed |-> 0]
      /\ boxes = {} /\ lost = {} /\ inserted = {}
  BY DEF TreeInit, MetaInit
<1>2. /\ meta \in Metas /\ \A a \in Words : meta.mem[a] = Empty
      /\ meta.mem \in [Words -> Entries]
      /\ \A t \in Threads, c \in CellClasses : meta.lists[t][c] = Zero
  <2>1. Empty \in Entries /\ Zero \in Words
    BY WordsParts DEF Empty, Entries
  <2> QED BY <1>1, <2>1 DEF Metas
<1>3. Store(meta, {})
  <2>1. WordsOf(meta.mapped) = {}
    BY <1>1 DEF WordsOf
  <2>2. Tiled({}, WordsOf(meta.mapped))
    BY <2>1 DEF Tiled
  <2>3. LooseSound({})
    BY DEF LooseSound
  <2>4. Linked(meta, {})
    <3> SUFFICES ASSUME NEW t \in Threads, NEW c \in CellClasses
                 PROVE  Listed(LooseIn({}, t, c), meta.lists[t][c], NextWord(meta), Zero)
      BY DEF Linked
    <3>1. LooseIn({}, t, c) = {}
      BY DEF LooseIn
    <3> QED BY <1>2, <3>1, ListedNone
  <2>5. meta.committed = Cardinality(meta.mapped)
    BY <1>1, FS_EmptySet
  <2> QED BY <1>2, <2>2, <2>3, <2>4, <2>5 DEF Store
<1>4. DOMAIN tab = {RootId} /\ tab[RootId] = Root /\ DOMAIN val = {}
  OBVIOUS
<1> HIDE DEF tab, val
<1>5. PageWords \in Nat \ {0} /\ 0..(PageWords - 1) \subseteq Words
  <2>1. PageWords \in Nat \ {0} /\ MaxFrames \in Nat
    BY Sizes
  <2>2. PageWords * (MaxFrames + 1) - 1 \in Int /\ PageWords * (MaxFrames + 1) >= PageWords
    <3>1. PageWords * (MaxFrames + 1) = PageWords * MaxFrames + PageWords /\ PageWords * MaxFrames \in Nat
      BY <2>1
    <3> QED BY <2>1, <3>1
  <2> QED BY <2>1, <2>2 DEF Words
<1>6. Layout(tab)
  <2>1. TableWords(tab, RootId) = 0..(PageWords - 1)
    BY <1>4, <1>5 DEF TableWords, Root
  <2> QED BY <1>4, <1>5, <2>1 DEF Layout, Root
<1>7. Tree(meta.mem, tab, val, RootId, 0)
  <2>1. ASSUME NEW e \in InTable(tab) PROVE meta.mem[Slot(tab, e)] = Entry(meta.mem, tab, val, RootId, 0, e)
    <3>1. Slot(tab, e) \in Words /\ e # RootId
      BY <1>6, Slots1
    <3> QED BY <1>2, <1>4, <3>1 DEF Entry
  <2> QED BY <1>2, <1>4, <1>6, <2>1 DEF Tree
<1>8. Held({}) = TableTiles(tab) \cup Rest({}, {})
  <2>1. TableTiles(tab) = {}
    BY <1>4 DEF TableTiles
  <2> QED BY <2>1 DEF Held, Rest
<1>9. TablesAligned(tab)
  BY <1>4 DEF TablesAligned
<1>10. Whole(meta, tab, val, RootId, 0, Rest({}, {}))
  BY <1>3, <1>7, <1>8, <1>9 DEF Whole
<1>11. Nodes({}) = {RootId} /\ Leaves({}) = {}
  BY DEF Nodes, Leaves
<1>12. Sound(meta, {}, {}, {}, tab, val)
  BY <1>4, <1>10, <1>11 DEF Sound, SeparatePages
<1> QED BY <1>1, <1>12 DEF TreeInv

\* Insert
LEMMA InsertKeeps ==
  ASSUME NEW tab, NEW val, Sound(meta, boxes, lost, inserted, tab, val),
         NEW t \in Threads, NEW p \in Pages, NEW v \in Values, Insert(t, p, v)
  PROVE  \E u, w : Sound(meta, boxes, lost, inserted, u, w)' /\ Changed(val, w)
<1> DEFINE q == <<p, 1>>
           n == InsertOnePage(meta, t, q)
           k == SetPointerMeta(n, p, v)
           R == Rest(boxes, lost)
<1>1. /\ IsPageId(q) /\ Others(q) /\ EnoughCells(meta, t, Cardinality(Missing(meta, q)))
      /\ meta' = k /\ inserted' = inserted \cup {q} /\ boxes' = boxes /\ lost' = lost /\ q \in Pages \X {1}
  BY DEF Insert, IsPageId
<1>2. q[1] = p /\ q[2] = 1 /\ p \in Mapped
  BY <1>1, PageFacts
<1> HIDE DEF q, n
<1>3. \A r \in inserted : Covered(r) \cap Covered(q) = {}
  BY <1>1 DEF Others
<1>4. Inserted(tab, val, R, p, 1, NoMeta, n)
  BY <1>1, <1>2, <1>3, InsertedOne DEF n
<1>5. Inserted(tab, val, R, p, 1, v, k)
  <2> HIDE DEF R
  <2> QED BY <1>2, <1>4, SetMetaSound
<1> HIDE DEF k
<1>6. \E u, w : Sound(k, boxes, lost, inserted \cup {q}, u, w) /\ Grows(val, q, v, w)
  BY <1>1, <1>2, <1>3, <1>5, InsertedSound
<1>7. PICK u, w : Sound(k, boxes, lost, inserted \cup {q}, u, w) /\ Grows(val, q, v, w)
  BY <1>6
<1>8. Changed(val, w)
  BY <1>1, <1>7 DEF Changed
<1> QED BY <1>1, <1>7, <1>8

\* InsertLarge
LEMMA InsertLargeKeeps ==
  ASSUME NEW tab, NEW val, Sound(meta, boxes, lost, inserted, tab, val),
         NEW t \in Threads, NEW q \in LargePages, InsertLarge(t, q)
  PROVE  \E u, w : Sound(meta, boxes, lost, inserted, u, w)' /\ Changed(val, w)
<1> DEFINE k == InsertOnePage(meta, t, q)
<1>1. /\ IsPageId(q) /\ Others(q) /\ EnoughCells(meta, t, Cardinality(Missing(meta, q)))
      /\ meta' = k /\ inserted' = inserted \cup {q} /\ boxes' = boxes /\ lost' = lost
  BY DEF InsertLarge, IsPageId
<1>2. \A r \in inserted : Covered(r) \cap Covered(q) = {}
  BY <1>1 DEF Others
<1>3. Inserted(tab, val, Rest(boxes, lost), q[1], q[2], NoMeta, k)
  BY <1>1, <1>2, InsertedOne
<1> HIDE DEF k
<1>4. \E u, w : Sound(k, boxes, lost, inserted \cup {q}, u, w) /\ Grows(val, q, NoMeta, w)
  BY <1>1, <1>2, <1>3, InsertedSound
<1>5. PICK u, w : Sound(k, boxes, lost, inserted \cup {q}, u, w) /\ Grows(val, q, NoMeta, w)
  BY <1>4
<1>6. Changed(val, w)
  BY <1>1, <1>5 DEF Changed
<1> QED BY <1>1, <1>5, <1>6

\* Every step keeps the invariant.
LEMMA TreeStep ==
  ASSUME NEW tab, NEW val, Sound(meta, boxes, lost, inserted, tab, val), [TreeNext]_treeVars
  PROVE  \E u, w : Sound(meta, boxes, lost, inserted, u, w)' /\ Changed(val, w)
<1>1. ASSUME NEW t \in Threads, NEW p \in Pages, NEW v \in Values, Insert(t, p, v)
      PROVE  \E u, w : Sound(meta, boxes, lost, inserted, u, w)' /\ Changed(val, w)
  BY <1>1, InsertKeeps
<1>2. ASSUME NEW t \in Threads, NEW q \in LargePages, InsertLarge(t, q)
      PROVE  \E u, w : Sound(meta, boxes, lost, inserted, u, w)' /\ Changed(val, w)
  BY <1>2, InsertLargeKeeps
<1>3. ASSUME NEW t \in Threads, NEW q \in inserted, Delete(t, q)
      PROVE  \E u, w : Sound(meta, boxes, lost, inserted, u, w)' /\ Changed(val, w)
  <2>1. PICK u, w : Sound(DeleteOnePage(meta, t, q), boxes, lost, inserted \ {q}, u, w) /\ Shrinks(val, q, w)
    BY DeletedSound
  <2>2. meta' = DeleteOnePage(meta, t, q) /\ inserted' = inserted \ {q} /\ boxes' = boxes /\ lost' = lost
    BY <1>3 DEF Delete
  <2>3. Changed(val, w)
    BY <2>1, <2>2 DEF Changed
  <2> QED BY <2>1, <2>2, <2>3
<1>4. ASSUME NEW t \in Threads, NEW n \in BoxSizes, AllocateBox(t, n), UNCHANGED inserted
      PROVE  \E u, w : Sound(meta, boxes, lost, inserted, u, w)' /\ Changed(val, w)
  <2> DEFINE r == AllocateCell(meta, t, CellClass(n))
  <2>1. /\ ~RequestLarge(n) /\ CanAllocate(meta, t, CellClass(n))
        /\ meta' = Set(r.meta, r.cell..(r.cell + n - 1), Written)
        /\ boxes' = boxes \cup {<<r.cell, n>>} /\ lost' = lost /\ inserted' = inserted /\ n \in Nat
    BY <1>4, TableAssumption DEF AllocateBox
  <2>2. Sound(Set(r.meta, r.cell..(r.cell + n - 1), Written), boxes \cup {<<r.cell, n>>}, lost, inserted, tab, val)
    BY <2>1, BoxSmall
  <2> HIDE DEF r
  <2> QED BY <2>1, <2>2 DEF Changed
<1>5. ASSUME NEW n \in BoxSizes, AllocateLarge(n), UNCHANGED inserted
      PROVE  \E u, w : Sound(meta, boxes, lost, inserted, u, w)' /\ Changed(val, w)
  <2> DEFINE a == Found(meta, PagesFor(n)) * PageWords
  <2>1. /\ RequestLarge(n) /\ Room(meta, PagesFor(n)) # {}
        /\ meta' = Set(MapPages(meta, PagesFor(n)), a..(a + n - 1), Written)
        /\ boxes' = boxes \cup {<<a, n>>} /\ lost' = lost /\ inserted' = inserted /\ n \in Nat
    BY <1>5, TableAssumption DEF AllocateLarge
  <2>2. Sound(Set(MapPages(meta, PagesFor(n)), a..(a + n - 1), Written), boxes \cup {<<a, n>>}, lost, inserted, tab, val)
    BY <2>1, BoxLarge
  <2> HIDE DEF a
  <2> QED BY <2>1, <2>2 DEF Changed
<1>6. ASSUME NEW t \in Threads, NEW b \in boxes, Deallocate(t, b), UNCHANGED inserted
      PROVE  \E u, w : Sound(meta, boxes, lost, inserted, u, w)' /\ Changed(val, w)
  <2>1. /\ meta' = IF RequestLarge(b[2]) THEN UnmapPages(meta, b[1] \div PageWords, PagesFor(b[2]))
                   ELSE LET c == CellClass(b[2]) IN PushCell(meta, t, (b[1] \div 2^c) * 2^c, c)
        /\ boxes' = boxes \ {b} /\ lost' = lost /\ inserted' = inserted
    BY <1>6 DEF Deallocate
  <2>2. Sound(meta', boxes \ {b}, lost, inserted, tab, val)
    BY <2>1, BoxDropped
  <2> QED BY <2>1, <2>2 DEF Changed
<1>7. ASSUME NEW t \in Threads, ThreadEnds(t), UNCHANGED inserted
      PROVE  \E u, w : Sound(meta, boxes, lost, inserted, u, w)' /\ Changed(val, w)
  <2>1. /\ meta' = [meta EXCEPT !.lists[t] = [c \in CellClasses |-> Zero]]
        /\ lost' = lost \cup CellsOf(meta, t) /\ boxes' = boxes /\ inserted' = inserted
    BY <1>7 DEF ThreadEnds, ListedCells, CellsOf
  <2>2. Sound(meta', boxes, lost \cup CellsOf(meta, t), inserted, tab, val)
    BY <2>1, EndSound
  <2> QED BY <2>1, <2>2 DEF Changed
<1>8. CASE UNCHANGED treeVars
  <2>1. meta' = meta /\ boxes' = boxes /\ lost' = lost /\ inserted' = inserted
    BY <1>8 DEF treeVars
  <2> QED BY <2>1 DEF Changed
<1>9. CASE TreeNext
  BY <1>1, <1>2, <1>3, <1>4, <1>5, <1>6, <1>7, <1>9 DEF TreeNext
<1> QED BY <1>8, <1>9
----------------------------------------------------------------------------
\* What the invariant says of what the runs check

\* The slots that lead to tables are the entries of the tables there are.
LEMMA SlotsAre ==
  ASSUME NEW tab, NEW val, Sound(meta, boxes, lost, inserted, tab, val)
  PROVE  /\ \A e \in DOMAIN tab \ {RootId} :
              /\ Slot(tab, e) \in Slots /\ meta.mem[Slot(tab, e)] = TableEntry(tab[e], UsedIn(meta.mem, tab[e]))
         /\ \A s \in Slots : \E e \in DOMAIN tab \ {RootId} : s = Slot(tab, e)
<1>1. /\ Tree(meta.mem, tab, val, RootId, 0) /\ DOMAIN tab = Nodes(inserted)
      /\ \A q \in inserted : IsPageId(q)
  BY DEF Sound, Whole, SeparatePages
<1>2. Layout(tab)
  BY <1>1 DEF Tree
<1>3. ASSUME NEW q \in inserted, NEW l \in (q[2] + 1)..Levels
      PROVE  /\ Walk(meta, q[1])[l] = Slot(tab, Id(q[1], l))
             /\ Id(q[1], l) \in DOMAIN tab \ {RootId}
  <2>1. q[1] \in Mapped /\ q[2] \in Nat /\ l \in 1..Levels /\ l \in 1..(Levels + 1) /\ l + 1 \in l..(Levels + 1)
        /\ Levels \in Nat
    <3>1. q[1] \in Mapped /\ q[2] \in Nat \ {0} /\ Levels \in Nat
      BY <1>1, PageFacts, Spans
    <3> QED BY <3>1
  <2>2. Id(q[1], l) \in DOMAIN tab
    BY <1>1 DEF Nodes
  <2>3. Id(q[1], l) # RootId
    <3>1. Id(q[1], l)[1] = l
      BY DEF Id
    <3> QED BY <2>1, <3>1 DEF RootId
  <2>4. Id(q[1], l + 1) \in DOMAIN tab
    BY <1>2, <2>1, <2>2, TablesAbove
  <2>5. Walk(meta, q[1])[l] = Slot(tab, Id(q[1], l))
    <3> DEFINE p == q[1]
    <3>1. p \in Mapped /\ l \in 1..Levels /\ Id(p, l + 1) \in DOMAIN tab /\ Tree(meta.mem, tab, val, RootId, 0)
      BY <1>1, <2>1, <2>4
    <3> HIDE DEF p
    <3>2. Walk(meta, p)[l] = Slot(tab, Id(p, l))
      BY <3>1, WalkTo
    <3> QED BY <3>2 DEF p
  <2> QED BY <2>2, <2>3, <2>5
<1>4. ASSUME NEW e \in DOMAIN tab \ {RootId}
      PROVE  /\ Slot(tab, e) \in Slots
             /\ meta.mem[Slot(tab, e)] = TableEntry(tab[e], UsedIn(meta.mem, tab[e]))
  <2>1. PICK q, l : q \in inserted /\ l \in (q[2] + 1)..Levels /\ e = Id(q[1], l)
    BY <1>1 DEF Nodes
  <2>2. Slot(tab, e) \in Slots
    BY <1>3, <2>1 DEF Slots
  <2>3. e \in InTable(tab)
    BY <1>2 DEF Layout, InTable
  <2>4. meta.mem[Slot(tab, e)] = Entry(meta.mem, tab, val, RootId, 0, e)
    BY <1>1, <2>3 DEF Tree
  <2>5. UsedIn(meta.mem, tab[e]) \in Nat
    BY <1>1, TreeUsed
  <2> QED BY <2>2, <2>4, <2>5 DEF Entry
<1>5. ASSUME NEW s \in Slots PROVE \E e \in DOMAIN tab \ {RootId} : s = Slot(tab, e)
  <2>1. PICK q, l : q \in inserted /\ l \in (q[2] + 1)..Levels /\ s = Walk(meta, q[1])[l]
    BY DEF Slots
  <2> QED BY <1>3, <2>1
<1> QED BY <1>4, <1>5

\* The counts in entries are those of the tables they lead to.
LEMMA CountsAreExact == TreeInv => CountsExact
<1> SUFFICES ASSUME TreeInv, NEW s \in Slots
             PROVE  LET e == meta.mem[s]
                    IN  /\ IsTable(e)
                        /\ e[3] = Cardinality({a \in e[2]..(e[2] + PageWords - 1) : meta.mem[a] # Empty})
  BY DEF CountsExact
<1>1. PICK tab, val : Sound(meta, boxes, lost, inserted, tab, val)
  BY DEF TreeInv
<1>2. PICK f \in DOMAIN tab : meta.mem[s] = TableEntry(tab[f], UsedIn(meta.mem, tab[f]))
  BY <1>1, SlotsAre
<1>3. /\ IsTable(meta.mem[s]) /\ meta.mem[s][2] = tab[f] /\ meta.mem[s][3] = UsedIn(meta.mem, tab[f])
  BY <1>2, EntryKinds
<1> QED BY <1>3 DEF UsedIn

\* The words of a table are a cell of the last class.
LEMMA TableFootprint ==
  ASSUME NEW a \in Nat
  PROVE  Footprint(<<a, PageWords>>) = a..(a + PageWords - 1)
<1>1. PageWords \in Nat /\ ~RequestLarge(PageWords) /\ PageWords = 2^LogPage /\ LogPage \in Nat
  BY Sizes DEF RequestLarge
<1>2. CellClass(PageWords) = LogPage
  <2>1. CellClass(PageWords) \in CellClasses /\ PageWords <= 2^CellClass(PageWords)
    BY <1>1, CellClassIs
  <2> DEFINE c == CellClass(PageWords)
  <2> HIDE DEF c
  <2>2. c \in 0..LogPage /\ PageWords <= 2^c
    BY <2>1 DEF CellClasses, c
  <2>3. CASE c # LogPage
    <3>1. c \in Nat /\ c + 1 \in 0..LogPage
      BY <1>1, <2>2, <2>3
    <3>2. 2^(c + 1) <= 2^LogPage /\ 2^(c + 1) = 2 * 2^c /\ 2^c \in Nat \ {0} /\ 2^LogPage \in Nat
      BY <1>1, <3>1, PowerGrows, PowerStep, PowerNat
    <3> QED BY <1>1, <2>2, <3>2
  <2> QED BY <2>3 DEF c
<1> QED BY <1>1, <1>2 DEF Footprint

\* Whom a word of memory is for
Owner(d) == IF d[1][1] = "table" THEN <<d[2], d[3]>> ELSE d[1][2]
InUse(d) == d[1][1] \in {"table", "box"}

\* A set that has no more than x
LEMMA OneOnly ==
  ASSUME NEW S, NEW x
  PROVE  /\ S = {} => Cardinality(S) = 0
         /\ x \in S /\ (\A y \in S : y = x) => Cardinality(S) = 1
<1>1. x \in S /\ (\A y \in S : y = x) => S = {x}
  OBVIOUS
<1> QED BY <1>1, FS_EmptySet, FS_Singleton

\* Whether one of these tiles has a word
Hits(S, a) == IF \E d \in S : a \in Area(d) THEN 1 ELSE 0

\* Those in S that have word a, and the tiles of those in S
Having(S, ext, a) == {b \in S : a \in ext[b]}
Own(S, G, own, ext) ==
  /\ \A b \in S : \E d \in G : own[d] = b
  /\ \A d \in G : own[d] \in S /\ ext[own[d]] = Area(d)

\* Where those in S have the tiles G, one has a word that is in those tiles.
LEMMA CountOne ==
  ASSUME NEW D, NEW U, Tiled(D, U), NEW G, G \subseteq D, NEW S, NEW own, NEW ext, Own(S, G, own, ext),
         NEW a
  PROVE  Cardinality(Having(S, ext, a)) = Hits(G, a)
<1> DEFINE X == Having(S, ext, a)
<1>0. /\ \A b \in S : \E d \in G : own[d] = b
      /\ \A d \in G : own[d] \in S /\ ext[own[d]] = Area(d)
  BY DEF Own
<1>1. CASE \E d \in G : a \in Area(d)
  <2>1. PICK d \in G : a \in Area(d)
    BY <1>1
  <2>2. own[d] \in X
    BY <1>0, <2>1 DEF Having
  <2>3. ASSUME NEW b \in X PROVE b = own[d]
    <3>1. PICK e \in G : own[e] = b
      BY <1>0 DEF Having
    <3>2. a \in Area(e)
      BY <1>0, <3>1 DEF Having
    <3>3. Area(d) \cap Area(e) # {}
      BY <2>1, <3>2
    <3>4. d = e
      BY <3>3 DEF Tiled
    <3> QED BY <3>1, <3>4
  <2> HIDE DEF X
  <2>4. Cardinality(X) = 1
    BY <2>2, <2>3, OneOnly
  <2> QED BY <1>1, <2>4 DEF X, Hits
<1>2. CASE ~\E d \in G : a \in Area(d)
  <2>1. X = {}
    BY <1>0, <1>2 DEF Having
  <2> HIDE DEF X
  <2>2. Cardinality(X) = 0
    BY <2>1, OneOnly
  <2> QED BY <1>2, <2>2 DEF X, Hits
<1> QED BY <1>1, <1>2

\* Tables, boxes, free and lost cells: who has what
LEMMA OwnersAre ==
  ASSUME NEW tab, NEW val, Sound(meta, boxes, lost, inserted, tab, val), NEW D, Store(meta, D),
         Held(D) = TableTiles(tab) \cup Rest(boxes, lost)
  PROVE  /\ \A b \in Tables \cup boxes : \E d \in D : InUse(d) /\ Owner(d) = b
         /\ \A d \in D : InUse(d) => Owner(d) \in Tables \cup boxes /\ Footprint(Owner(d)) = Area(d)
         /\ \A c \in lost : \E d \in D : d[1][1] = "lost" /\ Owner(d) = c
         /\ \A d \in D : d[1][1] = "lost" =>
              Owner(d) \in lost /\ Owner(d)[1]..(Owner(d)[1] + Owner(d)[2] - 1) = Area(d)
         /\ \A d \in D : IsLoose(d) \/ InUse(d) \/ d[1][1] = "lost"
<1>1. Layout(tab)
  BY DEF Sound, Whole, Tree
<1>2. \A b \in Tables : \E e \in DOMAIN tab \ {RootId} : b = <<tab[e], PageWords>>
  <2> SUFFICES ASSUME NEW s \in Slots
               PROVE  \E e \in DOMAIN tab \ {RootId} : meta.mem[s][2] = tab[e]
    BY DEF Tables
  <2>1. PICK e \in DOMAIN tab \ {RootId} : meta.mem[s] = TableEntry(tab[e], UsedIn(meta.mem, tab[e]))
    BY SlotsAre
  <2> QED BY <2>1, EntryKinds
<1>3. \A e \in DOMAIN tab \ {RootId} : <<tab[e], PageWords>> \in Tables
  <2> SUFFICES ASSUME NEW e \in DOMAIN tab \ {RootId} PROVE <<tab[e], PageWords>> \in Tables
    OBVIOUS
  <2>1. Slot(tab, e) \in Slots /\ meta.mem[Slot(tab, e)] = TableEntry(tab[e], UsedIn(meta.mem, tab[e]))
    BY SlotsAre
  <2>2. meta.mem[Slot(tab, e)][2] = tab[e]
    BY <2>1, EntryKinds
  <2> QED BY <2>1, <2>2 DEF Tables
<1>4. \A e \in DOMAIN tab \ {RootId} : LET d == TableTile(tab, e) IN
        /\ d \in Held(D) /\ InUse(d) /\ d[1][1] # "lost" /\ Owner(d) = <<tab[e], PageWords>>
        /\ Footprint(<<tab[e], PageWords>>) = Area(d)
  <2> SUFFICES ASSUME NEW e \in DOMAIN tab \ {RootId}
               PROVE  LET d == TableTile(tab, e) IN
                      /\ d \in Held(D) /\ InUse(d) /\ d[1][1] # "lost" /\ Owner(d) = <<tab[e], PageWords>>
                      /\ Footprint(<<tab[e], PageWords>>) = Area(d)
    OBVIOUS
  <2>1. tab[e] \in Nat
    BY <1>1 DEF Layout
  <2>2. Footprint(<<tab[e], PageWords>>) = tab[e]..(tab[e] + PageWords - 1)
    BY <2>1, TableFootprint
  <2>3. TableTile(tab, e) \in Held(D)
    BY DEF TableTiles
  <2> QED BY <2>2, <2>3 DEF TableTile, InUse, Owner, Area
<1>5. \A b \in boxes : LET d == BoxTile(b) IN
        d \in Held(D) /\ InUse(d) /\ d[1][1] # "lost" /\ Owner(d) = b /\ Footprint(b) = Area(d)
  BY DEF Rest, BoxTile, BoxWords, InUse, Owner, Area, Footprint
<1>6. \A c \in lost : LET d == LostTile(c) IN
        d \in Held(D) /\ ~InUse(d) /\ d[1][1] = "lost" /\ Owner(d) = c /\ c[1]..(c[1] + c[2] - 1) = Area(d)
  BY DEF Rest, LostTile, InUse, Owner, Area
<1>7. \A d \in D : ~IsLoose(d) =>
        \/ \E e \in DOMAIN tab \ {RootId} : d = TableTile(tab, e)
        \/ \E b \in boxes : d = BoxTile(b)
        \/ \E c \in lost : d = LostTile(c)
  BY DEF Held, TableTiles, Rest
<1>8. \A d \in D : IsLoose(d) => ~InUse(d) /\ d[1][1] # "lost"
  BY DEF IsLoose, InUse
<1>9. Held(D) \subseteq D
  BY DEF Held
<1>10. \A b \in Tables \cup boxes : \E d \in D : InUse(d) /\ Owner(d) = b
  BY <1>2, <1>4, <1>5, <1>9
<1>11. \A d \in D : InUse(d) => Owner(d) \in Tables \cup boxes /\ Footprint(Owner(d)) = Area(d)
  <2> SUFFICES ASSUME NEW d \in D, InUse(d)
               PROVE  Owner(d) \in Tables \cup boxes /\ Footprint(Owner(d)) = Area(d)
    OBVIOUS
  <2>0. ~IsLoose(d)
    BY <1>8
  <2>1. CASE \E e \in DOMAIN tab \ {RootId} : d = TableTile(tab, e)
    <3>1. PICK e \in DOMAIN tab \ {RootId} : d = TableTile(tab, e)
      BY <2>1
    <3>2. Owner(d) = <<tab[e], PageWords>> /\ Footprint(<<tab[e], PageWords>>) = Area(d)
      BY <1>4, <3>1
    <3>3. <<tab[e], PageWords>> \in Tables
      BY <1>3
    <3> QED BY <3>2, <3>3
  <2>2. CASE \E b \in boxes : d = BoxTile(b)
    BY <1>5, <2>2
  <2>3. CASE \E c \in lost : d = LostTile(c)
    BY <1>6, <2>3
  <2> QED BY <1>7, <2>0, <2>1, <2>2, <2>3
<1>12. \A c \in lost : \E d \in D : d[1][1] = "lost" /\ Owner(d) = c
  BY <1>6, <1>9
<1>13. \A d \in D : d[1][1] = "lost" =>
         Owner(d) \in lost /\ Owner(d)[1]..(Owner(d)[1] + Owner(d)[2] - 1) = Area(d)
  <2> SUFFICES ASSUME NEW d \in D, d[1][1] = "lost"
               PROVE  Owner(d) \in lost /\ Owner(d)[1]..(Owner(d)[1] + Owner(d)[2] - 1) = Area(d)
    OBVIOUS
  <2>1. PICK c \in lost : d = LostTile(c)
    BY <1>4, <1>5, <1>7, <1>8
  <2>2. Owner(LostTile(c)) = c /\ c[1]..(c[1] + c[2] - 1) = Area(LostTile(c))
    BY <1>6
  <2> QED BY <2>1, <2>2
<1>14. \A d \in D : IsLoose(d) \/ InUse(d) \/ d[1][1] = "lost"
  BY <1>4, <1>5, <1>6, <1>7
<1> QED BY <1>10, <1>11, <1>12, <1>13, <1>14

\* The cells in lists, with their threads, and the one a loose tile is
Free == UNION {{t} \X ListedCells(t) : t \in Threads}
Lister(d) == <<d[1][2][1], <<d[2], d[3]>>>>

\* The cells in the lists are the loose tiles.
LEMMA FreeAre ==
  ASSUME NEW D, Store(meta, D)
  PROVE  /\ \A f \in Free : \E d \in D : IsLoose(d) /\ Lister(d) = f
         /\ \A d \in D : IsLoose(d) =>
              Lister(d) \in Free /\ Lister(d)[2][1]..(Lister(d)[2][1] + Lister(d)[2][2] - 1) = Area(d)
<1>1. \A t \in Threads : ListedCells(t) = UNION {{<<a, 2^c>> : a \in LooseIn(D, t, c)} : c \in CellClasses}
  <2> SUFFICES ASSUME NEW t \in Threads
               PROVE  ListedCells(t) = UNION {{<<a, 2^c>> : a \in LooseIn(D, t, c)} : c \in CellClasses}
    OBVIOUS
  <2>1. \A c \in CellClasses : Chain(meta, meta.lists[t][c]) = LooseIn(D, t, c)
    BY ChainIs
  <2> QED BY <2>1 DEF ListedCells
<1>2. \A t, c, a : Lister(Loose(t, c, a)) = <<t, <<a, 2^c>>>>
  BY DEF Lister, Loose
<1>3. ASSUME NEW f \in Free PROVE \E d \in D : IsLoose(d) /\ Lister(d) = f
  <2>1. PICK t \in Threads : f \in {t} \X ListedCells(t)
    BY DEF Free
  <2>2. PICK c, a : c \in CellClasses /\ a \in LooseIn(D, t, c) /\ f = <<t, <<a, 2^c>>>>
    BY <1>1, <2>1
  <2>3. Loose(t, c, a) \in D /\ IsLoose(Loose(t, c, a))
    BY <2>2, LooseOnce DEF LooseIn
  <2> QED BY <1>2, <2>2, <2>3
<1>4. ASSUME NEW d \in D, IsLoose(d)
      PROVE  Lister(d) \in Free /\ Lister(d)[2][1]..(Lister(d)[2][1] + Lister(d)[2][2] - 1) = Area(d)
  <2>1. PICK t \in Threads, c \in CellClasses : d = Loose(t, c, d[2])
    BY <1>4 DEF Store, LooseSound
  <2>2. d[2] \in Words
    BY StoreAreas
  <2> DEFINE a == d[2]
  <2>3. a \in LooseIn(D, t, c) /\ Lister(d) = <<t, <<a, 2^c>>>>
    <3>1. Loose(t, c, a) \in D /\ a \in Words
      BY <2>1, <2>2
    <3>2. Lister(d) = Lister(Loose(t, c, a))
      BY <2>1
    <3> HIDE DEF a
    <3> QED BY <1>2, <3>1, <3>2 DEF LooseIn
  <2>4. <<a, 2^c>> \in ListedCells(t)
    BY <1>1, <2>3
  <2>5. Lister(d) \in Free
    BY <2>3, <2>4 DEF Free
  <2> QED BY <2>5 DEF Lister, Area
<1> QED BY <1>3, <1>4
----------------------------------------------------------------------------
\* A word is in one tile, and a tile is of one kind.
LEMMA KindsAre ==
  ASSUME NEW D, NEW U, Tiled(D, U), NEW a, NEW F, NEW G, NEW H,
         D = F \cup G \cup H, F \cap G = {}, F \cap H = {}, G \cap H = {}
  PROVE  Hits(F, a) + Hits(G, a) + Hits(H, a) = IF a \in U THEN 1 ELSE 0
<1>1. CASE a \notin U
  <2>1. \A d \in D : a \notin Area(d)
    BY <1>1 DEF Tiled
  <2>2. /\ ~\E d \in F : a \in Area(d)
        /\ ~\E d \in G : a \in Area(d)
        /\ ~\E d \in H : a \in Area(d)
    BY <2>1
  <2> QED BY <1>1, <2>2 DEF Hits
<1>2. CASE a \in U
  <2>1. PICK d \in D : a \in Area(d)
    BY <1>2 DEF Tiled
  <2>2. \A e \in D : a \in Area(e) => e = d
    <3> SUFFICES ASSUME NEW e \in D, a \in Area(e) PROVE e = d
      OBVIOUS
    <3>1. Area(d) \cap Area(e) # {}
      BY <2>1
    <3> QED BY <3>1 DEF Tiled
  <2>3. /\ (\E e \in F : a \in Area(e)) <=> d \in F
        /\ (\E e \in G : a \in Area(e)) <=> d \in G
        /\ (\E e \in H : a \in Area(e)) <=> d \in H
    BY <2>1, <2>2
  <2>4. \/ d \in F /\ d \notin G /\ d \notin H
        \/ d \notin F /\ d \in G /\ d \notin H
        \/ d \notin F /\ d \notin G /\ d \in H
    OBVIOUS
  <2> QED BY <1>2, <2>3, <2>4 DEF Hits
<1> QED BY <1>1, <1>2

\* Each word of the mapped pages is in one place.
LEMMA WordsAreConserved == TreeInv => WordsConserved
<1> SUFFICES ASSUME TreeInv PROVE WordsConserved
  OBVIOUS
<1>1. PICK tab, val : Sound(meta, boxes, lost, inserted, tab, val)
  BY DEF TreeInv
<1>2. PICK D : Store(meta, D) /\ Held(D) = TableTiles(tab) \cup Rest(boxes, lost)
  BY <1>1 DEF Sound, Whole
<1> DEFINE U == WordsOf(meta.mapped)
           busy == Tables \cup boxes
           Words1(c) == c[1]..(c[1] + c[2] - 1)
           F == {d \in D : IsLoose(d)}
           G == {d \in D : InUse(d)}
           H == {d \in D : d[1][1] = "lost"}
           ownF == [d \in D |-> Lister(d)]
           own == [d \in D |-> Owner(d)]
           extF == [f \in Free |-> Words1(f[2])]
           extG == [b \in busy |-> Footprint(b)]
           extH == [c \in lost |-> Words1(c)]
<1>3. Tiled(D, U)
  BY <1>2 DEF Store
<1>4. /\ \A b \in busy : \E d \in D : InUse(d) /\ Owner(d) = b
      /\ \A d \in D : InUse(d) => Owner(d) \in busy /\ Footprint(Owner(d)) = Area(d)
      /\ \A c \in lost : \E d \in D : d[1][1] = "lost" /\ Owner(d) = c
      /\ \A d \in D : d[1][1] = "lost" => Owner(d) \in lost /\ Words1(Owner(d)) = Area(d)
      /\ \A d \in D : IsLoose(d) \/ InUse(d) \/ d[1][1] = "lost"
  BY <1>1, <1>2, OwnersAre
<1>5. /\ \A f \in Free : \E d \in D : IsLoose(d) /\ Lister(d) = f
      /\ \A d \in D : IsLoose(d) => Lister(d) \in Free /\ Words1(Lister(d)[2]) = Area(d)
  BY <1>2, FreeAre
<1>6. D = F \cup G \cup H /\ F \cap G = {} /\ F \cap H = {} /\ G \cap H = {}
  BY <1>4 DEF IsLoose, InUse
<1>7. Own(Free, F, ownF, extF)
  BY <1>5 DEF Own
<1>8. Own(busy, G, own, extG)
  BY <1>4 DEF Own
<1>9. Own(lost, H, own, extH)
  BY <1>4 DEF Own
<1>10. F \subseteq D /\ G \subseteq D /\ H \subseteq D
  OBVIOUS
<1>11. /\ \A f \in Free : extF[f] = Words1(f[2])
       /\ \A b \in busy : extG[b] = Footprint(b)
       /\ \A c \in lost : extH[c] = Words1(c)
  OBVIOUS
<1> HIDE DEF F, G, H, ownF, own, extF, extG, extH, busy, U
<1>12. ASSUME NEW a
       PROVE  Cardinality({b \in busy : a \in Footprint(b)}) + Cardinality({f \in Free : a \in Words1(f[2])})
              + Cardinality({c \in lost : a \in Words1(c)}) = IF a \in U THEN 1 ELSE 0
  <2>1. Cardinality(Having(Free, extF, a)) = Hits(F, a)
    BY <1>3, <1>7, <1>10, CountOne
  <2>2. Cardinality(Having(busy, extG, a)) = Hits(G, a)
    BY <1>3, <1>8, <1>10, CountOne
  <2>3. Cardinality(Having(lost, extH, a)) = Hits(H, a)
    BY <1>3, <1>9, <1>10, CountOne
  <2>4. Having(Free, extF, a) = {f \in Free : a \in Words1(f[2])}
    BY <1>11 DEF Having
  <2>5. Having(busy, extG, a) = {b \in busy : a \in Footprint(b)}
    BY <1>11 DEF Having
  <2>6. Having(lost, extH, a) = {c \in lost : a \in Words1(c)}
    BY <1>11 DEF Having
  <2>7. Hits(F, a) + Hits(G, a) + Hits(H, a) = IF a \in U THEN 1 ELSE 0
    BY <1>3, <1>6, KindsAre
  <2>8. Hits(F, a) \in Int /\ Hits(G, a) \in Int /\ Hits(H, a) \in Int
    BY DEF Hits
  <2>9. Cardinality(Having(busy, extG, a)) + Cardinality(Having(Free, extF, a))
        + Cardinality(Having(lost, extH, a)) = IF a \in U THEN 1 ELSE 0
    BY <2>1, <2>2, <2>3, <2>7, <2>8
  <2> QED BY <2>4, <2>5, <2>6, <2>9
<1> QED BY <1>12 DEF WordsConserved, Free, U, busy

\* The variables have their types.
LEMMA TypesAreRight == TreeInv => TreeTypeOK /\ CommittedExact
<1> SUFFICES ASSUME TreeInv PROVE TreeTypeOK /\ CommittedExact
  OBVIOUS
<1>1. PICK tab, val : Sound(meta, boxes, lost, inserted, tab, val)
  BY DEF TreeInv
<1>2. PICK D : Store(meta, D) /\ Held(D) = TableTiles(tab) \cup Rest(boxes, lost)
  BY <1>1 DEF Sound, Whole
<1>3. meta \in Metas /\ CommittedExact
  BY <1>2 DEF Store, CommittedExact
<1>4. meta.lists \in [Threads -> [CellClasses -> Words]] /\ meta.mapped \subseteq 1..MaxFrames
  BY <1>3 DEF Metas
<1>5. ASSUME NEW b \in boxes \cup lost PROVE b[1] \in Words
  <2>1. PICK d \in D : d[2] = b[1]
    <3>0. Rest(boxes, lost) \subseteq D
      BY <1>2 DEF Held
    <3>1. CASE b \in boxes
      <4>1. BoxTile(b) \in Rest(boxes, lost) /\ BoxTile(b)[2] = b[1]
        BY <3>1 DEF Rest, BoxTile
      <4> QED BY <3>0, <4>1
    <3>2. CASE b \in lost
      <4>1. LostTile(b) \in Rest(boxes, lost) /\ LostTile(b)[2] = b[1]
        BY <3>2 DEF Rest, LostTile
      <4> QED BY <3>0, <4>1
    <3> QED BY <3>1, <3>2
  <2> QED BY <1>2, <2>1, StoreAreas
<1>6. inserted \subseteq (Pages \X {1}) \cup LargePages
  BY <1>1 DEF Sound, SeparatePages, IsPageId
<1> QED BY <1>3, <1>4, <1>5, <1>6 DEF TreeTypeOK

\* The tree and its memory stay right together.
THEOREM TablesStaySound == TreeSpec => []TablesSound
<1>1. TreeInit => TreeInv
  BY TreeInitInv
<1>2. TreeInv /\ [TreeNext]_treeVars => TreeInv'
  <2> SUFFICES ASSUME TreeInv, [TreeNext]_treeVars PROVE TreeInv'
    OBVIOUS
  <2>1. PICK tab, val : Sound(meta, boxes, lost, inserted, tab, val)
    BY DEF TreeInv
  <2>2. \E u, w : Sound(meta, boxes, lost, inserted, u, w)' /\ Changed(val, w)
    BY <2>1, TreeStep
  <2> QED BY <2>2 DEF TreeInv
<1>3. TreeInv => TablesSound
  BY CountsAreExact, WordsAreConserved, TypesAreRight DEF TablesSound
<1> QED BY <1>1, <1>2, <1>3, PTL DEF TreeSpec
----------------------------------------------------------------------------
\* Pages that can be inserted are mapped by the tree.
LEMMA CoveredMapped ==
  ASSUME NEW q, IsPageId(q)
  PROVE  Covered(q) \subseteq Mapped /\ Covered(q) \subseteq AllPages
<1>1. Covered(q) \subseteq Mapped
  <2> SUFFICES ASSUME NEW p \in Covered(q) PROVE p \in Mapped
    OBVIOUS
  <2>1. /\ p \in Nat /\ q[1] \in Nat /\ q[1] \in Mapped /\ q[2] \in Nat \ {0} /\ q[2] \in 1..Levels
        /\ Id(p, q[2]) = Id(q[1], q[2])
    BY PageFacts
  <2> DEFINE n == Levels + 1
             s == SpanOf(n)
  <2>2. n \in Nat \ {0} /\ q[2] <= n /\ s \in Nat \ {0}
    BY <2>1, Spans
  <2> HIDE DEF n
  <2>3. Id(p, n) = Id(q[1], n)
    <3> DEFINE r == q[1]
               l == q[2]
    <3>1. p \in Nat /\ r \in Nat /\ l \in Nat \ {0} /\ Id(p, l) = Id(r, l) /\ n \in Nat /\ l <= n
      BY <2>1, <2>2
    <3> HIDE DEF r, l
    <3>2. Id(p, n) = Id(r, n)
      BY <3>1, IdAbove
    <3> QED BY <3>2 DEF r
  <2>4. Id(p, n) = <<n, 0>>
    BY <2>1, <2>3, IdTop DEF n, RootId
  <2>5. p \div s = 0
    BY <2>4 DEF Id
  <2> HIDE DEF s
  <2>6. p <= s - 1
    BY <2>1, <2>2, <2>5, Quotient
  <2> QED BY <2>1, <2>2, <2>6 DEF Mapped, s, n
<1>2. Covered(q) \subseteq AllPages
  <2>1. CASE q \in Pages \X {1}
    <3>1. Covered(q) = {q[1]} /\ q[1] \in Pages
      BY <2>1, PageFacts, Spans DEF Covered
    <3> QED BY <3>1 DEF AllPages
  <2>2. CASE q \in LargePages
    BY <2>2 DEF AllPages
  <2> QED BY <2>1, <2>2 DEF IsPageId
<1> QED BY <1>1, <1>2

\* All pages the map speaks of are mapped by the tree.
LEMMA AllMapped == AllPages \subseteq Mapped
<1>1. Pages \subseteq Mapped
  BY TableAssumption
<1>2. \A q \in LargePages : Covered(q) \subseteq Mapped
  BY CoveredMapped DEF IsPageId
<1> QED BY <1>1, <1>2 DEF AllPages

\* What the tree answers
Shows(m, ins, val) ==
  \A p \in AllPages :
    /\ \A r \in ins : p \in Covered(r) =>
         LET v == val[Id(r[1], r[2])] IN Get(m, p) = <<v>> /\ v \in Values \cup {NoMeta}
    /\ (\A r \in ins : p \notin Covered(r)) => Get(m, p) = NoPage

\* What get answers for each page: the value of the page that covers it, if there is one.
LEMMA SoundShows ==
  ASSUME NEW m, NEW B, NEW L, NEW ins, NEW tab, NEW val, Sound(m, B, L, ins, tab, val)
  PROVE  Shows(m, ins, val)
<1>1. /\ Tree(m.mem, tab, val, RootId, 0) /\ DOMAIN val = Leaves(ins) /\ \A r \in ins : IsPageId(r)
      /\ \A e \in DOMAIN val : val[e] \in Values \cup {NoMeta}
  BY DEF Sound, Whole, SeparatePages
<1>2. ASSUME NEW p \in AllPages, NEW r \in ins, p \in Covered(r)
      PROVE  Get(m, p) = <<val[Id(r[1], r[2])]>> /\ val[Id(r[1], r[2])] \in Values \cup {NoMeta}
  <2> DEFINE e == Id(r[1], r[2])
  <2>1. p \in Mapped /\ p \in Nat
    BY AllMapped, IdTop
  <2>2. r[2] \in 1..Levels /\ Id(p, r[2]) = e
    BY <1>1, <1>2, <2>1, PageFacts
  <2>3. e \in DOMAIN val
    BY <1>1 DEF Leaves
  <2> HIDE DEF e
  <2>4. \A l \in 1..Levels : Id(p, l) \in DOMAIN val => Get(m, p) = <<val[Id(p, l)]>>
    BY <1>1, <2>1, GetIs
  <2>5. Get(m, p) = <<val[e]>>
    BY <2>2, <2>3, <2>4
  <2> QED BY <1>1, <2>3, <2>5 DEF e
<1>3. ASSUME NEW p \in AllPages, \A r \in ins : p \notin Covered(r)
      PROVE  Get(m, p) = NoPage
  <2>1. p \in Mapped /\ p \in Nat
    BY AllMapped, IdTop
  <2>2. ASSUME NEW l \in 1..Levels, Id(p, l) \in DOMAIN val PROVE FALSE
    <3>1. PICK r \in ins : Id(p, l) = Id(r[1], r[2])
      BY <1>1, <2>2 DEF Leaves
    <3>2. l = r[2]
      BY <3>1 DEF Id
    <3>3. p \in Covered(r)
      BY <1>1, <2>1, <3>1, <3>2, PageFacts
    <3> QED BY <1>3, <3>3
  <2>3. \A l \in 1..Levels : Id(p, l) \notin DOMAIN val
    BY <2>2
  <2> QED BY <1>1, <2>1, <2>3, GetIs
<1> QED BY <1>2, <1>3 DEF Shows

\* Only the page itself changes in what the tree shows.
Becoming(m, k, S, A, Z) ==
  /\ \A p \in S : Get(m, p) \in A /\ Get(k, p) \in Z
  /\ \A p \in AllPages \ S : Get(k, p) = Get(m, p)

\* A page that is not covered has its entry elsewhere.
LEMMA LeafOf ==
  ASSUME NEW q, IsPageId(q), NEW r, IsPageId(r), NEW p \in AllPages, p \in Covered(r), p \notin Covered(q)
  PROVE  Id(r[1], r[2]) # Id(q[1], q[2])
<1>1. p \in Nat
  BY AllMapped, IdTop
<1>2. Id(p, r[2]) = Id(r[1], r[2])
  BY <1>1, PageFacts
<1>3. ASSUME Id(r[1], r[2]) = Id(q[1], q[2]) PROVE FALSE
  <2>1. r[2] = q[2]
    BY <1>3 DEF Id
  <2>2. Id(p, q[2]) = Id(q[1], q[2])
    BY <1>2, <1>3, <2>1
  <2> QED BY <1>1, <2>2, PageFacts
<1> QED BY <1>3

\* An insertion shows in the pages it covers.
LEMMA GrowsShows ==
  ASSUME NEW m, NEW k, NEW ins, NEW val, NEW w, SeparatePages(ins), Shows(m, ins, val), DOMAIN val = Leaves(ins),
         NEW q, IsPageId(q), \A r \in ins : Covered(r) \cap Covered(q) = {},
         NEW v, Grows(val, q, v, w), Shows(k, ins \cup {q}, w)
  PROVE  Becoming(m, k, Covered(q), {NoPage}, {<<v>>})
<1> DEFINE e == Id(q[1], q[2])
<1>1. DOMAIN w = DOMAIN val \cup {e} /\ \A g \in DOMAIN w : w[g] = IF g = e THEN v ELSE val[g]
  BY DEF Grows, Put
<1>2. ASSUME NEW p \in Covered(q) PROVE Get(m, p) = NoPage /\ Get(k, p) = <<v>>
  <2>1. p \in AllPages
    BY CoveredMapped
  <2>2. \A r \in ins : p \notin Covered(r)
    OBVIOUS
  <2>3. w[e] = v
    BY <1>1
  <2> QED BY <2>1, <2>2, <2>3 DEF Shows
<1>3. ASSUME NEW p \in AllPages \ Covered(q) PROVE Get(k, p) = Get(m, p)
  <2>1. CASE \E r \in ins : p \in Covered(r)
    <3>1. PICK r \in ins : p \in Covered(r)
      BY <2>1
    <3> DEFINE g == Id(r[1], r[2])
    <3>2. g # e
      BY <3>1, LeafOf DEF SeparatePages
    <3>3. g \in DOMAIN val
      BY DEF Leaves
    <3>4. Get(m, p) = <<val[g]>> /\ Get(k, p) = <<w[g]>>
      BY <3>1 DEF Shows
    <3> HIDE DEF g, e
    <3>5. w[g] = val[g]
      BY <1>1, <3>2, <3>3
    <3> QED BY <3>4, <3>5
  <2>2. CASE \A r \in ins : p \notin Covered(r)
    <3>1. \A r \in ins \cup {q} : p \notin Covered(r)
      BY <1>3, <2>2
    <3> QED BY <2>2, <3>1 DEF Shows
  <2> QED BY <2>1, <2>2
<1> QED BY <1>2, <1>3 DEF Becoming

\* A deletion shows in the pages it covers.
LEMMA ShrinksShows ==
  ASSUME NEW m, NEW k, NEW ins, NEW val, NEW w, SeparatePages(ins), Shows(m, ins, val), DOMAIN val = Leaves(ins),
         NEW q \in ins, Shrinks(val, q, w), Shows(k, ins \ {q}, w)
  PROVE  Becoming(m, k, Covered(q), {<<v>> : v \in Values \cup {NoMeta}}, {NoPage})
<1> DEFINE e == Id(q[1], q[2])
<1>0. \A r \in ins : IsPageId(r)
  BY DEF SeparatePages
<1>1. DOMAIN w = DOMAIN val \ {e} /\ \A g \in DOMAIN w : w[g] = val[g]
  BY DEF Shrinks, Drop
<1>2. ASSUME NEW p \in Covered(q) PROVE Get(m, p) \in {<<v>> : v \in Values \cup {NoMeta}} /\ Get(k, p) = NoPage
  <2>1. p \in AllPages
    BY <1>0, CoveredMapped
  <2>2. \A r \in ins \ {q} : p \notin Covered(r)
    <3> SUFFICES ASSUME NEW r \in ins \ {q}, p \in Covered(r) PROVE FALSE
      OBVIOUS
    <3>1. Covered(q) \cap Covered(r) # {}
      OBVIOUS
    <3> QED BY <3>1 DEF SeparatePages
  <2>3. Get(m, p) = <<val[e]>> /\ val[e] \in Values \cup {NoMeta}
    BY <2>1 DEF Shows
  <2>4. Get(k, p) = NoPage
    BY <2>1, <2>2 DEF Shows
  <2> QED BY <2>3, <2>4
<1>3. ASSUME NEW p \in AllPages \ Covered(q) PROVE Get(k, p) = Get(m, p)
  <2>1. CASE \E r \in ins : p \in Covered(r)
    <3>1. PICK r \in ins : p \in Covered(r)
      BY <2>1
    <3> DEFINE g == Id(r[1], r[2])
    <3>2. g # e /\ r # q
      BY <1>0, <1>3, <3>1, LeafOf
    <3>3. g \in DOMAIN val
      BY DEF Leaves
    <3>4. Get(m, p) = <<val[g]>> /\ Get(k, p) = <<w[g]>>
      BY <3>1, <3>2 DEF Shows
    <3> HIDE DEF g, e
    <3>5. w[g] = val[g]
      BY <1>1, <3>2, <3>3
    <3> QED BY <3>4, <3>5
  <2>2. CASE \A r \in ins : p \notin Covered(r)
    BY <2>2 DEF Shows
  <2> QED BY <2>1, <2>2
<1> QED BY <1>2, <1>3 DEF Becoming

\* Without insertions and deletions the answers stay.
LEMMA StaysShown ==
  ASSUME NEW m, NEW k, NEW ins, NEW val, Shows(m, ins, val), Shows(k, ins, val), NEW p \in AllPages
  PROVE  Get(k, p) = Get(m, p)
<1>1. CASE \E r \in ins : p \in Covered(r)
  BY <1>1 DEF Shows
<1>2. CASE \A r \in ins : p \notin Covered(r)
  BY <1>2 DEF Shows
<1> QED BY <1>1, <1>2

\* An empty tree is an empty map.
LEMMA ShowsInit ==
  ASSUME TreeInit
  PROVE  \A p \in AllPages : Get(meta, p) = NoPage
<1>1. inserted = {} /\ TreeInv
  BY TreeInitInv
<1>2. PICK tab, val : Sound(meta, boxes, lost, inserted, tab, val)
  BY <1>1 DEF TreeInv
<1>3. Shows(meta, inserted, val)
  BY <1>2, SoundShows
<1> QED BY <1>1, <1>3 DEF Shows

\* What becomes of the map, said of the tree
LEMMA BecomesIs ==
  ASSUME NEW S, S \subseteq AllPages, NEW A, NEW Z, Becoming(meta, meta', S, A, Z)
  PROVE  Map!Becomes(S, A, Z)
BY DEF Becoming, Map!Becomes

\* A step of the tree is a step of the map.
LEMMA TreeStepShows ==
  ASSUME TreeInv, [TreeNext]_treeVars
  PROVE  TreeInv' /\ [Map!Next]_[p \in AllPages |-> Get(meta, p)]
<1>1. PICK tab, val : Sound(meta, boxes, lost, inserted, tab, val)
  BY DEF TreeInv
<1>2. PICK u, w : Sound(meta, boxes, lost, inserted, u, w)' /\ Changed(val, w)
  BY <1>1, TreeStep
<1>3. TreeInv'
  BY <1>2 DEF TreeInv
<1>4. Shows(meta, inserted, val) /\ SeparatePages(inserted) /\ DOMAIN val = Leaves(inserted)
  BY <1>1, SoundShows DEF Sound
<1>5. Shows(meta', inserted', w)
  <2>1. Sound(meta', boxes', lost', inserted', u, w)
    BY <1>2
  <2> QED BY <2>1, SoundShows
<1>6. CASE inserted' = inserted /\ w = val
  <2>1. \A p \in AllPages : Get(meta', p) = Get(meta, p)
    BY <1>4, <1>5, <1>6, StaysShown
  <2>2. [p \in AllPages |-> Get(meta, p)]' = [p \in AllPages |-> Get(meta, p)]
    BY <2>1
  <2> QED BY <1>3, <2>2
<1>7. ASSUME NEW q, NEW v, IsPageId(q), Others(q), inserted' = inserted \cup {q},
             v = NoMeta \/ (v \in Values /\ q \in Pages \X {1}), Grows(val, q, v, w)
      PROVE  Map!Next
  <2>1. \A r \in inserted : Covered(r) \cap Covered(q) = {}
    BY <1>7 DEF Others
  <2>2. Shows(meta', inserted \cup {q}, w)
    BY <1>5, <1>7
  <2>3. Becoming(meta, meta', Covered(q), {NoPage}, {<<v>>})
    BY <1>4, <1>7, <2>1, <2>2, GrowsShows
  <2>4. Covered(q) \subseteq AllPages
    BY <1>7, CoveredMapped
  <2>5. CASE v = NoMeta
    <3>1. Map!Becomes(Covered(q), {NoPage}, {<<NoMeta>>})
      BY <2>3, <2>4, <2>5, BecomesIs
    <3>2. Covered(q) \in {Covered(r) : r \in (Pages \X {1}) \cup LargePages}
      BY <1>7 DEF IsPageId
    <3> QED BY <3>1, <3>2 DEF Map!Next, PageSpans, PageValues
  <2>6. CASE v \in Values /\ q \in Pages \X {1}
    <3>1. Covered(q) = {q[1]} /\ q[1] \in AllPages
      BY <2>6, <1>7, <2>4, PageFacts, Spans DEF Covered
    <3>2. Becoming(meta, meta', {q[1]}, {NoPage}, {<<x>> : x \in Values \cup {NoMeta}})
      BY <2>3, <2>6, <3>1 DEF Becoming
    <3>3. Map!Becomes({q[1]}, {NoPage}, {<<x>> : x \in Values \cup {NoMeta}})
      BY <3>1, <3>2, BecomesIs
    <3> QED BY <3>1, <3>3 DEF Map!Next, PageSpans, PageValues
  <2> QED BY <1>7, <2>5, <2>6
<1>8. ASSUME NEW q \in inserted, inserted' = inserted \ {q}, Shrinks(val, q, w)
      PROVE  Map!Next
  <2>1. Shows(meta', inserted \ {q}, w)
    BY <1>5, <1>8
  <2>2. Becoming(meta, meta', Covered(q), {<<x>> : x \in Values \cup {NoMeta}}, {NoPage})
    BY <1>4, <1>8, <2>1, ShrinksShows
  <2>3. IsPageId(q)
    BY <1>4 DEF SeparatePages
  <2>4. Covered(q) \subseteq AllPages
    BY <2>3, CoveredMapped
  <2>5. Map!Becomes(Covered(q), {<<x>> : x \in Values \cup {NoMeta}}, {NoPage})
    BY <2>2, <2>4, BecomesIs
  <2>6. Covered(q) \in {Covered(r) : r \in (Pages \X {1}) \cup LargePages}
    BY <2>3 DEF IsPageId
  <2> QED BY <2>5, <2>6 DEF Map!Next, PageSpans, PageValues
<1>9. Map!Next \/ (inserted' = inserted /\ w = val)
  BY <1>2, <1>7, <1>8 DEF Changed
<1> QED BY <1>3, <1>6, <1>9

\* The tree is a map from pages to values: an insertion adds its page and
\* nothing else, a deletion takes it away, and boxes, frees and ends of threads
\* change nothing.
THEOREM TableImplementsMap == TreeSpec => ImplementsMap
<1>1. TreeInit => TreeInv /\ Map!Init
  BY TreeInitInv, ShowsInit DEF Map!Init
<1>2. TreeInv /\ [TreeNext]_treeVars => TreeInv' /\ [Map!Next]_[p \in AllPages |-> Get(meta, p)]
  BY TreeStepShows
<1> QED BY <1>1, <1>2, PTL DEF TreeSpec, ImplementsMap, Map!Spec
=============================================================================
