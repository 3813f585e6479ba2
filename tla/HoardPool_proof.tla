--------------------------- MODULE HoardPool_proof ---------------------------
(***************************************************************************)
(* What the pools of HoardPool keep, for any number of threads, blocks and *)
(* size classes of the code's geometry: IInv is inductive, and the         *)
(* properties follow from it.                                              *)
(*                                                                         *)
(* First what a bin's accounts say of its blocks, and that a free that     *)
(* empties a block leaves nothing to flush; then the steps. A step of a    *)
(* thread changes the bins it has locked, the blocks that say they belong  *)
(* there and the free blocks; Frame is what it leaves alone, and Frames    *)
(* reduces the proof for a step to the thread itself, its bins and their   *)
(* blocks.                                                                 *)
(***************************************************************************)
EXTENDS HoardPoolInv, SharedLemmas

----------------------------------------------------------------------------
\* Geometry

\* The size classes are numbered from 1, and a cell fits into a block.
LEMMA ClassesRange ==
  \E n \in Nat \ {0} : Classes = 1..n /\ \A c \in Classes : CellBytes[c] \in 1..DataBytes
BY GeometryAssumption DEF Classes

\* What the assumptions say of a class.
LEMMA Geometry ==
  ASSUME NEW c \in Classes
  PROVE  /\ DataBytes \in Nat /\ CellBytes[c] \in Nat /\ CellBytes[c] > 0
         /\ Cells(c) \in Nat /\ Cells(c) >= 3 /\ CellBytes[c] * Cells(c) <= DataBytes
         /\ 6 * (CellBytes[c] * Cells(c)) + 6 * CellBytes[c] <= 7 * DataBytes
         /\ Grace(c) \in Nat
         /\ 8 * Grace(c) + 16 * CellBytes[c] <= 6 * DataBytes
<1>1. DataBytes \in Nat /\ BlockBytes \in Nat /\ CellBytes[c] \in Nat \ {0}
  BY GeometryAssumption, ClassesRange
<1>2. Cells(c) \in Nat /\ Cells(c) * CellBytes[c] <= DataBytes
  BY <1>1, Quotient DEF Cells
<1>3. Grace(c) \in Nat
  BY <1>1, Quotient DEF Grace
<1>4. /\ Cells(c) >= 3
      /\ 6 * CellBytes[c] * (Cells(c) + 1) <= 7 * DataBytes
      /\ 8 * Grace(c) + 16 * CellBytes[c] <= 6 * DataBytes
  BY FlushGeometryAssumption
<1> QED BY <1>1, <1>2, <1>3, <1>4

\* The bytes of n cells.
LEMMA CellsBytes ==
  ASSUME NEW c \in Classes, NEW n \in 0..Cells(c)
  PROVE  /\ CellBytes[c] * n \in Nat /\ CellBytes[c] * n <= CellBytes[c] * Cells(c)
         /\ CellBytes[c] * (n + 1) = CellBytes[c] * n + CellBytes[c]
         /\ CellBytes[c] * (n - 1) = CellBytes[c] * n - CellBytes[c]
         /\ Low(n, c) => 8 * (CellBytes[c] * n) + 8 * CellBytes[c] <= 7 * DataBytes
<1> DEFINE s == CellBytes[c]
<1>1. s \in Nat /\ Cells(c) \in Nat /\ DataBytes \in Nat
      /\ 6 * (s * Cells(c)) + 6 * s <= 7 * DataBytes
  BY Geometry
<1> HIDE DEF s
<1>2. s * n \in Nat /\ s * n <= s * Cells(c)
  <2> DEFINE d == Cells(c) - n
  <2>1. d \in Nat /\ n \in Nat /\ Cells(c) = n + d
    BY <1>1
  <2> HIDE DEF d
  <2>2. s * Cells(c) = s * n + s * d /\ s * d \in Nat /\ s * n \in Nat
    BY <1>1, <2>1
  <2> QED BY <2>2
<1>3. s * (n + 1) = s * n + s /\ s * (n - 1) = s * n - s
  BY <1>1
<1>4. ASSUME Low(n, c) PROVE 8 * (s * n) + 8 * s <= 7 * DataBytes
  <2>1. 4 * (n + 1) <= 3 * (Cells(c) + 1)
    BY <1>1, <1>4 DEF Low
  <2>2. s * (4 * (n + 1)) <= s * (3 * (Cells(c) + 1))
    BY <1>1, <2>1
  <2>3. s * (4 * (n + 1)) = 4 * (s * n) + 4 * s /\ s * (3 * (Cells(c) + 1)) = 3 * (s * Cells(c)) + 3 * s
    BY <1>1
  <2> QED BY <1>1, <1>2, <2>2, <2>3
<1> QED BY <1>2, <1>3, <1>4 DEF s
----------------------------------------------------------------------------
\* The emptiest block

\* The group of a block says whether it is low, and whether it is full.
LEMMA Groups ==
  ASSUME Shapes, NEW b \in Blocks, NEW c \in Classes, class[b] = c, used[b] \in 0..Cells(c)
  PROVE  /\ Group(b) \in Nat
         /\ Low(used[b], c) <=> Group(b) <= 6
         /\ used[b] = Cells(c) <=> Group(b) > EmptinessClasses
<1> DEFINE n == used[b]
           k == Cells(c)
           g == (EmptinessClasses * n) \div k
<1>1. k \in Nat /\ k >= 3 /\ n \in 0..k
  BY Geometry
<1>2. Group(b) = IF n = 0 THEN 0 ELSE 1 + g
  BY DEF Group
<1>3. Low(n, c) <=> 4 * n < 3 * k
  BY DEF Low
<1> HIDE DEF n, k
<1>4. g \in Nat /\ g * k <= 8 * n /\ 8 * n < (g + 1) * k
  BY <1>1, Quotient DEF EmptinessClasses
<1> HIDE DEF g
<1>5. ASSUME g <= 5 PROVE 8 * n < 6 * k
  <2>1. (g + 1) * k <= 6 * k
    BY <1>1, <1>4, <1>5
  <2> QED BY <1>1, <1>4, <2>1
<1>6. ASSUME g >= 6 PROVE 6 * k <= 8 * n
  <2>1. 6 * k <= g * k
    BY <1>1, <1>4, <1>6
  <2> QED BY <1>1, <1>4, <2>1
<1>7. ASSUME g <= 7 PROVE 8 * n < 8 * k
  <2>1. (g + 1) * k <= 8 * k
    BY <1>1, <1>4, <1>7
  <2> QED BY <1>1, <1>4, <2>1
<1>8. ASSUME g >= 8 PROVE 8 * k <= 8 * n
  <2>1. 8 * k <= g * k
    BY <1>1, <1>4, <1>8
  <2> QED BY <1>1, <1>4, <2>1
<1>9. Group(b) \in Nat /\ (4 * n < 3 * k <=> Group(b) <= 6) /\ (n = k <=> Group(b) > 8)
  BY <1>1, <1>2, <1>4, <1>5, <1>6, <1>7, <1>8
<1> QED BY <1>3, <1>9 DEF n, k, EmptinessClasses

\* The block pop_most_empty_block takes from the groups is not full, and low if
\* any block is. If it finds none, all are full.
LEMMA EmptiestBlock ==
  ASSUME Shapes, NEW S \in SUBSET Blocks, NEW c \in Classes,
         \A b \in S : class[b] = c /\ used[b] \in 0..Cells(c)
  PROVE  /\ \A e \in Emptiest(S) :
              /\ e \in S /\ used[e] < Cells(c)
              /\ \A a \in S : Low(used[a], c) => Low(used[e], c)
         /\ Emptiest(S) = {} => \A b \in S : used[b] = Cells(c)
<1>1. \A b \in S : /\ Group(b) \in Nat
                   /\ Low(used[b], c) <=> Group(b) <= 6
                   /\ used[b] = Cells(c) <=> Group(b) > EmptinessClasses
  BY Groups
<1>2. ASSUME NEW e \in Emptiest(S)
      PROVE  /\ e \in S /\ used[e] < Cells(c)
             /\ \A a \in S : Low(used[a], c) => Low(used[e], c)
  <2>1. e \in S /\ Group(e) <= EmptinessClasses /\ \A a \in S : Group(e) <= Group(a)
    BY <1>2 DEF Emptiest
  <2>2. used[e] \in 0..Cells(c) /\ used[e] # Cells(c) /\ Cells(c) \in Nat
    BY <1>1, <2>1, Geometry DEF EmptinessClasses
  <2> QED BY <1>1, <2>1, <2>2
<1>3. ASSUME Emptiest(S) = {}, NEW b \in S PROVE used[b] = Cells(c)
  <2> DEFINE T == {Group(a) : a \in S}
  <2>0. T \in SUBSET Nat /\ T # {}
    BY <1>1, <1>3
  <2>1. PICK m \in T : \A n \in T : m <= n
    BY <2>0, NatMin
  <2>2. PICK a \in S : m = Group(a)
    OBVIOUS
  <2>3. \A d \in S : Group(a) <= Group(d)
    BY <2>1, <2>2
  <2>4. Group(a) > EmptinessClasses
    BY <1>1, <1>3, <2>3 DEF Emptiest, EmptinessClasses
  <2> QED BY <1>1, <2>3, <2>4 DEF EmptinessClasses
<1> QED BY <1>2, <1>3

----------------------------------------------------------------------------
\* The cells in use

\* There are finitely many.
LEMMA CellsFinite ==
  ASSUME NEW S \in SUBSET Blocks, NEW u, NEW n \in Nat
  PROVE  IsFiniteSet(S) /\ IsFiniteSet(CellsOf(S, u, n)) /\ Cardinality(CellsOf(S, u, n)) \in Nat
<1>1. IsFiniteSet(S)
  BY FiniteAssumption, FS_Subset
<1>2. IsFiniteSet(S \X (1..n))
  <2>1. IsFiniteSet(1..n)
    BY FS_Interval
  <2> QED BY <1>1, <2>1, FS_Product
<1>3. CellsOf(S, u, n) \in SUBSET (S \X (1..n))
  BY DEF CellsOf
<1> QED BY <1>1, <1>2, <1>3, FS_Subset, FS_CardinalityType

\* No blocks have no cells.
LEMMA CellsNone == ASSUME NEW u, NEW n \in Nat PROVE Cardinality(CellsOf({}, u, n)) = 0
<1>1. CellsOf({}, u, n) = {}
  BY DEF CellsOf
<1> QED BY <1>1, FS_EmptySet

\* A block brings its cells with it.
LEMMA CellsAdd ==
  ASSUME NEW S \in SUBSET Blocks, NEW u \in [Blocks -> Int], NEW n \in Nat,
         NEW b \in Blocks \ S, u[b] \in 0..n
  PROVE  Cardinality(CellsOf(S \cup {b}, u, n)) = Cardinality(CellsOf(S, u, n)) + u[b]
<1> DEFINE own == {b} \X (1..u[b])
<1>1. CellsOf(S \cup {b}, u, n) = CellsOf(S, u, n) \cup own /\ CellsOf(S, u, n) \cap own = {}
  BY DEF CellsOf
<1>2. IsFiniteSet(own) /\ Cardinality(own) = u[b]
  <2>1. IsFiniteSet(1..u[b]) /\ Cardinality(1..u[b]) = u[b]
    BY FS_Interval
  <2>2. IsFiniteSet({b}) /\ Cardinality({b}) = 1
    BY FS_Singleton
  <2> QED BY <2>1, <2>2, FS_Product
<1>3. Cardinality(CellsOf(S, u, n) \cap own) = 0
  BY <1>1, FS_EmptySet
<1>4. IsFiniteSet(CellsOf(S, u, n)) /\ Cardinality(CellsOf(S, u, n)) \in Nat
  BY CellsFinite
<1> HIDE DEF own
<1>5. Cardinality(CellsOf(S, u, n) \cup own)
        = Cardinality(CellsOf(S, u, n)) + Cardinality(own) - Cardinality(CellsOf(S, u, n) \cap own)
  BY <1>2, <1>4, FS_Union
<1>6. Cardinality(CellsOf(S \cup {b}, u, n)) = Cardinality(CellsOf(S, u, n) \cup own)
  BY <1>1
<1>7. u[b] \in Int
  OBVIOUS
<1> QED BY <1>2, <1>3, <1>4, <1>5, <1>6, <1>7

\* And takes them along.
LEMMA CellsRemove ==
  ASSUME NEW S \in SUBSET Blocks, NEW u \in [Blocks -> Int], NEW n \in Nat,
         NEW b \in S, u[b] \in 0..n
  PROVE  Cardinality(CellsOf(S \ {b}, u, n)) = Cardinality(CellsOf(S, u, n)) - u[b]
<1>1. (S \ {b}) \cup {b} = S /\ S \ {b} \in SUBSET Blocks /\ b \in Blocks \ (S \ {b})
  OBVIOUS
<1>2. Cardinality(CellsOf(S, u, n)) = Cardinality(CellsOf(S \ {b}, u, n)) + u[b]
  BY <1>1, CellsAdd
<1> QED BY <1>1, <1>2, CellsFinite

\* Only the blocks' own counts matter.
LEMMA CellsSame ==
  ASSUME NEW S \in SUBSET Blocks, NEW u, NEW v, NEW n \in Nat, \A b \in S : u[b] = v[b]
  PROVE  CellsOf(S, u, n) = CellsOf(S, v, n)
BY DEF CellsOf

\* A block one of whose cells is taken, or given back.
LEMMA CellsChange ==
  ASSUME NEW S \in SUBSET Blocks, NEW u \in [Blocks -> Int], NEW v \in [Blocks -> Int],
         NEW n \in Nat, NEW b \in S, u[b] \in 0..n, v[b] \in 0..n,
         \A a \in S \ {b} : v[a] = u[a]
  PROVE  Cardinality(CellsOf(S, v, n)) = Cardinality(CellsOf(S, u, n)) + v[b] - u[b]
<1>1. CellsOf(S \ {b}, v, n) = CellsOf(S \ {b}, u, n)
  BY CellsSame
<1>2. Cardinality(CellsOf(S \ {b}, u, n)) = Cardinality(CellsOf(S, u, n)) - u[b]
  BY CellsRemove
<1>3. Cardinality(CellsOf(S \ {b}, v, n)) = Cardinality(CellsOf(S, v, n)) - v[b]
  BY CellsRemove
<1> QED BY <1>1, <1>2, <1>3, CellsFinite

\* What BlockList::put and the removal of a block add to the accounts.
LEMMA Weights ==
  ASSUME NEW c \in Classes, NEW n \in Int
  PROVE  Weight(n, c) \in Int /\ Weight(0, c) = 0 /\ Weight(1, c) = CellBytes[c]
BY Geometry DEF Weight

LEMMA BytesAdd ==
  ASSUME NEW c \in Classes, NEW S \in SUBSET Blocks, NEW u \in [Blocks -> Int],
         NEW b \in Blocks \ S, u[b] \in 0..Cells(c)
  PROVE  /\ UsedBytes(S \cup {b}, u, c)
              = UsedBytes(S, u, c) + Weight(u[b], c)
         /\ TotalBytes(S \cup {b}) = TotalBytes(S) + DataBytes
<1> DEFINE m == Cardinality(CellsOf(S, u, Cells(c)))
           k == Cardinality(S)
           s == CellBytes[c]
<1>1. s \in Nat /\ DataBytes \in Nat /\ Cells(c) \in Nat
  BY Geometry
<1>2. Cardinality(CellsOf(S \cup {b}, u, Cells(c))) = m + u[b]
  BY <1>1, CellsAdd
<1>3. Cardinality(S \cup {b}) = k + 1 /\ k \in Nat
  BY FiniteAssumption, FS_Subset, FS_AddElement, FS_CardinalityType
<1>4. m \in Nat
  BY <1>1, CellsFinite
<1> HIDE DEF m, k, s
<1>5. s * (m + u[b]) = s * m + s * u[b]
  BY <1>1, <1>4
<1>6. DataBytes * (k + 1) = DataBytes * k + DataBytes
  BY <1>1, <1>3
<1> QED BY <1>2, <1>3, <1>5, <1>6 DEF m, k, s, UsedBytes, TotalBytes, Weight

\* What a set of blocks accounts for is a number of bytes.
LEMMA BytesOfNat ==
  ASSUME NEW c \in Classes, NEW S \in SUBSET Blocks, NEW u
  PROVE  UsedBytes(S, u, c) \in Nat /\ TotalBytes(S) \in Nat
<1> DEFINE m == Cardinality(CellsOf(S, u, Cells(c)))
           k == Cardinality(S)
<1>1. CellBytes[c] \in Nat /\ DataBytes \in Nat /\ Cells(c) \in Nat
  BY Geometry
<1>2. m \in Nat /\ k \in Nat
  BY <1>1, CellsFinite, FS_CardinalityType
<1> HIDE DEF m, k
<1>3. CellBytes[c] * m \in Nat /\ DataBytes * k \in Nat
  BY <1>1, <1>2
<1> QED BY <1>3 DEF m, k, UsedBytes, TotalBytes

\* A block that leaves a bin takes its bytes along.
LEMMA BytesRemove ==
  ASSUME NEW c \in Classes, NEW S \in SUBSET Blocks, NEW u \in [Blocks -> Int],
         NEW b \in S, u[b] \in 0..Cells(c)
  PROVE  /\ UsedBytes(S \ {b}, u, c) = UsedBytes(S, u, c) - Weight(u[b], c)
         /\ TotalBytes(S \ {b}) = TotalBytes(S) - DataBytes
<1> DEFINE R == S \ {b}
<1>1. R \cup {b} = S /\ R \in SUBSET Blocks /\ b \in Blocks \ R
  OBVIOUS
<1> HIDE DEF R
<1>2. /\ UsedBytes(S, u, c) = UsedBytes(R, u, c) + Weight(u[b], c)
      /\ TotalBytes(S) = TotalBytes(R) + DataBytes
  BY <1>1, BytesAdd
<1>3. UsedBytes(R, u, c) \in Nat /\ TotalBytes(R) \in Nat
  BY <1>1, BytesOfNat
<1>4. DataBytes \in Nat /\ u[b] \in Int
  BY Geometry
<1> DEFINE bytes == Weight(u[b], c)
<1>5. bytes \in Int
  BY <1>4, Weights
<1> HIDE DEF bytes
<1>6. /\ UsedBytes(S, u, c) = UsedBytes(R, u, c) + bytes
      /\ TotalBytes(S) = TotalBytes(R) + DataBytes
  BY <1>2 DEF bytes
<1>7. /\ UsedBytes(R, u, c) = UsedBytes(S, u, c) - bytes
      /\ TotalBytes(R) = TotalBytes(S) - DataBytes
  BY <1>3, <1>4, <1>5, <1>6
<1> QED BY <1>7 DEF R, bytes

\* A cell taken or given back.
LEMMA BytesChange ==
  ASSUME NEW c \in Classes, NEW S \in SUBSET Blocks, NEW u \in [Blocks -> Int],
         NEW v \in [Blocks -> Int], NEW b \in S, u[b] \in 0..Cells(c), v[b] \in 0..Cells(c),
         \A a \in S \ {b} : v[a] = u[a]
  PROVE  UsedBytes(S, v, c)
           = UsedBytes(S, u, c) + CellBytes[c] * (v[b] - u[b])
<1> DEFINE m == Cardinality(CellsOf(S, u, Cells(c)))
<1>1. CellBytes[c] \in Nat /\ Cells(c) \in Nat
  BY Geometry
<1>2. m \in Nat
  BY <1>1, CellsFinite
<1>3. Cardinality(CellsOf(S, v, Cells(c))) = m + v[b] - u[b]
  BY <1>1, CellsChange
<1> HIDE DEF m
<1>4. CellBytes[c] * (m + v[b] - u[b]) = CellBytes[c] * m + CellBytes[c] * (v[b] - u[b])
  BY <1>1, <1>2
<1> QED BY <1>3, <1>4 DEF m, UsedBytes

\* What a bin accounts for is a number of bytes.
LEMMA BytesNat ==
  ASSUME NEW c \in Classes, NEW bl \in BlockLists, NEW u
  PROVE  /\ UsedBytes(Members(bl), u, c) \in Nat
         /\ TotalBytes(Members(bl)) \in Nat
<1>1. Members(bl) \in SUBSET Blocks
  BY DEF BlockLists, Members
<1> QED BY <1>1, BytesOfNat

----------------------------------------------------------------------------
\* Flushing

\* A bin of class c whose blocks have u cells in use.
Bin(bl, u, c) ==
  /\ bl \in BlockLists /\ c \in Classes /\ bl.cache \notin bl.list
  /\ u \in [Blocks -> Int] /\ \A b \in Members(bl) : u[b] \in 0..Cells(c)

\* Only the counts of the bin's blocks matter.
LEMMA SameFlush ==
  ASSUME NEW bl, NEW u, NEW v, NEW c, \A b \in Members(bl) : v[b] = u[b]
  PROVE  /\ AtRest(bl, u, c) => AtRest(bl, v, c)
         /\ Freed(bl, u, c) => Freed(bl, v, c)
         /\ Emptied(bl, u, c) => Emptied(bl, v, c)
         /\ NoneToFlush(bl, u, c) => NoneToFlush(bl, v, c)
<1>1. (\A b \in bl.list : v[b] = u[b]) /\ (bl.cache # None => v[bl.cache] = u[bl.cache])
  BY DEF Members
<1>2. AllFull(bl, u, c) <=> AllFull(bl, v, c)
  BY <1>1 DEF AllFull
<1>3. AtRest(bl, u, c) => AtRest(bl, v, c)
  <2>1. Calm(bl, u, c) => Calm(bl, v, c)
    BY <1>1 DEF Calm, Lonely
  <2>2. LastCell(bl, u, c) => LastCell(bl, v, c)
    BY <1>1, <1>2 DEF LastCell
  <2> QED BY <2>1, <2>2 DEF AtRest
<1>4. NoneToFlush(bl, u, c) => NoneToFlush(bl, v, c)
  BY <1>2 DEF NoneToFlush
<1>5. Freed(bl, u, c) => Freed(bl, v, c)
  <2> SUFFICES ASSUME Freed(bl, u, c) PROVE Freed(bl, v, c)
    OBVIOUS
  <2>1. CASE bl.cache # None
    <3> DEFINE none == [bl EXCEPT !.cache = None]
    <3>1. none.list = bl.list
      OBVIOUS
    <3>2. \A b \in bl.list : Lonely(none, u, b, c) => Lonely(none, v, b, c)
      BY <1>1, <3>1 DEF Lonely
    <3> QED BY <1>1, <2>1, <3>2 DEF Freed
  <2>2. CASE bl.cache = None
    BY <1>1, <2>2 DEF Freed
  <2> QED BY <2>1, <2>2
<1> QED BY <1>3, <1>4, <1>5 DEF Emptied

\* What a block of n cells in use lacks to seven eighths.
LEMMA Lacks ==
  ASSUME NEW c \in Classes, NEW n \in 0..Cells(c)
  PROVE  /\ Lack(n, c) \in Int
         /\ -DataBytes <= Lack(n, c)
         /\ Lack(Cells(c), c) <= Lack(n, c)
         /\ Lack(n + 1, c) = Lack(n, c) - 8 * CellBytes[c]
         /\ Lack(n - 1, c) = Lack(n, c) + 8 * CellBytes[c]
         /\ Low(n, c) => Lack(n, c) >= 8 * CellBytes[c]
         /\ Lack(1, c) = 7 * DataBytes - 8 * CellBytes[c]
         /\ Low(1, c) /\ ~JustLow(1, c) /\ ~Low(Cells(c), c)
<1> DEFINE s == CellBytes[c]
           k == Cells(c)
<1>1. /\ DataBytes \in Nat /\ s \in Nat /\ k \in Nat /\ k >= 3 /\ n \in 0..k /\ s * k <= DataBytes
  BY Geometry
<1>2. /\ s * n \in Nat /\ s * n <= s * k
      /\ s * (n + 1) = s * n + s /\ s * (n - 1) = s * n - s
      /\ Low(n, c) => 8 * (s * n) + 8 * s <= 7 * DataBytes
  BY CellsBytes
<1>3. s * 1 = s /\ s * k \in Nat
  BY <1>1
<1> HIDE DEF s
<1>4. Low(1, c) /\ ~JustLow(1, c) /\ ~Low(k, c)
  BY <1>1 DEF Low, JustLow
<1> HIDE DEF k
<1> QED BY <1>1, <1>2, <1>3, <1>4 DEF Lack, s, k

\* With full groups a bin is at rest.
LEMMA FullAtRest ==
  ASSUME NEW bl, NEW u, NEW c, Bin(bl, u, c), AllFull(bl, u, c)
  PROVE  AtRest(bl, u, c)
<1>1. ~Low(Cells(c), c)
  BY Geometry DEF Bin, Low
<1> QED BY <1>1 DEF AtRest, Calm, LastCell, AllFull

\* What a bin at rest with a low block is behind.
LEMMA CalmBound ==
  ASSUME NEW bl, NEW u, NEW c, Bin(bl, u, c), AtRest(bl, u, c),
         NEW b \in bl.list, Low(u[b], c), ~Lonely(bl, u, b, c)
  PROVE  /\ Behind(bl) <= Bound(c)
         /\ bl.cache # None => Behind(bl) - Lack(u[bl.cache], c) <= Bound(c) - 8 * CellBytes[c]
BY DEF AtRest, Calm

\* BlockList::alloc_cell with a cached block that has a cell.
LEMMA TakeFromCache ==
  ASSUME NEW bl, NEW u, NEW v, NEW c, NEW bl2, Bin(bl, u, c), AtRest(bl, u, c),
         bl.cache # None, v = [u EXCEPT ![bl.cache] = @ + 1], u[bl.cache] < Cells(c),
         bl2 = [cache |-> bl.cache, list |-> bl.list,
                used |-> bl.used + CellBytes[c], total |-> bl.total]
  PROVE  Bin(bl2, v, c) /\ AtRest(bl2, v, c)
<1> DEFINE k == bl.cache
           s == CellBytes[c]
<1>1. /\ k \in Blocks /\ k \notin bl.list /\ bl.list \subseteq Blocks /\ u[k] \in 0..Cells(c)
      /\ bl.used \in Int /\ bl.total \in Int /\ Cells(c) \in Nat /\ s \in Nat
      /\ Grace(c) \in Nat /\ DataBytes \in Nat
  BY Geometry DEF Bin, BlockLists, Members
<1>2. v[k] = u[k] + 1 /\ \A b \in bl.list : v[b] = u[b]
  BY <1>1 DEF Bin
<1>3. Bin(bl2, v, c)
  BY <1>1, <1>2 DEF Bin, BlockLists, Members
<1>4. Behind(bl2) = Behind(bl) - 8 * s /\ Behind(bl) \in Int
  BY <1>1 DEF Behind
<1>5. Lack(v[k], c) = Lack(u[k], c) - 8 * s /\ Lack(u[k], c) \in Int
  BY <1>1, <1>2, Lacks DEF Bin
<1>6. Calm(bl2, v, c)
  <2> SUFFICES ASSUME NEW b \in bl.list, Low(v[b], c)
               PROVE  /\ Behind(bl2) <= Bound(c)
                      /\ Behind(bl2) - Lack(v[k], c) <= Bound(c) - 8 * s
    BY DEF Calm
  <2>1. /\ Behind(bl) <= Bound(c)
        /\ Behind(bl) - Lack(u[k], c) <= Bound(c) - 8 * s
    BY <1>2, CalmBound DEF Lonely
  <2> QED BY <1>1, <1>4, <1>5, <2>1 DEF Bound
<1>7. LastCell(bl2, v, c)
  <2> SUFFICES ASSUME v[k] <= 1, ~AllFull(bl2, v, c) PROVE Behind(bl2) <= 8 * Grace(c)
    BY DEF LastCell
  <2>1. u[k] <= 1 /\ ~AllFull(bl, u, c)
    BY <1>1, <1>2 DEF AllFull
  <2>2. Behind(bl) <= 8 * Grace(c)
    BY <2>1 DEF AtRest, LastCell
  <2> QED BY <1>1, <1>4, <2>2
<1> QED BY <1>3, <1>6, <1>7 DEF AtRest

\* BlockList::alloc_cell_slow: a block of the groups becomes the cached one, a
\* full cached block goes to the groups.
LEMMA TakeFromList ==
  ASSUME NEW bl, NEW u, NEW v, NEW c, NEW bl2, NEW e \in bl.list, Bin(bl, u, c), AtRest(bl, u, c),
         bl.cache = None \/ u[bl.cache] = Cells(c),
         v = [u EXCEPT ![e] = @ + 1], u[e] < Cells(c), u[e] > 0,
         \A a \in bl.list : Low(u[a], c) => Low(u[e], c),
         bl2 = [cache |-> e, list |-> Members(bl) \ {e},
                used |-> bl.used + CellBytes[c], total |-> bl.total]
  PROVE  Bin(bl2, v, c) /\ AtRest(bl2, v, c)
<1> DEFINE s == CellBytes[c]
<1>1. /\ e \in Blocks /\ bl.list \subseteq Blocks /\ u[e] \in 1..Cells(c)
      /\ bl.used \in Int /\ bl.total \in Int /\ Cells(c) \in Nat /\ s \in Nat
      /\ Grace(c) \in Nat /\ DataBytes \in Nat
      /\ bl.cache # None => bl.cache \in Blocks /\ u[bl.cache] = Cells(c)
      /\ c \in Classes
  BY Geometry DEF Bin, BlockLists, Members
<1>2. v[e] = u[e] + 1 /\ \A b \in Members(bl) \ {e} : v[b] = u[b] /\ b \in Blocks
  BY <1>1 DEF Bin, Members
<1>3. Bin(bl2, v, c)
  BY <1>1, <1>2 DEF Bin, BlockLists, Members
<1>4. Behind(bl2) = Behind(bl) - 8 * s /\ Behind(bl) \in Int
  BY <1>1 DEF Behind
<1>5. /\ Lack(v[e], c) = Lack(u[e], c) - 8 * s /\ Lack(u[e], c) \in Int
      /\ Lack(Cells(c), c) <= Lack(u[e], c) /\ Lack(Cells(c), c) \in Int
      /\ Low(u[e], c) => Lack(u[e], c) >= 8 * s
      /\ ~Low(Cells(c), c)
  BY <1>1, <1>2, Lacks
<1>6. Calm(bl2, v, c)
  <2> SUFFICES ASSUME NEW b \in Members(bl) \ {e}, Low(v[b], c)
               PROVE  /\ Behind(bl2) <= Bound(c)
                      /\ Behind(bl2) - Lack(v[e], c) <= Bound(c) - 8 * s
    BY DEF Calm
  <2>1. b \in bl.list /\ Low(u[b], c) /\ Low(u[e], c)
    BY <1>1, <1>2, <1>5 DEF Members
  <2>2. ~Lonely(bl, u, b, c)
    BY <2>1 DEF Lonely
  <2>3. /\ Behind(bl) <= Bound(c)
        /\ bl.cache # None => Behind(bl) - Lack(Cells(c), c) <= Bound(c) - 8 * s
    BY <1>1, <2>1, <2>2, CalmBound
  <2> QED BY <1>1, <1>4, <1>5, <2>1, <2>3 DEF Bound
<1>7. LastCell(bl2, v, c)
  BY <1>1, <1>2 DEF LastCell
<1> QED BY <1>3, <1>6, <1>7 DEF AtRest

\* free_cell_slow_impl, when the block keeps other cells.
LEMMA FreeOfSeveral ==
  ASSUME NEW bl, NEW u, NEW v, NEW c, NEW bl2, NEW y \in Members(bl), Bin(bl, u, c),
         AtRest(bl, u, c), u[y] > 1, v = [u EXCEPT ![y] = @ - 1],
         bl2 = [bl EXCEPT !.used = @ - CellBytes[c]]
  PROVE  Bin(bl2, v, c) /\ Freed(bl2, v, c)
<1> DEFINE s == CellBytes[c]
           k == bl.cache
<1>1. /\ y \in Blocks /\ bl.list \subseteq Blocks /\ u[y] \in 2..Cells(c) /\ c \in Classes
      /\ bl.used \in Int /\ bl.total \in Int /\ Cells(c) \in Nat /\ s \in Nat
      /\ Grace(c) \in Nat /\ DataBytes \in Nat
      /\ k # None => k \in Blocks /\ u[k] \in 0..Cells(c)
      /\ \A b \in bl.list : u[b] \in 0..Cells(c)
      /\ k \notin bl.list /\ ((y = k /\ k # None) \/ y \in bl.list)
  BY Geometry DEF Bin, BlockLists, Members
<1>2. v[y] = u[y] - 1 /\ \A b \in Members(bl) \ {y} : v[b] = u[b] /\ b \in Blocks
  BY <1>1 DEF Bin, Members
<1>3. /\ bl2.cache = k /\ bl2.list = bl.list /\ bl2.total = bl.total /\ bl2.used = bl.used - s
      /\ bl2 \in BlockLists /\ Members(bl2) = Members(bl)
  BY <1>1 DEF Bin, BlockLists, Members
<1>4. Bin(bl2, v, c)
  BY <1>1, <1>2, <1>3 DEF Bin
<1>5. Behind(bl2) = Behind(bl) + 8 * s /\ Behind(bl) \in Int
  BY <1>1, <1>3 DEF Behind
<1>6. \A b \in bl.list : b # y => v[b] = u[b]
  BY <1>2 DEF Members
<1>7. ~Low(u[y], c) => JustLow(v[y], c)
  BY <1>1, <1>2 DEF Low, JustLow
<1>8. Low(u[y], c) => Low(v[y], c)
  BY <1>1, <1>2 DEF Low
<1>9. CASE k # None
  <2> SUFFICES ASSUME NEW b \in bl.list, Low(v[b], c),
                      ~(Behind(bl2) - Lack(v[k], c) <= Bound(c))
               PROVE  Lonely([bl2 EXCEPT !.cache = None], v, b, c)
    <3>1. bl2.cache # None /\ bl2.list = bl.list
      BY <1>3, <1>9
    <3> QED BY Zenon, <1>3, <1>4, <3>1 DEF Freed
  <2>1. [bl2 EXCEPT !.cache = None].cache = None /\ [bl2 EXCEPT !.cache = None].list = bl.list
    BY <1>3 DEF BlockLists
  <2>2. Lack(u[k], c) \in Int /\ (y = k => Lack(v[k], c) = Lack(u[k], c) + 8 * s)
    BY <1>1, <1>2, <1>9, Lacks
  <2>3. y # k => v[k] = u[k]
    BY <1>2, <1>9 DEF Members
  <2>4. \A a \in bl.list : ~Low(u[a], c)
    <3> SUFFICES ASSUME NEW a \in bl.list, Low(u[a], c) PROVE FALSE
      OBVIOUS
    <3>1. Behind(bl) - Lack(u[k], c) <= Bound(c) - 8 * s
      BY <1>9, CalmBound DEF Lonely
    <3>2. CASE y = k
      BY <1>1, <1>5, <2>2, <3>1, <3>2 DEF Bound
    <3>3. CASE y # k
      BY <1>1, <1>5, <2>2, <2>3, <3>1, <3>3 DEF Bound
    <3> QED BY <3>2, <3>3
  <2>5. b = y
    BY <1>6, <2>4
  <2> QED BY <1>6, <1>7, <2>1, <2>4, <2>5 DEF Lonely
<1>10. CASE k = None /\ Behind(bl) <= Bound(c)
  <2>1. Bound(c) \in Int
    BY <1>1 DEF Bound
  <2>2. bl2.cache = None /\ Behind(bl2) <= Bound(c) + 8 * s
    BY <1>1, <1>3, <1>5, <1>10, <2>1
  <2> QED BY Zenon, <1>4, <2>2 DEF Freed
<1>11. CASE k = None /\ ~(Behind(bl) <= Bound(c))
  <2>1. \A b \in bl.list : Low(u[b], c) => Lonely(bl, u, b, c)
    BY <1>11, CalmBound
  <2> SUFFICES ASSUME NEW a \in bl.list, NEW b \in bl.list, a # b, Low(v[a], c), Low(v[b], c)
               PROVE  JustLow(v[b], c) /\ \A d \in bl.list \ {a, b} : ~Low(v[d], c)
    <3>1. bl2.cache = None /\ bl2.list = bl.list
      BY <1>3, <1>11
    <3> QED BY Zenon, <1>4, <3>1 DEF Freed
  <2>2. \A d, x \in bl.list : d # x => ~(Low(u[d], c) /\ Low(u[x], c))
    BY <2>1 DEF Lonely
  <2>3. y \in bl.list
    BY <1>1, <1>11
  <2>4. ~Low(u[y], c) /\ y \in {a, b}
    BY <1>6, <2>2, <2>3
  <2>5. JustLow(v[b], c)
    BY <1>6, <1>7, <2>1, <2>4 DEF Lonely
  <2> QED BY <1>6, <2>2, <2>4, <2>5
<1> QED BY <1>4, <1>9, <1>10, <1>11

\* free_cell_slow_impl, when the block is empty now and leaves the bin.
LEMMA FreeOfLast ==
  ASSUME NEW bl, NEW u, NEW v, NEW c, NEW bl2, NEW y \in Members(bl), Bin(bl, u, c),
         AtRest(bl, u, c), u[y] = 1, v = [u EXCEPT ![y] = 0],
         bl2 = [cache |-> IF bl.cache = y THEN None ELSE bl.cache, list |-> bl.list \ {y},
                used |-> bl.used - CellBytes[c], total |-> bl.total - DataBytes]
  PROVE  Bin(bl2, v, c) /\ Emptied(bl2, v, c)
<1> DEFINE s == CellBytes[c]
           k == bl.cache
<1>1. /\ y \in Blocks /\ bl.list \subseteq Blocks /\ c \in Classes
      /\ bl.used \in Int /\ bl.total \in Int /\ Cells(c) \in Nat /\ s \in Nat
      /\ Grace(c) \in Nat /\ DataBytes \in Nat /\ 8 * Grace(c) + 16 * s <= 6 * DataBytes
      /\ k # None => k \in Blocks /\ u[k] \in 0..Cells(c)
      /\ k \notin bl.list /\ ((y = k /\ k # None) \/ y \in bl.list)
      /\ y # None
  BY Geometry, NamesAssumption DEF Bin, BlockLists, Members
<1>2. \A b \in Members(bl) \ {y} : v[b] = u[b] /\ b \in Blocks
  BY <1>1 DEF Bin, Members
<1>3. Bin(bl2, v, c) /\ Members(bl2) = Members(bl) \ {y}
  <2>1. bl2 \in BlockLists /\ bl2.cache \notin bl2.list
    BY <1>1, NamesAssumption DEF BlockLists
  <2>2. Members(bl2) = Members(bl) \ {y}
    BY <1>1 DEF Members
  <2>3. v \in [Blocks -> Int] /\ \A b \in Members(bl2) : v[b] \in 0..Cells(c)
    <3>1. v \in [Blocks -> Int]
      BY <1>1 DEF Bin
    <3>2. \A b \in Members(bl) \ {y} : u[b] \in 0..Cells(c)
      BY DEF Bin
    <3> QED BY <1>2, <2>2, <3>1, <3>2
  <2> QED BY <1>1, <2>1, <2>2, <2>3 DEF Bin
<1>4. Behind(bl2) = Behind(bl) - 7 * DataBytes + 8 * s /\ Behind(bl) \in Int
  BY <1>1 DEF Behind
<1>5. \A b \in bl2.list : v[b] = u[b] /\ b \in bl.list
  BY <1>2 DEF Members
<1>6. CASE y = k /\ AllFull(bl, u, c)
  <2>1. bl2.cache = None /\ AllFull(bl2, v, c)
    BY <1>5, <1>6 DEF AllFull
  <2> QED BY <1>3, <2>1, FullAtRest DEF Emptied, NoneToFlush
<1>7. CASE ~(y = k /\ AllFull(bl, u, c))
  <2>1. Behind(bl) <= Bound(c)
    <3>1. CASE y = k
      BY <1>1, <1>4, <1>7, <3>1 DEF AtRest, LastCell, Bound
    <3>2. CASE y # k
      <4>1. y \in bl.list /\ Low(u[y], c) /\ ~JustLow(u[y], c)
        <5>1. 1 \in 0..Cells(c)
          BY <1>1, Geometry
        <5> QED BY <1>1, <3>2, <5>1, Lacks
      <4> QED BY <4>1, CalmBound DEF Lonely
    <3> QED BY <3>1, <3>2
  <2>2. Behind(bl2) <= 0
    BY <1>1, <1>4, <2>1 DEF Bound
  <2>3. bl2.cache # None => /\ bl2.cache = k /\ k # None /\ v[k] = u[k]
                            /\ -DataBytes <= Lack(v[k], c) /\ Lack(v[k], c) \in Int
    BY <1>1, <1>2, Lacks DEF Members
  <2>4. Calm(bl2, v, c)
    <3>1. Behind(bl2) <= Bound(c)
      BY <1>1, <1>4, <2>2 DEF Bound
    <3>2. bl2.cache # None => Behind(bl2) - Lack(v[bl2.cache], c) <= Bound(c) - 8 * s
      BY <1>1, <1>4, <2>2, <2>3 DEF Bound
    <3> QED BY <3>1, <3>2 DEF Calm
  <2>5. LastCell(bl2, v, c)
    BY <1>1, <1>4, <2>2 DEF LastCell
  <2> QED BY <1>3, <2>2, <2>4, <2>5 DEF AtRest, Emptied
<1> QED BY <1>6, <1>7

\* A flush that is not needed by the measure of the bin's own class.
LEMMA NoFlush ==
  ASSUME NEW bl, NEW u, NEW c, Bin(bl, u, c), bl.total >= 0, ~ShouldFlush(bl, c)
  PROVE  AtRest(bl, u, c)
<1> DEFINE s == CellBytes[c]
           k == bl.cache
<1>1. /\ c \in Classes /\ bl.used \in Int /\ bl.total \in Int /\ s \in Nat
      /\ Grace(c) \in Nat /\ DataBytes \in Nat
      /\ k # None => u[k] \in 0..Cells(c)
  BY Geometry DEF Bin, BlockLists, Members
<1>2. Behind(bl) \in Int /\ Behind(bl) <= 8 * Grace(c)
  BY <1>1 DEF Behind, ShouldFlush, EmptinessClasses
<1>3. k # None => Lack(u[k], c) \in Int /\ -DataBytes <= Lack(u[k], c)
  BY <1>1, Lacks
<1> QED BY <1>1, <1>2, <1>3 DEF AtRest, Calm, LastCell, Bound

\* BlockList::pop_most_empty_block after a free.
LEMMA Flush ==
  ASSUME NEW bl, NEW u, NEW c, NEW bl2, NEW f \in Members(bl), Bin(bl, u, c), Freed(bl, u, c),
         bl.cache # None => f = bl.cache,
         bl.cache = None => \A a \in bl.list : Low(u[a], c) => Low(u[f], c),
         bl2 = [cache |-> IF bl.cache = f THEN None ELSE bl.cache, list |-> bl.list \ {f},
                used |-> bl.used - CellBytes[c] * u[f], total |-> bl.total - DataBytes]
  PROVE  Bin(bl2, u, c) /\ AtRest(bl2, u, c)
<1> DEFINE s == CellBytes[c]
<1>1. /\ f \in Blocks /\ bl.list \subseteq Blocks /\ c \in Classes /\ f # None
      /\ bl.used \in Int /\ bl.total \in Int /\ Cells(c) \in Nat /\ s \in Nat
      /\ Grace(c) \in Nat /\ DataBytes \in Nat /\ u[f] \in 0..Cells(c)
  BY Geometry, NamesAssumption DEF Bin, BlockLists, Members
<1>2. s * u[f] \in Int
  BY <1>1
<1>3. Bin(bl2, u, c) /\ bl2.cache = None /\ bl2.list = bl.list \ {f}
  <2>1. bl2.cache = None /\ bl2.list = bl.list \ {f}
    BY <1>1
  <2>2. bl2 \in BlockLists
    BY <1>1, <1>2, <2>1 DEF BlockLists
  <2>3. Members(bl2) \subseteq Members(bl) /\ None \notin bl2.list
    BY <1>1, <2>1, NamesAssumption DEF Members
  <2> QED BY <2>1, <2>2, <2>3 DEF Bin
<1>4. Behind(bl2) = Behind(bl) - Lack(u[f], c) /\ Behind(bl) \in Int /\ Lack(u[f], c) \in Int
  BY <1>1, <1>2 DEF Behind, Lack
<1>5. Low(u[f], c) => Lack(u[f], c) >= 8 * s
  BY <1>1, Lacks
<1>6. ASSUME NEW b \in bl2.list, Low(u[b], c)
      PROVE  Lonely(bl2, u, b, c) \/ Behind(bl2) <= Bound(c)
  <2>1. CASE bl.cache # None
    <3>1. \/ Behind(bl) - Lack(u[f], c) <= Bound(c)
          \/ Lonely([bl EXCEPT !.cache = None], u, b, c)
      BY <1>3, <1>6, <2>1 DEF Freed
    <3>2. [bl EXCEPT !.cache = None].list = bl.list
      BY DEF Bin, BlockLists
    <3> QED BY <1>3, <1>4, <3>1, <3>2 DEF Lonely
  <2>2. CASE bl.cache = None
    <3>1. f \in bl.list /\ Low(u[f], c) /\ b \in bl.list /\ b # f
      BY <1>3, <1>6, <2>2 DEF Members
    <3>2. \/ Behind(bl) <= Bound(c) + 8 * s
          \/ JustLow(u[b], c) /\ \A d \in bl.list \ {f, b} : ~Low(u[d], c)
      BY <1>6, <2>2, <3>1 DEF Freed
    <3>3. Bound(c) \in Int
      BY <1>1 DEF Bound
    <3> QED BY <1>1, <1>3, <1>4, <1>5, <3>1, <3>2, <3>3 DEF Lonely
  <2> QED BY <2>1, <2>2
<1> QED BY <1>3, <1>6 DEF AtRest, Calm, LastCell

----------------------------------------------------------------------------
\* The thread t is about to take or give back locks, and touches no bin but
\* those it has locked.
Frame(t) ==
  /\ \A s \in Threads \ {t} : pc'[s] = pc[s] /\ reg'[s] = reg[s]
  /\ \A q \in Bins :
       /\ lock'[q] = lock[q] \/ {lock[q], lock'[q]} \subseteq {t, NoOne}
       /\ lock[q] # t => bin'[q] = bin[q]
       /\ Drained(q) => Drained(q)'
       /\ Empty(q)' => Empty(q) \/ lock[q] = t
  /\ \A b \in Blocks :
       /\ b \notin pr /\ lock[<<owner[b], class[b]>>] # t =>
            b \notin pr' /\ used'[b] = used[b] /\ owner'[b] = owner[b] /\ class'[b] = class[b]
       /\ class'[b] # class[b] => b \in pr
       /\ \/ owner'[b] = owner[b] /\ class'[b] = class[b]
          \/ owner'[b] = Global
          \/ lock[<<owner'[b], class'[b]>>] = t

\* A block one of whose cells is being freed is not free.
LEMMA Held ==
  ASSUME IInv, NEW t \in Threads, pc[t] \in FreePcs
  PROVE  reg[t].blk \in Blocks /\ reg[t].blk \notin pr /\ used[reg[t].blk] > 0
<1> DEFINE b == reg[t].blk
<1>1. b \in Blocks
  BY DEF IInv, ThreadOK, Locals
<1>2. IsFiniteSet(Freeing(b)) /\ t \in Freeing(b)
  BY FiniteAssumption, FS_Subset DEF Freeing, FreePcs
<1>3. Cardinality(Freeing(b)) \in Nat /\ Cardinality(Freeing(b)) # 0
  BY <1>2, FS_CardinalityType, FS_EmptySet
<1>4. Counted(b) /\ app[b] \in Nat /\ used[b] \in Int
  BY <1>1 DEF IInv, Shapes
<1> QED BY <1>1, <1>3, <1>4 DEF Counted

\* The bin of a thread in a section is one, and so are the bins it has locked.
LEMMA Sections ==
  ASSUME IInv, NEW t \in Threads
  PROVE  /\ pc[t] \in LockedPcs => MyBin(t) \in Bins /\ lock[MyBin(t)] = t
         /\ pc[t] \in {"globalPop", "flushPut", "drainPut"} =>
              GlobalBin(t) \in Bins /\ lock[GlobalBin(t)] = t
         /\ \A q \in Bins : lock[q] = t => pc[t] \in LockedPcs /\ (q = MyBin(t) \/ q = GlobalBin(t))
<1>1. Locals(t) /\ Holding(t)
  BY DEF IInv, ThreadOK
<1>2. LockedPcs \subseteq BinPcs /\ {"globalPop", "flushPut", "drainPut"} \subseteq LockedPcs
  BY DEF LockedPcs, BinPcs, AllocPcs, WaitingPcs, FlushPcs, DecidePcs, DrainPcs, DrainingPcs
<1>3. pc[t] \in LockedPcs => MyBin(t) \in Bins
  BY <1>1, <1>2 DEF Locals
<1>4. pc[t] \in LockedPcs => GlobalBin(t) \in Bins
  BY <1>3 DEF MyBin, GlobalBin, Bins, Pools
<1> QED BY <1>1, <1>2, <1>3, <1>4 DEF Holding, Section

\* What lies in a bin.
LEMMA InBin ==
  ASSUME IInv, NEW q \in Bins
  PROVE  /\ Bin(bin[q], used, q[2]) /\ bin[q] \in BlockLists /\ bin[q].cache \notin bin[q].list
         /\ q[2] \in Classes /\ Cells(q[2]) \in Nat
         /\ \A b \in Members(bin[q]) : /\ b \in Blocks /\ b \notin pr /\ b # None
                                       /\ owner[b] = q[1] /\ class[b] = q[2]
                                       /\ used[b] \in 0..Cells(q[2])
         /\ ~Drained(q) => bin[q].total >= 0
<1>1. /\ bin[q] \in BlockLists /\ used \in [Blocks -> Int] /\ app \in [Blocks -> Nat]
      /\ Apart(q) /\ Exact(q) /\ \A b \in Blocks : Counted(b)
  BY DEF IInv, Shapes, BinOK
<1>2. q[2] \in Classes /\ Cells(q[2]) \in Nat /\ DataBytes \in Nat
  BY Geometry DEF Bins
<1>3. bin[q].list \subseteq Blocks /\ Members(bin[q]) \subseteq Blocks
  BY <1>1 DEF BlockLists, Members
<1>4. ASSUME NEW b \in Members(bin[q])
      PROVE  /\ b \in Blocks /\ b \notin pr /\ b # None /\ owner[b] = q[1] /\ class[b] = q[2]
             /\ used[b] \in 0..Cells(q[2])
  <2>1. b \in Blocks /\ b \notin pr /\ owner[b] = q[1] /\ class[b] = q[2] /\ Counted(b)
    BY <1>1, <1>3 DEF Apart
  <2>2. Cardinality(Freeing(b)) \in Nat
    BY FiniteAssumption, FS_Subset, FS_CardinalityType DEF Freeing
  <2>3. used[b] \in Int /\ app[b] \in Nat
    BY <1>1, <2>1
  <2> QED BY <1>2, <2>1, <2>2, <2>3, NamesAssumption DEF Counted
<1>5. Cardinality(Members(bin[q])) \in Nat
  BY <1>3, FiniteAssumption, FS_Subset, FS_CardinalityType
<1>6. ~Drained(q) => bin[q].total >= 0
  BY <1>1, <1>2, <1>5 DEF Exact
<1>7. bin[q].cache \notin bin[q].list
  BY <1>1 DEF Apart
<1>8. Bin(bin[q], used, q[2])
  BY <1>1, <1>2, <1>4, <1>7 DEF Bin
<1> QED BY <1>1, <1>2, <1>4, <1>6, <1>7, <1>8

\* A pool does not drain a bin that others have locked and that has blocks.
LEMMA Undrained ==
  ASSUME IInv, NEW t \in Threads, NEW q \in Bins, lock[q] = t, pc[t] \notin DrainPcs,
         Members(bin[q]) # {}
  PROVE  ~Drained(q)
<1>1. ~Empty(q)
  BY DEF IInv, BinOK
<1> SUFFICES ASSUME q[1] \in Threads, pc[q[1]] \in DrainingPcs, q[2] = reg[q[1]].class
             PROVE  FALSE
  BY <1>1 DEF Drained
<1>2. reg[q[1]].pool = q[1]
  BY DEF IInv, ThreadOK, Locals, DrainPcs
<1>3. MyBin(q[1]) = q
  BY <1>2 DEF MyBin, Bins
<1>4. lock[q] = q[1]
  BY <1>3, Sections DEF LockedPcs
<1> QED BY <1>4 DEF DrainPcs

\* What another thread knows stays so.
LEMMA OtherThread ==
  ASSUME IInv, NEW t \in Threads, Frame(t), NEW s \in Threads \ {t}
  PROVE  ThreadOK(s)'
<1>1. pc'[s] = pc[s] /\ reg'[s] = reg[s] /\ MyBin(s)' = MyBin(s) /\ GlobalBin(s)' = GlobalBin(s)
  BY DEF Frame, MyBin, GlobalBin
<1>2. ThreadOK(s)
  BY DEF IInv
<1>3. pc[s] \in LockedPcs => /\ MyBin(s) \in Bins /\ lock[MyBin(s)] # t
                             /\ bin'[MyBin(s)] = bin[MyBin(s)]
  BY Sections DEF Frame
<1>4. \A q \in Bins, b \in Blocks :
        lock[q] # t /\ b \notin pr /\ owner[b] = q[1] /\ class[b] = q[2] =>
          b \notin pr' /\ used'[b] = used[b] /\ owner'[b] = owner[b] /\ class'[b] = class[b]
  <2> SUFFICES ASSUME NEW q \in Bins, NEW b \in Blocks, lock[q] # t, b \notin pr,
                      owner[b] = q[1], class[b] = q[2]
               PROVE  b \notin pr' /\ used'[b] = used[b] /\ owner'[b] = owner[b] /\ class'[b] = class[b]
    OBVIOUS
  <2>1. <<owner[b], class[b]>> = q
    BY DEF Bins
  <2> QED BY <2>1 DEF Frame
<1>5. pc[s] \in LockedPcs =>
        \A b \in Members(bin[MyBin(s)]) :
          b \in Blocks /\ used'[b] = used[b]
  <2> SUFFICES ASSUME pc[s] \in LockedPcs, NEW b \in Members(bin[MyBin(s)])
               PROVE  b \in Blocks /\ used'[b] = used[b]
    OBVIOUS
  <2>1. Apart(MyBin(s)) /\ bin[MyBin(s)] \in BlockLists
    BY <1>3 DEF IInv, BinOK, Shapes
  <2>2. b \in Blocks
    BY <2>1 DEF Members, BlockLists
  <2>3. b \notin pr /\ owner[b] = MyBin(s)[1] /\ class[b] = MyBin(s)[2]
    BY <2>1 DEF Apart
  <2> QED BY <1>3, <1>4, <2>2, <2>3
<1>6. Locals(s)'
  <2>1. pc[s] \in {"freeLock", "freeCheck"} => class'[reg[s].blk] = class[reg[s].blk]
    BY Held DEF Frame, FreePcs
  <2> QED BY <1>1, <1>2, <2>1 DEF ThreadOK, Locals
<1>7. Holding(s)'
  <2>1. Section(s)' = Section(s)
    BY <1>1 DEF Section
  <2>2. \A q \in Bins : lock'[q] = s <=> lock[q] = s
    BY NamesAssumption DEF Frame
  <2> QED BY <1>2, <2>1, <2>2 DEF ThreadOK, Holding
<1>8. CarriedApart(s)'
  <2> SUFFICES ASSUME pc[s] \in CarryPcs
               PROVE  /\ reg[s].fblk \notin pr' \cup Members(bin'[MyBin(s)])
                      /\ owner'[reg[s].fblk] = reg[s].pool
                      /\ class'[reg[s].fblk] = reg[s].class
                      /\ used'[reg[s].fblk] = used[reg[s].fblk]
    BY <1>1, <1>2 DEF ThreadOK, CarriedApart
  <2>1. pc[s] \in LockedPcs
    BY DEF CarryPcs, LockedPcs, FlushPcs, DrainingPcs
  <2>2. reg[s].fblk \in Blocks /\ CarriedApart(s)
    BY <1>2 DEF ThreadOK, Locals
  <2>3. MyBin(s)[1] = reg[s].pool /\ MyBin(s)[2] = reg[s].class
    BY DEF MyBin
  <2> QED BY <1>3, <1>4, <2>1, <2>2, <2>3 DEF CarriedApart
<1>9. NothingLeft(s)'
  <2> SUFFICES ASSUME pc[s] \in WaitingPcs
               PROVE  /\ bin'[MyBin(s)].cache = None
                      /\ AllFull(bin'[MyBin(s)], used', reg[s].class)
    BY <1>1 DEF NothingLeft
  <2>1. pc[s] \in LockedPcs
    BY DEF LockedPcs
  <2>2. NothingLeft(s)
    BY <1>2 DEF ThreadOK
  <2> QED BY <1>3, <1>5, <2>1, <2>2 DEF NothingLeft, AllFull, Members
<1>10. FlushedAway(s)'
  <2> SUFFICES ASSUME pc[s] = "flushed", owner'[reg[s].fblk] = reg[s].pool,
                      class'[reg[s].fblk] = reg[s].class
               PROVE  FALSE
    BY <1>1 DEF FlushedAway
  <2>1. reg[s].fblk \in Blocks /\ reg[s].pool # Global /\ FlushedAway(s)
    BY <1>2 DEF ThreadOK, Locals, FlushPcs
  <2>2. lock[<<owner'[reg[s].fblk], class'[reg[s].fblk]>>] = t
    BY <2>1 DEF Frame, FlushedAway
  <2>3. lock[MyBin(s)] # t
    BY <1>3 DEF LockedPcs, FlushPcs
  <2> QED BY <2>2, <2>3 DEF MyBin
<1>11. Deciding(s)'
  <2> SUFFICES ASSUME pc[s] \in DecidePcs \cup {"release"} PROVE Deciding(s)'
    BY <1>1 DEF Deciding
  <2>1. pc[s] \in LockedPcs
    BY DEF LockedPcs, FlushPcs
  <2>2. bin'[MyBin(s)] = bin[MyBin(s)]
    BY <1>3, <2>1
  <2>3. Deciding(s)
    BY <1>2 DEF ThreadOK
  <2> DEFINE bl == bin[MyBin(s)]
             c == reg[s].class
  <2>4. \A b \in Members(bl) : used'[b] = used[b]
    BY <1>5, <2>1
  <2>5. /\ Freed(bl, used, c) => Freed(bl, used', c)
        /\ Emptied(bl, used, c) => Emptied(bl, used', c)
        /\ NoneToFlush(bl, used, c) => NoneToFlush(bl, used', c)
    BY <2>4, SameFlush
  <2> QED BY <1>1, <2>2, <2>3, <2>5 DEF Deciding
<1> QED BY <1>6, <1>7, <1>8, <1>9, <1>10, <1>11 DEF ThreadOK

\* A bin that a step of t leaves alone, its blocks too, stays in order.
LEMMA SameBin ==
  ASSUME IInv, NEW t \in Threads, NEW q \in Bins, bin'[q] = bin[q],
         \A s \in Threads \ {t} : pc'[s] = pc[s] /\ reg'[s] = reg[s],
         \A b \in Members(bin[q]) :
           b \notin pr' /\ used'[b] = used[b] /\ owner'[b] = owner[b] /\ class'[b] = class[b],
         ~(pc[t] = "allocTry" /\ MyBin(t) = q),
         pc[t] \in DecidePcs /\ MyBin(t) = q =>
           AtRest(bin[q], used, q[2]) \/ (pc'[t] \in DecidePcs /\ MyBin(t)' = q),
         Drained(q) => Drained(q)',
         Empty(q)' => Empty(q) \/ Members(bin[q]) = {}
  PROVE  BinOK(q)'
<1>1. BinOK(q) /\ q[2] \in Classes /\ Members(bin[q]) \in SUBSET Blocks
  <2>1. bin[q] \in BlockLists
    BY DEF IInv, Shapes
  <2> QED BY <2>1 DEF IInv, Bins, BlockLists, Members
<1>2. \A s \in Threads \ {t} : pc'[s] = pc[s] /\ MyBin(s)' = MyBin(s)
  BY DEF MyBin
<1>3. Apart(q)'
  BY <1>1 DEF BinOK, Apart
<1>4. EmptyTaken(q)'
  BY <1>1, <1>2 DEF BinOK, EmptyTaken
<1>5. Exact(q)'
  <2>1. Cells(q[2]) \in Nat
    BY <1>1, Geometry
  <2>2. CellsOf(Members(bin[q]), used', Cells(q[2])) = CellsOf(Members(bin[q]), used, Cells(q[2]))
    BY <1>1, <2>1, CellsSame
  <2> QED BY <1>1, <2>2 DEF BinOK, Exact, UsedBytes, TotalBytes
<1>6. Flushable(q)'
  <2>1. AtRest(bin[q], used, q[2]) => AtRest(bin[q], used', q[2])
    BY SameFlush
  <2>2. CASE \E s \in Threads : pc[s] \in DecidePcs /\ MyBin(s) = q
    BY <1>2, <2>1, <2>2 DEF Flushable
  <2>3. CASE ~\E s \in Threads : pc[s] \in DecidePcs /\ MyBin(s) = q
    BY <1>1, <2>1, <2>3 DEF BinOK, Flushable
  <2> QED BY <2>2, <2>3
<1> QED BY <1>1, <1>3, <1>4, <1>5, <1>6 DEF BinOK

\* A bin that t has not locked stays in order.
LEMMA OtherBin ==
  ASSUME IInv, NEW t \in Threads, Frame(t), NEW q \in Bins, lock[q] # t
  PROVE  BinOK(q)'
<1>1. Apart(q) /\ Members(bin[q]) \subseteq Blocks
  <2>1. bin[q] \in BlockLists
    BY DEF IInv, Shapes
  <2> QED BY <2>1 DEF IInv, BinOK, BlockLists, Members
<1>2. ASSUME NEW b \in Members(bin[q])
      PROVE  b \notin pr' /\ used'[b] = used[b] /\ owner'[b] = owner[b] /\ class'[b] = class[b]
  <2>1. b \in Blocks /\ b \notin pr /\ <<owner[b], class[b]>> = q
    BY <1>1 DEF Apart, Bins
  <2> QED BY <2>1 DEF Frame
<1>3. pc[t] \in {"allocTry"} \cup DecidePcs => MyBin(t) # q
  BY Sections DEF LockedPcs, FlushPcs
<1>4. /\ bin'[q] = bin[q]
      /\ \A s \in Threads \ {t} : pc'[s] = pc[s] /\ reg'[s] = reg[s]
      /\ Drained(q) => Drained(q)'
      /\ Empty(q)' => Empty(q)
  BY DEF Frame
<1> QED BY <1>2, <1>3, <1>4, SameBin

\* A block of such a bin stays where it is.
LEMMA OtherBlock ==
  ASSUME IInv, NEW t \in Threads, Frame(t),
         NEW b \in Blocks, b \notin pr, lock[<<owner[b], class[b]>>] # t
  PROVE  Found(b)'
<1> DEFINE q == <<owner[b], class[b]>>
<1>1. Found(b) /\ q \in Bins
  BY DEF IInv, Found
<1>2. <<owner'[b], class'[b]>> = q /\ bin'[q] = bin[q]
  BY <1>1 DEF Frame
<1>3. ASSUME NEW s \in Threads, b \in Carried(s) PROVE b \in Carried(s)'
  <2>1. pc[s] \in CarryPcs /\ reg[s].fblk = b
    BY <1>3 DEF Carried, CarryPcs
  <2>2. q = MyBin(s)
    BY <2>1 DEF IInv, ThreadOK, CarriedApart, MyBin
  <2>3. s # t
    BY <2>1, <2>2, Sections DEF CarryPcs, LockedPcs, FlushPcs, DrainingPcs
  <2> QED BY <1>3, <2>3 DEF Frame, Carried
<1> QED BY <1>1, <1>2, <1>3 DEF Found

\* What is left to show for a step of t.
LEMMA Frames ==
  ASSUME IInv, NEW t \in Threads, Frame(t), Shapes', ThreadOK(t)',
         \A q \in Bins : lock[q] = t => BinOK(q)',
         \A b \in Blocks : b \in pr \/ lock[<<owner[b], class[b]>>] = t => Found(b)',
         \A b \in Blocks : Counted(b)'
  PROVE  IInv'
<1>1. \A s \in Threads : ThreadOK(s)'
  BY OtherThread
<1>2. \A q \in Bins : BinOK(q)'
  BY OtherBin
<1>3. \A b \in Blocks : Found(b)'
  BY OtherBlock
<1> QED BY <1>1, <1>2, <1>3 DEF IInv

\* A thread that is not about to free a cell, or goes on doing so, does not
\* change which frees are under way.
LEMMA SameFreeing ==
  ASSUME NEW t \in Threads, \A s \in Threads \ {t} : pc'[s] = pc[s] /\ reg'[s] = reg[s],
         pc[t] \in FreePcs <=> pc'[t] \in FreePcs,
         pc[t] \in FreePcs => reg'[t].blk = reg[t].blk
  PROVE  \A b \in Blocks : Freeing(b)' = Freeing(b)
BY DEF Freeing, FreePcs

\* Then the counts of the blocks stay right.
LEMMA SameCounted ==
  ASSUME IInv, NEW t \in Threads, \A s \in Threads \ {t} : pc'[s] = pc[s] /\ reg'[s] = reg[s],
         UNCHANGED <<class, used, app, pr>>, pc[t] \notin FreePcs, pc'[t] \notin FreePcs
  PROVE  \A b \in Blocks : Counted(b)'
BY SameFreeing DEF IInv, Counted, Cells

\* Only a thread that exits empties bins.
LEMMA NotDraining ==
  ASSUME NEW t \in Threads, \A s \in Threads \ {t} : pc'[s] = pc[s] /\ reg'[s] = reg[s],
         pc[t] \notin DrainPcs \cup {"dead"},
         pc'[t] \notin DrainPcs \cup {"dead"} \/ (pc'[t] = "drainLock" /\ reg'[t].class = 1)
  PROVE  \A q \in Bins : (Drained(q) => Drained(q)') /\ (Empty(q)' => Empty(q))
<1> SUFFICES ASSUME NEW q \in Bins
             PROVE  (Drained(q) => Drained(q)') /\ (Empty(q)' => Empty(q))
  OBVIOUS
<1>1. DrainingPcs \subseteq DrainPcs /\ "drainLock" \notin DrainingPcs
  BY DEF DrainPcs, DrainingPcs
<1>2. ~(q[2] < 1)
  BY ClassesRange DEF Bins
<1>3. CASE q[1] = t
  BY <1>1, <1>2, <1>3 DEF Drained, Empty
<1>4. CASE q[1] # t
  BY <1>4 DEF Drained, Empty
<1> QED BY <1>3, <1>4

----------------------------------------------------------------------------
\* A thread outside the allocator has no lock.
LEMMA Idle ==
  ASSUME NEW t \in Threads, pc'[t] = "idle", \A q \in Bins : lock'[q] # t
  PROVE  ThreadOK(t)'
<1>1. Locals(t)'
  BY DEF Locals, BinPcs, AllocPcs, WaitingPcs, FlushPcs, FreePcs, CarryPcs, DecidePcs, DrainPcs, DrainingPcs
<1>2. Holding(t)'
  BY DEF Holding, Section, LockedPcs, WaitingPcs, FlushPcs, DecidePcs, DrainingPcs
<1>3. CarriedApart(t)' /\ NothingLeft(t)' /\ FlushedAway(t)' /\ Deciding(t)'
  BY DEF CarriedApart, NothingLeft, FlushedAway, Deciding, CarryPcs, WaitingPcs, DecidePcs
<1> QED BY <1>1, <1>2, <1>3 DEF ThreadOK

\* The steps that move no block and no cell.

Others(t) ==
  /\ \A s \in Threads \ {t} : pc'[s] = pc[s] /\ reg'[s] = reg[s]
  /\ \A q \in Bins :
       lock'[q] = lock[q] \/ {lock[q], lock'[q]} \subseteq {t, NoOne}

\* A step that moves neither a block nor a cell of one.
LEMMA Still ==
  ASSUME IInv, NEW t \in Threads, UNCHANGED <<bin, owner, class, used, pr>>,
         Others(t), Shapes', ThreadOK(t)', \A b \in Blocks : Counted(b)',
         pc[t] # "allocTry", Carried(t)' = Carried(t),
         pc[t] \in DecidePcs =>
           \/ AtRest(bin[MyBin(t)], used, reg[t].class)
           \/ pc'[t] \in DecidePcs /\ reg'[t] = reg[t],
         \A q \in Bins : /\ Drained(q) => Drained(q)'
                         /\ Empty(q)' => Empty(q) \/ (lock[q] = t /\ Members(bin[q]) = {})
  PROVE  IInv'
<1>1. Frame(t)
  BY DEF Others, Frame
<1>2. ASSUME NEW q \in Bins, lock[q] = t PROVE BinOK(q)'
  <2>1. \A b \in Members(bin[q]) : b \notin pr'
    BY DEF IInv, BinOK, Apart
  <2>2. pc[t] \in DecidePcs /\ MyBin(t) = q =>
          AtRest(bin[q], used, q[2]) \/ (pc'[t] \in DecidePcs /\ MyBin(t)' = q)
    <3>1. MyBin(t) = q => q[2] = reg[t].class
      BY DEF MyBin
    <3>2. reg'[t] = reg[t] => MyBin(t)' = MyBin(t)
      BY DEF MyBin
    <3> QED BY <3>1, <3>2
  <2> QED BY <2>1, <2>2, SameBin DEF Others
<1>3. ASSUME NEW b \in Blocks PROVE Found(b)'
  <2>1. \A s \in Threads : Carried(s)' = Carried(s)
    BY DEF Others, Carried
  <2> QED BY <2>1 DEF IInv, Found
<1> QED BY <1>1, <1>2, <1>3, Frames

\* One that starts or ends no free either.
LEMMA Quiet ==
  ASSUME IInv, NEW t \in Threads, UNCHANGED <<bin, owner, class, used, app, pr>>,
         Others(t), Shapes', ThreadOK(t)',
         pc[t] # "allocTry", Carried(t)' = Carried(t),
         pc[t] \in FreePcs <=> pc'[t] \in FreePcs,
         pc[t] \in FreePcs => reg'[t].blk = reg[t].blk,
         pc[t] \in DecidePcs =>
           \/ AtRest(bin[MyBin(t)], used, reg[t].class)
           \/ pc'[t] \in DecidePcs /\ reg'[t] = reg[t],
         \A q \in Bins : /\ Drained(q) => Drained(q)'
                         /\ Empty(q)' => Empty(q) \/ (lock[q] = t /\ Members(bin[q]) = {})
  PROVE  IInv'
<1>1. ASSUME NEW b \in Blocks PROVE Counted(b)'
  <2>1. Freeing(b)' = Freeing(b)
    BY SameFreeing DEF Others
  <2> QED BY <2>1 DEF IInv, Counted, Cells
<1> QED BY <1>1, Still

\* An allocation begins.
LEMMA AllocCallKeeps == ASSUME IInv, NEW t \in Threads, AllocCall(t) PROVE IInv'
<1>0. Shapes /\ ThreadOK(t)
  BY DEF IInv
<1>1. PICK c \in Classes :
        /\ pc[t] = "idle" /\ pc' = [pc EXCEPT ![t] = "allocLock"]
        /\ reg' = [reg EXCEPT ![t].pool = t, ![t].class = c]
        /\ UNCHANGED <<lock, bin, owner, class, used, app, pr>>
  BY DEF AllocCall, Goto
<1>2. reg'[t].pool = t /\ reg'[t].class = c /\ pc'[t] = "allocLock" /\ reg' \in [Threads -> Regs]
  <2>1. pc \in [Threads -> Pcs] /\ reg \in [Threads -> Regs]
    BY <1>0 DEF Shapes
  <2> QED BY <1>1, <2>1, ZenonT(40) DEF Regs, Pools
<1>3. Shapes'
  BY <1>0, <1>1, <1>2 DEF Shapes, Pcs, AllocPcs
<1>4. Others(t)
  BY <1>0, <1>1 DEF Shapes, Others
<1>5. ThreadOK(t)'
  <2>1. Locals(t)'
    BY <1>2 DEF Locals, BinPcs, FlushPcs, FreePcs, CarryPcs, DecidePcs, MyBin, Bins, Pools
  <2>2. Holding(t)'
    BY <1>0, <1>1, <1>2 DEF ThreadOK, Holding, Section, LockedPcs, WaitingPcs, FlushPcs, DecidePcs, DrainingPcs
  <2>3. CarriedApart(t)' /\ NothingLeft(t)' /\ FlushedAway(t)' /\ Deciding(t)'
    BY <1>2 DEF CarriedApart, NothingLeft, FlushedAway, Deciding, CarryPcs, WaitingPcs, DecidePcs
  <2> QED BY <2>1, <2>2, <2>3 DEF ThreadOK
<1>6. \A q \in Bins : (Drained(q) => Drained(q)') /\ (Empty(q)' => Empty(q))
  BY <1>1, <1>2, <1>4, NotDraining DEF Others, DrainPcs, DrainingPcs
<1> QED BY <1>1, <1>2, <1>3, <1>4, <1>5, <1>6, Quiet DEF FreePcs, DecidePcs, Carried

\* A thread that locks its bin, or that of the global pool.
LEMMA LockKeeps ==
  ASSUME IInv, NEW t \in Threads,
         \/ AllocLock(t) \/ FreeLock(t) \/ DrainLock(t)
         \/ GlobalLock(t) \/ FlushLock(t) \/ DrainGlobalLock(t)
  PROVE  IInv'
<1>0. Shapes /\ ThreadOK(t) /\ Locals(t) /\ lock \in [Bins -> Threads \cup {NoOne}]
      /\ pc \in [Threads -> Pcs]
  BY DEF IInv, ThreadOK, Shapes
<1> DEFINE from == pc[t]
           to == pc'[t]
           q == IF from \in {"allocLock", "freeLock", "drainLock"} THEN MyBin(t) ELSE GlobalBin(t)
<1>1. /\ <<from, to>> \in {<<"allocLock", "allocTry">>, <<"freeLock", "freeCheck">>,
                           <<"drainLock", "drain">>, <<"globalLock", "globalPop">>,
                           <<"flushLock", "flushPut">>, <<"drainGlobal", "drainPut">>}
      /\ pc' = [pc EXCEPT ![t] = to]
      /\ lock[q] = NoOne /\ lock' = [lock EXCEPT ![q] = t]
      /\ UNCHANGED <<bin, owner, class, used, app, pr, reg>>
  <2>1. FlushLock(t) => reg[t].fclass = reg[t].class
    BY <1>0 DEF FlushLock, Goto, Locals
  <2>2. CASE AllocLock(t)
    BY <1>0, <2>2 DEF AllocLock, Goto, Acquire
  <2>3. CASE FreeLock(t)
    BY <1>0, <2>3 DEF FreeLock, Goto, Acquire
  <2>4. CASE DrainLock(t)
    BY <1>0, <2>4 DEF DrainLock, Goto, Acquire
  <2>5. CASE GlobalLock(t)
    BY <1>0, <2>5 DEF GlobalLock, Goto, Acquire
  <2>6. CASE FlushLock(t)
    BY <1>0, <2>1, <2>6 DEF FlushLock, Goto, Acquire, GlobalBin
  <2>7. CASE DrainGlobalLock(t)
    BY <1>0, <2>7 DEF DrainGlobalLock, Goto, Acquire
  <2> QED BY <2>2, <2>3, <2>4, <2>5, <2>6, <2>7
<1>2. pc'[t] = to /\ (to \in BinPcs \cap LockedPcs) /\ to \in Pcs
  BY <1>0, <1>1 DEF BinPcs, LockedPcs, Pcs, AllocPcs, WaitingPcs, FlushPcs, DecidePcs, DrainPcs, DrainingPcs, FreePcs
<1>3. MyBin(t) \in Bins /\ GlobalBin(t) \in Bins /\ q \in Bins
  <2>1. from \in BinPcs
    BY <1>1 DEF BinPcs, AllocPcs, WaitingPcs, FlushPcs, DrainPcs, DrainingPcs
  <2>2. MyBin(t) \in Bins
    BY <1>0, <1>1, <2>1 DEF Locals
  <2> QED BY <1>1, <2>2 DEF MyBin, GlobalBin, Bins, Pools
<1>4. Shapes'
  BY <1>0, <1>1, <1>2, <1>3 DEF Shapes
<1>5. Others(t)
  BY <1>0, <1>1, <1>3 DEF Others
<1>6. ThreadOK(t)'
  <2>1. Locals(t)'
    BY <1>0, <1>1, <1>2, <1>3 DEF Locals, MyBin, AllocPcs, WaitingPcs, FlushPcs, FreePcs, CarryPcs, DecidePcs, DrainPcs, DrainingPcs
  <2>2. Holding(t)'
    <3>1. Section(t)' = Section(t) \cup {q}
      BY <1>1, <1>2, <1>3 DEF Section, MyBin, GlobalBin, LockedPcs, WaitingPcs, FlushPcs, DecidePcs, DrainingPcs
    <3>2. \A x \in Bins : lock'[x] = t <=> lock[x] = t \/ x = q
      BY <1>0, <1>1, <1>3
    <3>3. Holding(t)
      BY <1>0 DEF ThreadOK
    <3> QED BY <3>1, <3>2, <3>3 DEF Holding
  <2>3. MyBin(t)' = MyBin(t)
    BY <1>1 DEF MyBin
  <2>4. CarriedApart(t)' /\ NothingLeft(t)' /\ FlushedAway(t)' /\ Deciding(t)'
    BY <1>0, <1>1, <1>2, <2>3 DEF ThreadOK, CarriedApart, NothingLeft, FlushedAway, Deciding, CarryPcs, WaitingPcs, DecidePcs
  <2> QED BY <2>1, <2>2, <2>4 DEF ThreadOK
<1>7. \A x \in Bins : (Drained(x) => Drained(x)') /\ (Empty(x)' => Empty(x))
  BY <1>0, <1>1 DEF Drained, Empty, DrainPcs, DrainingPcs
<1>8. pc[t] # "allocTry" /\ Carried(t)' = Carried(t) /\ pc[t] \notin DecidePcs
  BY <1>1, <1>2 DEF Carried, DecidePcs
<1>9. (pc[t] \in FreePcs <=> pc'[t] \in FreePcs) /\ reg'[t] = reg[t]
  BY <1>1, <1>2 DEF FreePcs
<1> QED BY <1>1, <1>4, <1>5, <1>6, <1>7, <1>8, <1>9, Quiet

\* A free that flushes nothing leaves its bin at rest.
LEMMA NoFlushRests ==
  ASSUME IInv, NEW t \in Threads, FlushNotNeeded(t) \/ FlushNothing(t)
  PROVE  AtRest(bin[MyBin(t)], used, reg[t].class)
<1> DEFINE q == MyBin(t)
           bl == bin[q]
           c == reg[t].class
<1>1. pc[t] \in DecidePcs /\ reg[t].blk \in Blocks
  BY DEF FlushNotNeeded, FlushNothing, Return, Goto, DecidePcs, IInv, ThreadOK, Locals
<1>2. q \in Bins /\ lock[q] = t /\ q[2] = c
  BY <1>1, Sections DEF LockedPcs, FlushPcs, MyBin
<1>3. Bin(bl, used, c) /\ c \in Classes /\ Shapes
  BY <1>2, InBin DEF IInv
<1>4. CASE FlushNothing(t)
  <2>1. bl.cache = None /\ Emptiest(bl.list) = {}
    BY <1>4 DEF FlushNothing, MostEmpty
  <2>2. bl.list \in SUBSET Blocks /\ \A b \in bl.list : class[b] = c /\ used[b] \in 0..Cells(c)
    BY <1>2, InBin DEF Members, BlockLists
  <2>3. AllFull(bl, used, c)
    BY <1>3, <2>1, <2>2, EmptiestBlock DEF AllFull
  <2> QED BY <1>3, <2>3, FullAtRest
<1>5. CASE FlushNotNeeded(t) /\ reg[t].blk \in Members(bl)
  <2>1. class[reg[t].blk] = c
    BY <1>2, <1>5, InBin
  <2>2. ~ShouldFlush(bl, c)
    BY <1>5, <2>1 DEF FlushNotNeeded
  <2>3. ~Drained(q)
    BY <1>1, <1>2, <1>5, Undrained DEF DecidePcs, DrainPcs, DrainingPcs
  <2> QED BY <1>2, <1>3, <2>2, <2>3, InBin, NoFlush
<1>6. CASE FlushNotNeeded(t) /\ reg[t].blk \notin Members(bl)
  <2>1. Deciding(t)
    BY DEF IInv, ThreadOK
  <2> QED BY <1>1, <1>6, <2>1 DEF Deciding, Emptied
<1> QED BY <1>4, <1>5, <1>6

\* A thread that leaves the allocator, its bin unlocked.
LEMMA ReturnKeeps ==
  ASSUME IInv, NEW t \in Threads,
         OutOfBlocks(t) \/ FlushNotNeeded(t) \/ FlushNothing(t) \/ FlushDone(t)
  PROVE  IInv'
<1>0. Shapes /\ ThreadOK(t) /\ Locals(t) /\ lock \in [Bins -> Threads \cup {NoOne}]
      /\ pc \in [Threads -> Pcs] /\ reg \in [Threads -> Regs]
  BY DEF IInv, ThreadOK, Shapes
<1>1. /\ pc[t] \in {"freshBlock", "flushCheck", "flushPop", "flushed"}
      /\ pc' = [pc EXCEPT ![t] = "idle"]
      /\ reg' = [reg EXCEPT ![t] = NoLocals]
      /\ lock' = [lock EXCEPT ![MyBin(t)] = NoOne]
      /\ UNCHANGED <<bin, owner, class, used, app, pr>>
  BY DEF OutOfBlocks, FlushNotNeeded, FlushNothing, FlushDone, Return, Goto, Release
<1>2. pc'[t] = "idle" /\ reg'[t] = NoLocals /\ NoLocals \in Regs /\ "idle" \in Pcs
  BY <1>0, <1>1 DEF NoLocals, Regs, Pcs
<1>3. MyBin(t) \in Bins /\ lock[MyBin(t)] = t /\ Section(t) = {MyBin(t)}
  BY <1>1, Sections DEF Section, LockedPcs, WaitingPcs, FlushPcs, DecidePcs
<1>4. Shapes'
  BY <1>0, <1>1, <1>2, <1>3 DEF Shapes
<1>5. Others(t)
  BY <1>0, <1>1, <1>3 DEF Others
<1>6. ThreadOK(t)'
  <2>1. \A x \in Bins : lock'[x] # t
    BY <1>0, <1>1, <1>3, NamesAssumption DEF ThreadOK, Holding
  <2> QED BY <1>2, <2>1, Idle
<1>7. \A x \in Bins : (Drained(x) => Drained(x)') /\ (Empty(x)' => Empty(x))
  BY <1>1, <1>2, <1>5, NotDraining DEF Others, DrainPcs, DrainingPcs
<1>8. pc[t] # "allocTry" /\ Carried(t)' = Carried(t)
  BY <1>1, <1>2 DEF Carried
<1>9. pc[t] \notin FreePcs /\ pc'[t] \notin FreePcs
  BY <1>1, <1>2 DEF FreePcs
<1>10. pc[t] \in DecidePcs => AtRest(bin[MyBin(t)], used, reg[t].class)
  BY <1>1, NoFlushRests DEF OutOfBlocks, FlushDone, Return, Goto, DecidePcs
<1> QED BY <1>1, <1>4, <1>5, <1>6, <1>7, <1>8, <1>9, <1>10, Quiet

\* A free begins: the cell is the application's no longer.
LEMMA FreeCallKeeps == ASSUME IInv, NEW t \in Threads, FreeCall(t) PROVE IInv'
<1>0. Shapes /\ ThreadOK(t) /\ app \in [Blocks -> Nat] /\ used \in [Blocks -> Int]
      /\ pc \in [Threads -> Pcs] /\ reg \in [Threads -> Regs]
  BY DEF IInv, Shapes
<1>1. PICK b \in Blocks :
        /\ pc[t] = "idle" /\ pc' = [pc EXCEPT ![t] = "freeRead"]
        /\ app[b] > 0 /\ app' = [app EXCEPT ![b] = @ - 1]
        /\ reg' = [reg EXCEPT ![t].blk = b]
        /\ UNCHANGED <<lock, bin, owner, class, used, pr>>
  BY DEF FreeCall, Goto
<1>2. reg'[t].blk = b /\ pc'[t] = "freeRead" /\ reg' \in [Threads -> Regs]
  BY <1>0, <1>1 DEF Regs
<1>3. Shapes'
  BY <1>0, <1>1, <1>2 DEF Shapes, Pcs, FreePcs
<1>4. Others(t)
  BY <1>0, <1>1 DEF Others
<1>5. ThreadOK(t)'
  <2>1. Locals(t)'
    BY <1>2 DEF Locals, BinPcs, AllocPcs, WaitingPcs, FlushPcs, FreePcs, CarryPcs, DecidePcs, DrainPcs, DrainingPcs
  <2>2. Holding(t)'
    BY <1>0, <1>1, <1>2 DEF ThreadOK, Holding, Section, LockedPcs, WaitingPcs, FlushPcs, DecidePcs, DrainingPcs
  <2>3. CarriedApart(t)' /\ NothingLeft(t)' /\ FlushedAway(t)' /\ Deciding(t)'
    BY <1>2 DEF CarriedApart, NothingLeft, FlushedAway, Deciding, CarryPcs, WaitingPcs, DecidePcs
  <2> QED BY <2>1, <2>2, <2>3 DEF ThreadOK
<1>6. ASSUME NEW a \in Blocks PROVE Counted(a)'
  <2>1. Counted(a) /\ IsFiniteSet(Freeing(a)) /\ Cardinality(Freeing(a)) \in Nat /\ t \notin Freeing(a)
    BY <1>1, FiniteAssumption, FS_Subset, FS_CardinalityType DEF IInv, Freeing
  <2>2. Freeing(a)' = IF a = b THEN Freeing(a) \cup {t} ELSE Freeing(a)
    BY <1>1, <1>2, <1>4 DEF Freeing, Others
  <2>3. Cardinality(Freeing(a) \cup {t}) = Cardinality(Freeing(a)) + 1
    BY <2>1, FS_AddElement
  <2>4. app'[a] = IF a = b THEN app[a] - 1 ELSE app[a]
    BY <1>0, <1>1
  <2>5. app[a] \in Nat /\ used[a] \in Int /\ used'[a] = used[a] /\ pr' = pr /\ class' = class
    BY <1>0, <1>1
  <2> QED BY <2>1, <2>2, <2>3, <2>4, <2>5 DEF Counted, Cells
<1>7. \A q \in Bins : (Drained(q) => Drained(q)') /\ (Empty(q)' => Empty(q))
  BY <1>1, <1>2, <1>4, NotDraining DEF Others, DrainPcs, DrainingPcs
<1> QED BY <1>1, <1>2, <1>3, <1>4, <1>5, <1>6, <1>7, Still DEF DecidePcs, Carried

\* The exit of a thread begins.
LEMMA ExitCallKeeps == ASSUME IInv, NEW t \in Threads, ExitCall(t) PROVE IInv'
<1>0. Shapes /\ ThreadOK(t) /\ pc \in [Threads -> Pcs] /\ reg \in [Threads -> Regs]
  BY DEF IInv, Shapes
<1>1. /\ pc[t] = "idle" /\ pc' = [pc EXCEPT ![t] = "drainLock"]
      /\ reg' = [reg EXCEPT ![t].pool = t, ![t].class = 1]
      /\ UNCHANGED <<lock, bin, owner, class, used, app, pr>>
  BY DEF ExitCall, Goto
<1>2. 1 \in Classes
  BY ClassesRange
<1>3. reg'[t].pool = t /\ reg'[t].class = 1 /\ pc'[t] = "drainLock" /\ reg' \in [Threads -> Regs]
  BY <1>0, <1>1, <1>2, ZenonT(40) DEF Regs, Pools
<1>4. Shapes'
  BY <1>0, <1>1, <1>3 DEF Shapes, Pcs, DrainPcs
<1>5. Others(t)
  BY <1>0, <1>1 DEF Others
<1>6. ThreadOK(t)'
  <2>1. Locals(t)'
    BY <1>2, <1>3 DEF Locals, BinPcs, FlushPcs, FreePcs, CarryPcs, DecidePcs, MyBin, Bins, Pools
  <2>2. Holding(t)'
    BY <1>0, <1>1, <1>3 DEF ThreadOK, Holding, Section, LockedPcs, WaitingPcs, FlushPcs, DecidePcs, DrainingPcs
  <2>3. CarriedApart(t)' /\ NothingLeft(t)' /\ FlushedAway(t)' /\ Deciding(t)'
    BY <1>3 DEF CarriedApart, NothingLeft, FlushedAway, Deciding, CarryPcs, WaitingPcs, DecidePcs
  <2> QED BY <2>1, <2>2, <2>3 DEF ThreadOK
<1>7. \A q \in Bins : (Drained(q) => Drained(q)') /\ (Empty(q)' => Empty(q))
  BY <1>1, <1>3, <1>5, NotDraining DEF Others, DrainPcs, DrainingPcs
<1> QED BY <1>1, <1>3, <1>4, <1>5, <1>6, <1>7, Quiet DEF FreePcs, DecidePcs, Carried

\* The global pool has no block of the class.
LEMMA GlobalMissKeeps == ASSUME IInv, NEW t \in Threads, GlobalMiss(t) PROVE IInv'
<1>0. Shapes /\ ThreadOK(t) /\ Locals(t) /\ lock \in [Bins -> Threads \cup {NoOne}]
      /\ pc \in [Threads -> Pcs]
  BY DEF IInv, ThreadOK, Shapes
<1>1. /\ pc[t] = "globalPop" /\ pc' = [pc EXCEPT ![t] = "freshBlock"]
      /\ lock' = [lock EXCEPT ![GlobalBin(t)] = NoOne]
      /\ UNCHANGED <<bin, owner, class, used, app, pr, reg>>
  BY DEF GlobalMiss, Goto, Release
<1>2. pc'[t] = "freshBlock" /\ "freshBlock" \in Pcs /\ reg'[t] = reg[t]
  BY <1>0, <1>1 DEF Pcs, AllocPcs, WaitingPcs
<1>3. /\ MyBin(t) \in Bins /\ GlobalBin(t) \in Bins /\ lock[GlobalBin(t)] = t
      /\ MyBin(t) # GlobalBin(t) /\ MyBin(t)' = MyBin(t)
  <2>1. reg[t].pool = t
    BY <1>0, <1>1 DEF Locals, AllocPcs, WaitingPcs
  <2> QED BY <1>1, <2>1, Sections, NamesAssumption DEF LockedPcs, WaitingPcs, MyBin, GlobalBin
<1>4. Shapes'
  BY <1>0, <1>1, <1>2, <1>3 DEF Shapes
<1>5. Others(t)
  BY <1>0, <1>1, <1>3 DEF Others
<1>6. ThreadOK(t)'
  <2>1. Locals(t)'
    BY <1>0, <1>1, <1>2, <1>3 DEF Locals, BinPcs, AllocPcs, WaitingPcs, FlushPcs, FreePcs, CarryPcs, DecidePcs, DrainPcs, DrainingPcs
  <2>2. Holding(t)'
    <3>1. Section(t)' = Section(t) \ {GlobalBin(t)}
      BY <1>1, <1>2, <1>3 DEF Section, LockedPcs, WaitingPcs
    <3>2. \A x \in Bins : lock'[x] = t <=> lock[x] = t /\ x # GlobalBin(t)
      BY <1>0, <1>1, <1>3, NamesAssumption
    <3>3. Holding(t)
      BY <1>0 DEF ThreadOK
    <3> QED BY <3>1, <3>2, <3>3 DEF Holding
  <2>3. NothingLeft(t)'
    BY <1>0, <1>1, <1>2, <1>3 DEF ThreadOK, NothingLeft, WaitingPcs
  <2>4. CarriedApart(t)' /\ FlushedAway(t)' /\ Deciding(t)'
    BY <1>2 DEF CarriedApart, FlushedAway, Deciding, CarryPcs, DecidePcs
  <2> QED BY <2>1, <2>2, <2>3, <2>4 DEF ThreadOK
<1>7. \A x \in Bins : (Drained(x) => Drained(x)') /\ (Empty(x)' => Empty(x))
  BY <1>1, <1>2, <1>5, NotDraining DEF Others, DrainPcs, DrainingPcs
<1> QED BY <1>1, <1>2, <1>4, <1>5, <1>6, <1>7, Quiet DEF FreePcs, DecidePcs, Carried

\* The block of a free has moved on.
LEMMA FreeRetryKeeps == ASSUME IInv, NEW t \in Threads, FreeRetry(t) PROVE IInv'
<1>0. Shapes /\ ThreadOK(t) /\ Locals(t) /\ lock \in [Bins -> Threads \cup {NoOne}]
      /\ pc \in [Threads -> Pcs]
  BY DEF IInv, ThreadOK, Shapes
<1>1. /\ pc[t] = "freeCheck" /\ pc' = [pc EXCEPT ![t] = "freeRead"]
      /\ lock' = [lock EXCEPT ![MyBin(t)] = NoOne]
      /\ UNCHANGED <<bin, owner, class, used, app, pr, reg>>
  BY DEF FreeRetry, Goto, Release
<1>2. pc'[t] = "freeRead" /\ "freeRead" \in Pcs /\ reg'[t] = reg[t]
  BY <1>0, <1>1 DEF Pcs, FreePcs
<1>3. MyBin(t) \in Bins /\ lock[MyBin(t)] = t /\ Section(t) = {MyBin(t)}
  BY <1>1, Sections DEF Section, LockedPcs
<1>4. Shapes'
  BY <1>0, <1>1, <1>2, <1>3 DEF Shapes
<1>5. Others(t)
  BY <1>0, <1>1, <1>3 DEF Others
<1>6. ThreadOK(t)'
  <2>1. Locals(t)'
    BY <1>0, <1>1, <1>2 DEF Locals, BinPcs, AllocPcs, WaitingPcs, FlushPcs, FreePcs, CarryPcs, DecidePcs, DrainPcs, DrainingPcs
  <2>2. Holding(t)'
    <3>1. Section(t)' = {}
      BY <1>2 DEF Section, LockedPcs, WaitingPcs, FlushPcs, DecidePcs, DrainingPcs
    <3>2. \A x \in Bins : lock'[x] # t
      BY <1>0, <1>1, <1>3, NamesAssumption DEF ThreadOK, Holding
    <3> QED BY <3>1, <3>2 DEF Holding
  <2>3. CarriedApart(t)' /\ NothingLeft(t)' /\ FlushedAway(t)' /\ Deciding(t)'
    BY <1>2 DEF CarriedApart, NothingLeft, FlushedAway, Deciding, CarryPcs, WaitingPcs, DecidePcs
  <2> QED BY <2>1, <2>2, <2>3 DEF ThreadOK
<1>7. \A x \in Bins : (Drained(x) => Drained(x)') /\ (Empty(x)' => Empty(x))
  BY <1>1, <1>2, <1>5, NotDraining DEF Others, DrainPcs, DrainingPcs
<1> QED BY <1>1, <1>2, <1>4, <1>5, <1>6, <1>7, Quiet DEF FreePcs, DecidePcs, Carried

\* The owner of a block that has a cell in use is a pool, its class a class.
LEMMA UsedBlock ==
  ASSUME IInv, NEW t \in Threads, pc[t] \in FreePcs
  PROVE  reg[t].blk \in Blocks /\ owner[reg[t].blk] \in Pools /\ class[reg[t].blk] \in Classes
BY Held DEF IInv, Found, Bins

LEMMA FreeReadKeeps == ASSUME IInv, NEW t \in Threads, FreeRead(t) PROVE IInv'
<1> DEFINE b == reg[t].blk
<1>0. Shapes /\ ThreadOK(t) /\ Locals(t) /\ pc \in [Threads -> Pcs] /\ reg \in [Threads -> Regs]
  BY DEF IInv, ThreadOK, Shapes
<1>1. /\ pc[t] = "freeRead" /\ pc' = [pc EXCEPT ![t] = "freeClass"]
      /\ reg' = [reg EXCEPT ![t].pool = owner[b]]
      /\ UNCHANGED <<lock, bin, owner, class, used, app, pr>>
  BY DEF FreeRead, Goto
<1>2. b \in Blocks /\ owner[b] \in Pools
  BY <1>1, UsedBlock DEF FreePcs
<1>3. /\ reg'[t].pool = owner[b] /\ reg'[t].blk = b
      /\ pc'[t] = "freeClass" /\ reg' \in [Threads -> Regs]
  BY <1>0, <1>1, <1>2, ZenonT(40) DEF Regs
<1>4. Shapes'
  BY <1>0, <1>1, <1>3 DEF Shapes, Pcs, FreePcs
<1>5. Others(t)
  BY <1>0, <1>1 DEF Others
<1>6. ThreadOK(t)'
  <2>1. Locals(t)'
    BY <1>1, <1>2, <1>3 DEF Locals, BinPcs, AllocPcs, WaitingPcs, FlushPcs, CarryPcs, DecidePcs, DrainPcs, DrainingPcs
  <2>2. Holding(t)'
    BY <1>0, <1>1, <1>3 DEF ThreadOK, Holding, Section, LockedPcs, WaitingPcs, FlushPcs, DecidePcs, DrainingPcs
  <2>3. CarriedApart(t)' /\ NothingLeft(t)' /\ FlushedAway(t)' /\ Deciding(t)'
    BY <1>3 DEF CarriedApart, NothingLeft, FlushedAway, Deciding, CarryPcs, WaitingPcs, DecidePcs
  <2> QED BY <2>1, <2>2, <2>3 DEF ThreadOK
<1>7. \A q \in Bins : (Drained(q) => Drained(q)') /\ (Empty(q)' => Empty(q))
  BY <1>1, <1>3, <1>5, NotDraining DEF Others, DrainPcs, DrainingPcs
<1> QED BY <1>1, <1>3, <1>4, <1>5, <1>6, <1>7, Quiet DEF FreePcs, DecidePcs, Carried

\* The class of such a block does not change, so that it is the bin's.
LEMMA FreeClassKeeps == ASSUME IInv, NEW t \in Threads, FreeClass(t) PROVE IInv'
<1> DEFINE b == reg[t].blk
<1>0. Shapes /\ ThreadOK(t) /\ Locals(t) /\ pc \in [Threads -> Pcs] /\ reg \in [Threads -> Regs]
  BY DEF IInv, ThreadOK, Shapes
<1>1. /\ pc[t] = "freeClass" /\ pc' = [pc EXCEPT ![t] = "freeLock"]
      /\ reg' = [reg EXCEPT ![t].class = class[b]]
      /\ UNCHANGED <<lock, bin, owner, class, used, app, pr>>
  BY DEF FreeClass, Goto
<1>2. b \in Blocks /\ class[b] \in Classes /\ reg[t].pool \in Pools
  BY <1>0, <1>1, UsedBlock DEF FreePcs, Locals
<1>3. /\ reg'[t].pool = reg[t].pool /\ reg'[t].class = class[b] /\ reg'[t].blk = b
      /\ pc'[t] = "freeLock" /\ reg' \in [Threads -> Regs]
  BY <1>0, <1>1, <1>2, ZenonT(40) DEF Regs
<1>4. Shapes'
  BY <1>0, <1>1, <1>3 DEF Shapes, Pcs, FreePcs
<1>5. Others(t)
  BY <1>0, <1>1 DEF Others
<1>6. ThreadOK(t)'
  <2>1. Locals(t)'
    BY <1>1, <1>2, <1>3 DEF Locals, AllocPcs, WaitingPcs, FlushPcs, CarryPcs, DecidePcs, DrainPcs, DrainingPcs, MyBin, Bins
  <2>2. Holding(t)'
    BY <1>0, <1>1, <1>3 DEF ThreadOK, Holding, Section, LockedPcs, WaitingPcs, FlushPcs, DecidePcs, DrainingPcs
  <2>3. CarriedApart(t)' /\ NothingLeft(t)' /\ FlushedAway(t)' /\ Deciding(t)'
    BY <1>3 DEF CarriedApart, NothingLeft, FlushedAway, Deciding, CarryPcs, WaitingPcs, DecidePcs
  <2> QED BY <2>1, <2>2, <2>3 DEF ThreadOK
<1>7. \A q \in Bins : (Drained(q) => Drained(q)') /\ (Empty(q)' => Empty(q))
  BY <1>1, <1>3, <1>5, NotDraining DEF Others, DrainPcs, DrainingPcs
<1> QED BY <1>1, <1>3, <1>4, <1>5, <1>6, <1>7, Quiet DEF FreePcs, DecidePcs, Carried

\* If the free emptied its block, it can want to flush only a bin with nothing
\* to flush, whatever class it reads from the block.
LEMMA FlushNeededKeeps == ASSUME IInv, NEW t \in Threads, FlushNeeded(t) PROVE IInv'
<1> DEFINE bl == bin[MyBin(t)]
<1>0. Shapes /\ ThreadOK(t) /\ Locals(t) /\ pc \in [Threads -> Pcs]
  BY DEF IInv, ThreadOK, Shapes
<1>1. /\ pc[t] = "flushCheck" /\ pc' = [pc EXCEPT ![t] = "flushPop"]
      /\ ShouldFlush(bl, class[reg[t].blk])
      /\ UNCHANGED <<lock, bin, owner, class, used, app, pr, reg>>
  BY DEF FlushNeeded, Goto
<1>2. pc'[t] = "flushPop" /\ "flushPop" \in Pcs /\ reg'[t] = reg[t] /\ MyBin(t)' = MyBin(t)
  BY <1>0, <1>1 DEF Pcs, FlushPcs, DecidePcs, MyBin
<1>3. MyBin(t) \in Bins
  BY <1>1, Sections DEF LockedPcs, FlushPcs, DecidePcs
<1>4. Shapes'
  BY <1>0, <1>1, <1>2 DEF Shapes
<1>5. Others(t)
  BY <1>0, <1>1 DEF Others
<1>6. ThreadOK(t)'
  <2>1. Locals(t)'
    BY <1>0, <1>1, <1>2 DEF Locals, BinPcs, AllocPcs, WaitingPcs, FlushPcs, FreePcs, CarryPcs, DecidePcs, DrainPcs, DrainingPcs
  <2>2. Holding(t)'
    BY <1>0, <1>1, <1>2 DEF ThreadOK, Holding, Section, LockedPcs, WaitingPcs, FlushPcs, DecidePcs, DrainingPcs, GlobalBin
  <2>3. Deciding(t)'
    <3>1. Behind(bl) > 0
      <4>1. bl.used \in Int /\ bl.total \in Int
        BY <1>3, InBin DEF BlockLists
      <4> QED BY <1>1, <4>1 DEF Behind, ShouldFlush, EmptinessClasses
    <3>2. Behind(bl) \in Int
      BY <1>3, InBin DEF Behind, BlockLists
    <3>3. Deciding(t)
      BY <1>0 DEF ThreadOK
    <3> QED BY <1>1, <1>2, <3>1, <3>2, <3>3 DEF Deciding, DecidePcs, Emptied
  <2>4. CarriedApart(t)' /\ NothingLeft(t)' /\ FlushedAway(t)'
    BY <1>2 DEF CarriedApart, NothingLeft, FlushedAway, CarryPcs, WaitingPcs
  <2> QED BY <2>1, <2>2, <2>3, <2>4 DEF ThreadOK
<1>7. \A q \in Bins : (Drained(q) => Drained(q)') /\ (Empty(q)' => Empty(q))
  BY <1>1, <1>2, <1>5, NotDraining DEF Others, DrainPcs, DrainingPcs
<1> QED BY <1>1, <1>2, <1>4, <1>5, <1>6, <1>7, Quiet DEF FreePcs, DecidePcs, Carried

\* The bin of an exiting thread is empty: the next one, or the end.
LEMMA DrainNextKeeps == ASSUME IInv, NEW t \in Threads, DrainNext(t) PROVE IInv'
<1>0. Shapes /\ ThreadOK(t) /\ Locals(t) /\ lock \in [Bins -> Threads \cup {NoOne}]
      /\ pc \in [Threads -> Pcs] /\ reg \in [Threads -> Regs]
  BY DEF IInv, ThreadOK, Shapes
<1> DEFINE n == reg[t].class
<1>1. /\ pc[t] = "drain" /\ Members(bin[MyBin(t)]) = {}
      /\ lock' = [lock EXCEPT ![MyBin(t)] = NoOne]
      /\ UNCHANGED <<bin, owner, class, used, app, pr>>
  BY DEF DrainNext, Release
<1>2. /\ MyBin(t) \in Bins /\ lock[MyBin(t)] = t /\ Section(t) = {MyBin(t)}
      /\ reg[t].pool = t /\ n \in Classes
  BY <1>0, <1>1, Sections DEF Section, LockedPcs, DrainingPcs, Locals, DrainPcs, MyBin, Bins
<1>3. \/ /\ pc' = [pc EXCEPT ![t] = "drainLock"] /\ reg' = [reg EXCEPT ![t].class = n + 1]
         /\ n + 1 \in Classes
      \/ /\ pc' = [pc EXCEPT ![t] = "dead"] /\ reg' = [reg EXCEPT ![t] = NoLocals]
         /\ n + 1 \notin Classes
  BY DEF DrainNext, Goto
<1>4. /\ \/ pc'[t] = "drainLock" /\ reg'[t].class = n + 1 /\ reg'[t].pool = t /\ n + 1 \in Classes
         \/ pc'[t] = "dead" /\ n + 1 \notin Classes
      /\ pc' \in [Threads -> Pcs] /\ reg' \in [Threads -> Regs]
  <2>1. NoLocals \in Regs /\ {"drainLock", "dead"} \subseteq Pcs
    BY DEF NoLocals, Regs, Pcs, DrainPcs
  <2> QED BY <1>0, <1>2, <1>3, <2>1 DEF Regs
<1>5. Shapes'
  BY <1>0, <1>1, <1>2, <1>4 DEF Shapes
<1>6. Others(t)
  BY <1>0, <1>1, <1>2, <1>3 DEF Others
<1>7. ThreadOK(t)'
  <2>1. Locals(t)'
    BY <1>2, <1>4 DEF Locals, BinPcs, AllocPcs, WaitingPcs, FlushPcs, FreePcs, CarryPcs, DecidePcs, DrainPcs, DrainingPcs, MyBin, Bins
  <2>2. Holding(t)'
    <3>1. Section(t)' = {}
      BY <1>4 DEF Section, LockedPcs, WaitingPcs, FlushPcs, DecidePcs, DrainingPcs
    <3>2. \A x \in Bins : lock'[x] # t
      BY <1>0, <1>1, <1>2, NamesAssumption DEF ThreadOK, Holding
    <3> QED BY <3>1, <3>2 DEF Holding
  <2>3. CarriedApart(t)' /\ NothingLeft(t)' /\ FlushedAway(t)' /\ Deciding(t)'
    BY <1>4 DEF CarriedApart, NothingLeft, FlushedAway, Deciding, CarryPcs, WaitingPcs, DecidePcs
  <2> QED BY <2>1, <2>2, <2>3 DEF ThreadOK
<1>8. ASSUME NEW x \in Bins
      PROVE  /\ Drained(x) => Drained(x)'
             /\ Empty(x)' => Empty(x) \/ (lock[x] = t /\ Members(bin[x]) = {})
  <2>1. CASE x[1] # t
    BY <1>6, <2>1 DEF Others, Drained, Empty
  <2>2. CASE x[1] = t
    <3>1. PICK k \in Nat : Classes = 1..k
      BY ClassesRange
    <3>2. x[2] \in 1..k /\ n \in 1..k /\ (n + 1 \in Classes <=> n < k)
      BY <1>2, <3>1 DEF Bins
    <3>3. x = MyBin(t) <=> x[2] = n
      BY <1>2, <2>2 DEF MyBin, Bins
    <3>4. Drained(x) <=> x[2] <= n
      BY <1>1, <2>2, <3>2, NamesAssumption DEF Drained, Empty, DrainPcs, DrainingPcs
    <3>5. Empty(x) <=> x[2] < n
      BY <1>1, <2>2 DEF Empty, DrainPcs, DrainingPcs
    <3>6. Empty(x)' <=> x[2] <= n
      BY <1>4, <2>2, <3>2 DEF Empty, DrainPcs, DrainingPcs
    <3> QED BY <1>1, <1>2, <3>2, <3>3, <3>4, <3>5, <3>6 DEF Drained
  <2> QED BY <2>1, <2>2
<1>9. pc[t] # "allocTry" /\ Carried(t)' = Carried(t) /\ pc[t] \notin DecidePcs \cup FreePcs
      /\ pc'[t] \notin FreePcs
  BY <1>1, <1>4 DEF Carried, DecidePcs, FreePcs
<1> QED BY <1>1, <1>5, <1>6, <1>7, <1>8, <1>9, Quiet

----------------------------------------------------------------------------
\* Allocation

\* The bin that a thread allocates from.
LEMMA AllocBin ==
  ASSUME IInv, NEW t \in Threads, pc[t] \in {"allocTry"} \cup WaitingPcs
  PROVE  /\ MyBin(t) \in Bins /\ lock[MyBin(t)] = t
         /\ reg[t].pool = t /\ MyBin(t)[1] = t /\ MyBin(t)[2] = reg[t].class
         /\ t # Global /\ ~Drained(MyBin(t))
         /\ AtRest(bin[MyBin(t)], used, reg[t].class)
<1> DEFINE q == MyBin(t)
<1>1. q \in Bins /\ lock[q] = t
  BY Sections DEF LockedPcs
<1>2. reg[t].pool = t /\ q[1] = t /\ q[2] = reg[t].class
  BY DEF IInv, ThreadOK, Locals, AllocPcs, MyBin
<1>3. t # Global
  BY NamesAssumption
<1>4. ~Drained(q)
  BY <1>2 DEF Drained, Empty, DrainPcs, DrainingPcs, WaitingPcs
<1>5. \A s \in Threads : pc[s] \in DecidePcs => MyBin(s) # q
  <2> SUFFICES ASSUME NEW s \in Threads, pc[s] \in DecidePcs, MyBin(s) = q PROVE FALSE
    OBVIOUS
  <2>1. s = t
    BY <1>1, Sections DEF LockedPcs, FlushPcs
  <2> QED BY <2>1 DEF DecidePcs, WaitingPcs
<1>6. AtRest(bin[q], used, q[2])
  BY <1>1, <1>2, <1>3, <1>4, <1>5 DEF IInv, BinOK, Flushable
<1> QED BY <1>1, <1>2, <1>3, <1>4, <1>6

\* A block that says it belongs to a bin locked by t is there, or t carries it.
LEMMA InMyBin ==
  ASSUME IInv, NEW t \in Threads, NEW b \in Blocks, b \notin pr, lock[<<owner[b], class[b]>>] = t
  PROVE  /\ <<owner[b], class[b]>> \in Bins
         /\ b \in Members(bin[<<owner[b], class[b]>>]) \/ b \in Carried(t)
<1>1. Found(b)
  BY DEF IInv
<1>2. ASSUME NEW s \in Threads, b \in Carried(s) PROVE s = t
  <2>1. pc[s] \in CarryPcs /\ reg[s].fblk = b
    BY <1>2 DEF Carried, CarryPcs
  <2>2. <<owner[b], class[b]>> = MyBin(s)
    BY <2>1 DEF IInv, ThreadOK, CarriedApart, MyBin
  <2> QED BY <2>1, <2>2, Sections DEF CarryPcs, LockedPcs, FlushPcs, DrainingPcs
<1> QED BY <1>1, <1>2 DEF Found

\* A block, not full, of the thread's bin gives a cell.
LEMMA TakeCellKeeps ==
  ASSUME IInv, NEW t \in Threads, NEW b \in Members(bin[MyBin(t)]), TakeCell(t, b),
         used[b] < Cells(reg[t].class),
         \A a \in Members(bin[MyBin(t)]) \ {b} : used[a] > 0,
         AtRest(bin'[MyBin(t)], used', reg[t].class)
  PROVE  IInv'
<1>a. pc[t] = "allocTry"
  BY DEF TakeCell, Return, Goto
<1>b. PICK q \in Bins, c \in Classes : q = MyBin(t) /\ c = reg[t].class
  BY <1>a, AllocBin, InBin
<1> DEFINE bl == bin[q]
<1>0. /\ Shapes /\ ThreadOK(t) /\ lock \in [Bins -> Threads \cup {NoOne}]
      /\ bin \in [Bins -> BlockLists] /\ used \in [Blocks -> Int] /\ app \in [Blocks -> Nat]
      /\ pc \in [Threads -> Pcs] /\ reg \in [Threads -> Regs]
  BY DEF IInv, Shapes
<1>1. /\ pc[t] = "allocTry" /\ pc' = [pc EXCEPT ![t] = "idle"]
      /\ reg' = [reg EXCEPT ![t] = NoLocals]
      /\ lock' = [lock EXCEPT ![q] = NoOne]
      /\ bin' = [bin EXCEPT ![q] = [cache |-> b, list |-> Members(bl) \ {b},
                                    used |-> bl.used + CellBytes[c], total |-> bl.total]]
      /\ used' = [used EXCEPT ![b] = @ + 1]
      /\ app' = [app EXCEPT ![b] = @ + 1]
      /\ UNCHANGED <<owner, class, pr>>
  BY <1>b DEF TakeCell, Return, Goto, Release
<1>2. /\ lock[q] = t /\ q[1] = t /\ q[2] = c /\ ~Drained(q) /\ t # Global
      /\ b \in Members(bl) /\ used[b] < Cells(c)
      /\ \A a \in Members(bl) \ {b} : used[a] > 0
      /\ AtRest(bin'[q], used', c)
  BY <1>a, <1>b, AllocBin
<1>3. /\ bl \in BlockLists /\ bl.used \in Int /\ bl.total \in Int /\ CellBytes[c] \in Nat
      /\ Cells(c) \in Nat /\ Members(bl) \in SUBSET Blocks
      /\ \A a \in Members(bl) : /\ a \notin pr /\ owner[a] = q[1] /\ class[a] = q[2]
                                /\ used[a] \in 0..Cells(c)
  BY <1>2, InBin, Geometry DEF BlockLists
<1>4. b \in Blocks /\ used'[b] = used[b] + 1 /\ \A a \in Blocks \ {b} : used'[a] = used[a]
  BY <1>0, <1>1, <1>2, <1>3
<1> DEFINE bl2 == bin'[q]
<1>5. /\ bl2 = [cache |-> b, list |-> Members(bl) \ {b},
                used |-> bl.used + CellBytes[c], total |-> bl.total]
      /\ \A x \in Bins \ {q} : bin'[x] = bin[x]
  BY <1>0, <1>1, <1>2
<1>6. bl2 \in BlockLists /\ Members(bl2) = Members(bl)
  BY <1>2, <1>3, <1>4, <1>5, NamesAssumption DEF BlockLists, Members
<1>7. /\ pc'[t] = "idle" /\ "idle" \in Pcs /\ NoLocals \in Regs
      /\ \A s \in Threads \ {t} : pc'[s] = pc[s] /\ reg'[s] = reg[s]
  BY <1>0, <1>1 DEF NoLocals, Regs, Pcs
<1>8. Shapes'
  <2>1. used' \in [Blocks -> Int] /\ app' \in [Blocks -> Nat] /\ bin' \in [Bins -> BlockLists]
    BY <1>0, <1>1, <1>4, <1>5, <1>6
  <2>2. lock' \in [Bins -> Threads \cup {NoOne}] /\ pc' \in [Threads -> Pcs] /\ reg' \in [Threads -> Regs]
    BY <1>0, <1>1, <1>7
  <2> QED BY <1>0, <1>1, <2>1, <2>2 DEF Shapes
<1>9. \A x \in Bins : (Drained(x) => Drained(x)') /\ (Empty(x)' => Empty(x))
  BY <1>1, <1>7, NotDraining DEF DrainPcs, DrainingPcs
<1>10. Frame(t)
  <2>1. \A a \in Blocks : lock[<<owner[a], class[a]>>] # t => a # b
    BY <1>b, <1>2, <1>3 DEF Bins
  <2>2. \A x \in Bins : lock'[x] = lock[x] \/ {lock[x], lock'[x]} \subseteq {t, NoOne}
    BY <1>0, <1>1, <1>2
  <2> QED BY <1>1, <1>2, <1>4, <1>5, <1>7, <1>9, <2>1, <2>2 DEF Frame
<1>c. \A x \in Bins : lock[x] = t => x = q
  BY <1>a, <1>b, <1>0 DEF ThreadOK, Holding, Section
<1>11. ThreadOK(t)'
  <2>2. \A x \in Bins : lock'[x] # t
    BY <1>0, <1>1, <1>c, NamesAssumption
  <2> QED BY <1>7, <2>2, Idle
<1>12. BinOK(q)'
  <2>1. Apart(q)'
    <3>1. bl2.cache \notin bl2.list
      BY <1>5
    <3> QED BY <1>1, <1>3, <1>6, <3>1 DEF Apart
  <2>2. EmptyTaken(q)'
    BY <1>2, <1>3, <1>4, <1>6 DEF EmptyTaken
  <2>3. Exact(q)'
    <3>1. /\ bl.used = UsedBytes(Members(bl), used, c)
          /\ bl.total = TotalBytes(Members(bl))
      BY <1>2 DEF IInv, BinOK, Exact
    <3>2. used' \in [Blocks -> Int] /\ used'[b] \in 0..Cells(c) /\ used'[b] - used[b] = 1
      BY <1>0, <1>1, <1>2, <1>3, <1>4
    <3>3. UsedBytes(Members(bl), used', c)
            = UsedBytes(Members(bl), used, c) + CellBytes[c] * (used'[b] - used[b])
      BY <1>0, <1>2, <1>3, <1>4, <3>2, BytesChange
    <3> QED BY <1>2, <1>3, <1>5, <1>6, <3>1, <3>2, <3>3, BytesNat DEF Exact
  <2>4. Flushable(q)'
    BY <1>2 DEF Flushable
  <2> QED BY <1>2, <1>9, <2>1, <2>2, <2>3, <2>4 DEF BinOK, Drained
<1>13. ASSUME NEW a \in Blocks, a \in pr \/ lock[<<owner[a], class[a]>>] = t PROVE Found(a)'
  <2> SUFFICES ASSUME a \notin pr
               PROVE  a \in Members(bin'[<<owner[a], class[a]>>]) /\ <<owner[a], class[a]>> \in Bins
    BY <1>1 DEF Found
  <2>1. <<owner[a], class[a]>> \in Bins /\ a \in Members(bin[<<owner[a], class[a]>>])
    BY <1>1, <1>13, InMyBin DEF Carried
  <2> QED BY <1>5, <1>6, <2>1
<1>14. ASSUME NEW a \in Blocks PROVE Counted(a)'
  <2>1. Counted(a) /\ Freeing(a)' = Freeing(a)
    BY <1>1, <1>7, SameFreeing DEF IInv, FreePcs
  <2>2. Cardinality(Freeing(a)) \in Nat
    BY FiniteAssumption, FS_Subset, FS_CardinalityType DEF Freeing
  <2>3. CASE a = b
    <3>1. app'[b] = app[b] + 1 /\ app[b] \in Nat /\ b \notin pr'
      BY <1>0, <1>1, <1>2, <1>3, <1>4
    <3>2. class'[b] = c /\ used[b] \in 0..Cells(c)
      BY <1>1, <1>2, <1>3
    <3> QED BY <1>2, <1>3, <1>4, <2>1, <2>2, <2>3, <3>1, <3>2 DEF Counted, Cells
  <2>4. CASE a # b
    BY <1>0, <1>1, <1>4, <2>1, <2>4 DEF Counted, Cells
  <2> QED BY <2>3, <2>4
<1>15. \A x \in Bins : lock[x] = t => BinOK(x)'
  BY <1>c, <1>12
<1> QED BY <1>8, <1>10, <1>11, <1>13, <1>14, <1>15, Frames

\* BlockList::alloc_cell and alloc_cell_slow.
LEMMA AllocKeeps ==
  ASSUME IInv, NEW t \in Threads, AllocFromCache(t) \/ AllocFromList(t)
  PROVE  IInv'
<1>1. pc[t] = "allocTry"
  BY DEF AllocFromCache, AllocFromList
<1>2. PICK q \in Bins, c \in Classes : q = MyBin(t) /\ c = reg[t].class
  BY <1>1, AllocBin, InBin
<1> DEFINE bl == bin[q]
<1>3. /\ q[2] = c /\ Bin(bl, used, c) /\ AtRest(bl, used, c) /\ bl.cache \notin bl.list
      /\ \A a \in Members(bl) : a \in Blocks /\ class[a] = c /\ used[a] \in 0..Cells(c)
      /\ Cells(c) \in Nat /\ Cells(c) >= 3
  BY <1>1, <1>2, AllocBin, InBin, Geometry
<1>4. \A a \in Members(bl) : used[a] = 0 => a = bl.cache
  BY <1>2 DEF IInv, BinOK, EmptyTaken
<1>5. ASSUME NEW b \in Members(bl), TakeCell(t, b)
      PROVE  /\ used' = [used EXCEPT ![b] = @ + 1]
             /\ bin'[q] = [cache |-> b, list |-> Members(bl) \ {b},
                           used |-> bl.used + CellBytes[c], total |-> bl.total]
  BY <1>2, <1>5 DEF TakeCell, IInv, Shapes
<1>6. CASE AllocFromCache(t)
  <2> DEFINE b == bl.cache
  <2>1. bl.cache # None /\ ~Full(b) /\ TakeCell(t, b) /\ b \in Members(bl)
    BY <1>2, <1>6 DEF AllocFromCache, Usable, Members
  <2>2. used[b] < Cells(c)
    BY <1>3, <2>1 DEF Full
  <2>3. Members(bl) \ {b} = bl.list
    BY <1>3, <2>1 DEF Members
  <2>4. AtRest(bin'[q], used', c)
    BY <1>3, <1>5, <2>1, <2>2, <2>3, TakeFromCache
  <2>5. \A a \in Members(bl) \ {b} : used[a] > 0
    BY <1>3, <1>4
  <2> QED BY <1>2, <2>1, <2>2, <2>4, <2>5, TakeCellKeeps
<1>7. CASE AllocFromList(t)
  <2>1. PICK b \in Emptiest(bl.list) : TakeCell(t, b)
    BY <1>2, <1>7 DEF AllocFromList
  <2>2. bl.cache = None \/ used[bl.cache] = Cells(c)
    <3>1. ~Usable(bl)
      BY <1>2, <1>7 DEF AllocFromList
    <3>2. bl.cache # None => class[bl.cache] = c
      BY <1>3 DEF Members
    <3> QED BY <3>1, <3>2 DEF Usable, Full
  <2>3. bl.list \in SUBSET Blocks /\ \A a \in bl.list : class[a] = c /\ used[a] \in 0..Cells(c)
    BY <1>3 DEF Members
  <2>4. /\ b \in bl.list /\ used[b] < Cells(c)
        /\ \A a \in bl.list : Low(used[a], c) => Low(used[b], c)
    BY <2>3, EmptiestBlock DEF IInv
  <2>5. b \in Members(bl) /\ used[b] > 0
    BY <1>3, <1>4, <2>3, <2>4 DEF Members
  <2>6. AtRest(bin'[q], used', c)
    BY <1>3, <1>5, <2>1, <2>2, <2>4, <2>5, TakeFromList
  <2>7. \A a \in Members(bl) \ {b} : used[a] > 0
    <3> SUFFICES ASSUME NEW a \in Members(bl), used[a] = 0 PROVE FALSE
      BY <1>3
    <3>1. a = bl.cache /\ a # None
      BY <1>3, <1>4, NamesAssumption
    <3> QED BY <1>3, <2>2, <3>1
  <2> QED BY <1>2, <2>1, <2>4, <2>5, <2>6, <2>7, TakeCellKeeps
<1> QED BY <1>6, <1>7

\* The blocks of the bin are full, and all in its groups now.
LEMMA AllocMissKeeps == ASSUME IInv, NEW t \in Threads, AllocMiss(t) PROVE IInv'
<1>0. /\ Shapes /\ ThreadOK(t) /\ Locals(t) /\ pc \in [Threads -> Pcs]
      /\ bin \in [Bins -> BlockLists] /\ used \in [Blocks -> Int]
  BY DEF IInv, ThreadOK, Shapes
<1>1. pc[t] = "allocTry" /\ pc' = [pc EXCEPT ![t] = "globalLock"]
      /\ UNCHANGED <<lock, owner, class, used, app, pr, reg>>
  BY DEF AllocMiss, Goto
<1>2. PICK q \in Bins, c \in Classes : q = MyBin(t) /\ c = reg[t].class
  BY <1>1, AllocBin, InBin
<1> DEFINE bl == bin[q]
           bl2 == bin'[q]
<1>3. /\ q[2] = c /\ Bin(bl, used, c) /\ bl.cache \notin bl.list /\ lock[q] = t
      /\ bl \in BlockLists /\ ~Drained(q) /\ reg[t].pool = t /\ q[1] = t
      /\ \A a \in Members(bl) : /\ a \in Blocks /\ a # None /\ class[a] = c
                                /\ used[a] \in 0..Cells(c)
      /\ Cells(c) \in Nat /\ Cells(c) >= 3
  BY <1>1, <1>2, AllocBin, InBin, Geometry
<1>4. /\ bin' = [bin EXCEPT ![q].cache = None, ![q].list = Members(bl)]
      /\ ~Usable(bl) /\ Emptiest(bl.list) = {}
  BY <1>2 DEF AllocMiss
<1>5. /\ bl2.cache = None /\ bl2.list = Members(bl) /\ bl2.used = bl.used /\ bl2.total = bl.total
      /\ bl2 \in BlockLists /\ \A x \in Bins \ {q} : bin'[x] = bin[x]
      /\ bin' \in [Bins -> BlockLists]
  BY <1>0, <1>2, <1>3, <1>4 DEF BlockLists
<1>6. Members(bl2) = Members(bl)
  BY <1>3, <1>5 DEF Members
<1>7. \A a \in Members(bl) : used[a] = Cells(c)
  <2>1. bl.list \in SUBSET Blocks /\ \A a \in bl.list : class[a] = c /\ used[a] \in 0..Cells(c)
    BY <1>3 DEF Members
  <2>2. \A a \in bl.list : used[a] = Cells(c)
    BY <1>0, <1>4, <2>1, EmptiestBlock
  <2>3. bl.cache # None => used[bl.cache] = Cells(c)
    BY <1>3, <1>4 DEF Usable, Full, Members
  <2> QED BY <2>2, <2>3 DEF Members
<1>8. /\ pc'[t] = "globalLock" /\ reg'[t] = reg[t] /\ MyBin(t)' = q
      /\ \A s \in Threads \ {t} : pc'[s] = pc[s] /\ reg'[s] = reg[s]
  BY <1>0, <1>1, <1>2 DEF MyBin
<1>9. Shapes'
  BY <1>0, <1>1, <1>5 DEF Shapes, Pcs, AllocPcs, WaitingPcs
<1>10. \A x \in Bins : (Drained(x) => Drained(x)') /\ (Empty(x)' => Empty(x))
  BY <1>1, <1>8, NotDraining DEF DrainPcs, DrainingPcs
<1>11. Frame(t)
  BY <1>1, <1>3, <1>5, <1>8, <1>10 DEF Frame
<1>12. ThreadOK(t)'
  <2>1. Locals(t)'
    BY <1>0, <1>1, <1>2, <1>8 DEF Locals, AllocPcs, WaitingPcs, FlushPcs, FreePcs, CarryPcs, DecidePcs, DrainPcs, DrainingPcs
  <2>2. Holding(t)'
    BY <1>0, <1>1, <1>2, <1>8 DEF ThreadOK, Holding, Section, LockedPcs, WaitingPcs, FlushPcs, DecidePcs, DrainingPcs
  <2>3. NothingLeft(t)'
    BY <1>2, <1>5, <1>7, <1>8, <1>1 DEF NothingLeft, AllFull
  <2>4. CarriedApart(t)' /\ FlushedAway(t)' /\ Deciding(t)'
    BY <1>8 DEF CarriedApart, FlushedAway, Deciding, CarryPcs, DecidePcs
  <2> QED BY <2>1, <2>2, <2>3, <2>4 DEF ThreadOK
<1>13. BinOK(q)'
  <2>0. BinOK(q)
    BY DEF IInv
  <2>1. Apart(q)'
    BY <1>1, <1>3, <1>5, <1>6, <2>0 DEF BinOK, Apart
  <2>2. EmptyTaken(q)'
    BY <1>1, <1>3, <1>6, <1>7 DEF EmptyTaken
  <2>3. Exact(q)'
    BY <1>1, <1>3, <1>5, <1>6, <2>0 DEF BinOK, Exact
  <2>4. Flushable(q)'
    <3>1. Bin(bl2, used, c)
      BY <1>0, <1>3, <1>5, <1>6 DEF Bin
    <3>2. AllFull(bl2, used, c)
      BY <1>5, <1>7 DEF AllFull
    <3> QED BY <1>1, <1>3, <3>1, <3>2, FullAtRest DEF Flushable
  <2> QED BY <1>3, <1>10, <2>1, <2>2, <2>3, <2>4 DEF BinOK, Drained
<1>14. ASSUME NEW a \in Blocks, a \in pr \/ lock[<<owner[a], class[a]>>] = t PROVE Found(a)'
  <2> SUFFICES ASSUME a \notin pr
               PROVE  a \in Members(bin'[<<owner[a], class[a]>>]) /\ <<owner[a], class[a]>> \in Bins
    BY <1>1 DEF Found
  <2>1. <<owner[a], class[a]>> \in Bins /\ a \in Members(bin[<<owner[a], class[a]>>])
    BY <1>1, <1>14, InMyBin DEF Carried
  <2> QED BY <1>5, <1>6, <2>1
<1>15. \A a \in Blocks : Counted(a)'
  BY <1>1, <1>8, SameCounted DEF FreePcs
<1>16. \A x \in Bins : lock[x] = t => BinOK(x)'
  BY <1>0, <1>1, <1>2, <1>13 DEF ThreadOK, Holding, Section
<1> QED BY <1>9, <1>11, <1>12, <1>14, <1>15, <1>16, Frames

----------------------------------------------------------------------------
\* Blocks on the move

\* BlockList::pop_most_empty_block and what it leaves.
LEMMA Taken ==
  ASSUME IInv, NEW q \in Bins, NEW f \in Members(bin[q]), NEW bl2, bl2 = Take(bin[q], f)
  PROVE  /\ bl2 \in BlockLists /\ bl2.cache \notin bl2.list
         /\ Members(bl2) = Members(bin[q]) \ {f}
         /\ bl2 = [cache |-> IF bin[q].cache = f THEN None ELSE bin[q].cache,
                   list |-> bin[q].list \ {f},
                   used |-> bin[q].used - Weight(used[f], q[2]),
                   total |-> bin[q].total - DataBytes]
         /\ ~Drained(q) =>
              /\ bl2.used = UsedBytes(Members(bl2), used, q[2])
              /\ bl2.total = TotalBytes(Members(bl2))
<1> DEFINE bl == bin[q]
           c == q[2]
<1>1. /\ bl \in BlockLists /\ bl.cache \notin bl.list /\ c \in Classes
      /\ f \in Blocks /\ f # None /\ class[f] = c /\ used[f] \in 0..Cells(c) /\ Cells(c) \in Nat
      /\ Members(bl) \in SUBSET Blocks /\ DataBytes \in Nat /\ CellBytes[c] \in Nat
      /\ used \in [Blocks -> Int] /\ bl.used \in Int /\ bl.total \in Int
  BY InBin, Geometry DEF IInv, Shapes, BlockLists
<1>2. Bytes(f) = Weight(used[f], c) /\ Weight(used[f], c) \in Int
  BY <1>1, Weights DEF Bytes, Weight
<1>3. bl2 = [cache |-> IF bl.cache = f THEN None ELSE bl.cache, list |-> bl.list \ {f},
             used |-> bl.used - Weight(used[f], c), total |-> bl.total - DataBytes]
  BY <1>2 DEF Take
<1>4. bl2 \in BlockLists
  BY <1>1, <1>2, <1>3 DEF BlockLists
<1>5. bl2.cache \notin bl2.list /\ Members(bl2) = Members(bl) \ {f}
  BY <1>1, <1>3, NamesAssumption DEF BlockLists, Members
<1>6. ASSUME ~Drained(q)
      PROVE  /\ bl2.used = UsedBytes(Members(bl2), used, c)
             /\ bl2.total = TotalBytes(Members(bl2))
  <2>1. /\ bl.used = UsedBytes(Members(bl), used, c)
        /\ bl.total = TotalBytes(Members(bl))
    BY <1>6 DEF IInv, BinOK, Exact
  <2>2. /\ UsedBytes(Members(bl) \ {f}, used, c)
             = UsedBytes(Members(bl), used, c) - Weight(used[f], c)
        /\ TotalBytes(Members(bl) \ {f}) = TotalBytes(Members(bl)) - DataBytes
    BY <1>1, BytesRemove
  <2>3. bl2.used = bl.used - Weight(used[f], c) /\ bl2.total = bl.total - DataBytes
    BY <1>2, <1>3
  <2> QED BY <1>5, <2>1, <2>2, <2>3
<1> QED BY <1>3, <1>4, <1>5, <1>6

\* BlockList::put of a block of the bin's class.
LEMMA PutIn ==
  ASSUME IInv, NEW q \in Bins, NEW f \in Blocks, f \notin Members(bin[q]), f \notin pr,
         class[f] = q[2], NEW bl2, bl2 = Put(bin[q], f)
  PROVE  /\ bl2 \in BlockLists /\ bl2.cache = f /\ bl2.list = Members(bin[q])
         /\ Members(bl2) = Members(bin[q]) \cup {f}
         /\ ~Drained(q) =>
              /\ bl2.used = UsedBytes(Members(bl2), used, q[2])
              /\ bl2.total = TotalBytes(Members(bl2))
<1> DEFINE bl == bin[q]
           c == q[2]
<1>1. /\ bl \in BlockLists /\ c \in Classes /\ Cells(c) \in Nat /\ Members(bl) \in SUBSET Blocks
      /\ DataBytes \in Nat /\ CellBytes[c] \in Nat
      /\ used \in [Blocks -> Int] /\ bl.used \in Int /\ bl.total \in Int
  BY InBin, Geometry DEF IInv, Shapes, BlockLists
<1>2. f # None /\ f # bl.cache
  BY NamesAssumption DEF Members
<1>3. used[f] \in 0..Cells(c)
  <2>1. Counted(f) /\ used[f] \in Int /\ app[f] \in Nat
    BY DEF IInv, Shapes
  <2>2. Cardinality(Freeing(f)) \in Nat
    BY FiniteAssumption, FS_Subset, FS_CardinalityType DEF Freeing
  <2> QED BY <1>1, <2>1, <2>2 DEF Counted
<1>4. Bytes(f) = Weight(used[f], c) /\ Weight(used[f], c) \in Int
  BY <1>1, <1>3, Weights DEF Bytes, Weight
<1>5. bl2 = [cache |-> f, list |-> Members(bl),
             used |-> bl.used + Weight(used[f], c), total |-> bl.total + DataBytes]
  BY <1>2, <1>4 DEF Put
<1>6. bl2 \in BlockLists
  BY <1>1, <1>4, <1>5 DEF BlockLists
<1>7. Members(bl2) = Members(bl) \cup {f}
  BY <1>2, <1>5 DEF Members
<1>8. ASSUME ~Drained(q)
      PROVE  /\ bl2.used = UsedBytes(Members(bl2), used, c)
             /\ bl2.total = TotalBytes(Members(bl2))
  <2>1. /\ bl.used = UsedBytes(Members(bl), used, c)
        /\ bl.total = TotalBytes(Members(bl))
    BY <1>8 DEF IInv, BinOK, Exact
  <2>2. /\ UsedBytes(Members(bl) \cup {f}, used, c)
             = UsedBytes(Members(bl), used, c) + Weight(used[f], c)
        /\ TotalBytes(Members(bl) \cup {f}) = TotalBytes(Members(bl)) + DataBytes
    <3>1. f \in Blocks \ Members(bl)
      OBVIOUS
    <3>2. c \in Classes /\ Members(bl) \in SUBSET Blocks /\ used \in [Blocks -> Int]
      BY <1>1
    <3> QED BY <1>3, <3>1, <3>2, BytesAdd
  <2> QED BY <1>5, <1>7, <2>1, <2>2
<1> QED BY <1>5, <1>6, <1>7, <1>8

\* What pop_most_empty_block picks is in the bin.
LEMMA MostEmptyIn ==
  ASSUME NEW bl, NEW f \in MostEmpty(bl)
  PROVE  /\ f \in Members(bl)
         /\ bl.cache # None => f = bl.cache
         /\ bl.cache = None => f \in Emptiest(bl.list)
BY DEF MostEmpty, Emptiest, Members

\* The thread has both bins locked, and the block changes hands in between.
LEMMA GlobalPopKeeps == ASSUME IInv, NEW t \in Threads, GlobalPop(t) PROVE IInv'
<1>0. /\ Shapes /\ ThreadOK(t) /\ Locals(t) /\ pc \in [Threads -> Pcs]
      /\ lock \in [Bins -> Threads \cup {NoOne}]
      /\ bin \in [Bins -> BlockLists] /\ used \in [Blocks -> Int]
  BY DEF IInv, ThreadOK, Shapes
<1>a. pc[t] = "globalPop" /\ pc' = [pc EXCEPT ![t] = "allocTry"]
  BY DEF GlobalPop, Goto
<1>b. PICK q \in Bins, g \in Bins, c \in Classes :
        q = MyBin(t) /\ g = GlobalBin(t) /\ c = reg[t].class
  BY <1>a, AllocBin, Sections, InBin DEF WaitingPcs
<1>2. /\ q[1] = t /\ q[2] = c /\ g = <<Global, c>> /\ g[1] = Global /\ g[2] = c /\ q # g
      /\ lock[q] = t /\ lock[g] = t /\ ~Drained(q) /\ ~Drained(g) /\ t # Global /\ reg[t].pool = t
  BY <1>a, <1>b, AllocBin, Sections, NamesAssumption DEF WaitingPcs, Drained, Empty, GlobalBin
<1>1. PICK f \in MostEmpty(bin[g]) :
        /\ owner' = [owner EXCEPT ![f] = t]
        /\ bin' = [bin EXCEPT ![g] = Take(@, f), ![q] = Put(@, f)]
        /\ lock' = [lock EXCEPT ![g] = NoOne]
        /\ UNCHANGED <<class, used, app, pr, reg>>
  BY <1>b DEF GlobalPop, Release
<1>3. /\ f \in Members(bin[g]) /\ f \in Blocks /\ f \notin pr /\ owner[f] = Global /\ class[f] = c
      /\ used[f] \in 0..Cells(c)
  BY <1>2, MostEmptyIn, InBin
<1>4. used[f] > 0
  <2> SUFFICES ASSUME used[f] = 0 PROVE FALSE
    BY <1>3
  <2>1. PICK s \in Threads : pc[s] = "allocTry" /\ MyBin(s) = g
    BY <1>3 DEF IInv, BinOK, EmptyTaken
  <2> QED BY <1>2, <2>1, AllocBin, NamesAssumption
<1>5. f \notin Members(bin[q])
  BY <1>2, <1>3, InBin
<1>6. bin'[g] = Take(bin[g], f) /\ bin'[q] = Put(bin[q], f) /\ \A x \in Bins \ {q, g} : bin'[x] = bin[x]
  BY <1>0, <1>1, <1>2
<1>7. /\ bin'[g] \in BlockLists /\ bin'[g].cache \notin bin'[g].list
      /\ Members(bin'[g]) = Members(bin[g]) \ {f}
      /\ bin'[g].used = UsedBytes(Members(bin'[g]), used, c)
      /\ bin'[g].total = TotalBytes(Members(bin'[g]))
      /\ bin'[g].cache # None => bin'[g].cache = bin[g].cache
  <2>1. bin'[g] = Take(bin[g], f)
    BY <1>6
  <2> DEFINE bl2 == bin'[g]
  <2> HIDE DEF bl2
  <2>2. /\ bl2 \in BlockLists /\ bl2.cache \notin bl2.list
        /\ Members(bl2) = Members(bin[g]) \ {f}
        /\ bl2.used = UsedBytes(Members(bl2), used, c)
        /\ bl2.total = TotalBytes(Members(bl2))
        /\ bl2.cache # None => bl2.cache = bin[g].cache
    <3>1. bl2 = Take(bin[g], f)
      BY <2>1 DEF bl2
    <3> QED BY <1>2, <1>3, <3>1, Taken
  <2> QED BY <2>2 DEF bl2
<1>8. /\ bin'[q] \in BlockLists /\ bin'[q].cache = f /\ bin'[q].list = Members(bin[q])
      /\ Members(bin'[q]) = Members(bin[q]) \cup {f}
      /\ bin'[q].used = UsedBytes(Members(bin'[q]), used, c)
      /\ bin'[q].total = TotalBytes(Members(bin'[q]))
  BY <1>2, <1>3, <1>5, <1>6, PutIn
<1>9. bin[q].cache = None /\ \A a \in Members(bin[q]) : used[a] = Cells(c)
  <2>1. NothingLeft(t)
    BY <1>0 DEF ThreadOK
  <2> QED BY <1>a, <1>b, <2>1 DEF NothingLeft, WaitingPcs, AllFull, Members
<1>10. /\ pc'[t] = "allocTry" /\ reg'[t] = reg[t] /\ MyBin(t)' = q
       /\ \A s \in Threads \ {t} : pc'[s] = pc[s] /\ reg'[s] = reg[s]
  BY <1>0, <1>a, <1>b, <1>1 DEF MyBin
<1>11. owner'[f] = t /\ \A a \in Blocks \ {f} : owner'[a] = owner[a]
  BY <1>0, <1>1, <1>3 DEF Shapes
<1>12. Shapes'
  <2>1. bin' \in [Bins -> BlockLists]
    BY <1>0, <1>1, <1>6, <1>7, <1>8
  <2>2. owner' \in [Blocks -> Pools \cup {NoOne}]
    BY <1>0, <1>1 DEF Shapes, Pools
  <2>3. lock' \in [Bins -> Threads \cup {NoOne}] /\ pc' \in [Threads -> Pcs]
    BY <1>0, <1>1, <1>a DEF Pcs, AllocPcs
  <2> QED BY <1>0, <1>1, <2>1, <2>2, <2>3 DEF Shapes
<1>13. \A x \in Bins : (Drained(x) => Drained(x)') /\ (Empty(x)' => Empty(x))
  BY <1>a, <1>10, NotDraining DEF DrainPcs, DrainingPcs
<1>14. Frame(t)
  <2>1. \A x \in Bins : lock'[x] = lock[x] \/ {lock[x], lock'[x]} \subseteq {t, NoOne}
    BY <1>0, <1>1, <1>2
  <2>2. \A a \in Blocks : lock[<<owner[a], class[a]>>] # t => a # f
    BY <1>2, <1>3
  <2>3. <<owner'[f], class'[f]>> = q
    BY <1>1, <1>2, <1>3, <1>11 DEF Bins
  <2> QED BY <1>1, <1>2, <1>6, <1>10, <1>11, <1>13, <2>1, <2>2, <2>3 DEF Frame
<1>15. ThreadOK(t)'
  <2>1. Locals(t)'
    BY <1>0, <1>b, <1>2, <1>10 DEF Locals, FlushPcs, FreePcs, CarryPcs, DecidePcs, DrainPcs, DrainingPcs
  <2>2. Holding(t)'
    <3>1. Section(t)' = {q}
      BY <1>10 DEF Section, LockedPcs
    <3>2. Section(t) = {q, g}
      BY <1>a, <1>b DEF Section, LockedPcs, WaitingPcs
    <3>3. \A x \in Bins : lock'[x] = t <=> lock[x] = t /\ x # g
      BY <1>0, <1>1, <1>2, NamesAssumption
    <3>4. Holding(t)
      BY <1>0 DEF ThreadOK
    <3> QED BY <1>2, <3>1, <3>2, <3>3, <3>4 DEF Holding
  <2>3. CarriedApart(t)' /\ NothingLeft(t)' /\ FlushedAway(t)' /\ Deciding(t)'
    BY <1>10 DEF CarriedApart, NothingLeft, FlushedAway, Deciding, CarryPcs, WaitingPcs, DecidePcs
  <2> QED BY <2>1, <2>2, <2>3 DEF ThreadOK
<1>16. BinOK(q)'
  <2>1. Apart(q)'
    <3>1. \A a \in Members(bin[q]) : a \in Blocks /\ a \notin pr /\ owner[a] = t /\ class[a] = c
      BY <1>2, InBin
    <3>2. \A a \in Members(bin[q]) : owner'[a] = owner[a]
      BY <1>5, <1>11, <3>1
    <3> QED BY <1>1, <1>2, <1>3, <1>5, <1>8, <1>11, <3>1, <3>2 DEF Apart
  <2>2. EmptyTaken(q)'
    <3>1. Cells(c) \in Nat /\ Cells(c) >= 3
      BY Geometry
    <3>2. \A a \in Members(bin'[q]) : used'[a] # 0
      <4>1. \A a \in Members(bin[q]) : used[a] # 0
        BY <1>9, <3>1
      <4>2. used[f] # 0
        BY <1>4
      <4> QED BY <1>1, <1>8, <4>1, <4>2
    <3> QED BY <3>2 DEF EmptyTaken
  <2>3. Exact(q)'
    BY <1>1, <1>2, <1>8, BytesNat DEF Exact
  <2>4. Flushable(q)'
    <3>1. Bin(bin'[q], used, c)
      <4>1. \A a \in Members(bin[q]) : used[a] \in 0..Cells(c)
        BY <1>2, InBin
      <4> QED BY <1>0, <1>3, <1>5, <1>8, <4>1 DEF Bin
    <3>2. AllFull(bin'[q], used, c)
      BY <1>8, <1>9 DEF AllFull
    <3> QED BY <1>1, <1>2, <3>1, <3>2, FullAtRest DEF Flushable
  <2> QED BY <1>2, <1>13, <2>1, <2>2, <2>3, <2>4 DEF BinOK, Drained
<1>17. BinOK(g)'
  <2>0. BinOK(g)
    BY DEF IInv
  <2>1. Apart(g)'
    <3>1. \A a \in Members(bin'[g]) : a \in Blocks /\ a \notin pr /\ owner'[a] = Global /\ class[a] = c
      BY <1>2, <1>7, <1>11, InBin
    <3> QED BY <1>1, <1>2, <1>7, <3>1 DEF Apart
  <2>2. EmptyTaken(g)'
    <3> SUFFICES ASSUME NEW a \in Members(bin[g]), used[a] = 0 PROVE FALSE
      BY <1>1, <1>7 DEF EmptyTaken
    <3>1. PICK s \in Threads : pc[s] = "allocTry" /\ MyBin(s) = g
      BY <2>0 DEF BinOK, EmptyTaken
    <3> QED BY <1>2, <3>1, AllocBin, NamesAssumption
  <2>3. Exact(g)'
    BY <1>1, <1>2, <1>7, BytesNat DEF Exact
  <2>4. Flushable(g)' /\ ~Empty(g)'
    BY <1>2, NamesAssumption DEF Flushable, Empty
  <2> QED BY <2>1, <2>2, <2>3, <2>4 DEF BinOK
<1>18. ASSUME NEW a \in Blocks, a \in pr \/ lock[<<owner[a], class[a]>>] = t PROVE Found(a)'
  <2>1. CASE a = f
    <3>1. <<owner'[a], class'[a]>> = q
      BY <1>1, <1>2, <1>3, <1>11, <2>1 DEF Bins
    <3> QED BY <1>8, <2>1, <3>1 DEF Found
  <2>2. CASE a # f /\ a \notin pr
    <3>1. <<owner[a], class[a]>> \in Bins /\ a \in Members(bin[<<owner[a], class[a]>>])
      BY <1>a, <1>18, <2>2, InMyBin DEF Carried
    <3>2. a \in Members(bin'[<<owner[a], class[a]>>])
      BY <1>6, <1>7, <1>8, <2>2, <3>1
    <3> QED BY <1>1, <1>11, <2>2, <3>1, <3>2 DEF Found
  <2> QED BY <1>1, <2>1, <2>2 DEF Found
<1>19. \A a \in Blocks : Counted(a)'
  BY <1>a, <1>1, <1>10, SameCounted DEF FreePcs
<1>20. \A x \in Bins : lock[x] = t => BinOK(x)'
  BY <1>0, <1>a, <1>b, <1>16, <1>17 DEF ThreadOK, Holding, Section
<1> QED BY <1>12, <1>14, <1>15, <1>18, <1>19, <1>20, Frames

\* A block of the page resource joins the bin, empty.
LEMMA FreshBlockKeeps == ASSUME IInv, NEW t \in Threads, FreshBlock(t) PROVE IInv'
<1>0. /\ Shapes /\ ThreadOK(t) /\ Locals(t) /\ pc \in [Threads -> Pcs]
      /\ bin \in [Bins -> BlockLists] /\ used \in [Blocks -> Int]
      /\ class \in [Blocks -> Classes \cup {NoClass}] /\ owner \in [Blocks -> Pools \cup {NoOne}]
      /\ pr \subseteq Blocks
  BY DEF IInv, ThreadOK, Shapes
<1>a. pc[t] = "freshBlock" /\ pc' = [pc EXCEPT ![t] = "allocTry"]
  BY DEF FreshBlock, Goto
<1>b. PICK q \in Bins, c \in Classes : q = MyBin(t) /\ c = reg[t].class
  BY <1>a, AllocBin, InBin DEF WaitingPcs
<1> DEFINE bl == bin[q]
           bl2 == bin'[q]
<1>1. PICK b \in pr :
        /\ pr' = pr \ {b}
        /\ class' = [class EXCEPT ![b] = c]
        /\ used' = [used EXCEPT ![b] = 0]
        /\ owner' = [owner EXCEPT ![b] = t]
        /\ bin' = [bin EXCEPT ![q] = [cache |-> b, list |-> Members(bl),
                                      used |-> bl.used, total |-> bl.total + DataBytes]]
        /\ UNCHANGED <<lock, app, reg>>
  BY <1>b DEF FreshBlock
<1>2. /\ q[1] = t /\ q[2] = c /\ q = <<t, c>> /\ lock[q] = t /\ ~Drained(q) /\ t # Global
      /\ reg[t].pool = t
  BY <1>a, <1>b, AllocBin DEF WaitingPcs, MyBin
<1>3. /\ bl \in BlockLists /\ bl.used \in Int /\ bl.total \in Int /\ DataBytes \in Nat
      /\ Members(bl) \in SUBSET Blocks /\ Cells(c) \in Nat /\ Cells(c) >= 3 /\ CellBytes[c] \in Nat
      /\ \A a \in Members(bl) : a \notin pr /\ owner[a] = t /\ class[a] = c /\ used[a] \in 0..Cells(c)
  BY <1>2, InBin, Geometry DEF BlockLists
<1>4. b \in Blocks /\ b # None /\ b \notin Members(bl) /\ used[b] = 0
  BY <1>0, <1>3, NamesAssumption DEF IInv, Counted
<1>5. /\ used' = used /\ class'[b] = c /\ owner'[b] = t
      /\ \A a \in Blocks \ {b} : class'[a] = class[a] /\ owner'[a] = owner[a]
  <2>1. \A a \in Blocks : used'[a] = used[a]
    BY <1>0, <1>1, <1>4
  <2>2. used' = used
    BY <1>0, <1>1, <2>1
  <2> QED BY <1>0, <1>1, <1>4, <2>2
<1>6. /\ bl2.cache = b /\ bl2.list = Members(bl) /\ bl2.used = bl.used
      /\ bl2.total = bl.total + DataBytes
      /\ \A x \in Bins \ {q} : bin'[x] = bin[x]
  BY <1>0, <1>1
<1>7. bl2 \in BlockLists /\ bin' \in [Bins -> BlockLists]
  BY <1>0, <1>1, <1>3, <1>4 DEF BlockLists
<1>8. Members(bl2) = Members(bl) \cup {b}
  BY <1>4, <1>6 DEF Members
<1>9. /\ bl2.used = UsedBytes(Members(bl2), used, c)
      /\ bl2.total = TotalBytes(Members(bl2))
  <2>1. /\ bl.used = UsedBytes(Members(bl), used, c)
        /\ bl.total = TotalBytes(Members(bl))
    BY <1>2 DEF IInv, BinOK, Exact
  <2>2. b \in Blocks \ Members(bl) /\ used[b] \in 0..Cells(c) /\ Weight(used[b], c) = 0
    BY <1>3, <1>4, Weights
  <2>3. /\ UsedBytes(Members(bl) \cup {b}, used, c)
             = UsedBytes(Members(bl), used, c) + Weight(used[b], c)
        /\ TotalBytes(Members(bl) \cup {b}) = TotalBytes(Members(bl)) + DataBytes
    BY <1>0, <1>3, <2>2, BytesAdd
  <2> QED BY <1>3, <1>6, <1>8, <2>1, <2>2, <2>3
<1>10. \A a \in Members(bl) : used[a] = Cells(c)
  <2>1. NothingLeft(t)
    BY <1>0 DEF ThreadOK
  <2> QED BY <1>a, <1>b, <2>1 DEF NothingLeft, WaitingPcs, AllFull, Members
<1>11. /\ pc'[t] = "allocTry" /\ reg'[t] = reg[t] /\ MyBin(t)' = q
       /\ \A s \in Threads \ {t} : pc'[s] = pc[s] /\ reg'[s] = reg[s]
  BY <1>0, <1>a, <1>b, <1>1 DEF MyBin
<1>12. Shapes'
  <2>1. class' \in [Blocks -> Classes \cup {NoClass}] /\ owner' \in [Blocks -> Pools \cup {NoOne}]
    BY <1>0, <1>1 DEF Pools
  <2>2. pc' \in [Threads -> Pcs]
    BY <1>0, <1>a DEF Pcs, AllocPcs
  <2> QED BY <1>0, <1>1, <1>5, <1>7, <2>1, <2>2 DEF Shapes
<1>13. \A x \in Bins : (Drained(x) => Drained(x)') /\ (Empty(x)' => Empty(x))
  BY <1>a, <1>11, NotDraining DEF DrainPcs, DrainingPcs, WaitingPcs
<1>14. Frame(t)
  <2>1. <<owner'[b], class'[b]>> = q
    BY <1>2, <1>5
  <2>2. \A a \in Blocks \ {b} : /\ a \in pr <=> a \in pr'
                                /\ used'[a] = used[a] /\ owner'[a] = owner[a] /\ class'[a] = class[a]
    BY <1>1, <1>5
  <2>3. \A x \in Bins : lock[x] # t => bin'[x] = bin[x]
    BY <1>2, <1>6
  <2> QED BY <1>1, <1>2, <1>11, <1>13, <2>1, <2>2, <2>3 DEF Frame
<1>15. ThreadOK(t)'
  <2>1. Locals(t)'
    BY <1>0, <1>b, <1>2, <1>11 DEF Locals, FlushPcs, FreePcs, CarryPcs, DecidePcs, DrainPcs, DrainingPcs
  <2>2. Holding(t)'
    BY <1>0, <1>a, <1>b, <1>1, <1>11 DEF ThreadOK, Holding, Section, LockedPcs, WaitingPcs
  <2>3. CarriedApart(t)' /\ NothingLeft(t)' /\ FlushedAway(t)' /\ Deciding(t)'
    BY <1>11 DEF CarriedApart, NothingLeft, FlushedAway, Deciding, CarryPcs, WaitingPcs, DecidePcs
  <2> QED BY <2>1, <2>2, <2>3 DEF ThreadOK
<1>16. BinOK(q)'
  <2>1. Apart(q)'
    <3>1. \A a \in Members(bl2) : a \notin pr' /\ owner'[a] = t /\ class'[a] = c
      BY <1>1, <1>3, <1>4, <1>5, <1>8
    <3> QED BY <1>2, <1>4, <1>6, <3>1 DEF Apart
  <2>2. EmptyTaken(q)'
    <3>1. \A a \in Members(bl2) : used'[a] = 0 => a = b
      BY <1>3, <1>5, <1>8, <1>10
    <3> QED BY <1>6, <1>11, <3>1 DEF EmptyTaken
  <2>3. Exact(q)'
    BY <1>2, <1>5, <1>7, <1>9, BytesNat DEF Exact
  <2>4. Flushable(q)'
    <3>1. Bin(bl2, used, c)
      BY <1>0, <1>3, <1>4, <1>6, <1>7, <1>8 DEF Bin
    <3>2. AllFull(bl2, used, c)
      BY <1>6, <1>10 DEF AllFull
    <3> QED BY <1>2, <1>5, <3>1, <3>2, FullAtRest DEF Flushable
  <2> QED BY <1>2, <1>13, <2>1, <2>2, <2>3, <2>4 DEF BinOK, Drained
<1>17. ASSUME NEW a \in Blocks, a \in pr \/ lock[<<owner[a], class[a]>>] = t PROVE Found(a)'
  <2>1. CASE a = b
    <3>1. <<owner'[a], class'[a]>> = q
      BY <1>2, <1>5, <2>1
    <3> QED BY <1>8, <2>1, <3>1 DEF Found
  <2>2. CASE a # b /\ a \notin pr
    <3>1. <<owner[a], class[a]>> \in Bins /\ a \in Members(bin[<<owner[a], class[a]>>])
      BY <1>a, <1>17, <2>2, InMyBin DEF Carried
    <3>2. a \in Members(bin'[<<owner[a], class[a]>>])
      BY <1>6, <1>8, <3>1
    <3> QED BY <1>5, <2>2, <3>1, <3>2 DEF Found
  <2> QED BY <1>1, <2>1, <2>2 DEF Found
<1>18. ASSUME NEW a \in Blocks PROVE Counted(a)'
  <2>1. Counted(a) /\ Freeing(a)' = Freeing(a)
    BY <1>a, <1>11, SameFreeing DEF IInv, FreePcs
  <2> QED BY <1>1, <1>3, <1>4, <1>5, <2>1 DEF Counted, Cells
<1>19. \A x \in Bins : lock[x] = t => BinOK(x)'
  BY <1>0, <1>a, <1>b, <1>16 DEF ThreadOK, Holding, Section
<1> QED BY <1>12, <1>14, <1>15, <1>17, <1>18, <1>19, Frames

----------------------------------------------------------------------------
\* The frees

\* What a free does to a bin q of class c and its block b, which leaves the bin
\* with its last cell.
GiveBack(t, q, b, c) ==
  /\ lock[q] = t /\ q[1] = reg[t].pool /\ q[2] = c /\ ~Drained(q)
  /\ b \in Members(bin[q]) /\ b \notin pr
  /\ owner[b] = q[1] /\ class[b] = c /\ used[b] \in 1..Cells(c)
  /\ \A a \in Members(bin[q]) : used[a] > 0
  /\ used' = [used EXCEPT ![b] = @ - 1] /\ used'[b] = used[b] - 1
  /\ \A a \in Blocks \ {b} : used'[a] = used[a]
  /\ \A x \in Bins \ {q} : bin'[x] = bin[x]
  /\ bin'[q] \in BlockLists /\ bin'[q].cache \notin bin'[q].list
  /\ used[b] > 1 => /\ bin'[q] = [bin[q] EXCEPT !.used = @ - CellBytes[c]]
                    /\ Members(bin'[q]) = Members(bin[q])
  /\ used[b] = 1 =>
       /\ bin'[q] = [cache |-> IF bin[q].cache = b THEN None ELSE bin[q].cache,
                     list |-> bin[q].list \ {b},
                     used |-> bin[q].used - CellBytes[c], total |-> bin[q].total - DataBytes]
       /\ Members(bin'[q]) = Members(bin[q]) \ {b}
  /\ bin'[q].used = UsedBytes(Members(bin'[q]), used', c)
  /\ bin'[q].total = TotalBytes(Members(bin'[q]))

\* The block of a free is in the bin that the thread has locked.
LEMMA Given ==
  ASSUME IInv, NEW t \in Threads, pc[t] = "freeCheck", owner[reg[t].blk] = reg[t].pool,
         GiveCell(t, reg[t].blk)
  PROVE  \E q \in Bins, b \in Blocks, c \in Classes :
           q = MyBin(t) /\ b = reg[t].blk /\ c = reg[t].class /\ GiveBack(t, q, b, c)
<1>a. PICK q, b, c : q = MyBin(t) /\ b = reg[t].blk /\ c = reg[t].class
  OBVIOUS
<1> DEFINE bl == bin[q]
           bl2 == bin'[q]
<1>0. /\ bin \in [Bins -> BlockLists] /\ used \in [Blocks -> Int]
      /\ Locals(t) /\ MyBin(t)[1] = reg[t].pool /\ MyBin(t)[2] = reg[t].class
  BY DEF IInv, Shapes, ThreadOK, MyBin
<1>1. /\ q \in Bins /\ lock[q] = t /\ q[1] = reg[t].pool /\ q[2] = c
      /\ b \in Blocks /\ b \notin pr /\ used[b] > 0 /\ owner[b] = q[1] /\ class[b] = c
  BY <1>0, <1>a, Sections, Held DEF LockedPcs, FreePcs, Locals
<1>2. b \in Members(bl)
  <2>1. <<owner[b], class[b]>> = q
    BY <1>1 DEF Bins
  <2> QED BY <1>1, <2>1, InMyBin DEF Carried
<1>3. ~Drained(q)
  BY <1>1, <1>2, Undrained DEF DrainPcs, DrainingPcs
<1>4. /\ bl \in BlockLists /\ bl.cache \notin bl.list /\ c \in Classes /\ Cells(c) \in Nat
      /\ \A a \in Members(bl) : a \in Blocks /\ used[a] \in 0..Cells(c) /\ a # None
      /\ Members(bl) \in SUBSET Blocks /\ DataBytes \in Nat /\ CellBytes[c] \in Nat
      /\ bl.used \in Int /\ bl.total \in Int
  BY <1>1, InBin, Geometry DEF BlockLists
<1>5. \A a \in Members(bl) : used[a] > 0
  <2> SUFFICES ASSUME NEW a \in Members(bl), used[a] = 0 PROVE FALSE
    BY <1>4
  <2>1. PICK s \in Threads : pc[s] = "allocTry" /\ MyBin(s) = q
    BY <1>1 DEF IInv, BinOK, EmptyTaken
  <2>2. lock[q] = s
    BY <2>1, AllocBin
  <2> QED BY <1>1, <2>1, <2>2
<1>6. /\ used' = [used EXCEPT ![b] = used[b] - 1]
      /\ used[b] > 1 => bin' = [bin EXCEPT ![q] = [bl EXCEPT !.used = @ - CellBytes[c]]]
      /\ used[b] = 1 =>
           bin' = [bin EXCEPT ![q] = [[bl EXCEPT !.used = @ - CellBytes[c]]
                     EXCEPT !.cache = IF @ = b THEN None ELSE @, !.list = @ \ {b},
                            !.total = @ - DataBytes]]
  <2>1. reg[t].blk = b /\ MyBin(t) = q /\ class[b] = c
    BY <1>a, <1>1
  <2>2. CASE used[b] = 1
    BY <2>1, <2>2 DEF GiveCell, Last
  <2>3. CASE used[b] # 1
    BY <2>1, <2>3 DEF GiveCell, Last
  <2> QED BY <2>2, <2>3
<1>7. /\ \A a \in Blocks \ {b} : used'[a] = used[a]
      /\ used'[b] = used[b] - 1 /\ used' \in [Blocks -> Int]
      /\ used[b] \in 1..Cells(c) /\ used'[b] \in 0..Cells(c)
  BY <1>0, <1>1, <1>2, <1>4, <1>6
<1>8. used[b] > 1 \/ used[b] = 1
  BY <1>7
<1>9. \A x \in Bins \ {q} : bin'[x] = bin[x]
  BY <1>0, <1>6, <1>8
<1>10. /\ bl.used = UsedBytes(Members(bl), used, c)
       /\ bl.total = TotalBytes(Members(bl))
  BY <1>1, <1>3 DEF IInv, BinOK, Exact
<1>11. UsedBytes(Members(bl), used', c)
         = UsedBytes(Members(bl), used, c) - CellBytes[c]
  <2>1. used'[b] - used[b] = -1 /\ used[b] \in 0..Cells(c)
    BY <1>7
  <2>2. UsedBytes(Members(bl), used', c)
          = UsedBytes(Members(bl), used, c) + CellBytes[c] * (used'[b] - used[b])
    BY <1>0, <1>2, <1>4, <1>7, <2>1, BytesChange
  <2>3. CellBytes[c] * (used'[b] - used[b]) = -CellBytes[c]
    BY <1>4, <2>1
  <2> QED BY <1>4, <1>10, <2>2, <2>3
<1>12. ASSUME used[b] > 1
       PROVE  /\ bl2 = [bl EXCEPT !.used = @ - CellBytes[c]]
              /\ bl2 \in BlockLists /\ bl2.cache \notin bl2.list /\ Members(bl2) = Members(bl)
              /\ bl2.used = UsedBytes(Members(bl2), used', c)
              /\ bl2.total = TotalBytes(Members(bl2))
  <2>1. bl2 = [bl EXCEPT !.used = @ - CellBytes[c]]
    BY <1>0, <1>1, <1>6, <1>12
  <2>2. /\ bl2 \in BlockLists /\ bl2.cache = bl.cache /\ bl2.list = bl.list
        /\ bl2.used = bl.used - CellBytes[c] /\ bl2.total = bl.total
    BY <1>4, <2>1 DEF BlockLists
  <2>3. Members(bl2) = Members(bl)
    BY <2>2 DEF Members
  <2>4. /\ bl2.used = UsedBytes(Members(bl2), used', c)
        /\ bl2.total = TotalBytes(Members(bl2))
    BY <1>10, <1>11, <2>2, <2>3
  <2> QED BY <1>4, <2>1, <2>2, <2>3, <2>4
<1>13. ASSUME used[b] = 1
       PROVE  /\ bl2 = [cache |-> IF bl.cache = b THEN None ELSE bl.cache, list |-> bl.list \ {b},
                         used |-> bl.used - CellBytes[c], total |-> bl.total - DataBytes]
              /\ bl2 \in BlockLists /\ bl2.cache \notin bl2.list /\ Members(bl2) = Members(bl) \ {b}
              /\ bl2.used = UsedBytes(Members(bl2), used', c)
              /\ bl2.total = TotalBytes(Members(bl2))
  <2>1. bl2 = [cache |-> IF bl.cache = b THEN None ELSE bl.cache, list |-> bl.list \ {b},
               used |-> bl.used - CellBytes[c], total |-> bl.total - DataBytes]
    <3>1. bl2 = [[bl EXCEPT !.used = @ - CellBytes[c]]
                   EXCEPT !.cache = IF @ = b THEN None ELSE @, !.list = @ \ {b},
                          !.total = @ - DataBytes]
      BY <1>0, <1>1, <1>6, <1>13
    <3>2. bl = [cache |-> bl.cache, list |-> bl.list, used |-> bl.used, total |-> bl.total]
      BY <1>4 DEF BlockLists
    <3>3. [bl EXCEPT !.used = @ - CellBytes[c]]
            = [cache |-> bl.cache, list |-> bl.list, used |-> bl.used - CellBytes[c], total |-> bl.total]
      BY <3>2
    <3> QED BY <1>6, <1>13, <3>1, <3>3
  <2>2. bl2 \in BlockLists /\ bl2.cache \notin bl2.list
    BY <1>4, <2>1, NamesAssumption DEF BlockLists
  <2>3. Members(bl2) = Members(bl) \ {b}
    BY <1>4, <2>1 DEF Members
  <2>4. /\ UsedBytes(Members(bl) \ {b}, used', c)
             = UsedBytes(Members(bl), used', c) - Weight(used'[b], c)
        /\ TotalBytes(Members(bl) \ {b}) = TotalBytes(Members(bl)) - DataBytes
    <3>1. used' \in [Blocks -> Int] /\ used'[b] \in 0..Cells(c)
      BY <1>7
    <3> QED BY <1>2, <1>4, <3>1, BytesRemove
  <2>5. Weight(used'[b], c) = 0
    BY <1>4, <1>7, <1>13, Weights
  <2>6. /\ bl2.used = UsedBytes(Members(bl2), used', c)
        /\ bl2.total = TotalBytes(Members(bl2))
    <3>1. bl2.used = bl.used - CellBytes[c] /\ bl2.total = bl.total - DataBytes
      BY <2>1
    <3>2. UsedBytes(Members(bl), used', c) = bl.used - CellBytes[c]
      BY <1>10, <1>11
    <3>3. UsedBytes(Members(bl) \ {b}, used', c) = bl.used - CellBytes[c]
      BY <1>4, <2>4, <2>5, <3>2
    <3> QED BY <1>10, <2>3, <2>4, <3>1, <3>3
  <2> QED BY <2>1, <2>2, <2>3, <2>6
<1>14. GiveBack(t, q, b, c)
  BY <1>1, <1>2, <1>3, <1>5, <1>6, <1>7, <1>8, <1>9, <1>12, <1>13 DEF GiveBack
<1> QED BY <1>a, <1>1, <1>4, <1>14

\* A local bin that no free is deciding about is at rest.
LEMMA LocalRests ==
  ASSUME IInv, NEW t \in Threads, NEW q \in Bins, lock[q] = t, q[1] # Global, ~Drained(q),
         pc[t] \notin DecidePcs
  PROVE  AtRest(bin[q], used, q[2])
<1>1. \A s \in Threads : pc[s] \in DecidePcs => MyBin(s) # q
  BY Sections DEF LockedPcs, FlushPcs
<1> QED BY <1>1 DEF IInv, BinOK, Flushable

\* What a free of a local block leaves for the flush.
LEMMA GivenDecides ==
  ASSUME IInv, NEW t \in Threads, pc[t] = "freeCheck", owner[reg[t].blk] = reg[t].pool,
         reg[t].pool # Global, GiveCell(t, reg[t].blk)
  PROVE  IF reg[t].blk \in Members(bin'[MyBin(t)])
         THEN Freed(bin'[MyBin(t)], used', reg[t].class)
         ELSE Emptied(bin'[MyBin(t)], used', reg[t].class)
<1>a. PICK q \in Bins, b \in Blocks, c \in Classes :
        q = MyBin(t) /\ b = reg[t].blk /\ c = reg[t].class /\ GiveBack(t, q, b, c)
  BY Given
<1>b. PICK bl, bl2, u, v : bl = bin[q] /\ bl2 = bin'[q] /\ u = used /\ v = used'
  OBVIOUS
<1>1. /\ lock[q] = t /\ q[1] = reg[t].pool /\ q[2] = c /\ ~Drained(q)
      /\ b \in Members(bl) /\ u[b] \in 1..Cells(c)
      /\ v = [u EXCEPT ![b] = @ - 1]
      /\ u[b] > 1 => /\ bl2 = [bl EXCEPT !.used = @ - CellBytes[c]]
                     /\ Members(bl2) = Members(bl)
      /\ u[b] = 1 =>
           /\ bl2 = [cache |-> IF bl.cache = b THEN None ELSE bl.cache, list |-> bl.list \ {b},
                     used |-> bl.used - CellBytes[c], total |-> bl.total - DataBytes]
           /\ Members(bl2) = Members(bl) \ {b}
  BY <1>a, <1>b DEF GiveBack
<1>2. AtRest(bl, u, c)
  BY <1>a, <1>b, <1>1, LocalRests DEF DecidePcs
<1>3. Bin(bl, u, c)
  BY <1>b, <1>1, InBin
<1>4. CASE u[b] > 1
  <2>1. bl2 = [bl EXCEPT !.used = @ - CellBytes[c]] /\ Members(bl2) = Members(bl)
    BY <1>1, <1>4
  <2>2. Freed(bl2, v, c)
    BY <1>1, <1>2, <1>3, <1>4, <2>1, FreeOfSeveral
  <2> QED BY <1>a, <1>b, <1>1, <2>1, <2>2
<1>5. CASE u[b] = 1
  <2>1. v = [u EXCEPT ![b] = 0]
    BY <1>1, <1>5
  <2>2. Emptied(bl2, v, c)
    <3>1. bl2 = [cache |-> IF bl.cache = b THEN None ELSE bl.cache, list |-> bl.list \ {b},
                 used |-> bl.used - CellBytes[c], total |-> bl.total - DataBytes]
      BY <1>1, <1>5
    <3> QED BY <1>1, <1>2, <1>3, <1>5, <2>1, <3>1, FreeOfLast
  <2> QED BY <1>a, <1>b, <1>1, <1>5, <2>2
<1>6. u[b] \in Nat /\ (u[b] > 1 \/ u[b] = 1)
  BY <1>1
<1> QED BY <1>4, <1>5, <1>6

\* A cell is given back, and its block leaves the bin if that was the last one.
LEMMA FreeKeeps ==
  ASSUME IInv, NEW t \in Threads, FreeLocal(t) \/ FreeGlobal(t) \/ FreeLast(t)
  PROVE  IInv'
<1>0. /\ Shapes /\ ThreadOK(t) /\ Locals(t) /\ pc \in [Threads -> Pcs] /\ reg \in [Threads -> Regs]
      /\ lock \in [Bins -> Threads \cup {NoOne}]
      /\ bin \in [Bins -> BlockLists] /\ used \in [Blocks -> Int] /\ app \in [Blocks -> Nat]
      /\ pr \subseteq Blocks
  BY DEF IInv, ThreadOK, Shapes
<1>1. /\ pc[t] = "freeCheck" /\ owner[reg[t].blk] = reg[t].pool /\ GiveCell(t, reg[t].blk)
      /\ UNCHANGED <<owner, class, app, pr>>
      /\ \/ /\ reg[t].pool # Global /\ used[reg[t].blk] # 1
            /\ pc' = [pc EXCEPT ![t] = "flushCheck"]
            /\ UNCHANGED <<lock, reg>>
         \/ /\ reg[t].pool = Global /\ used[reg[t].blk] # 1
            /\ pc' = [pc EXCEPT ![t] = "idle"] /\ reg' = [reg EXCEPT ![t] = NoLocals]
            /\ lock' = [lock EXCEPT ![MyBin(t)] = NoOne]
         \/ /\ used[reg[t].blk] = 1
            /\ pc' = [pc EXCEPT ![t] = "release"]
            /\ reg' = [reg EXCEPT ![t].fblk = reg[t].blk] /\ lock' = lock
  BY DEF FreeLocal, FreeGlobal, FreeLast, Last, Return, Goto, Release
<1>2. PICK q \in Bins, b \in Blocks, c \in Classes :
        q = MyBin(t) /\ b = reg[t].blk /\ c = reg[t].class /\ GiveBack(t, q, b, c)
  BY <1>1, Given
<1> DEFINE bl == bin[q]
           bl2 == bin'[q]
<1>3. /\ lock[q] = t /\ q[1] = reg[t].pool /\ q[2] = c /\ ~Drained(q)
      /\ b \in Members(bl) /\ b \notin pr
      /\ owner[b] = q[1] /\ class[b] = c /\ used[b] \in 1..Cells(c)
      /\ \A a \in Members(bl) : used[a] > 0
      /\ used' = [used EXCEPT ![b] = used[b] - 1] /\ used'[b] = used[b] - 1
      /\ \A a \in Blocks \ {b} : used'[a] = used[a]
      /\ \A x \in Bins \ {q} : bin'[x] = bin[x]
      /\ bl2 \in BlockLists /\ bl2.cache \notin bl2.list
      /\ used[b] > 1 => Members(bl2) = Members(bl)
      /\ used[b] = 1 => Members(bl2) = Members(bl) \ {b}
      /\ bl2.used = UsedBytes(Members(bl2), used', c)
      /\ bl2.total = TotalBytes(Members(bl2))
  BY <1>2 DEF GiveBack
<1>4. used[b] > 1 \/ used[b] = 1
  BY <1>3
<1>5. \A s \in Threads \ {t} : pc'[s] = pc[s] /\ reg'[s] = reg[s]
  BY <1>0, <1>1
<1>6. /\ pc'[t] \in {"flushCheck", "idle", "release"}
      /\ used[b] > 1 /\ reg[t].pool # Global =>
           pc'[t] = "flushCheck" /\ lock' = lock /\ reg' = reg
      /\ used[b] > 1 /\ reg[t].pool = Global =>
           /\ pc'[t] = "idle" /\ lock' = [lock EXCEPT ![q] = NoOne]
           /\ reg' = [reg EXCEPT ![t] = NoLocals]
      /\ used[b] = 1 =>
           pc'[t] = "release" /\ lock' = lock /\ reg' = [reg EXCEPT ![t].fblk = b]
  BY <1>0, <1>1, <1>2
<1>7. Shapes'
  <2>1. used' \in [Blocks -> Int] /\ bin' \in [Bins -> BlockLists]
    <3>1. bin' = [bin EXCEPT ![q] = bl2]
      BY <1>0, <1>1, <1>2, <1>3 DEF GiveCell
    <3> QED BY <1>0, <1>3, <3>1
  <2>2. pc' \in [Threads -> Pcs] /\ reg' \in [Threads -> Regs] /\ lock' \in [Bins -> Threads \cup {NoOne}]
    <3>1. NoLocals \in Regs /\ {"idle", "flushCheck", "release"} \subseteq Pcs
      BY DEF NoLocals, Regs, Pcs, FlushPcs, DecidePcs
    <3>2. [reg[t] EXCEPT !.fblk = b] \in Regs
      BY <1>0 DEF Regs
    <3>3. pc' \in [Threads -> Pcs] /\ lock' \in [Bins -> Threads \cup {NoOne}]
      BY <1>0, <1>1, <1>2, <1>3, <3>1
    <3> QED BY <1>0, <1>1, <1>2, <3>1, <3>2, <3>3
  <2> QED BY <1>0, <1>1, <2>1, <2>2 DEF Shapes
<1>8. \A x \in Bins : (Drained(x) => Drained(x)') /\ (Empty(x)' => Empty(x))
  BY <1>1, <1>5, <1>6, NotDraining DEF DrainPcs, DrainingPcs
<1>9. Frame(t)
  <2>1. <<owner[b], class[b]>> = q
    BY <1>3 DEF Bins
  <2>2. \A x \in Bins : lock'[x] = lock[x] \/ {lock[x], lock'[x]} \subseteq {t, NoOne}
    BY <1>0, <1>3, <1>4, <1>6
  <2> QED BY <1>1, <1>3, <1>5, <1>8, <2>1, <2>2 DEF Frame
<1>c. \A x \in Bins : lock[x] = t => x = q
  BY <1>0, <1>1, <1>2 DEF ThreadOK, Holding, Section
<1>d. reg[t].pool # Global =>
        IF b \in Members(bl2) THEN Freed(bl2, used', c) ELSE Emptied(bl2, used', c)
  BY <1>1, <1>2, GivenDecides
<1>10. ThreadOK(t)'
  <2>1. CASE used[b] > 1 /\ reg[t].pool # Global
    <3>1. reg'[t] = reg[t] /\ MyBin(t)' = q
      BY <1>2, <1>6, <2>1 DEF MyBin
    <3>2. Locals(t)'
      BY <1>2, <1>3, <1>6, <2>1, <3>1 DEF Locals, AllocPcs, WaitingPcs, FreePcs, CarryPcs, DrainPcs, DrainingPcs
    <3>3. Holding(t)'
      BY <1>0, <1>1, <1>2, <1>6, <2>1, <3>1 DEF ThreadOK, Holding, Section, LockedPcs, WaitingPcs, FlushPcs, DecidePcs, DrainingPcs
    <3>4. Deciding(t)'
      BY <1>d, <1>2, <1>6, <2>1, <3>1 DEF Deciding
    <3>5. CarriedApart(t)' /\ NothingLeft(t)' /\ FlushedAway(t)'
      BY <1>6, <2>1 DEF CarriedApart, NothingLeft, FlushedAway, CarryPcs, WaitingPcs
    <3> QED BY <3>2, <3>3, <3>4, <3>5 DEF ThreadOK
  <2>2. CASE used[b] > 1 /\ reg[t].pool = Global
    <3>1. \A x \in Bins : lock'[x] # t
      BY <1>0, <1>c, <1>6, <2>2, NamesAssumption
    <3> QED BY <1>6, <2>2, <3>1, Idle
  <2>3. CASE used[b] = 1
    <3>1. /\ reg'[t].blk = b /\ reg'[t].fblk = b /\ reg'[t].pool = reg[t].pool /\ reg'[t].class = c
          /\ pc'[t] = "release" /\ lock' = lock
      BY <1>0, <1>2, <1>6, <2>3 DEF Regs
    <3>2. MyBin(t)' = q
      BY <1>2, <3>1 DEF MyBin
    <3>3. Locals(t)'
      BY <3>1, <3>2 DEF Locals, AllocPcs, WaitingPcs, FreePcs, FlushPcs, DecidePcs, DrainPcs, DrainingPcs
    <3>4. Holding(t)'
      BY <1>0, <1>1, <1>2, <3>1, <3>2 DEF ThreadOK, Holding, Section, LockedPcs
    <3>5. CarriedApart(t)'
      BY <1>1, <1>3, <2>3, <3>1, <3>2 DEF CarriedApart
    <3>6. Deciding(t)'
      BY <1>d, <1>3, <2>3, <3>1, <3>2 DEF Deciding, DecidePcs
    <3>7. NothingLeft(t)' /\ FlushedAway(t)'
      BY <3>1 DEF NothingLeft, FlushedAway, WaitingPcs
    <3> QED BY <3>3, <3>4, <3>5, <3>6, <3>7 DEF ThreadOK
  <2> QED BY <1>4, <2>1, <2>2, <2>3
<1>11. BinOK(q)'
  <2>1. Members(bl2) \subseteq Members(bl) /\ \A a \in Members(bl2) : a \notin pr' /\ used'[a] > 0
    <3>1. \A a \in Members(bl) : a \in Blocks /\ a \notin pr
      BY <1>3, InBin
    <3> QED BY <1>1, <1>3, <1>4, <3>1
  <2>2. Apart(q)'
    <3>1. \A a \in Members(bl) : owner[a] = q[1] /\ class[a] = q[2]
      BY <1>3, InBin
    <3> QED BY <1>1, <1>3, <2>1, <3>1 DEF Apart
  <2>3. EmptyTaken(q)'
    BY <2>1 DEF EmptyTaken
  <2>4. Exact(q)'
    BY <1>3, BytesNat DEF Exact
  <2>5. Flushable(q)'
    <3>1. CASE used[b] = 1
      BY <1>d, <1>3, <3>1 DEF Flushable, Emptied
    <3>2. CASE used[b] > 1
      BY <1>2, <1>3, <1>6, <3>2 DEF Flushable, DecidePcs, MyBin
    <3> QED BY <1>4, <3>1, <3>2
  <2> QED BY <1>3, <1>8, <2>2, <2>3, <2>4, <2>5 DEF BinOK, Drained
<1>12. ASSUME NEW a \in Blocks, a \in pr \/ lock[<<owner[a], class[a]>>] = t PROVE Found(a)'
  <2> SUFFICES ASSUME a \notin pr
               PROVE  /\ <<owner[a], class[a]>> \in Bins
                      /\ \/ a \in Members(bin'[<<owner[a], class[a]>>])
                         \/ a \in Carried(t)'
    BY <1>1 DEF Found
  <2>1. <<owner[a], class[a]>> \in Bins /\ a \in Members(bin[<<owner[a], class[a]>>])
    BY <1>1, <1>12, InMyBin DEF Carried
  <2>2. used[b] = 1 => Carried(t)' = {b}
    BY <1>0, <1>6 DEF Carried, Regs
  <2> QED BY <1>3, <1>4, <2>1, <2>2
<1>13. ASSUME NEW a \in Blocks PROVE Counted(a)'
  <2>1. Counted(a) /\ IsFiniteSet(Freeing(a)) /\ Cardinality(Freeing(a)) \in Nat
    BY FiniteAssumption, FS_Subset, FS_CardinalityType DEF IInv, Freeing
  <2>2. CASE a = b
    <3>1. t \in Freeing(b) /\ Freeing(b)' = Freeing(b) \ {t}
      BY <1>1, <1>2, <1>4, <1>5, <1>6 DEF Freeing
    <3>2. Cardinality(Freeing(b) \ {t}) = Cardinality(Freeing(b)) - 1
      BY <2>1, <2>2, <3>1, FS_RemoveElement
    <3>3. app'[b] = app[b] /\ app[b] \in Nat /\ class'[b] = c /\ Cells(c) \in Nat
      BY <1>0, <1>1, <1>3, Geometry
    <3>4. used'[b] = app'[b] + Cardinality(Freeing(b)')
      BY <1>3, <2>1, <2>2, <3>1, <3>2, <3>3 DEF Counted
    <3>5. b \notin pr'
      BY <1>1, <1>3
    <3>6. used'[b] <= Cells(c)
      BY <1>3, <3>3
    <3> QED BY <2>2, <3>3, <3>4, <3>5, <3>6 DEF Counted, Cells
  <2>3. CASE a # b
    <3>1. Freeing(a)' = Freeing(a)
      BY <1>1, <1>2, <1>5, <1>6, <2>3 DEF Freeing
    <3> QED BY <1>1, <1>3, <2>1, <2>3, <3>1 DEF Counted, Cells
  <2> QED BY <2>2, <2>3
<1>14. \A x \in Bins : lock[x] = t => BinOK(x)'
  BY <1>c, <1>11
<1> QED BY <1>7, <1>9, <1>10, <1>12, <1>13, <1>14, Frames

\* The empty block that has left the bin goes to the page resource.
LEMMA ReleaseKeeps ==
  ASSUME IInv, NEW t \in Threads, ReleaseLocal(t) \/ ReleaseGlobal(t)
  PROVE  IInv'
<1>0. /\ Shapes /\ ThreadOK(t) /\ Locals(t) /\ pc \in [Threads -> Pcs] /\ reg \in [Threads -> Regs]
      /\ lock \in [Bins -> Threads \cup {NoOne}] /\ pr \subseteq Blocks
  BY DEF IInv, ThreadOK, Shapes
<1>1. /\ pc[t] = "release" /\ pr' = pr \cup {reg[t].fblk}
      /\ UNCHANGED <<bin, owner, class, used, app>>
      /\ \/ /\ reg[t].pool # Global
            /\ pc' = [pc EXCEPT ![t] = "flushCheck"]
            /\ reg' = [reg EXCEPT ![t].fblk = None] /\ lock' = lock
         \/ /\ reg[t].pool = Global
            /\ pc' = [pc EXCEPT ![t] = "idle"] /\ reg' = [reg EXCEPT ![t] = NoLocals]
            /\ lock' = [lock EXCEPT ![MyBin(t)] = NoOne]
  BY DEF ReleaseLocal, ReleaseGlobal, Return, Goto, Release
<1>2. PICK q, b : q = MyBin(t) /\ b = reg[t].fblk
  OBVIOUS
<1>3. /\ q \in Bins /\ lock[q] = t /\ \A x \in Bins : lock[x] = t => x = q
      /\ b \in Blocks /\ reg[t].blk = b /\ b \notin pr /\ b \notin Members(bin[q])
      /\ <<owner[b], class[b]>> = q /\ used[b] = 0
  <2>1. q \in Bins /\ lock[q] = t /\ Section(t) = {q}
    BY <1>1, <1>2, Sections DEF LockedPcs, Section
  <2>2. b \in Blocks /\ reg[t].blk = b
    BY <1>0, <1>1, <1>2 DEF Locals, CarryPcs
  <2>3. b \notin pr /\ b \notin Members(bin[q]) /\ <<owner[b], class[b]>> = q /\ used[b] = 0
    BY <1>0, <1>1, <1>2 DEF ThreadOK, CarriedApart, CarryPcs, MyBin
  <2> QED BY <1>0, <2>1, <2>2, <2>3 DEF ThreadOK, Holding
<1>4. /\ \A s \in Threads \ {t} : pc'[s] = pc[s] /\ reg'[s] = reg[s]
      /\ pc'[t] \in {"flushCheck", "idle"}
      /\ \A x \in Bins : lock'[x] = lock[x] \/ {lock[x], lock'[x]} \subseteq {t, NoOne}
  BY <1>0, <1>1, <1>2, <1>3
<1>5. Shapes'
  <2>1. NoLocals \in Regs /\ {"idle", "flushCheck"} \subseteq Pcs /\ [reg[t] EXCEPT !.fblk = None] \in Regs
    BY <1>0 DEF NoLocals, Regs, Pcs, FlushPcs, DecidePcs
  <2>2. pc' \in [Threads -> Pcs] /\ lock' \in [Bins -> Threads \cup {NoOne}] /\ pr' \subseteq Blocks
    BY <1>0, <1>1, <1>2, <1>3, <2>1
  <2>3. reg' \in [Threads -> Regs]
    BY <1>0, <1>1, <2>1
  <2> QED BY <1>0, <1>1, <2>2, <2>3 DEF Shapes
<1>6. \A x \in Bins : (Drained(x) => Drained(x)') /\ (Empty(x)' => Empty(x))
  BY <1>1, <1>4, NotDraining DEF DrainPcs, DrainingPcs
<1>7. Frame(t)
  <2>1. \A a \in Blocks : a \notin pr /\ lock[<<owner[a], class[a]>>] # t => a \notin pr'
    BY <1>1, <1>2, <1>3
  <2> QED BY <1>1, <1>4, <1>6, <2>1 DEF Frame
<1>8. ThreadOK(t)'
  <2>1. CASE reg[t].pool # Global
    <3>1. /\ pc'[t] = "flushCheck" /\ lock' = lock
          /\ reg'[t].blk = b /\ reg'[t].pool = reg[t].pool /\ reg'[t].class = reg[t].class
      BY <1>0, <1>1, <1>3, <2>1 DEF Regs
    <3>2. MyBin(t)' = q
      BY <1>2, <3>1 DEF MyBin
    <3>3. Locals(t)'
      BY <1>3, <2>1, <3>1, <3>2 DEF Locals, AllocPcs, WaitingPcs, FreePcs, CarryPcs, DrainPcs, DrainingPcs
    <3>4. Holding(t)'
      BY <1>0, <1>1, <1>2, <3>1, <3>2 DEF ThreadOK, Holding, Section, LockedPcs, FlushPcs, DecidePcs
    <3>5. Deciding(t)'
      <4>1. Emptied(bin[q], used, reg[t].class)
        BY <1>0, <1>1, <1>2, <2>1 DEF ThreadOK, Deciding
      <4> QED BY <1>1, <1>3, <3>1, <3>2, <4>1 DEF Deciding
    <3>6. CarriedApart(t)' /\ NothingLeft(t)' /\ FlushedAway(t)'
      BY <3>1 DEF CarriedApart, NothingLeft, FlushedAway, CarryPcs, WaitingPcs
    <3> QED BY <3>3, <3>4, <3>5, <3>6 DEF ThreadOK
  <2>2. CASE reg[t].pool = Global
    <3>1. \A x \in Bins : lock'[x] # t
      BY <1>0, <1>1, <1>2, <1>3, <2>2, NamesAssumption
    <3>2. pc'[t] = "idle"
      BY <1>0, <1>1, <2>2
    <3> QED BY <3>1, <3>2, Idle
  <2> QED BY <2>1, <2>2
<1>9. BinOK(q)'
  <2>1. \A a \in Members(bin[q]) : a \notin pr'
    BY <1>1, <1>2, <1>3, InBin
  <2> QED BY <1>1, <1>3, <1>4, <1>6, <2>1, SameBin DEF DecidePcs
<1>10. ASSUME NEW a \in Blocks, a \in pr \/ lock[<<owner[a], class[a]>>] = t PROVE Found(a)'
  <2> SUFFICES ASSUME a \notin pr, a # b
               PROVE  /\ <<owner[a], class[a]>> \in Bins
                      /\ a \in Members(bin[<<owner[a], class[a]>>])
    BY <1>1, <1>2 DEF Found
  <2>1. Carried(t) = {b}
    BY <1>1, <1>2 DEF Carried
  <2> QED BY <1>10, <2>1, InMyBin
<1>11. ASSUME NEW a \in Blocks PROVE Counted(a)'
  <2>1. Freeing(a)' = Freeing(a)
    BY <1>1, <1>4, SameFreeing DEF FreePcs
  <2>2. Counted(a)
    BY DEF IInv
  <2> QED BY <1>1, <1>2, <1>3, <2>1, <2>2 DEF Counted, Cells
<1> QED BY <1>3, <1>5, <1>7, <1>8, <1>9, <1>10, <1>11, Frames

----------------------------------------------------------------------------
\* The way to the global pool

\* No block is empty in a bin that a thread has locked, unless it allocates.
LEMMA NotEmpty ==
  ASSUME IInv, NEW t \in Threads, NEW q \in Bins, lock[q] = t, pc[t] # "allocTry",
         NEW f \in Members(bin[q])
  PROVE  used[f] > 0
<1>1. used[f] \in Nat
  BY InBin
<1>2. ASSUME used[f] = 0 PROVE FALSE
  <2>1. PICK s \in Threads : pc[s] = "allocTry" /\ MyBin(s) = q
    BY <1>2 DEF IInv, BinOK, EmptyTaken
  <2> QED BY <2>1, AllocBin
<1> QED BY <1>1, <1>2

\* A block leaves the bin that the thread has locked.
LEMMA TakeAwayKeeps ==
  ASSUME IInv, NEW t \in Threads, NEW q \in Bins, q = MyBin(t), NEW f \in Members(bin[q]),
         pc[t] = "flushPop" \/ pc[t] = "drain",
         pc' = [pc EXCEPT ![t] = IF pc[t] = "drain" THEN "drainGlobal" ELSE "flushLock"],
         reg' \in [Threads -> Regs], \A s \in Threads \ {t} : reg'[s] = reg[s],
         reg'[t].pool = reg[t].pool, reg'[t].class = reg[t].class, reg'[t].fblk = f,
         pc[t] = "flushPop" => reg'[t].fclass = reg[t].class,
         UNCHANGED <<lock, owner, class, used, app, pr>>,
         bin' = [bin EXCEPT ![q] = bin'[q]], bin'[q] \in BlockLists,
         bin'[q].cache \notin bin'[q].list, Members(bin'[q]) = Members(bin[q]) \ {f},
         Exact(q)', Flushable(q)'
  PROVE  IInv'
<1>0. /\ Shapes /\ ThreadOK(t) /\ Locals(t) /\ pc \in [Threads -> Pcs] /\ bin \in [Bins -> BlockLists]
  BY DEF IInv, ThreadOK, Shapes
<1>1. /\ lock[q] = t /\ q[1] = reg[t].pool /\ q[2] = reg[t].class
      /\ \A x \in Bins : lock[x] = t => x = q
  BY <1>0, Sections DEF ThreadOK, Holding, Section, LockedPcs, FlushPcs, DecidePcs, DrainingPcs, MyBin
<1>2. /\ \A a \in Members(bin[q]) : a \in Blocks /\ a \notin pr /\ owner[a] = q[1] /\ class[a] = q[2]
      /\ used[f] > 0
  BY <1>1, InBin, NotEmpty
<1>3. \A x \in Bins \ {q} : bin'[x] = bin[x]
  BY <1>0
<1>4. /\ pc'[t] = IF pc[t] = "drain" THEN "drainGlobal" ELSE "flushLock"
      /\ MyBin(t)' = q /\ \A s \in Threads \ {t} : pc'[s] = pc[s] /\ reg'[s] = reg[s]
  BY <1>0 DEF MyBin
<1>5. Shapes'
  <2>1. {"drainGlobal", "flushLock"} \subseteq Pcs
    BY DEF Pcs, FlushPcs, DrainPcs, DrainingPcs
  <2>2. pc' \in [Threads -> Pcs]
    BY <1>0, <2>1
  <2>3. bin' \in [Bins -> BlockLists]
    BY <1>0
  <2> QED BY <1>0, <2>2, <2>3 DEF Shapes
<1>6. \A x \in Bins : (Drained(x) <=> Drained(x)') /\ (Empty(x)' <=> Empty(x))
  <2> SUFFICES ASSUME NEW x \in Bins PROVE (Drained(x) <=> Drained(x)') /\ (Empty(x)' <=> Empty(x))
    OBVIOUS
  <2>1. /\ pc[t] \in DrainPcs <=> pc'[t] \in DrainPcs
        /\ pc[t] \in DrainingPcs <=> pc'[t] \in DrainingPcs
        /\ pc[t] # "dead" /\ pc'[t] # "dead"
    BY <1>4 DEF DrainPcs, DrainingPcs
  <2>2. CASE x[1] = t
    BY <2>1, <2>2 DEF Drained, Empty
  <2>3. CASE x[1] # t
    BY <1>4, <2>3 DEF Drained, Empty
  <2> QED BY <2>2, <2>3
<1>7. Frame(t)
  BY <1>1, <1>3, <1>4, <1>6 DEF Frame
<1>8. ThreadOK(t)'
  <2>1. Locals(t)'
    <3>1. f \in Blocks /\ q \in Bins
      BY <1>2
    <3>2. pc[t] = "drain" => reg[t].pool = t
      BY <1>0 DEF Locals, DrainPcs, DrainingPcs
    <3>3. pc[t] = "flushPop" => reg[t].pool # Global
      BY <1>0 DEF Locals, FlushPcs, DecidePcs
    <3> QED BY <1>4, <3>1, <3>2, <3>3 DEF Locals, AllocPcs, WaitingPcs, FreePcs, FlushPcs, DecidePcs, DrainPcs, DrainingPcs
  <2>2. Holding(t)'
    <3>1. Section(t)' = {q}
      BY <1>4 DEF Section, LockedPcs, FlushPcs, DrainingPcs
    <3> QED BY <1>1, <3>1 DEF Holding
  <2>3. CarriedApart(t)'
    BY <1>1, <1>2, <1>4 DEF CarriedApart
  <2>4. NothingLeft(t)' /\ FlushedAway(t)' /\ Deciding(t)'
    BY <1>4 DEF NothingLeft, FlushedAway, Deciding, WaitingPcs, DecidePcs
  <2> QED BY <2>1, <2>2, <2>3, <2>4 DEF ThreadOK
<1>9. BinOK(q)'
  <2>1. Apart(q)'
    BY <1>2 DEF Apart
  <2>2. EmptyTaken(q)'
    <3>1. \A a \in Members(bin[q]) : used[a] > 0
      BY <1>1, NotEmpty
    <3> QED BY <3>1 DEF EmptyTaken
  <2>3. ~Empty(q)'
    BY <1>6 DEF IInv, BinOK
  <2> QED BY <2>1, <2>2, <2>3 DEF BinOK
<1>10. ASSUME NEW a \in Blocks, a \in pr \/ lock[<<owner[a], class[a]>>] = t PROVE Found(a)'
  <2> SUFFICES ASSUME a \notin pr
               PROVE  /\ <<owner[a], class[a]>> \in Bins
                      /\ \/ a \in Members(bin'[<<owner[a], class[a]>>])
                         \/ a \in Carried(t)'
    BY DEF Found
  <2>1. <<owner[a], class[a]>> \in Bins /\ a \in Members(bin[<<owner[a], class[a]>>])
    BY <1>10, InMyBin DEF Carried
  <2>2. Carried(t)' = {f}
    BY <1>4 DEF Carried
  <2> QED BY <1>3, <2>1, <2>2
<1>11. \A a \in Blocks : Counted(a)'
  BY <1>4, SameCounted DEF FreePcs
<1> QED BY <1>1, <1>5, <1>7, <1>8, <1>9, <1>10, <1>11, Frames

\* The flush picks a block of the bin, of the bin's class.
LEMMA FlushPopKeeps == ASSUME IInv, NEW t \in Threads, FlushPop(t) PROVE IInv'
<1>0. /\ ThreadOK(t) /\ Locals(t) /\ reg \in [Threads -> Regs] /\ Shapes
      /\ bin \in [Bins -> BlockLists] /\ class \in [Blocks -> Classes \cup {NoClass}]
  BY DEF IInv, ThreadOK, Shapes
<1>1. pc[t] = "flushPop" /\ pc' = [pc EXCEPT ![t] = "flushLock"]
      /\ UNCHANGED <<lock, owner, class, used, app, pr>>
  BY DEF FlushPop, Goto
<1>2. PICK q \in Bins, c \in Classes : q = MyBin(t) /\ c = reg[t].class
  BY <1>1, Sections, InBin, ZenonT(40) DEF LockedPcs, FlushPcs, DecidePcs, MyBin
<1> DEFINE bl == bin[q]
           x == reg[t].blk
<1>3. PICK f \in MostEmpty(bl) :
        /\ bin' = [bin EXCEPT ![q] = Take(@, f)]
        /\ reg' = [reg EXCEPT ![t].fblk = f, ![t].fclass = class[x]]
  BY <1>2 DEF FlushPop
<1>4. /\ lock[q] = t /\ q[1] = reg[t].pool /\ q[2] = c /\ x \in Blocks
  BY <1>0, <1>1, <1>2, Sections DEF LockedPcs, FlushPcs, DecidePcs, MyBin, Locals
<1>5. /\ f \in Members(bl) /\ f \in Blocks
      /\ bl.cache # None => f = bl.cache
      /\ bl.cache = None => f \in Emptiest(bl.list)
  BY MostEmptyIn, InBin
<1>6. /\ Bin(bl, used, c) /\ bl.list \in SUBSET Blocks
      /\ \A b \in bl.list : class[b] = c /\ used[b] \in 0..Cells(c)
      /\ \A b \in Members(bl) : class[b] = c
  BY <1>0, <1>4, InBin DEF Members, BlockLists
<1>7. bl.cache = None =>
        /\ f \in bl.list /\ used[f] < Cells(c)
        /\ \A a \in bl.list : Low(used[a], c) => Low(used[f], c)
  BY <1>0, <1>5, <1>6, EmptiestBlock
<1>8. x \in Members(bl) /\ Freed(bl, used, c)
  <2>1. Deciding(t)
    BY <1>0 DEF ThreadOK
  <2>2. ASSUME NoneToFlush(bl, used, c) PROVE FALSE
    BY <1>6, <1>7, <2>2 DEF NoneToFlush, AllFull
  <2> QED BY <1>1, <1>2, <2>1, <2>2 DEF Deciding, DecidePcs
<1>9. bin'[q] = Take(bl, f) /\ bin' = [bin EXCEPT ![q] = bin'[q]]
  BY <1>0, <1>3
<1>10. ~Drained(q)
  BY <1>1, <1>4, <1>5, Undrained DEF DrainPcs, DrainingPcs
<1>11. /\ bin'[q] \in BlockLists /\ bin'[q].cache \notin bin'[q].list
       /\ Members(bin'[q]) = Members(bl) \ {f}
       /\ bin'[q] = [cache |-> IF bl.cache = f THEN None ELSE bl.cache, list |-> bl.list \ {f},
                     used |-> bl.used - Weight(used[f], c), total |-> bl.total - DataBytes]
       /\ bin'[q].used = UsedBytes(Members(bin'[q]), used, c)
       /\ bin'[q].total = TotalBytes(Members(bin'[q]))
  <2> DEFINE bl2 == bin'[q]
  <2> HIDE DEF bl2
  <2>1. bl2 = Take(bl, f) /\ q[2] = c
    BY <1>4, <1>9 DEF bl2
  <2>2. /\ bl2 \in BlockLists /\ bl2.cache \notin bl2.list
        /\ Members(bl2) = Members(bl) \ {f}
        /\ bl2 = [cache |-> IF bl.cache = f THEN None ELSE bl.cache, list |-> bl.list \ {f},
                  used |-> bl.used - Weight(used[f], c), total |-> bl.total - DataBytes]
    <3>1. /\ bl2 \in BlockLists /\ bl2.cache \notin bl2.list
          /\ Members(bl2) = Members(bl) \ {f}
          /\ bl2 = [cache |-> IF bl.cache = f THEN None ELSE bl.cache, list |-> bl.list \ {f},
                    used |-> bl.used - Weight(used[f], q[2]), total |-> bl.total - DataBytes]
      BY <1>5, <2>1, Taken, ZenonT(40)
    <3> QED BY <2>1, <3>1
  <2>3. /\ bl2.used = UsedBytes(Members(bl2), used, c)
        /\ bl2.total = TotalBytes(Members(bl2))
    BY <1>5, <1>10, <2>1, Taken
  <2> QED BY <2>2, <2>3 DEF bl2
<1>12. AtRest(bin'[q], used, c)
  BY <1>5, <1>6, <1>7, <1>8, <1>11, Flush DEF Weight
<1>13. Exact(q)' /\ Flushable(q)'
  BY <1>1, <1>4, <1>11, <1>12, BytesNat DEF Exact, Flushable
<1>14. /\ reg' \in [Threads -> Regs] /\ \A s \in Threads \ {t} : reg'[s] = reg[s]
       /\ reg'[t].pool = reg[t].pool /\ reg'[t].class = reg[t].class /\ reg'[t].fblk = f
       /\ reg'[t].fclass = c
  <2>1. class[x] = c
    BY <1>6, <1>8
  <2> QED BY <1>0, <1>3, <1>5, <2>1, ZenonT(40) DEF Regs
<1>15. pc[t] # "drain"
  BY <1>1
<1> QED BY <1>1, <1>2, <1>5, <1>9, <1>11, <1>13, <1>14, <1>15, TakeAwayKeeps, ZenonT(40)

\* A pool that is dropped loses its blocks one by one.
LEMMA DrainTakeKeeps == ASSUME IInv, NEW t \in Threads, DrainTake(t) PROVE IInv'
<1>0. /\ ThreadOK(t) /\ Locals(t) /\ reg \in [Threads -> Regs] /\ bin \in [Bins -> BlockLists]
  BY DEF IInv, ThreadOK, Shapes
<1>1. pc[t] = "drain" /\ pc' = [pc EXCEPT ![t] = "drainGlobal"]
      /\ UNCHANGED <<lock, owner, class, used, app, pr>>
  BY DEF DrainTake, Goto
<1>2. PICK q \in Bins : q = MyBin(t)
  BY <1>1, Sections DEF LockedPcs, DrainingPcs
<1> DEFINE bl == bin[q]
<1>3. PICK f \in Members(bl) :
        /\ bl.cache # None => f = bl.cache
        /\ bin' = [bin EXCEPT ![q].cache = None, ![q].list = @ \ {f}]
        /\ reg' = [reg EXCEPT ![t].fblk = f]
  BY <1>2 DEF DrainTake
<1>4. /\ q[1] = t /\ q[2] = reg[t].class /\ reg[t].pool = t
  BY <1>0, <1>1, <1>2 DEF Locals, DrainPcs, DrainingPcs, MyBin
<1>5. bl \in BlockLists /\ bl.cache \notin bl.list /\ f \in Blocks /\ f # None
  BY InBin
<1>6. /\ bin'[q] \in BlockLists /\ bin'[q].cache = None /\ bin'[q].list = bl.list \ {f}
      /\ bin'[q].used = bl.used /\ bin'[q].total = bl.total
      /\ bin' = [bin EXCEPT ![q] = bin'[q]]
  <2>1. bin' = [bin EXCEPT ![q] = [bl EXCEPT !.cache = None, !.list = @ \ {f}]]
    BY <1>3
  <2>2. bin'[q] = [bl EXCEPT !.cache = None, !.list = @ \ {f}]
    BY <1>0, <2>1
  <2> QED BY <1>0, <1>5, <2>1, <2>2 DEF BlockLists
<1>7. Members(bin'[q]) = Members(bl) \ {f} /\ None \notin bin'[q].list
  BY <1>3, <1>5, <1>6, NamesAssumption DEF Members, BlockLists
<1>8. /\ reg' \in [Threads -> Regs] /\ \A s \in Threads \ {t} : reg'[s] = reg[s]
      /\ reg'[t].pool = reg[t].pool /\ reg'[t].class = reg[t].class /\ reg'[t].fblk = f
  BY <1>0, <1>3, <1>5 DEF Regs
<1>9. pc'[t] = "drainGlobal"
  BY <1>1 DEF IInv, Shapes
<1>10. Drained(q)'
  BY <1>4, <1>8, <1>9 DEF Drained, DrainingPcs
<1>11. Exact(q)' /\ Flushable(q)'
  <2>1. bin'[q].used = bl.used /\ bin'[q].total = bl.total
    BY <1>6
  <2> QED BY <1>10, <2>1 DEF IInv, BinOK, Exact, Flushable
<1> QED BY <1>1, <1>2, <1>6, <1>7, <1>8, <1>11, TakeAwayKeeps

\* A block arrives in the global pool.
LEMMA PutKeeps == ASSUME IInv, NEW t \in Threads, FlushPut(t) \/ DrainPut(t) PROVE IInv'
<1>0. /\ ThreadOK(t) /\ Locals(t) /\ Shapes /\ pc \in [Threads -> Pcs] /\ reg \in [Threads -> Regs]
      /\ lock \in [Bins -> Threads \cup {NoOne}] /\ bin \in [Bins -> BlockLists]
      /\ owner \in [Blocks -> Pools \cup {NoOne}]
  BY DEF IInv, ThreadOK, Shapes
<1>1. pc[t] \in {"flushPut", "drainPut"}
  BY DEF FlushPut, DrainPut, Goto
<1>2. PICK q \in Bins, g \in Bins, c \in Classes, f \in Blocks :
        q = MyBin(t) /\ g = GlobalBin(t) /\ c = reg[t].class /\ f = reg[t].fblk
  <2>1. MyBin(t) \in Bins /\ GlobalBin(t) \in Bins /\ reg[t].fblk \in Blocks
    BY <1>0, <1>1, Sections DEF LockedPcs, FlushPcs, DrainingPcs, Locals, CarryPcs
  <2> QED BY <2>1 DEF MyBin, Bins
<1>3. /\ lock[q] = t /\ lock[g] = t /\ q[1] = reg[t].pool /\ q[2] = c
      /\ g = <<Global, c>> /\ g[1] = Global /\ g[2] = c /\ q = <<q[1], c>>
  BY <1>1, <1>2, Sections DEF LockedPcs, FlushPcs, DrainingPcs, MyBin, GlobalBin
<1>4. q[1] # Global /\ q # g /\ ~Drained(g) /\ ~Empty(g)
  <2>1. reg[t].pool # Global
    BY <1>0, <1>1, NamesAssumption DEF Locals, FlushPcs, DrainPcs, DrainingPcs
  <2> QED BY <1>3, <2>1, NamesAssumption DEF Drained, Empty
<1>5. /\ f \notin pr /\ f \notin Members(bin[q]) /\ owner[f] = q[1] /\ class[f] = c /\ used[f] > 0
  BY <1>0, <1>1, <1>2, <1>3 DEF ThreadOK, CarriedApart, CarryPcs
<1>6. f \notin Members(bin[g])
  BY <1>3, <1>4, <1>5, InBin
<1>7. /\ owner' = [owner EXCEPT ![f] = Global]
      /\ bin' = [bin EXCEPT ![g] = Put(@, f)]
      /\ lock' = [lock EXCEPT ![g] = NoOne]
      /\ UNCHANGED <<class, used, app, pr>>
      /\ \/ /\ pc[t] = "flushPut" /\ pc' = [pc EXCEPT ![t] = "flushed"] /\ reg' = reg
         \/ /\ pc[t] = "drainPut" /\ pc' = [pc EXCEPT ![t] = "drain"]
            /\ reg' = [reg EXCEPT ![t].fblk = None]
  <2>1. CASE FlushPut(t)
    <3>1. pc[t] = "flushPut" /\ reg[t].fclass = c
      BY <1>0, <1>2, <2>1 DEF FlushPut, Goto, Locals
    <3> QED BY <1>2, <1>3, <2>1, <3>1 DEF FlushPut, Goto, Release
  <2>2. CASE DrainPut(t)
    BY <1>2, <2>2 DEF DrainPut, Goto, Release
  <2> QED BY <2>1, <2>2
<1>8. /\ \A x \in Bins \ {g} : bin'[x] = bin[x]
      /\ \A a \in Blocks \ {f} : owner'[a] = owner[a]
      /\ owner'[f] = Global /\ bin'[g] = Put(bin[g], f)
      /\ \A s \in Threads \ {t} : pc'[s] = pc[s] /\ reg'[s] = reg[s]
  BY <1>0, <1>7
<1>9. /\ reg'[t].pool = reg[t].pool /\ reg'[t].class = c /\ MyBin(t)' = q
      /\ reg' \in [Threads -> Regs] /\ pc' \in [Threads -> Pcs]
      /\ \/ pc[t] = "flushPut" /\ pc'[t] = "flushed" /\ reg'[t] = reg[t]
         \/ pc[t] = "drainPut" /\ pc'[t] = "drain"
  <2>1. {"flushed", "drain"} \subseteq Pcs
    BY DEF Pcs, FlushPcs, DrainPcs, DrainingPcs
  <2>2. pc' \in [Threads -> Pcs] /\ reg' \in [Threads -> Regs]
    <3>1. pc' \in [Threads -> Pcs]
      BY <1>0, <1>7, <2>1
    <3>2. [reg EXCEPT ![t].fblk = None] \in [Threads -> Regs]
      BY <1>0 DEF Regs
    <3> QED BY <1>0, <1>7, <3>1, <3>2
  <2>3. reg'[t].pool = reg[t].pool /\ reg'[t].class = reg[t].class
    BY <1>0, <1>7 DEF Regs
  <2> QED BY <1>0, <1>2, <1>7, <2>2, <2>3 DEF MyBin
<1>10. /\ bin'[g] \in BlockLists /\ bin'[g].cache = f /\ bin'[g].list = Members(bin[g])
       /\ Members(bin'[g]) = Members(bin[g]) \cup {f}
       /\ bin'[g].used = UsedBytes(Members(bin'[g]), used, c)
       /\ bin'[g].total = TotalBytes(Members(bin'[g]))
  <2> DEFINE bl2 == bin'[g]
  <2> HIDE DEF bl2
  <2>1. bl2 = Put(bin[g], f) /\ g[2] = c
    BY <1>3, <1>8 DEF bl2
  <2>2. /\ bl2 \in BlockLists /\ bl2.cache = f /\ bl2.list = Members(bin[g])
        /\ Members(bl2) = Members(bin[g]) \cup {f}
    BY <1>5, <1>6, <2>1, PutIn
  <2>3. /\ bl2.used = UsedBytes(Members(bl2), used, c)
        /\ bl2.total = TotalBytes(Members(bl2))
    BY <1>4, <1>5, <1>6, <2>1, PutIn
  <2> QED BY <2>2, <2>3 DEF bl2
<1>11. Shapes'
  <2>1. bin' \in [Bins -> BlockLists]
    BY <1>0, <1>7, <1>8, <1>10
  <2>2. owner' \in [Blocks -> Pools \cup {NoOne}] /\ lock' \in [Bins -> Threads \cup {NoOne}]
    BY <1>0, <1>7 DEF Pools
  <2> QED BY <1>0, <1>7, <1>9, <2>1, <2>2 DEF Shapes
<1>12. \A x \in Bins : (Drained(x) <=> Drained(x)') /\ (Empty(x)' <=> Empty(x))
  <2> SUFFICES ASSUME NEW x \in Bins PROVE (Drained(x) <=> Drained(x)') /\ (Empty(x)' <=> Empty(x))
    OBVIOUS
  <2>1. /\ pc[t] \in DrainPcs <=> pc'[t] \in DrainPcs
        /\ pc[t] \in DrainingPcs <=> pc'[t] \in DrainingPcs
        /\ pc[t] # "dead" /\ pc'[t] # "dead"
    BY <1>9 DEF DrainPcs, DrainingPcs
  <2>2. CASE x[1] = t
    BY <1>2, <1>9, <2>1, <2>2 DEF Drained, Empty
  <2>3. CASE x[1] # t
    BY <1>8, <2>3 DEF Drained, Empty
  <2> QED BY <2>2, <2>3
<1>13. Frame(t)
  <2>1. \A x \in Bins : lock'[x] = lock[x] \/ {lock[x], lock'[x]} \subseteq {t, NoOne}
    BY <1>0, <1>3, <1>7
  <2>2. \A a \in Blocks : lock[<<owner[a], class[a]>>] # t => a # f
    BY <1>3, <1>5
  <2> QED BY <1>3, <1>7, <1>8, <1>12, <2>1, <2>2 DEF Frame
<1>14. ThreadOK(t)'
  <2>1. Locals(t)'
    <3>1. pc[t] = "drainPut" => reg[t].pool = t
      BY <1>0 DEF Locals, DrainPcs, DrainingPcs
    <3>2. pc[t] = "flushPut" => reg[t].pool # Global /\ reg[t].fclass = c
      BY <1>0, <1>2 DEF Locals, FlushPcs
    <3> QED BY <1>2, <1>9, <3>1, <3>2 DEF Locals, AllocPcs, WaitingPcs, FreePcs, FlushPcs, DecidePcs, CarryPcs, DrainPcs, DrainingPcs
  <2>2. Holding(t)'
    <3>1. Section(t)' = {q}
      BY <1>9 DEF Section, LockedPcs, FlushPcs, DrainingPcs
    <3>2. Section(t) = {q, g}
      BY <1>1, <1>2 DEF Section, LockedPcs, FlushPcs, DrainingPcs
    <3>3. \A x \in Bins : lock'[x] = t <=> lock[x] = t /\ x # g
      BY <1>0, <1>7, NamesAssumption
    <3>4. Holding(t)
      BY <1>0 DEF ThreadOK
    <3> QED BY <1>4, <3>1, <3>2, <3>3, <3>4 DEF Holding
  <2>3. FlushedAway(t)'
    BY <1>2, <1>3, <1>4, <1>8, <1>9 DEF FlushedAway
  <2>4. NothingLeft(t)' /\ CarriedApart(t)' /\ Deciding(t)'
    BY <1>9 DEF NothingLeft, CarriedApart, Deciding, WaitingPcs, DecidePcs, CarryPcs
  <2> QED BY <2>1, <2>2, <2>3, <2>4 DEF ThreadOK
<1>15. BinOK(q)'
  <2>1. \A a \in Members(bin[q]) :
          a \notin pr' /\ used'[a] = used[a] /\ owner'[a] = owner[a] /\ class'[a] = class[a]
    BY <1>5, <1>7, <1>8, InBin
  <2> QED BY <1>1, <1>4, <1>8, <1>12, <2>1, SameBin DEF DecidePcs
<1>16. BinOK(g)'
  <2>1. Apart(g)'
    <3>1. \A a \in Members(bin[g]) : a \in Blocks /\ a \notin pr /\ owner[a] = Global /\ class[a] = c
      BY <1>3, InBin
    <3> QED BY <1>3, <1>5, <1>6, <1>7, <1>8, <1>10, <3>1 DEF Apart
  <2>2. EmptyTaken(g)'
    <3>1. \A a \in Members(bin[g]) : used[a] > 0
      BY <1>1, <1>3, NotEmpty
    <3> QED BY <1>5, <1>7, <1>10, <3>1 DEF EmptyTaken
  <2>3. Exact(g)'
    BY <1>3, <1>7, <1>10, BytesNat DEF Exact
  <2>4. Flushable(g)' /\ ~Empty(g)'
    BY <1>3, <1>4, <1>12 DEF Flushable
  <2> QED BY <2>1, <2>2, <2>3, <2>4 DEF BinOK
<1>17. ASSUME NEW a \in Blocks, a \in pr \/ lock[<<owner[a], class[a]>>] = t PROVE Found(a)'
  <2>1. CASE a = f
    BY <1>3, <1>5, <1>7, <1>8, <1>10, <2>1 DEF Found
  <2>2. CASE a # f /\ a \notin pr
    <3>1. <<owner[a], class[a]>> \in Bins /\ a \in Members(bin[<<owner[a], class[a]>>])
      <4>1. Carried(t) = {f}
        BY <1>1, <1>2 DEF Carried
      <4> QED BY <1>17, <2>2, <4>1, InMyBin
    <3>2. a \in Members(bin'[<<owner[a], class[a]>>])
      BY <1>8, <1>10, <3>1
    <3> QED BY <1>7, <1>8, <2>2, <3>1, <3>2 DEF Found
  <2> QED BY <1>7, <2>1, <2>2 DEF Found
<1>18. \A a \in Blocks : Counted(a)'
  BY <1>7, <1>8, <1>9, SameCounted DEF FreePcs
<1>19. \A x \in Bins : lock[x] = t => BinOK(x)'
  BY <1>0, <1>1, <1>2, <1>15, <1>16 DEF ThreadOK, Holding, Section
<1> QED BY <1>11, <1>13, <1>14, <1>17, <1>18, <1>19, Frames

----------------------------------------------------------------------------
\* From the initial state on


\* No pool has a block at first.
LEMMA InitIInv == Init => IInv
<1> SUFFICES ASSUME Init PROVE IInv
  OBVIOUS
<1>1. /\ \A q \in Bins : lock[q] = NoOne /\ bin[q] = EmptyBin
      /\ \A b \in Blocks : owner[b] = NoOne /\ class[b] = NoClass /\ used[b] = 0 /\ app[b] = 0
      /\ pr = Blocks
      /\ \A t \in Threads : pc[t] = "idle" /\ reg[t] = NoLocals
  BY DEF Init
<1>2. /\ Members(EmptyBin) = {} /\ EmptyBin.cache = None /\ EmptyBin.list = {}
      /\ EmptyBin.used = 0 /\ EmptyBin.total = 0 /\ EmptyBin \in BlockLists
  BY DEF Members, EmptyBin, BlockLists
<1>3. Shapes
  <2>1. NoLocals \in Regs /\ "idle" \in Pcs
    BY DEF NoLocals, Regs, Pcs
  <2> QED BY <1>2, <2>1 DEF Init, Shapes
<1>4. ASSUME NEW t \in Threads PROVE ThreadOK(t)
  <2>1. pc[t] = "idle"
    BY <1>1
  <2>2. Locals(t)
    BY <2>1 DEF Locals, BinPcs, AllocPcs, WaitingPcs, FlushPcs, FreePcs, CarryPcs, DecidePcs, DrainPcs, DrainingPcs
  <2>3. Holding(t)
    BY <1>1, <2>1, NamesAssumption DEF Holding, Section, LockedPcs, WaitingPcs, FlushPcs, DecidePcs, DrainingPcs
  <2>4. CarriedApart(t) /\ NothingLeft(t) /\ FlushedAway(t) /\ Deciding(t)
    BY <2>1 DEF CarriedApart, NothingLeft, FlushedAway, Deciding, CarryPcs, WaitingPcs, DecidePcs
  <2> QED BY <2>2, <2>3, <2>4 DEF ThreadOK
<1>5. ASSUME NEW q \in Bins PROVE BinOK(q)
  <2>1. bin[q] = EmptyBin /\ Members(bin[q]) = {}
    BY <1>1, <1>2
  <2>2. Apart(q) /\ EmptyTaken(q)
    BY <1>2, <2>1 DEF Apart, EmptyTaken
  <2>3. Exact(q)
    <3>1. CellBytes[q[2]] \in Nat /\ DataBytes \in Nat /\ Cells(q[2]) \in Nat
      BY Geometry DEF Bins
    <3>2. Cardinality({}) = 0 /\ Cardinality(CellsOf({}, used, Cells(q[2]))) = 0
      BY <3>1, CellsNone, FS_EmptySet
    <3> QED BY <1>2, <2>1, <3>1, <3>2 DEF Exact, UsedBytes, TotalBytes
  <2>4. Flushable(q)
    BY <1>2, <2>1 DEF Flushable, AtRest, Calm, LastCell
  <2> QED BY <2>1, <2>2, <2>3, <2>4 DEF BinOK
<1>6. ASSUME NEW b \in Blocks PROVE Found(b) /\ Counted(b)
  <2>1. Freeing(b) = {}
    BY <1>1 DEF Freeing
  <2> QED BY <1>1, <2>1, FS_EmptySet DEF Found, Counted
<1> QED BY <1>3, <1>4, <1>5, <1>6 DEF IInv

\* Every step keeps it.
LEMMA NextIInv == IInv /\ [Next]_vars => IInv'
<1> SUFFICES ASSUME IInv, [Next]_vars PROVE IInv'
  OBVIOUS
<1>1. CASE UNCHANGED vars
  <2>1. /\ lock' = lock /\ bin' = bin /\ owner' = owner /\ class' = class /\ used' = used
        /\ app' = app /\ pr' = pr /\ pc' = pc /\ reg' = reg
    BY <1>1 DEF vars
  <2>2. Shapes'
    BY <2>1 DEF IInv, Shapes
  <2>3. ASSUME NEW t \in Threads PROVE ThreadOK(t)'
    <3>1. MyBin(t)' = MyBin(t) /\ GlobalBin(t)' = GlobalBin(t)
      BY <2>1 DEF MyBin, GlobalBin
    <3>2. Locals(t)' /\ Holding(t)'
      BY <2>1, <3>1 DEF IInv, ThreadOK, Locals, Holding, Section
    <3>3. CarriedApart(t)' /\ NothingLeft(t)' /\ FlushedAway(t)' /\ Deciding(t)'
      BY <2>1, <3>1 DEF IInv, ThreadOK, CarriedApart, NothingLeft, FlushedAway, Deciding
    <3> QED BY <3>2, <3>3 DEF ThreadOK
  <2>4. ASSUME NEW q \in Bins PROVE BinOK(q)'
    <3>1. \A t \in Threads : MyBin(t)' = MyBin(t)
      BY <2>1 DEF MyBin
    <3>2. (Empty(q)' <=> Empty(q)) /\ (Drained(q)' <=> Drained(q))
      BY <2>1 DEF Empty, Drained
    <3>3. Apart(q)' /\ EmptyTaken(q)' /\ Exact(q)' /\ Flushable(q)'
      BY <2>1, <3>1, <3>2 DEF IInv, BinOK, Apart, EmptyTaken, Exact, Flushable
    <3> QED BY <2>1, <3>2, <3>3 DEF IInv, BinOK
  <2>5. ASSUME NEW b \in Blocks PROVE Found(b)' /\ Counted(b)'
    <3>1. Freeing(b)' = Freeing(b) /\ \A t \in Threads : Carried(t)' = Carried(t)
      BY <2>1 DEF Freeing, Carried
    <3>2. Found(b)'
      BY <2>1, <3>1 DEF IInv, Found
    <3> QED BY <2>1, <3>1, <3>2 DEF IInv, Counted
  <2> QED BY <2>2, <2>3, <2>4, <2>5 DEF IInv
<1>2. ASSUME NEW t \in Threads, AllocCall(t) \/ FreeCall(t) \/ ExitCall(t) PROVE IInv'
  BY <1>2, AllocCallKeeps, FreeCallKeeps, ExitCallKeeps
<1>3. ASSUME NEW t \in Threads, Step(t) PROVE IInv'
  <2>1. CASE \/ AllocLock(t) \/ FreeLock(t) \/ DrainLock(t)
             \/ GlobalLock(t) \/ FlushLock(t) \/ DrainGlobalLock(t)
    BY <2>1, LockKeeps
  <2>2. CASE OutOfBlocks(t) \/ FlushNotNeeded(t) \/ FlushNothing(t) \/ FlushDone(t)
    BY <2>2, ReturnKeeps
  <2>3. CASE AllocFromCache(t) \/ AllocFromList(t)
    BY <2>3, AllocKeeps
  <2>4. CASE AllocMiss(t)
    BY <2>4, AllocMissKeeps
  <2>5. CASE GlobalPop(t)
    BY <2>5, GlobalPopKeeps
  <2>6. CASE GlobalMiss(t)
    BY <2>6, GlobalMissKeeps
  <2>7. CASE FreshBlock(t)
    BY <2>7, FreshBlockKeeps
  <2>8. CASE FreeRead(t)
    BY <2>8, FreeReadKeeps
  <2>9. CASE FreeRetry(t)
    BY <2>9, FreeRetryKeeps
  <2>10. CASE FreeLocal(t) \/ FreeGlobal(t) \/ FreeLast(t)
    BY <2>10, FreeKeeps
  <2>11. CASE FlushNeeded(t)
    BY <2>11, FlushNeededKeeps
  <2>12. CASE FlushPop(t)
    BY <2>12, FlushPopKeeps
  <2>13. CASE FlushPut(t) \/ DrainPut(t)
    BY <2>13, PutKeeps
  <2>14. CASE DrainTake(t)
    BY <2>14, DrainTakeKeeps
  <2>15. CASE DrainNext(t)
    BY <2>15, DrainNextKeeps
  <2>16. CASE FreeClass(t)
    BY <2>16, FreeClassKeeps
  <2>17. CASE ReleaseLocal(t) \/ ReleaseGlobal(t)
    BY <2>17, ReleaseKeeps
  <2> QED BY <1>3, <2>1, <2>2, <2>3, <2>4, <2>5, <2>6, <2>7, <2>8, <2>9, <2>10, <2>11, <2>12,
             <2>13, <2>14, <2>15, <2>16, <2>17 DEF Step
<1> QED BY <1>1, <1>2, <1>3 DEF Next

----------------------------------------------------------------------------
\* The invariant of all the others: where blocks are, who holds which lock,
\* and that a bin with nothing to flush stays so while a thread decides.
THEOREM IInvInvariant == Spec => []IInv
<1>1. Init => IInv
  BY InitIInv
<1>2. IInv /\ [Next]_vars => IInv'
  BY NextIInv
<1> QED BY <1>1, <1>2, PTL DEF Spec

\* The counts of a block are numbers.
LEMMA Numbers ==
  ASSUME IInv, NEW b \in Blocks
  PROVE  /\ IsFiniteSet(Freeing(b)) /\ Cardinality(Freeing(b)) \in Nat
         /\ app[b] \in Nat /\ used[b] \in Nat /\ app[b] <= used[b]
         /\ used[b] = app[b] + Cardinality(Freeing(b))
<1>1. IsFiniteSet(Freeing(b)) /\ Cardinality(Freeing(b)) \in Nat
  BY FiniteAssumption, FS_Subset, FS_CardinalityType DEF Freeing
<1>2. app[b] \in Nat /\ Counted(b)
  BY DEF IInv, Shapes
<1> QED BY <1>1, <1>2 DEF Counted

\* The variables have their types, and no account of a bin is negative.
LEMMA Types == IInv => TypeOK
<1> SUFFICES ASSUME IInv PROVE TypeOK
  OBVIOUS
<1>1. Shapes
  BY DEF IInv
<1>2. bin \in [Bins -> [cache : Blocks \cup {None}, list : SUBSET Blocks, used : Nat, total : Nat]]
  <2>1. ASSUME NEW q \in Bins
        PROVE  bin[q] \in [cache : Blocks \cup {None}, list : SUBSET Blocks, used : Nat, total : Nat]
    <3>1. bin[q] \in BlockLists /\ bin[q].used \in Nat /\ bin[q].total \in Nat
      BY <1>1 DEF IInv, BinOK, Exact, Shapes
    <3> QED BY <3>1 DEF BlockLists
  <2> QED BY <1>1, <2>1 DEF Shapes
<1>3. used \in [Blocks -> Nat]
  BY <1>1, Numbers DEF Shapes
<1> QED BY <1>1, <1>2, <1>3 DEF TypeOK, Shapes, Regs

\* A block is with the page resource, in a bin, or with a thread.
LEMMA Placed == IInv => PlacedOnce
<1> SUFFICES ASSUME IInv PROVE PlacedOnce
  OBVIOUS
<1>1. \A q \in Bins : bin[q].cache \notin bin[q].list
  BY InBin
<1>2. ASSUME NEW b \in Blocks
      PROVE  Cardinality({q \in Bins : b \in Members(bin[q])})
             + Cardinality({t \in Threads : b \in Carried(t)})
             + Cardinality(pr \cap {b}) = 1
  <2> DEFINE bins == {q \in Bins : b \in Members(bin[q])}
             threads == {t \in Threads : b \in Carried(t)}
             own == <<owner[b], class[b]>>
  <2>1. \A q \in bins : b \notin pr /\ q = own
    BY InBin DEF Bins
  <2>2. ASSUME NEW t \in threads
        PROVE  b \notin pr /\ MyBin(t) = own /\ own \in Bins /\ own \notin bins /\ lock[own] = t
    <3>1. pc[t] \in CarryPcs /\ reg[t].fblk = b
      BY DEF Carried, CarryPcs
    <3>2. CarriedApart(t)
      BY DEF IInv, ThreadOK
    <3>3. b \notin pr /\ MyBin(t) = own /\ b \notin Members(bin[own])
      BY <3>1, <3>2 DEF CarriedApart, MyBin
    <3>4. pc[t] \in LockedPcs
      BY <3>1 DEF CarryPcs, LockedPcs, FlushPcs, DrainingPcs
    <3> QED BY <3>3, <3>4, Sections
  <2>3. Found(b)
    BY DEF IInv
  <2>4. CASE b \in pr
    <3>1. bins = {} /\ threads = {} /\ pr \cap {b} = {b}
      BY <2>1, <2>2, <2>4
    <3>2. Cardinality(bins) = 0 /\ Cardinality(threads) = 0 /\ Cardinality(pr \cap {b}) = 1
      BY <3>1, FS_EmptySet, FS_Singleton
    <3> HIDE DEF bins, threads
    <3> QED BY <3>2 DEF bins, threads
  <2>5. CASE b \notin pr /\ own \in bins
    <3>1. bins = {own} /\ threads = {} /\ pr \cap {b} = {}
      BY <2>1, <2>2, <2>5
    <3>2. Cardinality(bins) = 1 /\ Cardinality(threads) = 0 /\ Cardinality(pr \cap {b}) = 0
      BY <3>1, FS_EmptySet, FS_Singleton
    <3> HIDE DEF bins, threads
    <3> QED BY <3>2 DEF bins, threads
  <2>6. CASE b \notin pr /\ own \notin bins
    <3>1. PICK t \in threads : TRUE
      BY <2>3, <2>6 DEF Found
    <3>2. bins = {} /\ threads = {t} /\ pr \cap {b} = {}
      BY <2>1, <2>2, <2>6, <3>1
    <3>3. Cardinality(bins) = 0 /\ Cardinality(threads) = 1 /\ Cardinality(pr \cap {b}) = 0
      BY <3>2, FS_EmptySet, FS_Singleton
    <3> HIDE DEF bins, threads
    <3> QED BY <3>3 DEF bins, threads
  <2> QED BY <2>4, <2>5, <2>6
<1> QED BY <1>1, <1>2 DEF PlacedOnce

\* The rest of what the pools keep.
LEMMA Sound == IInv => PoolsSound
<1> SUFFICES ASSUME IInv PROVE PoolsSound
  OBVIOUS
<1>1. TypeOK /\ PlacedOnce
  BY Types, Placed
<1>2. BinAgrees
  BY InBin DEF BinAgrees
<1>3. AccountsExact
  <2> SUFFICES ASSUME NEW q \in Bins,
                      q[1] = Global \/ pc[q[1]] \notin {"drainLock", "drain", "drainGlobal", "drainPut", "dead"}
               PROVE  /\ bin[q].used = CellBytes[q[2]] * Cardinality(UsedCells(q))
                      /\ bin[q].total = DataBytes * Cardinality(Members(bin[q]))
    BY DEF AccountsExact
  <2>1. ~Drained(q)
    BY NamesAssumption DEF Drained, Empty, DrainPcs, DrainingPcs
  <2>2. Exact(q)
    BY DEF IInv, BinOK
  <2> QED BY <2>1, <2>2 DEF Exact, UsedCells, CellsOf, UsedBytes, TotalBytes
<1>4. NoEmptyBlockKept
  <2> SUFFICES ASSUME NEW q \in Bins, lock[q] = NoOne, NEW b \in Members(bin[q]) PROVE used[b] > 0
    BY DEF NoEmptyBlockKept
  <2>1. used[b] \in Nat
    BY InBin
  <2>2. ASSUME NEW t \in Threads, pc[t] = "allocTry", MyBin(t) = q PROVE FALSE
    BY <2>2, AllocBin, NamesAssumption
  <2> QED BY <2>1, <2>2 DEF IInv, BinOK, EmptyTaken
<1>5. FlushesToItsClass
  <2> SUFFICES ASSUME NEW t \in Threads, pc[t] \in {"flushLock", "flushPut"}
               PROVE  reg[t].fclass = class[reg[t].fblk]
    BY DEF FlushesToItsClass
  <2>1. Locals(t) /\ CarriedApart(t)
    BY DEF IInv, ThreadOK
  <2> QED BY <2>1 DEF Locals, CarriedApart, CarryPcs
<1> QED BY <1>1, <1>2, <1>3, <1>4, <1>5 DEF PoolsSound

\* Whatever threads allocate, free, flush and exit, every block is in one
\* place and says which, the accounts of the bins in use are exact, no empty
\* block is kept, and a flush goes to the bin of the block's class.
THEOREM PoolsSoundHolds == Spec => []PoolsSound
<1>1. IInv => PoolsSound
  BY Sound
<1> QED BY <1>1, IInvInvariant, PTL

\* No cell is lost or given twice, and no block with cells out is free.
THEOREM CellsConservedHolds == Spec => []CellsConserved
<1>1. IInv => CellsConserved
  BY Numbers DEF IInv, Counted, CellsConserved
<1> QED BY <1>1, IInvInvariant, PTL

\* What is left of flush_block_slow's assertion that the flushed block is not
\* the pool's any more: whatever happened since it was put into the global
\* pool, it is not in the bin again that the thread has locked. It can be in
\* another bin of the same pool, which is what the assertion overlooks.
THEOREM FlushedBlockAway ==
  Spec => [](\A t \in Threads : pc[t] = "flushed" => reg[t].fblk \notin Members(bin[MyBin(t)]))
<1>1. IInv => \A t \in Threads : pc[t] = "flushed" => reg[t].fblk \notin Members(bin[MyBin(t)])
  <2> SUFFICES ASSUME IInv, NEW t \in Threads, pc[t] = "flushed", reg[t].fblk \in Members(bin[MyBin(t)])
               PROVE  FALSE
    OBVIOUS
  <2>1. MyBin(t) \in Bins /\ FlushedAway(t)
    BY Sections DEF LockedPcs, FlushPcs, IInv, ThreadOK
  <2>2. owner[reg[t].fblk] = reg[t].pool /\ class[reg[t].fblk] = reg[t].class
    BY <2>1, InBin DEF MyBin
  <2> QED BY <2>1, <2>2 DEF FlushedAway
<1> QED BY <1>1, IInvInvariant, PTL

----------------------------------------------------------------------------
\* The heap that clients see

\* A block that gives a cell has one left, and the application's cells are
\* among those it has in use.
LEMMA TakeCellAllocs ==
  ASSUME IInv, NEW t \in Threads, AllocFromCache(t) \/ AllocFromList(t)
  PROVE  \E b \in Blocks : Heap!Alloc(b)
<1>1. pc[t] = "allocTry"
  BY DEF AllocFromCache, AllocFromList
<1>2. PICK q \in Bins, c \in Classes : q = MyBin(t) /\ c = reg[t].class /\ q[2] = c
  BY <1>1, AllocBin, InBin
<1> DEFINE bl == bin[q]
<1>3. /\ bl.list \in SUBSET Blocks /\ Shapes /\ Cells(c) \in Nat
      /\ \A b \in Members(bl) : b \in Blocks /\ class[b] = c /\ used[b] \in 0..Cells(c)
  BY <1>2, InBin DEF IInv, BlockLists
<1>4. PICK b \in Members(bl) : TakeCell(t, b) /\ used[b] < Cells(c)
  <2>1. CASE AllocFromCache(t)
    BY <1>2, <1>3, <2>1 DEF AllocFromCache, Usable, Full, Members
  <2>2. CASE AllocFromList(t)
    <3>1. PICK b \in Emptiest(bl.list) : TakeCell(t, b)
      BY <1>2, <2>2 DEF AllocFromList
    <3>2. \A a \in bl.list : class[a] = c /\ used[a] \in 0..Cells(c)
      BY <1>3 DEF Members
    <3>3. b \in bl.list /\ used[b] < Cells(c)
      BY <1>3, <3>2, EmptiestBlock
    <3> QED BY <3>1, <3>3 DEF Members
  <2> QED BY <2>1, <2>2
<1>5. app' = [app EXCEPT ![b] = @ + 1] /\ UNCHANGED class
  BY <1>4 DEF TakeCell
<1>6. b \in Blocks /\ class[b] = c /\ c # 0 /\ app[b] < Cells(c)
  <2>1. b \in Blocks /\ class[b] = c /\ c # 0
    BY <1>3, ClassesRange
  <2> QED BY <1>3, <1>4, <2>1, Numbers
<1> QED BY <1>5, <1>6 DEF Heap!Alloc, Heap!Unused

\* The pools implement the heap of HoardHeap: a cell goes to the application
\* only from a block that has one left, and a block changes its size class
\* only while the application has none of its cells.
THEOREM PoolsImplementHeap == Spec => ImplementsHeap
<1>1. Init => Heap!Init
  BY DEF Init, Heap!Init, Heap!Unused, NoClass
<1>2. IInv /\ [Next]_vars => [Heap!Next]_(Heap!vars)
  <2> SUFFICES ASSUME IInv, [Next]_vars PROVE [Heap!Next]_(Heap!vars)
    OBVIOUS
  <2>1. CASE UNCHANGED <<app, class>>
    BY <2>1 DEF Heap!vars
  <2>2. ASSUME NEW t \in Threads, AllocFromCache(t) \/ AllocFromList(t) PROVE Heap!Next
    BY <2>2, TakeCellAllocs DEF Heap!Next
  <2>3. ASSUME NEW t \in Threads, FreeCall(t) PROVE Heap!Next
    BY <2>3 DEF FreeCall, Heap!Next, Heap!Free
  <2>4. ASSUME NEW t \in Threads, FreshBlock(t) PROVE Heap!Next
    <3>1. pc[t] = "freshBlock"
      BY <2>4 DEF FreshBlock, Goto
    <3>2. reg[t].class \in Classes
      BY <3>1, AllocBin DEF WaitingPcs, MyBin, Bins
    <3>3. PICK b \in pr : class' = [class EXCEPT ![b] = reg[t].class] /\ UNCHANGED app
      BY <2>4 DEF FreshBlock
    <3>4. b \in Blocks /\ app[b] = 0
      <4>1. b \in Blocks /\ used[b] = 0
        BY DEF IInv, Shapes, Counted
      <4> QED BY <4>1, Numbers
    <3> QED BY <3>2, <3>3, <3>4 DEF Heap!Next, Heap!Dedicate
  <2>5. ASSUME NEW t \in Threads, ~AllocFromCache(t), ~AllocFromList(t), ~FreeCall(t), ~FreshBlock(t),
               AllocCall(t) \/ FreeCall(t) \/ ExitCall(t) \/ Step(t)
        PROVE  UNCHANGED <<app, class>>
    BY <2>5 DEF AllocCall, ExitCall, Step, AllocLock, AllocMiss, GlobalLock, GlobalPop, GlobalMiss,
       OutOfBlocks, FreeRead, FreeClass, FreeLock, FreeRetry, FreeLocal, FreeGlobal, FreeLast,
       ReleaseLocal, ReleaseGlobal, FlushNeeded, FlushNotNeeded, FlushPop, FlushNothing, FlushLock, FlushPut, FlushDone, DrainLock, DrainTake, DrainGlobalLock,
       DrainPut, DrainNext
  <2> QED BY <2>1, <2>2, <2>3, <2>4, <2>5 DEF Next, vars
<1> QED BY <1>1, <1>2, IInvInvariant, PTL DEF Spec, ImplementsHeap, Heap!Spec
=============================================================================
