--------------------------- MODULE HoardCells_proof ---------------------------
(***************************************************************************)
(* Proofs about HoardCells, for any number of threads, blocks and size     *)
(* classes, any threshold of the buffers and any layouts.                  *)
(*                                                                         *)
(* The invariant says where every cell carved from a block in use is: with *)
(* a client, or in exactly one list, which may be the block's own or one   *)
(* of a buffer, and then holds cells of one class. From it follow what the *)
(* runs check of cells, counts and objects, and the refinement of          *)
(* HoardHeap.                                                              *)
(***************************************************************************)
EXTENDS HoardCells, SharedLemmas

Own == -1      \* the list of a block, as against the bins of a thread
Lists == (Threads \X Bins) \cup (Blocks \X {Own})
HeadOf(q) == IF q[2] # Own THEN TlabHead(q[1], q[2])
             ELSE IF q[1] \in pr THEN Zero ELSE blk[q[1]].head
Holdings == [q \in Lists |-> Chain(HeadOf(q))]

First(c) == AlignUp(MetaUnits, Size(c))
Capacity(c) == (BlockUnits - First(c)) \div Size(c)
CarvedTo(b, c, n) == {Start(b) + o : o \in {m \in First(c)..(n - 1) : m % Size(c) = 0}}

----------------------------------------------------------------------------
\* Sizes and addresses

\* Multiples of a larger power of two are multiples of a smaller one.
LEMMA AlignedDown ==
  ASSUME NEW u \in Nat, NEW c \in Nat, Aligned(u, c), NEW d \in 0..c
  PROVE  Aligned(u, d)
<1>1. /\ u \div 2^c \in Nat /\ u = (u \div 2^c) * 2^c
      /\ 2^c \in Nat /\ 2^d \in Nat /\ 2^(c - d) \in Nat /\ 2^c = 2^(c - d) * 2^d
  <2>1. c - d \in Nat /\ d \in Nat /\ (c - d) + d = c
    OBVIOUS
  <2>2. 2^((c - d) + d) = 2^(c - d) * 2^d
    BY <2>1, PowerSum
  <2> QED BY <2>1, <2>2, PowerNat, AlignedMultiple
<1> DEFINE i == u \div 2^c
           n == 2^(c - d)
           k == 2^d
<1>2. i \in Nat /\ n \in Nat /\ k \in Nat /\ u = i * (n * k)
  BY <1>1
<1> HIDE DEF i, n, k
<1>3. i * n \in Nat /\ i * (n * k) = (i * n) * k
  BY <1>2
<1>4. Aligned((i * n) * k, d)
  BY <1>3, AlignedMultiple DEF k
<1> QED BY <1>2, <1>3, <1>4

\* The larger of two powers of two has the larger exponent.
LEMMA PowerOrder ==
  ASSUME NEW k \in Nat, NEW c \in Nat, 2^k <= 2^c
  PROVE  k <= c
<1> SUFFICES ASSUME c + 1 <= k PROVE FALSE
  OBVIOUS
<1>1. 2^(c + 1) <= 2^k
  BY PowerGrows
<1>2. 2^(c + 1) = 2 * 2^c /\ 2^c \in Nat \ {0} /\ 2^k \in Nat
  BY PowerNat, PowerStep
<1> QED BY <1>1, <1>2

\* Rounding up to a multiple.
LEMMA RoundedUp ==
  ASSUME NEW n \in Nat, NEW s \in Nat \ {0}
  PROVE  /\ AlignUp(n, s) \in Nat /\ n <= AlignUp(n, s) /\ AlignUp(n, s) < n + s
         /\ \E q \in Nat : AlignUp(n, s) = q * s
<1> DEFINE q == (n + s - 1) \div s
<1>1. n + s - 1 \in Nat
  OBVIOUS
<1>2. q \in Nat /\ q * s <= n + s - 1 /\ n + s - 1 < (q + 1) * s
  BY <1>1, Quotient
<1>3. AlignUp(n, s) = q * s
  BY DEF AlignUp
<1> HIDE DEF q
<1>4. (q + 1) * s = q * s + s /\ q * s \in Nat
  BY <1>2
<1> QED BY <1>2, <1>3, <1>4

\* A block has whole cells of every class, and after its meta data at least one.
LEMMA SizeFacts ==
  ASSUME NEW c \in Classes
  PROVE  /\ c \in Nat /\ Size(c) \in Nat \ {0} /\ First(c) \in Nat \ {0}
         /\ Aligned(BlockUnits, c) /\ Aligned(First(c), c)
         /\ First(c) + Size(c) <= BlockUnits
<1>1. c \in Nat /\ c \in 0..LogMax /\ LogMax \in Nat
  BY BlocksAssumption DEF Classes
<1>2. Size(c) \in Nat \ {0} /\ Size(c) = 2^c /\ Size(c) <= 2^LogMax /\ 2^LogMax \in Nat
  BY <1>1, PowerNat, PowerGrows DEF Size
<1>3. Aligned(BlockUnits, c)
  BY <1>1, BlocksAssumption, AlignedDown DEF Aligned
<1>4. MetaUnits \in Nat \ {0} /\ MetaUnits + Size(c) <= BlockUnits /\ BlockUnits \in Nat
  BY <1>2, BlocksAssumption
<1>5. First(c) \in Nat /\ MetaUnits <= First(c) /\ First(c) < MetaUnits + Size(c)
  BY <1>2, <1>4, RoundedUp DEF First
<1>6. PICK q \in Nat : First(c) = q * Size(c)
  BY <1>2, <1>4, RoundedUp DEF First
<1>7. Aligned(First(c), c)
  <2>1. Aligned(q * 2^c, c)
    BY <1>1, AlignedMultiple
  <2> QED BY <1>2, <1>6, <2>1
<1>8. PICK m \in Nat : BlockUnits = m * Size(c)
  <2>1. BlockUnits \div 2^c \in Nat /\ BlockUnits = (BlockUnits \div 2^c) * 2^c
    BY <1>1, <1>3, <1>4, AlignedMultiple
  <2> QED BY <1>2, <2>1
<1>9. q * Size(c) + Size(c) <= m * Size(c)
  <2> DEFINE s == Size(c)
  <2>1. s \in Nat \ {0} /\ q * s < m * s
    BY <1>2, <1>4, <1>5, <1>6, <1>8
  <2> HIDE DEF s
  <2>2. q < m
    BY <2>1
  <2>3. (q + 1) * s <= m * s /\ (q + 1) * s = q * s + s
    BY <2>1, <2>2
  <2> QED BY <2>3 DEF s
<1> QED BY <1>1, <1>2, <1>3, <1>4, <1>5, <1>6, <1>7, <1>8, <1>9

\* The cells up to an offset: they lie in their block, and there are no more
\* than the block has room for.
LEMMA CellFacts ==
  ASSUME NEW b \in Blocks, NEW c \in Classes, NEW n \in 0..BlockUnits, NEW a \in CarvedTo(b, c, n)
  PROVE  /\ a \in Addresses /\ a \in Nat \ {0} /\ Containing(a) = b /\ Aligned(a, c)
         /\ a + Size(c) <= Start(b) + BlockUnits
         /\ a - Start(b) \in First(c)..(n - 1) /\ Aligned(a - Start(b), c)
<1>1. PICK o \in First(c)..(n - 1) : o % Size(c) = 0 /\ a = Start(b) + o
  BY DEF CarvedTo
<1>2. /\ c \in Nat /\ First(c) \in Nat \ {0} /\ Size(c) \in Nat \ {0} /\ Size(c) = 2^c
      /\ Aligned(BlockUnits, c) /\ BlockUnits \in Nat /\ b \in Nat \ {0}
  BY SizeFacts, BlocksAssumption DEF Size
<1>3. o \in Nat \ {0} /\ o < BlockUnits /\ Aligned(o, c)
  BY <1>1, <1>2 DEF Aligned
<1> DEFINE s == Size(c)
           j == o \div s
           m == BlockUnits \div s
<1>4. j \in Nat /\ o = j * s /\ m \in Nat /\ BlockUnits = m * s
  BY <1>2, <1>3, AlignedMultiple
<1>5. Start(b) = b * BlockUnits /\ Start(b) \in Nat /\ BlockUnits \in Nat \ {0}
  BY <1>2, <1>3 DEF Start
<1>6. Start(b) = (b * m) * s /\ b * m \in Nat
  <2>1. s \in Nat
    BY <1>2
  <2> HIDE DEF m, s
  <2> QED BY <1>2, <1>4, <1>5, <2>1
<1>7. o + s <= BlockUnits
  <2> HIDE DEF j, m
  <2>1. s \in Nat \ {0} /\ j * s < m * s
    BY <1>2, <1>3, <1>4
  <2> HIDE DEF s
  <2>2. j < m
    BY <1>4, <2>1
  <2>3. (j + 1) * s <= m * s /\ (j + 1) * s = j * s + s
    BY <1>4, <2>1, <2>2
  <2> QED BY <1>4, <2>3
<1>8. a = (b * m + j) * s
  <2> HIDE DEF j, m, s
  <2>1. s \in Nat
    BY <1>2 DEF s
  <2> QED BY <1>1, <1>4, <1>6, <2>1
<1>9. Aligned(a, c)
  <2>1. b * m + j \in Nat
    BY <1>4, <1>6
  <2> QED BY <1>2, <1>8, <2>1, AlignedMultiple
<1>10. Containing(a) = b
  <2> DEFINE B == BlockUnits
             q == a \div B
  <2>1. B \in Nat \ {0} /\ a \in Nat /\ a = b * B + o /\ o < B
    BY <1>1, <1>3, <1>5
  <2>2. q \in Nat /\ q * B <= a /\ a < (q + 1) * B
    BY <2>1, Quotient
  <2> HIDE DEF B, q
  <2>3. (b + 1) * B = b * B + B
    BY <1>2, <2>1
  <2>4. q * B < (b + 1) * B /\ b * B < (q + 1) * B
    BY <1>2, <1>3, <2>1, <2>2, <2>3
  <2>5. q < b + 1
    BY <1>2, <2>1, <2>2, <2>4
  <2>6. b < q + 1
    BY <1>2, <2>1, <2>2, <2>4
  <2> QED BY <1>2, <2>2, <2>5, <2>6 DEF Containing, q, B
<1>11. a \in Start(b)..(Start(b) + BlockUnits - 1)
  BY <1>1, <1>2, <1>3, <1>5
<1>12. a \in Addresses
  BY <1>11 DEF Addresses
<1> QED BY <1>1, <1>2, <1>3, <1>5, <1>7, <1>9, <1>10, <1>12
\* What is carved at once: nothing, or one cell more.
LEMMA CarvedNone ==
  ASSUME NEW b, NEW c \in Classes
  PROVE  CarvedTo(b, c, First(c)) = {}
<1>1. First(c) \in Nat
  BY SizeFacts
<1> QED BY <1>1 DEF CarvedTo

LEMMA CarvedNext ==
  ASSUME NEW b \in Blocks, NEW c \in Classes, NEW n \in Nat, First(c) <= n, n < BlockUnits, Aligned(n, c)
  PROVE  /\ n + Size(c) <= BlockUnits /\ Aligned(n + Size(c), c)
         /\ CarvedTo(b, c, n + Size(c)) = CarvedTo(b, c, n) \cup {Start(b) + n}
         /\ Start(b) + n \notin CarvedTo(b, c, n)
<1>1. /\ c \in Nat /\ First(c) \in Nat \ {0} /\ Size(c) \in Nat \ {0} /\ Size(c) = 2^c
      /\ Aligned(BlockUnits, c) /\ BlockUnits \in Nat /\ b \in Nat \ {0}
  BY SizeFacts, BlocksAssumption DEF Size
<1>2. Start(b) \in Nat
  BY <1>1 DEF Start
<1> DEFINE s == Size(c)
           j == n \div s
           m == BlockUnits \div s
<1>3. j \in Nat /\ n = j * s /\ m \in Nat /\ BlockUnits = m * s /\ s \in Nat \ {0}
  BY <1>1, AlignedMultiple
<1>4. (j + 1) * s = n + s /\ n + s <= BlockUnits
  <2> HIDE DEF j, m, s
  <2>1. (j + 1) * s = j * s + s
    BY <1>3
  <2>2. j < m
    BY <1>3
  <2>3. (j + 1) * s <= m * s
    BY <1>3, <2>2
  <2> QED BY <1>3, <2>1, <2>3
<1>5. Aligned(n + s, c)
  <2>1. Aligned((j + 1) * 2^c, c)
    BY <1>1, <1>3, AlignedMultiple
  <2> QED BY <1>1, <1>4, <2>1
<1>6. \A o \in Nat : n <= o /\ o < n + s /\ o % s = 0 => o = n
  <2> SUFFICES ASSUME NEW o \in Nat, n <= o, o < n + s, o % s = 0 PROVE o = n
    OBVIOUS
  <2> DEFINE i == o \div s
  <2>1. i \in Nat /\ o = i * s
    BY <1>1, AlignedMultiple DEF Aligned
  <2> HIDE DEF i, j, s
  <2>2. j < i + 1 /\ i < j + 1
    <3>1. (i + 1) * s = i * s + s
      BY <1>3, <2>1
    <3>2. j * s < (i + 1) * s /\ i * s < (j + 1) * s
      BY <1>3, <1>4, <2>1, <3>1
    <3>3. j < i + 1
      BY <1>3, <2>1, <3>2
    <3>4. i < j + 1
      BY <1>3, <2>1, <3>2
    <3> QED BY <3>3, <3>4
  <2> QED BY <1>3, <2>1, <2>2
<1>7. \A o \in Int : o \in First(c)..((n + s) - 1) /\ o % s = 0
                     <=> (o \in First(c)..(n - 1) /\ o % s = 0) \/ o = n
  <2>1. n % s = 0
    BY <1>1 DEF Aligned
  <2> QED BY <1>1, <1>3, <1>6, <2>1
<1>8. CarvedTo(b, c, n + s) = CarvedTo(b, c, n) \cup {Start(b) + n}
  <2> DEFINE C(k) == {x \in First(c)..(k - 1) : x % s = 0}
  <2>1. C(n + s) = C(n) \cup {n}
    <3>1. C(n + s) \subseteq Int /\ C(n) \cup {n} \subseteq Int
      BY <1>1, <1>3
    <3>2. ASSUME NEW o \in Int PROVE o \in C(n + s) <=> o \in C(n) \cup {n}
      <4>1. /\ o \in C(n + s) <=> o \in First(c)..((n + s) - 1) /\ o % s = 0
            /\ o \in C(n) <=> o \in First(c)..(n - 1) /\ o % s = 0
        OBVIOUS
      <4> HIDE DEF C
      <4> QED BY <1>7, <4>1
    <3> QED BY <3>1, <3>2
  <2> HIDE DEF C
  <2>2. {Start(b) + o : o \in C(n + s)} = {Start(b) + o : o \in C(n)} \cup {Start(b) + n}
    BY <2>1
  <2> QED BY <2>2 DEF CarvedTo, C
<1>9. Start(b) + n \notin CarvedTo(b, c, n)
  BY <1>1, <1>2 DEF CarvedTo
<1> QED BY <1>4, <1>5, <1>8, <1>9

\* A block has no more cells than fit behind its meta data.
LEMMA CellsCounted ==
  ASSUME NEW b \in Blocks, NEW c \in Classes, NEW n \in 0..BlockUnits,
         NEW C \in SUBSET CarvedTo(b, c, n)
  PROVE  /\ IsFiniteSet(C) /\ Cardinality(C) \in Nat /\ Cardinality(C) <= Capacity(c)
         /\ Size(c) * Cardinality(C) \in 0..BlockUnits
<1>1. /\ c \in Nat /\ First(c) \in Nat \ {0} /\ Size(c) \in Nat \ {0} /\ Size(c) = 2^c
      /\ Aligned(BlockUnits, c) /\ Aligned(First(c), c) /\ BlockUnits \in Nat /\ b \in Nat \ {0}
      /\ First(c) <= BlockUnits
  BY SizeFacts, BlocksAssumption DEF Size
<1> DEFINE s == Size(c)
           k == First(c) \div s
           m == BlockUnits \div s
           N == Capacity(c)
<1>2. k \in Nat /\ First(c) = k * s /\ m \in Nat /\ BlockUnits = m * s /\ s \in Nat \ {0}
  BY <1>1, AlignedMultiple
<1>3. k <= m
  <2> HIDE DEF k, m, s
  <2> QED BY <1>1, <1>2
<1>4. N = m - k /\ N \in Nat
  <2>1. BlockUnits - First(c) = (m - k) * s /\ m - k \in Nat
    <3> HIDE DEF k, m, s
    <3> QED BY <1>2, <1>3
  <2>2. ((m - k) * 2^c) \div 2^c = m - k
    <3> HIDE DEF k, m
    <3> QED BY <1>1, <2>1, AlignedMultiple
  <2>3. ((m - k) * s) \div s = m - k
    <3> HIDE DEF k, m
    <3> QED BY <1>1, <2>2
  <2> HIDE DEF k, m
  <2> QED BY <2>1, <2>3 DEF Capacity
<1> DEFINE f == [a \in C |-> (a - Start(b)) \div s]
<1>5. ASSUME NEW a \in C
      PROVE  f[a] \in k..(m - 1) /\ a = Start(b) + f[a] * s
  <2> DEFINE o == a - Start(b)
             i == o \div s
  <2>1. o \in First(c)..(n - 1) /\ Aligned(o, c) /\ a \in Nat /\ Start(b) \in Nat
    BY <1>1, CellFacts DEF Start
  <2>2. o \in Nat /\ o < BlockUnits /\ First(c) <= o
    BY <1>1, <2>1
  <2>3. i \in Nat /\ o = i * s
    BY <1>1, <2>1, <2>2, AlignedMultiple
  <2>4. f[a] = i /\ a = Start(b) + o
    BY <2>1
  <2> HIDE DEF o, i, s, m, k, f
  <2>5. k < i + 1 /\ i < m
    <3>1. i < m
      BY <1>2, <2>2, <2>3
    <3>2. (i + 1) * s = i * s + s
      BY <1>2, <2>3
    <3>3. k * s < (i + 1) * s
      BY <1>2, <2>2, <2>3, <3>2
    <3>4. k < i + 1
      BY <1>2, <2>3, <3>3
    <3> QED BY <3>1, <3>4
  <2> QED BY <1>2, <2>3, <2>4, <2>5
<1>6. f \in Injection(C, k..(m - 1))
  <2> HIDE DEF f, k, m, s
  <2>1. \A x, y \in C : f[x] = f[y] => x = y
    BY <1>5
  <2>2. f \in [C -> k..(m - 1)]
    BY <1>5 DEF f
  <2> QED BY <2>1, <2>2 DEF Injection, IsInjective
<1>7. IsFiniteSet(k..(m - 1)) /\ Cardinality(k..(m - 1)) = N
  <2> HIDE DEF k, m, N
  <2>1. /\ IsFiniteSet(k..(m - 1))
        /\ Cardinality(k..(m - 1)) = IF k > m - 1 THEN 0 ELSE (m - 1) - k + 1
    <3>1. k \in Int /\ m - 1 \in Int
      BY <1>2
    <3> QED BY <3>1, FS_Interval, Zenon
  <2> QED BY <1>2, <1>3, <1>4, <2>1
<1> HIDE DEF f, k, m, N
<1>8. IsFiniteSet(C) /\ Cardinality(C) <= N /\ Cardinality(C) \in Nat
  BY <1>6, <1>7, FS_Injection, FS_CardinalityType
<1>9. s * Cardinality(C) \in 0..BlockUnits
  <2> DEFINE x == Cardinality(C)
  <2>1. x \in Nat /\ x <= m
    BY <1>2, <1>3, <1>4, <1>8
  <2> HIDE DEF x, s
  <2>2. s * x \in Nat /\ s * x <= m * s
    BY <1>2, <2>1
  <2> QED BY <1>2, <2>2 DEF x
<1> QED BY <1>8, <1>9 DEF N
\* What is carved of a block.
LEMMA CarvedIs ==
  ASSUME NEW b \in Blocks
  PROVE  Carved(b) = CarvedTo(b, blk[b].class, blk[b].cursor)
BY DEF Carved, CarvedTo, First

----------------------------------------------------------------------------
\* Layouts

\* The cells of a layout's class have its size and its alignment.
LEMMA Fit ==
  ASSUME NEW l \in Layouts, CanAllocate(l)
  PROVE  /\ FromLayout(l) \in Classes
         /\ l[1] \in Nat \ {0} /\ l[1] <= Size(FromLayout(l))
         /\ \A a \in Nat : Aligned(a, FromLayout(l)) => a % l[2] = 0
<1>1. l[1] \in Nat \ {0}
  BY LayoutsAssumption
<1>2. PICK k \in Nat : l[2] = 2^k
  <2>1. PICK k \in 0..l[2] : l[2] = 2^k
    BY LayoutsAssumption
  <2>2. k \in Nat
    <3> CASE l[2] \in Int
      OBVIOUS
    <3> CASE l[2] \notin Int
      BY <2>1
    <3> QED OBVIOUS
  <2> QED BY <2>1, <2>2
<1> DEFINE n == AlignUp(l[1], l[2])
           T == {c \in 0..n : n <= 2^c}
           c == FromLayout(l)
<1>3. 2^k \in Nat \ {0}
  BY <1>2, PowerNat
<1>4. n \in Nat /\ l[1] <= n /\ l[2] <= n
  <2>1. n \in Nat /\ l[1] <= n
    BY <1>1, <1>2, <1>3, RoundedUp
  <2>2. PICK q \in Nat : n = q * l[2]
    BY <1>1, <1>2, <1>3, RoundedUp
  <2>3. q # 0
    BY <1>1, <1>2, <1>3, <2>1, <2>2
  <2>4. l[2] <= q * l[2]
    <3>1. l[2] \in Nat
      BY <1>2, <1>3
    <3> QED BY <2>2, <2>3, <3>1
  <2> QED BY <2>1, <2>2, <2>4
<1> HIDE DEF n
<1>5. n \in T /\ T \in SUBSET Nat
  BY <1>4, PowerAbove
<1>6. PICK m \in T : \A i \in T : m <= i
  BY <1>5, NatMin
<1>7. m \in 0..n /\ n <= 2^m /\ (m = 0 \/ 2^(m - 1) < n)
  <2>1. m \in 0..n /\ n <= 2^m
    BY <1>6
  <2>2. ASSUME m # 0 PROVE 2^(m - 1) < n
    <3>1. m - 1 \in 0..n /\ m - 1 \in Nat /\ m - 1 \notin T
      BY <1>4, <1>6, <2>1, <2>2
    <3>2. ~(n <= 2^(m - 1)) /\ 2^(m - 1) \in Nat
      BY <3>1, PowerNat
    <3> QED BY <1>4, <3>2
  <2> QED BY <2>1, <2>2
<1>8. c \in 0..n /\ n <= 2^c
  <2>1. c = CHOOSE i \in 0..n : n <= 2^i /\ (i = 0 \/ 2^(i - 1) < n)
    BY DEF FromLayout, n
  <2> HIDE DEF c
  <2> QED BY <1>7, <2>1
<1> HIDE DEF c
<1>9. c \in Nat /\ c <= LogMax /\ LogMax \in Nat /\ 2^c \in Nat
  BY <1>4, <1>8, BlocksAssumption, PowerNat DEF CanAllocate, c
<1>10. c \in Classes /\ l[1] <= Size(c)
  BY <1>1, <1>4, <1>8, <1>9 DEF Classes, Size
<1>11. k <= c
  <2>1. 2^k <= 2^c
    BY <1>2, <1>3, <1>4, <1>8, <1>9
  <2> QED BY <1>2, <1>9, <2>1, PowerOrder
<1>12. ASSUME NEW a \in Nat, Aligned(a, c) PROVE a % l[2] = 0
  <2>1. Aligned(a, k)
    BY <1>2, <1>9, <1>11, <1>12, AlignedDown
  <2> QED BY <1>2, <2>1 DEF Aligned
<1> QED BY <1>1, <1>10, <1>12 DEF c

----------------------------------------------------------------------------
\* The invariant

Links == Addresses \cup {Zero}
Meta == [class : Classes, cursor : 0..(2 * BlockUnits), used : 0..BlockUnits, head : Links]
Dead == [at |-> "dead"]
Calls == {Idle, Dead} \cup [at : {"refilled"}, block : Blocks, layout : Layouts]
         \cup [at : {"clearing"}, class : Bins, cell : Links]

Shapes ==
  /\ blk \in [Blocks -> Meta] /\ pr \in SUBSET Blocks
  /\ word \in [Addresses -> Links \cup {Data}]
  /\ bins \in [Threads -> [Bins -> Links]]
  /\ bytes \in [Threads -> 0..Threshold]
  /\ call \in [Threads -> Calls]

CarvedCells == UNION {Carved(b) : b \in Blocks \ pr}
LiveCells == {o[1] : o \in live}
Kinds == [b \in Blocks |-> blk[b].class]

\* P says what cells are in which list: each is one of Z that is not in L, is in
\* one list only and where it belongs, a block's class being what k says, and
\* every such cell has its list.
Placed(P, Z, L, k) ==
  /\ \A q \in Lists : \A a \in P[q] :
       /\ a \in Z \ L
       /\ q[2] = Own => Containing(a) = q[1]
       /\ q[2] # Own => k[Containing(a)] = q[2]
  /\ \A q1, q2 \in Lists : q1 # q2 => P[q1] \cap P[q2] = {}
  /\ \A a \in Z \ L : \E q \in Lists : a \in P[q]

Linked == \A q \in Lists : Listed(Holdings[q], HeadOf(q), word, Zero)

\* The clients' objects, each in a cell of its own.
Fits(o) ==
  /\ o[1] \in CarvedCells
  /\ o[2] \in Nat /\ o[2] <= Size(blk[Containing(o[1])].class) /\ o[1] % o[3] = 0
Fitting == (\A o \in live : Fits(o)) /\ \A o, p \in live : o[1] = p[1] => o = p

\* The cursor of a block in use, and its count.
BlockSound(b) ==
  /\ Aligned(blk[b].cursor, blk[b].class)
  /\ blk[b].cursor \in First(blk[b].class)..BlockUnits
  /\ blk[b].used = Size(blk[b].class) * Cardinality(Carved(b) \ Holdings[<<b, Own>>])

Weights(t) == [c \in Bins |-> Size(c) * Cardinality(Holdings[<<t, c>>])]

\* What a thread is in the middle of.
CallSound(t) ==
  /\ call[t].at \in {"idle", "refilled"} => bytes[t] = Total(Weights(t), Bins)
  /\ call[t].at = "refilled" =>
       /\ call[t].block \in Blocks \ pr /\ Served(call[t].layout)
       /\ blk[call[t].block] = InitBlock(FromLayout(call[t].layout))
       /\ \A u \in Threads \ {t} : call[u].at = "refilled" => call[u].block # call[t].block
  /\ call[t].at = "clearing" => \A c \in Bins : c < call[t].class => bins[t][c] = Zero
  /\ call[t].at = "dead" => \A c \in Bins : bins[t][c] = Zero

IInv ==
  /\ Shapes
  /\ Placed(Holdings, CarvedCells, LiveCells, Kinds)
  /\ Linked
  /\ Fitting
  /\ \A b \in Blocks \ pr : BlockSound(b)
  /\ \A t \in Threads : CallSound(t)

----------------------------------------------------------------------------
\* Lists

LEMMA ListKinds ==
  /\ \A q \in Lists : /\ q = <<q[1], q[2]>>
                      /\ IF q[2] = Own THEN q[1] \in Blocks
                         ELSE q[1] \in Threads /\ q[2] \in Bins
  /\ \A t \in Threads, c \in Bins : <<t, c>> \in Lists /\ c # Own
  /\ \A b \in Blocks : <<b, Own>> \in Lists
<1>1. Bins \subseteq Nat /\ Own \notin Nat
  BY BuffersAssumption, BlocksAssumption DEF Bins, Own
<1>2. ASSUME NEW q \in Lists
      PROVE  /\ q = <<q[1], q[2]>>
             /\ IF q[2] = Own THEN q[1] \in Blocks ELSE q[1] \in Threads /\ q[2] \in Bins
  <2>1. CASE q \in Threads \X Bins
    <3>1. q = <<q[1], q[2]>> /\ q[1] \in Threads /\ q[2] \in Bins
      BY <2>1
    <3> QED BY <1>1, <3>1
  <2>2. CASE q \in Blocks \X {Own}
    BY <2>2
  <2> QED BY <2>1, <2>2 DEF Lists
<1>3. \A t \in Threads, c \in Bins : <<t, c>> \in Lists /\ c # Own
  BY <1>1 DEF Lists
<1>4. \A b \in Blocks : <<b, Own>> \in Lists
  BY DEF Lists
<1> QED BY <1>2, <1>3, <1>4

LEMMA Numbers ==
  /\ Addresses \subseteq Nat \ {0} /\ Zero \notin Addresses /\ Data \notin Addresses
  /\ IsFiniteSet(Addresses) /\ IsFiniteSet(Bins) /\ Bins \subseteq Classes
  /\ BlockUnits \in Nat \ {0} /\ Threshold \in Nat
<1>1. BlockUnits \in Nat \ {0} /\ Blocks \subseteq Nat \ {0} /\ LogMax \in Nat
  <2>1. 2^LogMax \in Nat
    BY BlocksAssumption, PowerNat
  <2> QED BY <2>1, BlocksAssumption
<1>2. \A b \in Blocks : Start(b) \in Nat \ {0}
  BY <1>1 DEF Start
<1>3. Addresses \subseteq Nat \ {0}
  BY <1>1, <1>2 DEF Addresses
<1>4. IsFiniteSet(Addresses)
  <2> DEFINE A(b) == Start(b)..(Start(b) + BlockUnits - 1)
  <2>1. \A b \in Blocks : IsFiniteSet(A(b))
    BY <1>1, <1>2, FS_Interval
  <2>2. IsFiniteSet({A(b) : b \in Blocks})
    <3> DEFINE T == {A(b) : b \in Blocks}
               f == [b \in Blocks |-> A(b)]
    <3>1. f \in Surjection(Blocks, T)
      BY DEF Surjection
    <3> QED BY <3>1, BlocksAssumption, FS_Surjection
  <2> QED BY <2>1, <2>2, FS_UNION DEF Addresses
<1>5. IsFiniteSet(Bins) /\ Bins \subseteq Classes
  BY <1>1, BuffersAssumption, FS_Interval DEF Bins, Classes
<1> QED BY <1>1, <1>3, <1>4, <1>5, BuffersAssumption DEF Zero, Data
\* The cells of a list.
LEMMA Held ==
  ASSUME IInv, NEW q \in Lists
  PROVE  /\ Holdings[q] = Chain(HeadOf(q)) /\ Holdings[q] \in SUBSET CarvedCells
         /\ Holdings[q] \cap LiveCells = {}
         /\ \A a \in Holdings[q] : /\ q[2] = Own => Containing(a) = q[1]
                                   /\ q[2] # Own => blk[Containing(a)].class = q[2]
         /\ \A z \in Lists \ {q} : Holdings[q] \cap Holdings[z] = {}
         /\ Listed(Holdings[q], HeadOf(q), word, Zero)
<1>1. Placed(Holdings, CarvedCells, LiveCells, Kinds)
  BY DEF IInv
<1>2. /\ Holdings[q] \subseteq CarvedCells \ LiveCells
      /\ \A a \in Holdings[q] : /\ q[2] = Own => Containing(a) = q[1]
                                /\ q[2] # Own => Kinds[Containing(a)] = q[2]
      /\ \A z \in Lists \ {q} : Holdings[q] \cap Holdings[z] = {}
  BY <1>1 DEF Placed
<1>3. Holdings[q] = Chain(HeadOf(q))
  BY DEF Holdings
<1>4. \A a \in CarvedCells : Containing(a) \in Blocks
  <2> SUFFICES ASSUME NEW b \in Blocks \ pr, NEW a \in Carved(b) PROVE Containing(a) \in Blocks
    BY DEF CarvedCells
  <2>1. blk[b].class \in Classes /\ blk[b].cursor \in 0..BlockUnits
    <3>1. First(blk[b].class) \in Nat /\ blk[b].class \in Classes
      BY SizeFacts DEF IInv, Shapes, Meta
    <3>2. blk[b].cursor \in First(blk[b].class)..BlockUnits
      BY DEF IInv, BlockSound
    <3> QED BY <3>1, <3>2, Numbers
  <2> QED BY <2>1, CarvedIs, CellFacts
<1>5. Listed(Holdings[q], HeadOf(q), word, Zero)
  BY DEF IInv, Linked
<1> QED BY <1>2, <1>3, <1>4, <1>5 DEF Kinds

LEMMA BlockParts ==
  ASSUME Shapes, NEW b \in Blocks
  PROVE  /\ blk[b].class \in Classes /\ blk[b].used \in 0..BlockUnits /\ blk[b].head \in Links
         /\ blk[b].cursor \in Nat /\ blk[b].cursor <= 2 * BlockUnits
BY DEF Shapes, Meta

\* The cells carved from a block in use.
LEMMA CellIn ==
  ASSUME IInv, NEW b \in Blocks \ pr
  PROVE  /\ blk[b].class \in Classes /\ blk[b].cursor \in 0..BlockUnits
         /\ Carved(b) = CarvedTo(b, blk[b].class, blk[b].cursor)
         /\ Carved(b) \in SUBSET CarvedCells
         /\ \A a \in Carved(b) :
              /\ a \in Addresses /\ a \in Nat \ {0} /\ Containing(a) = b
              /\ Aligned(a, blk[b].class)
              /\ a + Size(blk[b].class) <= Start(b) + BlockUnits
<1>1. blk[b].class \in Classes /\ First(blk[b].class) \in Nat
  BY SizeFacts DEF IInv, Shapes, Meta
<1>2. blk[b].cursor \in 0..BlockUnits
  <2>1. blk[b].cursor \in First(blk[b].class)..BlockUnits
    BY DEF IInv, BlockSound
  <2> QED BY <1>1, <2>1, Numbers
<1>3. Carved(b) = CarvedTo(b, blk[b].class, blk[b].cursor)
  BY CarvedIs
<1>4. Carved(b) \subseteq CarvedCells
  BY DEF CarvedCells
<1> QED BY <1>1, <1>2, <1>3, <1>4, CellFacts

LEMMA CellOf ==
  ASSUME IInv, NEW a \in CarvedCells
  PROVE  /\ Containing(a) \in Blocks \ pr /\ a \in Carved(Containing(a))
         /\ a \in Addresses /\ a \in Nat \ {0}
<1>1. PICK b \in Blocks \ pr : a \in Carved(b)
  BY DEF CarvedCells
<1> QED BY <1>1, CellIn

\* A list of IInv is a list of cells.
LEMMA HeldAddresses ==
  ASSUME IInv, NEW q \in Lists
  PROVE  /\ Holdings[q] \in SUBSET Addresses /\ Zero \notin Holdings[q] /\ IsFiniteSet(Holdings[q])
         /\ HeadOf(q) \in Holdings[q] \cup {Zero} /\ (HeadOf(q) = Zero <=> Holdings[q] = {})
         /\ \A a \in Holdings[q] : word[a] \in Links
<1>1. Holdings[q] \in SUBSET Addresses /\ Zero \notin Holdings[q]
  BY Held, CellOf, Numbers
<1>2. IsFiniteSet(Holdings[q])
  BY <1>1, Numbers, FS_Subset
<1>3. Listed(Holdings[q], HeadOf(q), word, Zero)
  BY Held
<1>4. /\ HeadOf(q) \in Holdings[q] \cup {Zero} /\ (HeadOf(q) = Zero <=> Holdings[q] = {})
      /\ \A a \in Holdings[q] : word[a] \in Holdings[q] \cup {Zero}
  <2> DEFINE L == Holdings[q]
             h == HeadOf(q)
  <2>1. Listed(L, h, word, Zero) /\ Zero \notin L
    BY <1>1, <1>3
  <2> HIDE DEF L, h
  <2>2. /\ h \in L \cup {Zero} /\ (h = Zero <=> L = {})
        /\ \A a \in L : word[a] \in L \cup {Zero}
    BY <2>1, ListedLinks
  <2> QED BY <2>2 DEF L, h
<1> QED BY <1>1, <1>2, <1>4 DEF Links

----------------------------------------------------------------------------
\* What changes place

\* A cell is taken from its list.
LEMMA PlacedPop ==
  ASSUME NEW Z, NEW L, NEW k, NEW P, P = [q \in Lists |-> P[q]], Placed(P, Z, L, k),
         NEW q \in Lists, NEW a \in P[q]
  PROVE  Placed([P EXCEPT ![q] = @ \ {a}], Z, L \cup {a}, k)
<1> DEFINE R == [P EXCEPT ![q] = @ \ {a}]
<1>1. R[q] = P[q] \ {a} /\ \A z \in Lists \ {q} : R[z] = P[z]
  OBVIOUS
<1>2. \A z \in Lists \ {q} : a \notin P[z]
  BY DEF Placed
<1>3. \A z \in Lists : R[z] = P[z] \ {a}
  BY <1>1, <1>2
<1> HIDE DEF R
<1>4. Placed(R, Z, L \cup {a}, k)
  BY <1>3 DEF Placed
<1> QED BY <1>4 DEF R

\* A cell that was in no list is put into one.
LEMMA PlacedPush ==
  ASSUME NEW Z, NEW L, NEW k, NEW P, P = [q \in Lists |-> P[q]], Placed(P, Z, L, k),
         NEW q \in Lists, NEW a \in Z \cap L,
         IF q[2] = Own THEN Containing(a) = q[1] ELSE k[Containing(a)] = q[2]
  PROVE  Placed([P EXCEPT ![q] = @ \cup {a}], Z, L \ {a}, k)
<1> DEFINE R == [P EXCEPT ![q] = @ \cup {a}]
<1>1. R[q] = P[q] \cup {a} /\ \A z \in Lists \ {q} : R[z] = P[z]
  OBVIOUS
<1>2. \A z \in Lists : a \notin P[z]
  BY DEF Placed
<1> HIDE DEF R
<1>3. ASSUME NEW z \in Lists, NEW x \in R[z]
      PROVE  /\ x \in Z \ (L \ {a})
             /\ z[2] = Own => Containing(x) = z[1]
             /\ z[2] # Own => k[Containing(x)] = z[2]
  <2>1. CASE x \in P[z]
    BY <1>2, <2>1 DEF Placed
  <2>2. CASE x \notin P[z]
    BY <1>1, <1>3, <2>2
  <2> QED BY <2>1, <2>2
<1>4. ASSUME NEW q1 \in Lists, NEW q2 \in Lists, q1 # q2 PROVE R[q1] \cap R[q2] = {}
  <2>1. P[q1] \cap P[q2] = {}
    BY <1>4 DEF Placed
  <2> QED BY <1>1, <1>2, <1>4, <2>1
<1>5. ASSUME NEW x \in Z \ (L \ {a}) PROVE \E z \in Lists : x \in R[z]
  <2>1. CASE x = a
    BY <1>1, <2>1
  <2>2. CASE x # a
    <3>1. PICK z \in Lists : x \in P[z]
      BY <2>2 DEF Placed
    <3> QED BY <1>1, <3>1
  <2> QED BY <2>1, <2>2
<1>6. Placed(R, Z, L \ {a}, k)
  BY <1>3, <1>4, <1>5 DEF Placed
<1> QED BY <1>6 DEF R

\* A cell is carved and handed out.
LEMMA PlacedNew ==
  ASSUME NEW Z, NEW L, NEW k, NEW P, Placed(P, Z, L, k), NEW a, a \notin Z
  PROVE  Placed(P, Z \cup {a}, L \cup {a}, k)
BY DEF Placed

\* A block goes whose cells are all in its own list.
LEMMA PlacedRelease ==
  ASSUME NEW Z, NEW L, NEW k, NEW P, P = [q \in Lists |-> P[q]], Placed(P, Z, L, k),
         NEW b \in Blocks, NEW C, \A a \in Z : a \in C <=> Containing(a) = b,
         \A q \in Lists \ {<<b, Own>>} : P[q] \cap C = {}
  PROVE  Placed([P EXCEPT ![<<b, Own>>] = {}], Z \ C, L, k)
<1> DEFINE o == <<b, Own>>
           R == [P EXCEPT ![o] = {}]
<1>1. o \in Lists /\ o[1] = b /\ o[2] = Own
  BY ListKinds
<1>2. R[o] = {} /\ \A z \in Lists \ {o} : R[z] = P[z]
  BY <1>1
<1>3. P[o] \subseteq C
  BY <1>1 DEF Placed
<1> HIDE DEF R, o
<1>4. ASSUME NEW z \in Lists, NEW x \in R[z]
      PROVE  /\ x \in (Z \ C) \ L
             /\ z[2] = Own => Containing(x) = z[1]
             /\ z[2] # Own => k[Containing(x)] = z[2]
  <2>1. z # o /\ x \in P[z]
    BY <1>2, <1>4
  <2> QED BY <2>1 DEF Placed, o
<1>5. ASSUME NEW q1 \in Lists, NEW q2 \in Lists, q1 # q2 PROVE R[q1] \cap R[q2] = {}
  <2>1. P[q1] \cap P[q2] = {}
    BY <1>5 DEF Placed
  <2> QED BY <1>2, <2>1
<1>6. ASSUME NEW x \in (Z \ C) \ L PROVE \E z \in Lists : x \in R[z]
  <2>1. PICK z \in Lists : x \in P[z]
    BY DEF Placed
  <2> QED BY <1>2, <1>3, <2>1
<1>7. Placed(R, Z \ C, L, k)
  BY <1>4, <1>5, <1>6 DEF Placed
<1> QED BY <1>7 DEF R, o
\* If the lists are those of P after a step, P is what they hold.
LEMMA Rearranged ==
  ASSUME NEW P, P = [q \in Lists |-> P[q]], Placed(P, CarvedCells', LiveCells', Kinds'),
         word' \in [Addresses -> Links \cup {Data}],
         \A q \in Lists : P[q] \in SUBSET Addresses /\ Listed(P[q], HeadOf(q)', word', Zero)
  PROVE  Holdings' = P /\ Placed(Holdings, CarvedCells, LiveCells, Kinds)' /\ Linked'
<1>1. ASSUME NEW q \in Lists PROVE Chain(HeadOf(q))' = P[q]
  <2> DEFINE w == word'
             h == HeadOf(q)'
  <2>1. DOMAIN w = Addresses /\ IsFiniteSet(DOMAIN w) /\ Zero \notin DOMAIN w
    BY Numbers
  <2>2. P[q] \in SUBSET DOMAIN w /\ Listed(P[q], h, w, Zero)
    BY <2>1
  <2> HIDE DEF w, h
  <2>3. ListCells(h, w, Zero) = P[q]
    BY <2>1, <2>2, ListedFollowed
  <2> QED BY <2>3 DEF Chain, w, h
<1>2. Holdings' = [q \in Lists |-> P[q]]
  BY <1>1 DEF Holdings
<1>3. Holdings' = P
  BY <1>2
<1>4. Linked'
  BY <1>3 DEF Linked
<1> QED BY <1>3, <1>4

\* The lists of the buffers start where they did, and so do those of the blocks
\* outside D.
SameHeads(D) ==
  /\ \A t \in Threads, c \in Bins : TlabHead(t, c)' = TlabHead(t, c)
  /\ \A b \in Blocks \ D : blk'[b] = blk[b] /\ (b \in pr' <=> b \in pr)

LEMMA HeadsKept ==
  ASSUME NEW D, SameHeads(D), NEW q \in Lists, q[2] = Own => q[1] \notin D
  PROVE  HeadOf(q)' = HeadOf(q)
<1>1. CASE q[2] = Own
  BY <1>1, ListKinds DEF HeadOf, SameHeads
<1>2. CASE q[2] # Own
  BY <1>2, ListKinds DEF HeadOf, SameHeads
<1> QED BY <1>1, <1>2

\* What the blocks outside D have stays.
LEMMA BlocksKept ==
  ASSUME IInv, NEW D, SameHeads(D), NEW d \in Blocks \ D,
         Holdings'[<<d, Own>>] = Holdings[<<d, Own>>]
  PROVE  /\ Carved(d)' = Carved(d)
         /\ d \notin pr' => BlockSound(d)'
<1>1. blk'[d] = blk[d] /\ (d \in pr' <=> d \in pr)
  BY DEF SameHeads
<1>2. Carved(d)' = Carved(d)
  BY <1>1 DEF Carved
<1>3. d \notin pr => BlockSound(d)
  BY DEF IInv
<1> QED BY <1>1, <1>2, <1>3 DEF BlockSound

----------------------------------------------------------------------------
\* A cell is taken from a block

\* The cell of the block b, and where the others are then: P.
Taken(b, a, P) ==
  /\ a \in Addresses /\ a \notin LiveCells /\ a \in Carved(b)' /\ a \notin Carved(b) \ Holdings[<<b, Own>>]
  /\ P = [q \in Lists |-> P[q]]
  /\ \A q \in Lists : P[q] \subseteq Holdings[q] /\ a \notin P[q]
  /\ \A q \in Lists \ {<<b, Own>>} : P[q] = Holdings[q]
  /\ Placed(P, CarvedCells', LiveCells \cup {a}, Kinds) /\ CarvedCells \subseteq CarvedCells'
  /\ Listed(P[<<b, Own>>], blk'[b].head, word, Zero)
  /\ Carved(b)' \ P[<<b, Own>>] = (Carved(b) \ Holdings[<<b, Own>>]) \cup {a}
  /\ blk'[b].head \in Links
  /\ Aligned(blk'[b].cursor, blk[b].class)
  /\ blk'[b].cursor \in First(blk[b].class)..BlockUnits

\* The fields of the block afterwards.
LEMMA AllocFields ==
  ASSUME IInv, NEW b \in Blocks, AllocCell(b)
  PROVE  /\ blk'[b] = [class |-> blk'[b].class, cursor |-> blk'[b].cursor,
                       used |-> blk'[b].used, head |-> blk'[b].head]
         /\ blk'[b].class = blk[b].class /\ blk'[b].used = blk[b].used + Size(blk[b].class)
         /\ blk[b].cursor < BlockUnits => /\ blk'[b].cursor = blk[b].cursor + Size(blk[b].class)
                                          /\ blk'[b].head = blk[b].head
         /\ ~(blk[b].cursor < BlockUnits) => /\ blk'[b].cursor = blk[b].cursor
                                             /\ blk'[b].head = word[blk[b].head]
         /\ \A d \in Blocks \ {b} : blk'[d] = blk[d]
         /\ DOMAIN blk' = Blocks
<1>1. blk \in [Blocks -> Meta]
  BY DEF IInv, Shapes
<1>2. blk[b] \in Meta
  BY <1>1
<1>3. DOMAIN blk[b] = {"class", "cursor", "used", "head"}
  BY <1>2 DEF Meta
<1> QED BY <1>1, <1>2, <1>3 DEF AllocCell, Meta

LEMMA CarvedOthers ==
  ASSUME NEW b \in Blocks, pr' = pr, \A d \in Blocks \ {b} : blk'[d] = blk[d], b \notin pr,
         NEW C, Carved(b)' = Carved(b) \cup C
  PROVE  CarvedCells' = CarvedCells \cup C
<1>1. \A d \in Blocks \ {b} : Carved(d)' = Carved(d)
  BY DEF Carved
<1>2. \A x : x \in CarvedCells' <=> \E d \in Blocks \ pr' : x \in Carved(d)'
  BY DEF CarvedCells
<1>3. \A x : x \in CarvedCells <=> \E d \in Blocks \ pr : x \in Carved(d)
  BY DEF CarvedCells
<1>4. ASSUME NEW x PROVE x \in CarvedCells' <=> x \in CarvedCells \cup C
  <2>1. CASE x \in CarvedCells'
    <3>1. PICK d \in Blocks \ pr' : x \in Carved(d)'
      BY <1>2, <2>1
    <3>2. CASE d = b
      BY <1>3, <2>1, <3>1, <3>2
    <3>3. CASE d # b
      BY <1>1, <1>3, <2>1, <3>1, <3>3
    <3> QED BY <3>2, <3>3
  <2>2. CASE x \in CarvedCells
    <3>1. PICK d \in Blocks \ pr : x \in Carved(d)
      BY <1>3, <2>2
    <3>2. x \in Carved(d)'
      BY <1>1, <3>1
    <3> QED BY <1>2, <2>2, <3>1, <3>2
  <2>3. CASE x \in C
    BY <1>2, <2>3
  <2> QED BY <2>1, <2>2, <2>3
<1> QED BY <1>4

\* By the cursor.
LEMMA TakenNew ==
  ASSUME IInv, NEW b \in Blocks \ pr, AllocCell(b), pr' = pr, blk[b].cursor < BlockUnits
  PROVE  Taken(b, NextCell(b), Holdings)
<1> DEFINE c == blk[b].class
           n == blk[b].cursor
           a == NextCell(b)
           o == <<b, Own>>
<1>1. c \in Classes /\ n \in Nat /\ First(c) \in Nat /\ First(c) <= n /\ Aligned(n, c)
  <2>1. c \in Classes /\ n \in First(c)..BlockUnits /\ Aligned(n, c)
    BY CellIn DEF IInv, BlockSound
  <2> QED BY <2>1, SizeFacts
<1>2. a = Start(b) + n
  BY DEF NextCell
<1>3. /\ blk'[b].cursor = n + Size(c) /\ blk'[b].class = c /\ blk'[b].head = blk[b].head
      /\ \A d \in Blocks \ {b} : blk'[d] = blk[d]
  BY AllocFields
<1>4. /\ n + Size(c) <= BlockUnits /\ Aligned(n + Size(c), c) /\ Size(c) \in Nat
      /\ CarvedTo(b, c, n + Size(c)) = CarvedTo(b, c, n) \cup {a}
      /\ a \notin CarvedTo(b, c, n)
  BY <1>1, <1>2, CarvedNext, SizeFacts
<1>5. Carved(b) = CarvedTo(b, c, n) /\ Carved(b)' = Carved(b) \cup {a}
  <2>1. Carved(b) = CarvedTo(b, c, n)
    BY CarvedIs
  <2>2. Carved(b)' = CarvedTo(b, blk'[b].class, blk'[b].cursor)
    BY DEF Carved, CarvedTo, First
  <2> QED BY <1>3, <1>4, <2>1, <2>2
<1>6. a \in Addresses /\ Containing(a) = b
  <2>1. n + Size(c) \in 0..BlockUnits /\ a \in CarvedTo(b, c, n + Size(c))
    BY <1>1, <1>4, Numbers
  <2> QED BY <1>1, <2>1, CellFacts
<1>7. a \notin CarvedCells
  <2>1. a \notin Carved(b)
    BY <1>4, <1>5
  <2> QED BY <1>6, <2>1, CellOf
<1>8. CarvedCells' = CarvedCells \cup {a}
  BY <1>3, <1>5, CarvedOthers
<1>9. o \in Lists /\ o[1] = b /\ o[2] = Own
  BY ListKinds
<1>10. a \notin LiveCells /\ \A q \in Lists : a \notin Holdings[q]
  <2>1. LiveCells \subseteq CarvedCells
    BY DEF IInv, Fitting, Fits, LiveCells
  <2> QED BY <1>7, <2>1, Held
<1>11. Placed(Holdings, CarvedCells', LiveCells \cup {a}, Kinds)
  <2>1. Placed(Holdings, CarvedCells, LiveCells, Kinds)
    BY DEF IInv
  <2> QED BY <1>7, <1>8, <2>1, PlacedNew
<1>12. Listed(Holdings[o], blk'[b].head, word, Zero) /\ blk'[b].head \in Links
  <2>1. HeadOf(o) = blk[b].head
    BY <1>9 DEF HeadOf
  <2> QED BY <1>3, <1>9, <2>1, Held, BlockParts DEF IInv
<1>13. Holdings = [q \in Lists |-> Holdings[q]]
  BY DEF Holdings
<1>14. Carved(b)' \ Holdings[o] = (Carved(b) \ Holdings[o]) \cup {a}
  BY <1>5, <1>9, <1>10
<1>15. blk'[b].cursor \in First(c)..BlockUnits
  BY <1>1, <1>3, <1>4, Numbers
<1>16. a \notin Carved(b)
  BY <1>4, <1>5
<1> HIDE DEF a, o, c, n
<1>17. Taken(b, a, Holdings)
  BY <1>3, <1>4, <1>5, <1>6, <1>8, <1>10, <1>11, <1>12, <1>13, <1>14, <1>15, <1>16 DEF Taken, o, c, n
<1> QED BY <1>17 DEF a

\* From the list of free cells.
LEMMA TakenPopped ==
  ASSUME IInv, NEW b \in Blocks \ pr, AllocCell(b), pr' = pr,
         ~(blk[b].cursor < BlockUnits), ~IsFull(blk[b])
  PROVE  Taken(b, NextCell(b), [Holdings EXCEPT ![<<b, Own>>] = @ \ {NextCell(b)}])
<1> DEFINE c == blk[b].class
           n == blk[b].cursor
           a == NextCell(b)
           o == <<b, Own>>
           P == [Holdings EXCEPT ![o] = @ \ {a}]
<1>1. n = BlockUnits /\ Aligned(n, c) /\ n \in First(c)..BlockUnits
  <2>1. n \in 0..BlockUnits /\ Aligned(n, c) /\ n \in First(c)..BlockUnits
    BY CellIn DEF IInv, BlockSound
  <2> QED BY <2>1, Numbers
<1>2. a = blk[b].head /\ a # Zero
  BY <1>1, Numbers DEF NextCell, IsFull
<1>3. /\ blk'[b].cursor = n /\ blk'[b].class = c /\ blk'[b].head = word[a]
      /\ \A d \in Blocks \ {b} : blk'[d] = blk[d]
  BY <1>2, AllocFields
<1>4. o \in Lists /\ o[1] = b /\ o[2] = Own
  BY ListKinds
<1>5. HeadOf(o) = a
  BY <1>2, <1>4 DEF HeadOf
<1>6. a \in Holdings[o] /\ Holdings[o] \subseteq Addresses /\ word[a] \in Links
  <2>1. /\ Holdings[o] \in SUBSET Addresses /\ HeadOf(o) \in Holdings[o] \cup {Zero}
        /\ \A x \in Holdings[o] : word[x] \in Links
    BY <1>4, HeldAddresses
  <2> HIDE DEF a, o
  <2>2. a \in Holdings[o]
    BY <1>2, <1>5, <2>1
  <2> QED BY <2>1, <2>2
<1>7. Carved(b)' = Carved(b) /\ CarvedCells' = CarvedCells
  <2>1. Carved(b)' = Carved(b)
    BY <1>3 DEF Carved
  <2>2. CarvedCells' = CarvedCells \cup {}
    BY <1>3, <2>1, CarvedOthers
  <2> QED BY <2>1, <2>2
<1>8. Holdings = [q \in Lists |-> Holdings[q]]
  BY DEF Holdings
<1>9. /\ P = [q \in Lists |-> P[q]] /\ P[o] = Holdings[o] \ {a}
      /\ \A q \in Lists \ {o} : P[q] = Holdings[q]
  BY <1>4, <1>8
<1>10. Placed(P, CarvedCells', LiveCells \cup {a}, Kinds)
  <2>1. Placed(Holdings, CarvedCells, LiveCells, Kinds)
    BY DEF IInv
  <2> HIDE DEF a, o
  <2>2. Placed([Holdings EXCEPT ![o] = @ \ {a}], CarvedCells, LiveCells \cup {a}, Kinds)
    BY <1>4, <1>6, <1>8, <2>1, PlacedPop
  <2> QED BY <1>7, <2>2
<1>11. Listed(P[o], word[a], word, Zero)
  <2> DEFINE L == Holdings[o]
  <2>1. a \in L /\ Listed(L, a, word, Zero)
    BY <1>4, <1>5, <1>6, Held
  <2> HIDE DEF L, P, a
  <2>2. Listed(L \ {a}, word[a], word, Zero)
    BY <2>1, ListedPop
  <2> QED BY <1>9, <2>2 DEF L
<1>12. a \in Carved(b) /\ a \notin LiveCells
  <2>1. a \in CarvedCells /\ a \notin LiveCells /\ Containing(a) = b
    BY <1>4, <1>6, Held
  <2> QED BY <2>1, CellOf
<1>13. \A q \in Lists : P[q] \subseteq Holdings[q] /\ a \notin P[q]
  BY <1>4, <1>6, <1>9, Held
<1>14. Carved(b)' \ P[o] = (Carved(b) \ Holdings[o]) \cup {a}
  BY <1>7, <1>9, <1>12
<1>15. a \in Addresses
  BY <1>6
<1> HIDE DEF a, o, c, n, P
<1>16. Taken(b, a, P)
  BY <1>1, <1>3, <1>6, <1>7, <1>9, <1>10, <1>11, <1>12, <1>13, <1>14, <1>15 DEF Taken, o, c, n
<1> QED BY <1>16 DEF a, P, o
\* What holds of the blocks, the lists and the objects, whatever the calls say.
StoreSound ==
  /\ blk \in [Blocks -> Meta] /\ pr \in SUBSET Blocks /\ word \in [Addresses -> Links \cup {Data}]
  /\ Placed(Holdings, CarvedCells, LiveCells, Kinds)
  /\ Linked
  /\ Fitting
  /\ \A b \in Blocks \ pr : BlockSound(b)

\* The objects, after one more was handed out.
LEMMA FittingMore ==
  ASSUME IInv, NEW a \in Addresses \ LiveCells, NEW l \in Layouts, Served(l), HandOut(a, l),
         CarvedCells \subseteq CarvedCells', a \in CarvedCells',
         \A b \in Blocks \ pr : blk'[b].class = blk[b].class,
         Containing(a) \in Blocks \ pr, Aligned(a, FromLayout(l)),
         blk'[Containing(a)].class = FromLayout(l)
  PROVE  Fitting' /\ LiveCells' = LiveCells \cup {a}
<1> DEFINE o == <<a, l[1], l[2]>>
<1>1. live' = live \cup {o} /\ o[1] = a /\ o[2] = l[1] /\ o[3] = l[2]
  BY DEF HandOut
<1>2. a \in Nat /\ a % l[2] = 0 /\ l[1] \in Nat /\ l[1] <= Size(FromLayout(l))
  <2>1. CanAllocate(l) /\ a \in Nat
    BY Numbers DEF Served
  <2> QED BY <2>1, Fit
<1>3. Fits(o)'
  BY <1>1, <1>2 DEF Fits
<1>4. ASSUME NEW x \in live PROVE Fits(x)' /\ x[1] # a
  <2>1. Fits(x) /\ x[1] \in LiveCells /\ x[1] \in CarvedCells
    BY DEF IInv, Fitting, Fits, LiveCells
  <2>2. Containing(x[1]) \in Blocks \ pr
    BY <2>1, CellOf
  <2> QED BY <2>1, <2>2 DEF Fits
<1>5. \A x, y \in live : x[1] = y[1] => x = y
  BY DEF IInv, Fitting
<1> HIDE DEF o
<1>6. Fitting'
  BY <1>1, <1>3, <1>4, <1>5 DEF Fitting
<1>7. LiveCells' = LiveCells \cup {a}
  BY <1>1 DEF LiveCells
<1> QED BY <1>6, <1>7

\* The set of cells that are out grows by one.
LEMMA OneMore ==
  ASSUME NEW S, IsFiniteSet(S), NEW a, a \notin S, NEW s \in Nat
  PROVE  /\ Cardinality(S) \in Nat /\ Cardinality(S \cup {a}) = Cardinality(S) + 1
         /\ s * Cardinality(S \cup {a}) = s * Cardinality(S) + s
         /\ IsFiniteSet(S \cup {a})
<1>1. Cardinality(S) \in Nat /\ Cardinality(S \cup {a}) = Cardinality(S) + 1 /\ IsFiniteSet(S \cup {a})
  BY FS_AddElement, FS_CardinalityType
<1> DEFINE n == Cardinality(S)
<1>2. s * (n + 1) = s * n + s
  <2> HIDE DEF n
  <2>1. n \in Nat
    BY <1>1 DEF n
  <2> QED BY <2>1
<1> QED BY <1>1, <1>2
\* Words change at one address only.
LEMMA OneWord ==
  ASSUME word \in [Addresses -> Links \cup {Data}], NEW a \in Addresses, NEW x \in Links \cup {Data},
         word' = [word EXCEPT ![a] = x]
  PROVE  /\ word' \in [Addresses -> Links \cup {Data}] /\ word'[a] = x
         /\ \A L : L \subseteq Addresses /\ a \notin L => \A c \in L : word'[c] = word[c]
OBVIOUS

LEMMA CellTaken ==
  ASSUME IInv, NEW b \in Blocks \ pr, NEW l \in Layouts, Served(l), blk[b].class = FromLayout(l),
         ~IsFull(blk[b]), AllocCell(b), HandOut(NextCell(b), l), pr' = pr, SameHeads({b})
  PROVE  StoreSound' /\ \A q \in Lists : q[2] # Own => Holdings'[q] = Holdings[q]
<1> DEFINE a == NextCell(b)
           o == <<b, Own>>
           c == blk[b].class
<1>1. PICK P : Taken(b, a, P)
  <2>1. CASE blk[b].cursor < BlockUnits
    BY <2>1, TakenNew
  <2>2. CASE ~(blk[b].cursor < BlockUnits)
    BY <2>2, TakenPopped
  <2> QED BY <2>1, <2>2
<1>2. o \in Lists /\ o[1] = b /\ o[2] = Own
  BY ListKinds
<1> HIDE DEF a
<1>3. /\ blk'[b] = [class |-> c, cursor |-> blk'[b].cursor, used |-> blk'[b].used, head |-> blk'[b].head]
      /\ blk'[b].class = c /\ blk'[b].used = blk[b].used + Size(c)
      /\ \A d \in Blocks \ {b} : blk'[d] = blk[d]
      /\ DOMAIN blk' = Blocks
  BY AllocFields
<1>4. c \in Classes /\ First(c) \in Nat /\ Size(c) \in Nat /\ BlockUnits \in Nat
  BY CellIn, SizeFacts, Numbers
<1>5. blk'[b].cursor \in First(c)..BlockUnits /\ blk'[b].cursor \in 0..BlockUnits
  BY <1>1, <1>4 DEF Taken
<1>6. Carved(b)' = CarvedTo(b, c, blk'[b].cursor)
  BY <1>3 DEF Carved, CarvedTo, First
<1>7. a \in Carved(b)' /\ a \in Addresses \ LiveCells /\ Containing(a) = b /\ Aligned(a, c)
  <2>1. a \in Carved(b)' /\ a \in Addresses \ LiveCells
    BY <1>1 DEF Taken
  <2> QED BY <1>4, <1>5, <1>6, <2>1, CellFacts
<1>8. a \in CarvedCells' /\ CarvedCells \subseteq CarvedCells'
  BY <1>1, <1>7 DEF Taken, CarvedCells
<1>9. \A d \in Blocks : blk'[d].class = blk[d].class
  BY <1>3
<1>10. Kinds' = Kinds
  BY <1>9 DEF Kinds
<1>11. Fitting' /\ LiveCells' = LiveCells \cup {a}
  <2>1. HandOut(a, l)
    BY DEF a
  <2> QED BY <1>7, <1>8, <1>9, <2>1, FittingMore
<1>12. /\ word' \in [Addresses -> Links \cup {Data}]
       /\ \A L : L \subseteq Addresses /\ a \notin L => \A x \in L : word'[x] = word[x]
  <2>1. word' = [word EXCEPT ![a] = Data]
    BY DEF HandOut, a
  <2> QED BY <1>7, <2>1, OneWord DEF IInv, Shapes
<1>13. ASSUME NEW q \in Lists PROVE P[q] \in SUBSET Addresses /\ Listed(P[q], HeadOf(q)', word', Zero)
  <2>1. P[q] \subseteq Addresses /\ a \notin P[q]
    BY <1>1, HeldAddresses DEF Taken
  <2>2. Listed(P[q], HeadOf(q)', word, Zero)
    <3>1. CASE q = o
      <4>1. HeadOf(q)' = blk'[b].head
        BY <1>2, <3>1 DEF HeadOf
      <4> QED BY <1>1, <3>1, <4>1 DEF Taken
    <3>2. CASE q # o
      <4>1. HeadOf(q)' = HeadOf(q)
        <5>1. q[2] = Own => q[1] \notin {b}
          BY <3>2, ListKinds
        <5> QED BY <5>1, HeadsKept
      <4>2. P[q] = Holdings[q]
        BY <1>1, <3>2 DEF Taken
      <4> QED BY <4>1, <4>2, Held
    <3> QED BY <3>1, <3>2
  <2> DEFINE h == HeadOf(q)'
             w == word'
  <2>3. \A x \in P[q] : w[x] = word[x]
    BY <1>12, <2>1
  <2>4. Listed(P[q], h, word, Zero)
    BY <2>2
  <2> HIDE DEF h, w
  <2>5. Listed(P[q], h, w, Zero)
    BY <2>3, <2>4, ListedSame
  <2> QED BY <2>1, <2>5 DEF h, w
<1>14. Holdings' = P /\ Placed(Holdings, CarvedCells, LiveCells, Kinds)' /\ Linked'
  <2>1. P = [q \in Lists |-> P[q]] /\ Placed(P, CarvedCells', LiveCells', Kinds')
    BY <1>1, <1>10, <1>11 DEF Taken
  <2> QED BY <1>12, <1>13, <2>1, Rearranged
<1>15. \A q \in Lists \ {o} : Holdings'[q] = Holdings[q]
  BY <1>1, <1>14 DEF Taken
<1> DEFINE S == Carved(b) \ Holdings[o]
<1>16. /\ a \notin S /\ IsFiniteSet(S)
       /\ Carved(b)' \ Holdings'[o] = S \cup {a} /\ blk[b].used = Size(c) * Cardinality(S)
  <2>1. a \notin S /\ Carved(b)' \ Holdings'[o] = S \cup {a}
    BY <1>1, <1>14 DEF Taken
  <2>2. blk[b].used = Size(c) * Cardinality(S)
    BY DEF IInv, BlockSound
  <2>3. S \in SUBSET CarvedTo(b, c, blk[b].cursor) /\ blk[b].cursor \in 0..BlockUnits
    BY CellIn
  <2> HIDE DEF S, c
  <2>4. IsFiniteSet(S)
    BY <1>4, <2>3, CellsCounted
  <2> QED BY <2>1, <2>2, <2>4
<1>17. blk'[b].used = Size(c) * Cardinality(Carved(b)' \ Holdings'[o])
  <2> HIDE DEF S, c, o
  <2> QED BY <1>3, <1>4, <1>16, OneMore
<1>18. blk'[b].used \in 0..BlockUnits
  <2>1. (Carved(b)' \ Holdings'[o]) \in SUBSET CarvedTo(b, c, blk'[b].cursor)
    BY <1>6
  <2> HIDE DEF S, c, o
  <2> QED BY <1>4, <1>5, <1>17, <2>1, CellsCounted
<1>19. BlockSound(b)'
  BY <1>1, <1>3, <1>5, <1>17 DEF BlockSound, Taken
<1>20. ASSUME NEW d \in Blocks \ pr', d # b PROVE BlockSound(d)'
  <2>1. <<d, Own>> \in Lists \ {o}
    BY <1>20, ListKinds
  <2> QED BY <1>15, <1>20, <2>1, BlocksKept
<1>21. blk' \in [Blocks -> Meta]
  <2>1. blk'[b].head \in Links /\ blk'[b].cursor \in 0..(2 * BlockUnits)
    BY <1>1, <1>4, <1>5 DEF Taken
  <2>2. blk'[b] \in Meta
    BY <1>3, <1>4, <1>18, <2>1 DEF Meta
  <2>3. \A d \in Blocks : blk'[d] \in Meta
    BY <1>3, <2>2 DEF IInv, Shapes
  <2>4. blk' = [d \in Blocks |-> blk'[d]]
    BY <1>3 DEF AllocCell
  <2> QED BY <2>3, <2>4
<1>22. pr' \in SUBSET Blocks
  BY DEF IInv, Shapes
<1>23. StoreSound'
  BY <1>11, <1>12, <1>14, <1>19, <1>20, <1>21, <1>22 DEF StoreSound
<1>24. ASSUME NEW q \in Lists, q[2] # Own PROVE Holdings'[q] = Holdings[q]
  BY <1>2, <1>15, <1>24
<1> QED BY <1>23, <1>24
----------------------------------------------------------------------------
\* A cell is given back to its block

\* The fields of the block afterwards.
LEMMA FreeFields ==
  ASSUME IInv, NEW a, Containing(a) \in Blocks, FreeCell(a)
  PROVE  LET b == Containing(a)
         IN  /\ blk'[b] = [class |-> blk'[b].class, cursor |-> blk'[b].cursor,
                           used |-> blk'[b].used, head |-> blk'[b].head]
             /\ blk'[b].class = blk[b].class /\ blk'[b].cursor = blk[b].cursor
             /\ blk'[b].used = blk[b].used - Size(blk[b].class) /\ blk'[b].head = a
             /\ \A d \in Blocks \ {b} : blk'[d] = blk[d]
             /\ blk' = [d \in Blocks |-> blk'[d]]
             /\ word' = [word EXCEPT ![a] = blk[b].head]
             /\ pr' = IF blk[b].used = Size(blk[b].class) THEN pr \cup {b} ELSE pr
<1>1. blk \in [Blocks -> Meta]
  BY DEF IInv, Shapes
<1>2. blk[Containing(a)] \in Meta
  BY <1>1
<1>3. DOMAIN blk[Containing(a)] = {"class", "cursor", "used", "head"}
  BY <1>2 DEF Meta
<1> QED BY <1>1, <1>2, <1>3 DEF FreeCell, Meta

\* A block's count says how many cells are out: when it is the size of one, there
\* is no other.
LEMMA OutCells ==
  ASSUME IInv, NEW a \in CarvedCells, a \notin Holdings[<<Containing(a), Own>>]
  PROVE  LET b == Containing(a)
             S == Carved(b) \ (Holdings[<<b, Own>>] \cup {a})
         IN  /\ Size(blk[b].class) \in Nat \ {0}
             /\ blk[b].used = Size(blk[b].class) * Cardinality(S) + Size(blk[b].class)
             /\ Size(blk[b].class) * Cardinality(S) \in 0..BlockUnits
             /\ blk[b].used = Size(blk[b].class) => S = {}
<1> DEFINE b == Containing(a)
           s == Size(blk[b].class)
           S == Carved(b) \ (Holdings[<<b, Own>>] \cup {a})
<1>1. b \in Blocks \ pr /\ a \in Carved(b)
  BY CellOf
<1>2. blk[b].class \in Classes /\ blk[b].cursor \in 0..BlockUnits /\ Carved(b) = CarvedTo(b, blk[b].class, blk[b].cursor)
  BY <1>1, CellIn
<1>3. s \in Nat \ {0}
  BY <1>2, SizeFacts
<1>4. S \in SUBSET CarvedTo(b, blk[b].class, blk[b].cursor)
  BY <1>2
<1>5. Carved(b) \ Holdings[<<b, Own>>] = S \cup {a} /\ a \notin S
  BY <1>1
<1>6. blk[b].used = s * Cardinality(Carved(b) \ Holdings[<<b, Own>>])
  BY <1>1 DEF IInv, BlockSound
<1> HIDE DEF S, s, b
<1>7. IsFiniteSet(S) /\ Cardinality(S) \in Nat /\ s * Cardinality(S) \in 0..BlockUnits
  BY <1>1, <1>2, <1>4, CellsCounted DEF s
<1>8. blk[b].used = s * Cardinality(S) + s
  BY <1>3, <1>5, <1>6, <1>7, OneMore
<1>9. ASSUME blk[b].used = s PROVE S = {}
  <2> DEFINE n == Cardinality(S)
  <2>1. n \in Nat /\ s * n + s = s
    BY <1>7, <1>8, <1>9
  <2> HIDE DEF n
  <2>2. s * n = 0
    <3>1. s * n \in Nat
      BY <1>3, <2>1
    <3> QED BY <1>3, <2>1, <3>1
  <2>3. n = 0
    BY <1>3, <2>1, <2>2
  <2> QED BY <1>7, <2>3, FS_EmptySet DEF n
<1> QED BY <1>3, <1>7, <1>8, <1>9 DEF S, s, b

\* P says where the cells are but for a, LA what cells are in no list.
Returned(P, LA, a) ==
  /\ P = [q \in Lists |-> P[q]]
  /\ Placed(P, CarvedCells, LA, Kinds)
  /\ a \in CarvedCells \cap LA
  /\ \A q \in Lists : /\ P[q] \subseteq Holdings[q]
                      /\ q[2] = Own => P[q] = Holdings[q]
                      /\ q[2] # Own => Listed(P[q], HeadOf(q)', word, Zero)
  /\ live' \subseteq live /\ LiveCells' = LA \ {a}
  /\ FreeCell(a)

\* Where the cells are afterwards: R.
Back(R, P, LA, a) ==
  /\ R = [q \in Lists |-> R[q]]
  /\ Placed(R, CarvedCells', LA \ {a}, Kinds)
  /\ \A q \in Lists \ {<<Containing(a), Own>>} : R[q] = P[q]
  /\ R[<<Containing(a), Own>>] \in SUBSET Addresses
  /\ Containing(a) \notin pr' => R[<<Containing(a), Own>>] = P[<<Containing(a), Own>>] \cup {a}
  /\ Listed(R[<<Containing(a), Own>>], HeadOf(<<Containing(a), Own>>)', word', Zero)

\* The block keeps the cell.
LEMMA BackKept ==
  ASSUME IInv, NEW P, NEW LA, NEW a, Returned(P, LA, a),
         blk[Containing(a)].used # Size(blk[Containing(a)].class)
  PROVE  Back([P EXCEPT ![<<Containing(a), Own>>] = @ \cup {a}], P, LA, a) /\ pr' = pr
<1> DEFINE b == Containing(a)
           o == <<b, Own>>
           R == [P EXCEPT ![o] = @ \cup {a}]
<1>1. b \in Blocks \ pr /\ a \in Carved(b) /\ a \in Addresses
  BY CellOf DEF Returned
<1>2. o \in Lists /\ o[1] = b /\ o[2] = Own
  BY <1>1, ListKinds
<1>3. /\ pr' = pr /\ blk'[b].head = a /\ blk'[b].class = blk[b].class /\ blk'[b].cursor = blk[b].cursor
      /\ \A d \in Blocks \ {b} : blk'[d] = blk[d]
      /\ word' = [word EXCEPT ![a] = blk[b].head]
  BY <1>1, FreeFields DEF Returned
<1>4. CarvedCells' = CarvedCells
  <2>1. \A d \in Blocks : Carved(d)' = Carved(d)
    BY <1>1, <1>3 DEF Carved
  <2> QED BY <1>3, <2>1 DEF CarvedCells
<1>5. /\ R = [q \in Lists |-> R[q]] /\ R[o] = P[o] \cup {a}
      /\ \A q \in Lists \ {o} : R[q] = P[q]
  BY <1>2 DEF Returned
<1>6. Placed(R, CarvedCells', LA \ {a}, Kinds)
  <2>1. /\ P = [q \in Lists |-> P[q]] /\ Placed(P, CarvedCells, LA, Kinds)
        /\ a \in CarvedCells \cap LA
    BY DEF Returned
  <2> HIDE DEF o
  <2>2. Placed([P EXCEPT ![o] = @ \cup {a}], CarvedCells, LA \ {a}, Kinds)
    BY <1>2, <2>1, PlacedPush
  <2> QED BY <1>4, <2>2
<1>7. HeadOf(o)' = a /\ HeadOf(o) = blk[b].head
  BY <1>1, <1>2, <1>3 DEF HeadOf
<1>8. P[o] = Holdings[o] /\ P[o] \in SUBSET Addresses /\ a \notin P[o] /\ Zero \notin P[o]
  BY <1>2, HeldAddresses DEF Returned, Placed
<1>9. Listed(P[o] \cup {a}, a, word', Zero)
  <2> DEFINE L == P[o]
             h == blk[b].head
             w == word'
  <2>1. Listed(L, h, word, Zero) /\ a \notin L /\ Zero \notin L
    BY <1>2, <1>7, <1>8, Held
  <2>2. w[a] = h /\ \A x \in L : w[x] = word[x]
    <3>1. word \in [Addresses -> Links \cup {Data}]
      BY DEF IInv, Shapes
    <3> QED BY <1>1, <1>3, <1>8, <3>1
  <2> HIDE DEF L, h, w
  <2>3. Listed(L \cup {a}, a, w, Zero)
    BY <2>1, <2>2, ListedPush
  <2> QED BY <2>3 DEF L, w
<1> HIDE DEF b, o, R
<1>10. Back(R, P, LA, a)
  BY <1>1, <1>2, <1>5, <1>6, <1>7, <1>8, <1>9 DEF Back, b, o
<1> QED BY <1>3, <1>10 DEF R, o, b

\* The page resource gets the block: all other cells are in its list.
LEMMA BackReleased ==
  ASSUME IInv, NEW P, NEW LA, NEW a, Returned(P, LA, a),
         blk[Containing(a)].used = Size(blk[Containing(a)].class)
  PROVE  \E R : Back(R, P, LA, a) /\ pr' = pr \cup {Containing(a)}
<1> DEFINE b == Containing(a)
           o == <<b, Own>>
           C == Carved(b)
           Q == [P EXCEPT ![o] = @ \cup {a}]
           R == [Q EXCEPT ![o] = {}]
<1>1. b \in Blocks \ pr /\ a \in Carved(b) /\ a \in Addresses
  BY CellOf DEF Returned
<1>2. o \in Lists /\ o[1] = b /\ o[2] = Own
  BY <1>1, ListKinds
<1>3. pr' = pr \cup {b} /\ \A d \in Blocks \ {b} : blk'[d] = blk[d]
  BY <1>1, FreeFields DEF Returned
<1>4. CarvedCells' = CarvedCells \ C
  <2>1. \A d \in Blocks \ pr' : Carved(d)' = Carved(d) /\ d \in Blocks \ pr
    BY <1>3 DEF Carved
  <2>2. ASSUME NEW x \in CarvedCells' PROVE x \in CarvedCells \ C
    <3>1. PICK d \in Blocks \ pr' : x \in Carved(d)'
      BY DEF CarvedCells
    <3>2. d \in Blocks \ pr /\ x \in Carved(d) /\ d # b
      BY <1>3, <2>1, <3>1
    <3>3. Containing(x) = d /\ x \in CarvedCells
      BY <3>2, CellIn
    <3>4. \A y \in C : Containing(y) = b
      BY <1>1, CellIn
    <3> QED BY <3>2, <3>3, <3>4
  <2>3. ASSUME NEW x \in CarvedCells \ C PROVE x \in CarvedCells'
    <3>1. Containing(x) \in Blocks \ pr /\ x \in Carved(Containing(x))
      BY CellOf
    <3>2. Containing(x) \in Blocks \ pr'
      BY <1>3, <2>3, <3>1
    <3> QED BY <2>1, <3>1, <3>2 DEF CarvedCells
  <2> QED BY <2>2, <2>3
<1>5. \A x \in CarvedCells : x \in C <=> Containing(x) = b
  BY <1>1, CellIn, CellOf
<1>6. /\ P = [q \in Lists |-> P[q]] /\ Placed(P, CarvedCells, LA, Kinds)
      /\ a \in CarvedCells \cap LA /\ P[o] = Holdings[o]
  BY <1>2 DEF Returned
<1>7. /\ Q = [q \in Lists |-> Q[q]] /\ Q[o] = P[o] \cup {a}
      /\ \A q \in Lists \ {o} : Q[q] = P[q]
  BY <1>2, <1>6
<1>8. Placed(Q, CarvedCells, LA \ {a}, Kinds)
  <2> HIDE DEF o
  <2> QED BY <1>2, <1>6, PlacedPush
<1>9. \A q \in Lists \ {o} : Q[q] \cap C = {}
  <2> SUFFICES ASSUME NEW q \in Lists \ {o}, NEW x \in P[q], x \in C PROVE FALSE
    BY <1>7
  <2>1. x \notin Holdings[o] /\ x # a /\ a \notin Holdings[o]
    BY <1>2, <1>6 DEF Placed
  <2>2. Carved(b) \ (Holdings[o] \cup {a}) = {}
    BY <1>6, <2>1, OutCells
  <2> QED BY <2>1, <2>2
<1>10. /\ R = [q \in Lists |-> R[q]] /\ R[o] = {}
       /\ \A q \in Lists \ {o} : R[q] = P[q]
  BY <1>2, <1>7
<1>11. Placed(R, CarvedCells', LA \ {a}, Kinds)
  <2> HIDE DEF C, Q
  <2>1. Placed([Q EXCEPT ![<<b, Own>>] = {}], CarvedCells \ C, LA \ {a}, Kinds)
    BY <1>1, <1>5, <1>7, <1>8, <1>9, PlacedRelease
  <2> QED BY <1>4, <2>1
<1>12. HeadOf(o)' = Zero
  BY <1>2, <1>3 DEF HeadOf
<1>13. Listed({}, Zero, word', Zero)
  BY ListedNone
<1> HIDE DEF b, o, R
<1>14. Back(R, P, LA, a)
  BY <1>1, <1>2, <1>3, <1>10, <1>11, <1>12, <1>13 DEF Back, b, o
<1> QED BY <1>3, <1>14 DEF b
LEMMA CellFreed ==
  ASSUME IInv, NEW P, NEW LA, NEW a, Returned(P, LA, a)
  PROVE  /\ StoreSound' /\ \A q \in Lists : q[2] # Own => Holdings'[q] = P[q]
         /\ pr \subseteq pr' /\ \A d \in Blocks \ {Containing(a)} : blk'[d] = blk[d] /\ (d \in pr' <=> d \in pr)
<1> DEFINE b == Containing(a)
           o == <<b, Own>>
           c == blk[b].class
           S == Carved(b) \ (Holdings[o] \cup {a})
<1>1. b \in Blocks \ pr /\ a \in Carved(b) /\ a \in Addresses /\ a \in CarvedCells
  BY CellOf DEF Returned
<1>2. o \in Lists /\ o[1] = b /\ o[2] = Own
  BY <1>1, ListKinds
<1>3. /\ blk'[b] = [class |-> c, cursor |-> blk[b].cursor, used |-> blk'[b].used, head |-> a]
      /\ blk'[b].class = c /\ blk'[b].cursor = blk[b].cursor
      /\ blk'[b].used = blk[b].used - Size(c)
      /\ \A d \in Blocks \ {b} : blk'[d] = blk[d]
      /\ blk' = [d \in Blocks |-> blk'[d]]
      /\ word' = [word EXCEPT ![a] = blk[b].head]
      /\ pr' = IF blk[b].used = Size(c) THEN pr \cup {b} ELSE pr
  BY <1>1, FreeFields DEF Returned
<1>4. PICK R : Back(R, P, LA, a)
  <2>1. CASE blk[b].used # Size(c)
    BY <2>1, BackKept
  <2>2. CASE blk[b].used = Size(c)
    BY <2>2, BackReleased
  <2> QED BY <2>1, <2>2
<1>5. \A d \in Blocks : blk'[d].class = blk[d].class /\ Carved(d)' = Carved(d)
  BY <1>3 DEF Carved
<1>6. Kinds' = Kinds
  BY <1>5 DEF Kinds
<1>7. /\ word' \in [Addresses -> Links \cup {Data}]
      /\ \A L : L \subseteq Addresses /\ a \notin L => \A x \in L : word'[x] = word[x]
  <2>1. blk[b].head \in Links
    BY <1>1, BlockParts DEF IInv
  <2> QED BY <1>1, <1>3, <2>1, OneWord DEF IInv, Shapes
<1>8. ASSUME NEW q \in Lists PROVE R[q] \in SUBSET Addresses /\ Listed(R[q], HeadOf(q)', word', Zero)
  <2>1. CASE q = o
    BY <1>4, <2>1 DEF Back
  <2>2. CASE q # o
    <3>1. R[q] = P[q] /\ P[q] \subseteq Addresses /\ a \notin P[q]
      BY <1>2, <1>4, <2>2, HeldAddresses DEF Back, Returned, Placed
    <3>2. Listed(R[q], HeadOf(q)', word, Zero)
      <4>1. CASE q[2] # Own
        BY <3>1, <4>1 DEF Returned
      <4>2. CASE q[2] = Own
        <5>1. q[1] \in Blocks \ {b}
          BY <2>2, <4>2, ListKinds
        <5>2. HeadOf(q)' = HeadOf(q)
          BY <1>3, <4>2, <5>1 DEF HeadOf
        <5>3. P[q] = Holdings[q]
          BY <4>2 DEF Returned
        <5> QED BY <3>1, <5>2, <5>3, Held
      <4> QED BY <4>1, <4>2
    <3> DEFINE h == HeadOf(q)'
               w == word'
               L == R[q]
    <3>3. Listed(L, h, word, Zero) /\ \A x \in L : w[x] = word[x]
      BY <1>7, <3>1, <3>2
    <3> HIDE DEF h, w, L
    <3>4. Listed(L, h, w, Zero)
      BY <3>3, ListedSame
    <3> QED BY <3>1, <3>4 DEF h, w, L
  <2> QED BY <2>1, <2>2
<1>9. Holdings' = R /\ Placed(Holdings, CarvedCells, LiveCells, Kinds)' /\ Linked'
  <2>1. R = [q \in Lists |-> R[q]] /\ Placed(R, CarvedCells', LiveCells', Kinds')
    BY <1>4, <1>6 DEF Back, Returned
  <2> QED BY <1>7, <1>8, <2>1, Rearranged
<1>10. \A q \in Lists \ {o} : Holdings'[q] = P[q]
  BY <1>4, <1>9 DEF Back
<1>11. Fitting'
  <2>1. \A x, y \in live' : x[1] = y[1] => x = y
    BY DEF IInv, Fitting, Returned
  <2>2. ASSUME NEW x \in live' PROVE Fits(x)'
    <3>1. Fits(x) /\ x[1] \in LiveCells' /\ x[1] \in LiveCells /\ x[1] \in CarvedCells
      BY DEF IInv, Fitting, Fits, LiveCells, Returned
    <3>2. Containing(x[1]) \in Blocks \ pr /\ x[1] \in Carved(Containing(x[1])) /\ x[1] # a
      BY <3>1, CellOf DEF Returned
    <3>3. Containing(x[1]) \notin pr'
      <4>1. CASE Containing(x[1]) # b
        BY <1>3, <3>2, <4>1
      <4>2. CASE Containing(x[1]) = b /\ blk[b].used # Size(c)
        BY <1>3, <3>2, <4>2
      <4>3. CASE Containing(x[1]) = b /\ blk[b].used = Size(c)
        <5>1. a \notin Holdings[o] /\ x[1] \notin Holdings[o]
          <6>1. P[o] = Holdings[o] /\ a \notin P[o]
            BY <1>2 DEF Returned, Placed
          <6> QED BY <1>2, <3>1, <6>1, Held
        <5>2. Carved(b) \ (Holdings[o] \cup {a}) = {}
          BY <1>1, <4>3, <5>1, OutCells
        <5> QED BY <3>2, <4>3, <5>1, <5>2
      <4> QED BY <4>1, <4>2, <4>3
    <3>4. x[1] \in CarvedCells'
      BY <1>5, <3>2, <3>3 DEF CarvedCells
    <3> QED BY <1>5, <3>1, <3>2, <3>4 DEF Fits
  <2> QED BY <2>1, <2>2 DEF Fitting
<1>12. a \notin Holdings[o]
  <2>1. P[o] = Holdings[o] /\ a \notin P[o]
    BY <1>2 DEF Returned, Placed
  <2> QED BY <2>1
<1>13. /\ Size(c) \in Nat \ {0}
       /\ blk[b].used = Size(c) * Cardinality(S) + Size(c)
       /\ Size(c) * Cardinality(S) \in 0..BlockUnits
  BY <1>1, <1>12, OutCells
<1>14. blk'[b].used = Size(c) * Cardinality(S) /\ blk'[b].used \in 0..BlockUnits
  <2> DEFINE n == Size(c) * Cardinality(S)
  <2>1. n \in 0..BlockUnits /\ blk[b].used = n + Size(c) /\ BlockUnits \in Nat
    BY <1>13, Numbers
  <2> HIDE DEF n, c, S
  <2>2. blk'[b].used = n
    BY <1>3, <1>13, <2>1
  <2> QED BY <2>1, <2>2 DEF n
<1>15. ASSUME NEW d \in Blocks \ pr' PROVE BlockSound(d)'
  <2>1. d \in Blocks \ pr
    BY <1>3
  <2>2. CASE d # b
    <3>1. blk'[d] = blk[d] /\ Carved(d)' = Carved(d) /\ BlockSound(d)
      BY <1>3, <1>5, <2>1, <2>2 DEF IInv
    <3>2. <<d, Own>> \in Lists \ {o} /\ <<d, Own>>[2] = Own
      BY <2>2, ListKinds
    <3>3. Holdings'[<<d, Own>>] = Holdings[<<d, Own>>]
      BY <1>10, <3>2 DEF Returned
    <3> QED BY <3>1, <3>3 DEF BlockSound
  <2>3. CASE d = b
    <3>1. Holdings'[o] = Holdings[o] \cup {a}
      BY <1>2, <1>4, <1>9, <2>3 DEF Back, Returned
    <3>2. Carved(b)' \ Holdings'[o] = S
      BY <1>5, <2>1, <2>3, <3>1
    <3>3. BlockSound(b)
      BY <1>1 DEF IInv
    <3> QED BY <1>3, <1>14, <2>3, <3>2, <3>3 DEF BlockSound
  <2> QED BY <2>2, <2>3
<1>16. blk' \in [Blocks -> Meta]
  <2>1. blk[b] \in Meta /\ \A d \in Blocks : blk[d] \in Meta
    BY <1>1 DEF IInv, Shapes
  <2>2. blk'[b] \in Meta
    BY <1>1, <1>3, <1>14, <2>1 DEF Meta, Links
  <2>3. \A d \in Blocks : blk'[d] \in Meta
    BY <1>3, <2>1, <2>2
  <2> QED BY <1>3, <2>3
<1>17. pr' \in SUBSET Blocks /\ pr \subseteq pr'
  BY <1>1, <1>3 DEF IInv, Shapes
<1>18. StoreSound'
  BY <1>7, <1>9, <1>11, <1>15, <1>16, <1>17 DEF StoreSound
<1>19. ASSUME NEW q \in Lists, q[2] # Own PROVE Holdings'[q] = P[q]
  BY <1>2, <1>10, <1>19
<1>20. \A d \in Blocks \ {b} : blk'[d] = blk[d] /\ (d \in pr' <=> d \in pr)
  BY <1>3
<1> QED BY <1>17, <1>18, <1>19, <1>20
----------------------------------------------------------------------------
\* Calls

LEMMA FromStore ==
  ASSUME StoreSound', bins' \in [Threads -> [Bins -> Links]], bytes' \in [Threads -> 0..Threshold],
         call' \in [Threads -> Calls], \A t \in Threads : CallSound(t)'
  PROVE  IInv'
BY DEF IInv, Shapes, StoreSound

\* What is carved of a block that was just made ready.
LEMMA FreshBlock ==
  ASSUME IInv, NEW t \in Threads, call[t].at = "refilled"
  PROVE  LET b == call[t].block  l == call[t].layout
         IN  /\ b \in Blocks \ pr /\ l \in Layouts /\ Served(l) /\ blk[b].class = FromLayout(l)
             /\ blk[b].cursor < BlockUnits /\ Carved(b) = {} /\ ~IsFull(blk[b])
             /\ \A a \in CarvedCells : Containing(a) # b
<1> DEFINE b == call[t].block
           l == call[t].layout
           c == FromLayout(l)
<1>1. b \in Blocks \ pr /\ Served(l) /\ blk[b] = InitBlock(c)
  BY DEF IInv, CallSound
<1>2. l \in Layouts
  <2>1. call[t] \in Calls
    BY DEF IInv, Shapes
  <2> QED BY <2>1 DEF Calls, Idle, Dead
<1>3. c \in Classes
  BY <1>1, <1>2, Fit DEF Served
<1> HIDE DEF b, l, c
<1>4. blk[b].class = c /\ blk[b].cursor = First(c)
  BY <1>1 DEF InitBlock, First
<1>5. First(c) < BlockUnits
  BY <1>3, SizeFacts, Numbers
<1>6. Carved(b) = {}
  BY <1>1, <1>3, <1>4, CarvedIs, CarvedNone
<1>7. ~IsFull(blk[b])
  BY <1>3, <1>4, <1>5, SizeFacts, Numbers DEF IsFull
<1>8. \A a \in CarvedCells : Containing(a) # b
  BY <1>6, CellOf
<1> QED BY <1>1, <1>2, <1>4, <1>5, <1>6, <1>7, <1>8 DEF b, l, c

\* A thread that does not move while its buffer and its new block stay.
LEMMA CallKept ==
  ASSUME IInv, NEW s \in Threads, call'[s] = call[s], bins'[s] = bins[s], bytes'[s] = bytes[s],
         \A c \in Bins : Holdings'[<<s, c>>] = Holdings[<<s, c>>],
         call[s].at = "refilled" => /\ blk'[call[s].block] = blk[call[s].block]
                                    /\ call[s].block \notin pr',
         \A u \in Threads : call'[u].at = "refilled" => call'[u] = call[u] \/ call'[u].block \in pr
  PROVE  CallSound(s)'
<1>1. CallSound(s)
  BY DEF IInv
<1>2. Weights(s)' = Weights(s)
  BY DEF Weights
<1>3. ASSUME call[s].at = "refilled", NEW u \in Threads \ {s}, call'[u].at = "refilled"
      PROVE  call'[u].block # call[s].block
  BY <1>1, <1>3 DEF CallSound
<1> QED BY <1>1, <1>2, <1>3 DEF CallSound

\* The blocks just made ready are not touched by who gives a cell back.
LEMMA FreshKept ==
  ASSUME IInv, NEW s \in Threads, call[s].at = "refilled", NEW a \in CarvedCells,
         \A d \in Blocks \ {Containing(a)} : blk'[d] = blk[d] /\ (d \in pr' <=> d \in pr)
  PROVE  blk'[call[s].block] = blk[call[s].block] /\ call[s].block \notin pr'
BY FreshBlock

\* The bytes of a buffer with a cell less, and with one more.
LEMMA WeightsNat ==
  ASSUME IInv, NEW t \in Threads
  PROVE  \A c \in Bins : Weights(t)[c] \in Nat
<1> SUFFICES ASSUME NEW c \in Bins PROVE Size(c) * Cardinality(Holdings[<<t, c>>]) \in Nat
  BY DEF Weights
<1>1. Cardinality(Holdings[<<t, c>>]) \in Nat
  BY ListKinds, HeldAddresses, FS_CardinalityType
<1>2. Size(c) \in Nat
  BY Numbers, SizeFacts
<1> QED BY <1>1, <1>2

LEMMA BytesPop ==
  ASSUME IInv, NEW t \in Threads, NEW c \in Bins, NEW a \in Holdings[<<t, c>>],
         Holdings'[<<t, c>>] = Holdings[<<t, c>>] \ {a},
         \A d \in Bins \ {c} : Holdings'[<<t, d>>] = Holdings[<<t, d>>]
  PROVE  Total(Weights(t)', Bins) = Total(Weights(t), Bins) - Size(c)
         /\ Total(Weights(t)', Bins) \in Nat /\ Total(Weights(t), Bins) \in Nat
<1> DEFINE f == Weights(t)
           g == Weights(t)'
           H == Holdings[<<t, c>>]
           s == Size(c)
<1>1. IsFiniteSet(H \ {a}) /\ H = (H \ {a}) \cup {a} /\ s \in Nat
  BY ListKinds, HeldAddresses, FS_Subset, Numbers, SizeFacts
<1>2. Cardinality(H \ {a}) \in Nat /\ s * Cardinality(H) = s * Cardinality(H \ {a}) + s
  <2> HIDE DEF H, s
  <2>1. s * Cardinality((H \ {a}) \cup {a}) = s * Cardinality(H \ {a}) + s /\ Cardinality(H \ {a}) \in Nat
    BY <1>1, OneMore
  <2> QED BY <1>1, <2>1
<1>3. f[c] = s * Cardinality(H) /\ g[c] = s * Cardinality(H \ {a})
  BY DEF Weights
<1>4. \A d \in Bins : f[d] \in Nat
  BY WeightsNat
<1>5. \A d \in Bins \ {c} : g[d] = f[d]
  BY DEF Weights
<1> HIDE DEF f, g, H, s
<1>6. g[c] \in Nat /\ f[c] = g[c] + s
  BY <1>1, <1>2, <1>3
<1>7. \A d \in Bins : f[d] \in Nat /\ g[d] \in Nat
  BY <1>4, <1>5, <1>6
<1>8. Total(g, Bins) = Total(f, Bins) + g[c] - f[c]
  BY <1>5, <1>7, Numbers, TotalChange
<1>9. Total(g, Bins) \in Nat /\ Total(f, Bins) \in Nat
  BY <1>7, Numbers, TotalNat
<1>10. Total(g, Bins) = Total(f, Bins) - s
  BY <1>1, <1>6, <1>7, <1>8, <1>9
<1> QED BY <1>9, <1>10 DEF f, g, s

LEMMA BytesPush ==
  ASSUME IInv, NEW t \in Threads, NEW c \in Bins, NEW a, a \notin Holdings[<<t, c>>],
         Holdings'[<<t, c>>] = Holdings[<<t, c>>] \cup {a},
         \A d \in Bins \ {c} : Holdings'[<<t, d>>] = Holdings[<<t, d>>]
  PROVE  Total(Weights(t)', Bins) = Total(Weights(t), Bins) + Size(c)
         /\ Total(Weights(t), Bins) \in Nat
<1> DEFINE f == Weights(t)
           g == Weights(t)'
           H == Holdings[<<t, c>>]
           s == Size(c)
<1>1. IsFiniteSet(H) /\ s \in Nat
  BY ListKinds, HeldAddresses, Numbers, SizeFacts
<1>2. Cardinality(H) \in Nat /\ s * Cardinality(H \cup {a}) = s * Cardinality(H) + s
  <2> HIDE DEF H, s
  <2> QED BY <1>1, OneMore DEF H
<1>3. f[c] = s * Cardinality(H) /\ g[c] = s * Cardinality(H \cup {a})
  BY DEF Weights
<1>4. \A d \in Bins : f[d] \in Nat
  BY WeightsNat
<1>5. \A d \in Bins \ {c} : g[d] = f[d]
  BY DEF Weights
<1> HIDE DEF f, g, H, s
<1>6. g[c] = f[c] + s
  BY <1>2, <1>3
<1>7. \A d \in Bins : f[d] \in Nat /\ g[d] \in Nat
  BY <1>1, <1>4, <1>5, <1>6
<1>8. Total(g, Bins) = Total(f, Bins) + g[c] - f[c]
  BY <1>5, <1>7, Numbers, TotalChange
<1>9. Total(f, Bins) \in Nat
  BY <1>7, Numbers, TotalNat
<1>10. Total(g, Bins) = Total(f, Bins) + s
  BY <1>1, <1>6, <1>7, <1>8, <1>9
<1> QED BY <1>9, <1>10 DEF f, g, s

\* No list and no object changes.
LEMMA Still ==
  ASSUME IInv, UNCHANGED <<blk, pr, word, live>>,
         \A t \in Threads, c \in Bins : TlabHead(t, c)' = TlabHead(t, c)
  PROVE  StoreSound' /\ Holdings' = Holdings
<1>1. \A q \in Lists : HeadOf(q)' = HeadOf(q)
  BY ListKinds DEF HeadOf
<1>2. \A q \in Lists : Chain(HeadOf(q))' = Chain(HeadOf(q))
  BY <1>1 DEF Chain
<1>3. Holdings' = Holdings
  BY <1>2 DEF Holdings
<1>4. \A b \in Blocks : Carved(b)' = Carved(b)
  BY DEF Carved
<1>5. CarvedCells' = CarvedCells /\ LiveCells' = LiveCells /\ Kinds' = Kinds
  BY <1>4 DEF CarvedCells, LiveCells, Kinds
<1>6. Linked'
  BY <1>1, <1>3 DEF IInv, Linked
<1>7. Fitting'
  BY <1>5 DEF IInv, Fitting, Fits
<1>8. \A b \in Blocks \ pr' : BlockSound(b)'
  BY <1>3, <1>4 DEF IInv, BlockSound
<1>9. Placed(Holdings, CarvedCells, LiveCells, Kinds)'
  BY <1>3, <1>5 DEF IInv
<1> QED BY <1>3, <1>6, <1>7, <1>8, <1>9 DEF StoreSound, IInv, Shapes
----------------------------------------------------------------------------
\* HoardAllocator::alloc

\* What a thread that is between two calls has in a bin.
LEMMA IdleBin ==
  ASSUME IInv, NEW t \in Threads, call[t].at \in {"idle", "refilled"}, NEW c \in Bins
  PROVE  /\ <<t, c>> \in Lists /\ HeadOf(<<t, c>>) = bins[t][c]
         /\ TlabHead(t, c) = bins[t][c] /\ bins[t][c] \in Links
         /\ bytes[t] = Total(Weights(t), Bins)
<1>1. <<t, c>> \in Lists /\ c # Own
  BY ListKinds
<1>2. TlabHead(t, c) = bins[t][c]
  BY DEF TlabHead
<1>3. bytes[t] = Total(Weights(t), Bins)
  BY DEF IInv, CallSound
<1> QED BY <1>1, <1>2, <1>3 DEF HeadOf, IInv, Shapes

\* Threads other than t do not move, nor do their lists.
Alone(t) ==
  \A s \in Threads \ {t} : call'[s] = call[s] /\ bins'[s] = bins[s] /\ bytes'[s] = bytes[s]

LEMMA OthersHeads ==
  ASSUME NEW t \in Threads, Alone(t), NEW s \in Threads \ {t}
  PROVE  \A c \in Bins : TlabHead(s, c)' = TlabHead(s, c)
BY DEF Alone, TlabHead

\* The fits of a served layout.
LEMMA ServedClass ==
  ASSUME NEW l \in Layouts, Served(l)
  PROVE  FromLayout(l) \in Classes /\ (Small(l[1]) => FromLayout(l) \in Bins)
BY Fit DEF Served

LEMMA AllocTlabStep ==
  ASSUME IInv, NEW t \in Threads, NEW l \in Layouts, AllocTlab(t, l)
  PROVE  IInv'
<1> DEFINE c == FromLayout(l)
           a == bins[t][c]
           q == <<t, c>>
           P == [Holdings EXCEPT ![q] = @ \ {a}]
<1>1. /\ call[t] = Idle /\ Served(l) /\ c \in Bins /\ a # Zero /\ HandOut(a, l)
      /\ bins' = [bins EXCEPT ![t][c] = word[a]] /\ bytes' = [bytes EXCEPT ![t] = @ - Size(c)]
      /\ blk' = blk /\ pr' = pr /\ call' = call
  BY ServedClass DEF AllocTlab, TlabHas, PopBytes
<1>2. q \in Lists /\ q[1] = t /\ q[2] = c /\ c # Own /\ HeadOf(q) = a /\ bytes[t] = Total(Weights(t), Bins)
  BY <1>1, IdleBin, ListKinds DEF Idle
<1>3. a \in Holdings[q] /\ word[a] \in Links /\ Holdings[q] \subseteq Addresses
  <2>1. /\ Holdings[q] \in SUBSET Addresses /\ HeadOf(q) \in Holdings[q] \cup {Zero}
        /\ \A x \in Holdings[q] : word[x] \in Links
    BY <1>2, HeldAddresses
  <2> HIDE DEF a, q
  <2>2. a \in Holdings[q]
    BY <1>1, <1>2, <2>1
  <2> QED BY <2>1, <2>2
<1> HIDE DEF a, c
<1>4. a \in CarvedCells /\ a \notin LiveCells /\ blk[Containing(a)].class = c
  BY <1>2, <1>3, Held
<1>5. Containing(a) \in Blocks \ pr /\ Aligned(a, c) /\ a \in Addresses
  <2>1. Containing(a) \in Blocks \ pr /\ a \in Carved(Containing(a))
    BY <1>4, CellOf
  <2> QED BY <1>4, <2>1, CellIn
<1>6. /\ \A d \in Blocks : Carved(d)' = Carved(d)
      /\ CarvedCells' = CarvedCells /\ Kinds' = Kinds
  <2>1. \A d \in Blocks : Carved(d)' = Carved(d)
    BY <1>1 DEF Carved
  <2> QED BY <1>1, <2>1 DEF CarvedCells, Kinds
<1>7. Fitting' /\ LiveCells' = LiveCells \cup {a}
  BY <1>1, <1>4, <1>5, <1>6, FittingMore DEF c
<1>8. /\ word' \in [Addresses -> Links \cup {Data}]
      /\ \A L : L \subseteq Addresses /\ a \notin L => \A x \in L : word'[x] = word[x]
  <2>1. word' = [word EXCEPT ![a] = Data]
    BY <1>1 DEF HandOut
  <2> QED BY <1>5, <2>1, OneWord DEF IInv, Shapes
<1>9. Holdings = [z \in Lists |-> Holdings[z]]
  BY DEF Holdings
<1>10. /\ P = [z \in Lists |-> P[z]] /\ P[q] = Holdings[q] \ {a}
       /\ \A z \in Lists \ {q} : P[z] = Holdings[z]
  BY <1>2, <1>9
<1>11. Placed(P, CarvedCells', LiveCells', Kinds')
  <2>1. Placed(Holdings, CarvedCells, LiveCells, Kinds)
    BY DEF IInv
  <2> HIDE DEF q
  <2>2. Placed([Holdings EXCEPT ![q] = @ \ {a}], CarvedCells, LiveCells \cup {a}, Kinds)
    BY <1>2, <1>3, <1>9, <2>1, PlacedPop
  <2> QED BY <1>6, <1>7, <2>2
<1>12. Alone(t) /\ bins'[t][c] = word[a] /\ \A d \in Bins \ {c} : bins'[t][d] = bins[t][d]
  BY <1>1 DEF Alone, IInv, Shapes
<1>13. HeadOf(q)' = word[a] /\ \A z \in Lists \ {q} : HeadOf(z)' = HeadOf(z)
  <2>1. TlabHead(t, c)' = word[a] /\ \A d \in Bins \ {c} : TlabHead(t, d)' = TlabHead(t, d)
    BY <1>1, <1>12 DEF TlabHead, Idle
  <2>2. HeadOf(q)' = word[a]
    BY <1>2, <2>1 DEF HeadOf
  <2>3. ASSUME NEW z \in Lists \ {q} PROVE HeadOf(z)' = HeadOf(z)
    <3>1. CASE z[2] = Own
      BY <1>1, <3>1, ListKinds DEF HeadOf
    <3>2. CASE z[2] # Own /\ z[1] = t
      <4>1. z[2] \in Bins \ {c}
        BY <3>2, ListKinds
      <4> QED BY <2>1, <3>2, <4>1 DEF HeadOf
    <3>3. CASE z[2] # Own /\ z[1] # t
      <4>1. z[1] \in Threads \ {t} /\ z[2] \in Bins
        BY <3>3, ListKinds
      <4> QED BY <1>12, <3>3, <4>1, OthersHeads DEF HeadOf
    <3> QED BY <3>1, <3>2, <3>3
  <2> QED BY <2>2, <2>3
<1> HIDE DEF q, P
<1>14. ASSUME NEW z \in Lists PROVE P[z] \in SUBSET Addresses /\ Listed(P[z], HeadOf(z)', word', Zero)
  <2>1. P[z] \subseteq Addresses /\ a \notin P[z]
    <3>1. CASE z = q
      BY <1>3, <1>10, <3>1
    <3>2. CASE z # q
      BY <1>2, <1>3, <1>10, <3>2, Held, HeldAddresses
    <3> QED BY <3>1, <3>2
  <2> DEFINE h == HeadOf(z)'
             w == word'
             L == Holdings[z]
  <2>2. Listed(P[z], h, word, Zero)
    <3>1. CASE z = q
      <4>1. Listed(L, a, word, Zero) /\ a \in L
        BY <1>2, <1>3, <3>1, Held
      <4> HIDE DEF L
      <4>2. Listed(L \ {a}, word[a], word, Zero)
        BY <4>1, ListedPop
      <4> QED BY <1>10, <1>13, <3>1, <4>2 DEF L
    <3>2. CASE z # q
      BY <1>10, <1>13, <3>2, Held
    <3> QED BY <3>1, <3>2
  <2>3. \A x \in P[z] : w[x] = word[x]
    BY <1>8, <2>1
  <2> HIDE DEF h, w
  <2>4. Listed(P[z], h, w, Zero)
    BY <2>2, <2>3, ListedSame
  <2> QED BY <2>1, <2>4 DEF h, w
<1>15. Holdings' = P /\ Placed(Holdings, CarvedCells, LiveCells, Kinds)' /\ Linked'
  BY <1>8, <1>10, <1>11, <1>14, Rearranged
<1>16. \A d \in Blocks \ pr' : BlockSound(d)'
  <2> SUFFICES ASSUME NEW d \in Blocks \ pr PROVE BlockSound(d)'
    BY <1>1
  <2>1. <<d, Own>> \in Lists \ {q}
    BY <1>2, ListKinds
  <2> QED BY <1>1, <1>6, <1>10, <1>15, <2>1 DEF IInv, BlockSound
<1>17. StoreSound'
  BY <1>1, <1>7, <1>8, <1>15, <1>16 DEF StoreSound, IInv, Shapes
<1>18. Total(Weights(t)', Bins) = Total(Weights(t), Bins) - Size(c) /\ Total(Weights(t)', Bins) \in Nat
  <2>1. \A d \in Bins \ {c} : <<t, d>> \in Lists \ {q}
    BY ListKinds DEF q
  <2> QED BY <1>1, <1>3, <1>10, <1>15, <2>1, BytesPop DEF q
<1>19. bytes[t] \in 0..Threshold /\ bytes'[t] = bytes[t] - Size(c) /\ Size(c) \in Nat
  BY <1>1, Numbers, SizeFacts DEF IInv, Shapes
<1>20. bytes'[t] = Total(Weights(t)', Bins) /\ bytes'[t] \in 0..Threshold
  BY <1>2, <1>18, <1>19, Numbers
<1>21. bytes' \in [Threads -> 0..Threshold] /\ bins' \in [Threads -> [Bins -> Links]] /\ call' \in [Threads -> Calls]
  BY <1>1, <1>3, <1>20 DEF IInv, Shapes
<1>22. CallSound(t)'
  BY <1>1, <1>20 DEF CallSound, Idle
<1>23. ASSUME NEW s \in Threads \ {t} PROVE CallSound(s)'
  <2>1. \A d \in Bins : <<s, d>> \in Lists \ {q}
    BY ListKinds DEF q
  <2>2. \A d \in Bins : Holdings'[<<s, d>>] = Holdings[<<s, d>>]
    BY <1>10, <1>15, <2>1
  <2>3. call[s].at = "refilled" => call[s].block \notin pr
    BY FreshBlock
  <2> QED BY <1>1, <1>12, <2>2, <2>3, CallKept DEF Alone
<1> QED BY <1>17, <1>21, <1>22, <1>23, FromStore

\* A cell comes from a block: the calls in progress do not mind.
LEMMA AllocPoolStep ==
  ASSUME IInv, NEW t \in Threads, NEW l \in Layouts, AllocPool(t, l)
  PROVE  IInv'
<1>1. PICK b \in Blocks \ (pr \cup Fresh) :
        /\ blk[b].class = FromLayout(l) /\ ~IsFull(blk[b])
        /\ AllocCell(b) /\ HandOut(NextCell(b), l)
  BY DEF AllocPool
<1>2. Served(l) /\ pr' = pr /\ bins' = bins /\ bytes' = bytes /\ call' = call
  BY DEF AllocPool
<1>3. \A d \in Blocks \ {b} : blk'[d] = blk[d]
  BY <1>1, AllocFields
<1>4. SameHeads({b})
  BY <1>2, <1>3 DEF SameHeads, TlabHead
<1>5. StoreSound' /\ \A q \in Lists : q[2] # Own => Holdings'[q] = Holdings[q]
  BY <1>1, <1>2, <1>4, CellTaken
<1>6. ASSUME NEW s \in Threads PROVE CallSound(s)'
  <2>1. \A c \in Bins : Holdings'[<<s, c>>] = Holdings[<<s, c>>]
    BY <1>5, ListKinds
  <2>2. call[s].at = "refilled" => /\ blk'[call[s].block] = blk[call[s].block]
                                   /\ call[s].block \notin pr'
    BY <1>1, <1>2, <1>3, FreshBlock DEF Fresh
  <2> QED BY <1>2, <2>1, <2>2, CallKept
<1> QED BY <1>2, <1>5, <1>6, FromStore DEF IInv, Shapes

LEMMA AllocFreshStep ==
  ASSUME IInv, NEW t \in Threads, AllocFresh(t)
  PROVE  IInv'
<1> DEFINE b == call[t].block
           l == call[t].layout
<1>1. /\ call[t].at = "refilled" /\ AllocCell(b) /\ HandOut(NextCell(b), l)
      /\ call' = [call EXCEPT ![t] = Idle] /\ pr' = pr /\ bins' = bins /\ bytes' = bytes
  BY DEF AllocFresh
<1>2. b \in Blocks \ pr /\ l \in Layouts /\ Served(l) /\ blk[b].class = FromLayout(l) /\ ~IsFull(blk[b])
  BY <1>1, FreshBlock
<1>3. \A d \in Blocks \ {b} : blk'[d] = blk[d]
  BY <1>1, <1>2, AllocFields
<1>4. call'[t] = Idle /\ \A s \in Threads \ {t} : call'[s] = call[s]
  BY <1>1 DEF IInv, Shapes
<1>5. SameHeads({b})
  <2>1. ASSUME NEW s \in Threads, NEW c \in Bins PROVE TlabHead(s, c)' = TlabHead(s, c)
    BY <1>1, <1>4 DEF TlabHead, Idle
  <2> QED BY <1>1, <1>3, <2>1 DEF SameHeads
<1> HIDE DEF b, l
<1>6. StoreSound' /\ \A q \in Lists : q[2] # Own => Holdings'[q] = Holdings[q]
  BY <1>1, <1>2, <1>5, CellTaken
<1>7. \A s \in Threads : \A c \in Bins : Holdings'[<<s, c>>] = Holdings[<<s, c>>]
  BY <1>6, ListKinds
<1>8. ASSUME NEW s \in Threads \ {t} PROVE CallSound(s)'
  <2>1. call[s].at = "refilled" => call[s].block # b
    BY <1>1 DEF IInv, CallSound, b
  <2>2. call[s].at = "refilled" => /\ blk'[call[s].block] = blk[call[s].block]
                                   /\ call[s].block \notin pr'
    BY <1>1, <1>3, <2>1, FreshBlock
  <2>3. \A u \in Threads : call'[u].at = "refilled" => call'[u] = call[u]
    BY <1>4 DEF Idle
  <2> QED BY <1>1, <1>4, <1>7, <2>2, <2>3, CallKept
<1>9. CallSound(t)'
  <2>1. Weights(t)' = Weights(t)
    BY <1>7 DEF Weights
  <2>2. bytes[t] = Total(Weights(t), Bins)
    BY <1>1 DEF IInv, CallSound
  <2> QED BY <1>1, <1>4, <2>1, <2>2 DEF CallSound, Idle
<1>10. call' \in [Threads -> Calls]
  BY <1>1 DEF IInv, Shapes, Calls
<1> QED BY <1>1, <1>6, <1>8, <1>9, <1>10, FromStore DEF IInv, Shapes
\* A block of the page resource is made ready: no list and no object is in it.
LEMMA RefillStep ==
  ASSUME IInv, NEW t \in Threads, NEW l \in Layouts, Refill(t, l)
  PROVE  IInv'
<1> DEFINE c == FromLayout(l)
<1>1. PICK b \in pr :
        /\ pr' = pr \ {b} /\ blk' = [blk EXCEPT ![b] = InitBlock(c)]
        /\ word' = [a \in Addresses |-> IF Containing(a) = b THEN Data ELSE word[a]]
        /\ call' = [call EXCEPT ![t] = [at |-> "refilled", block |-> b, layout |-> l]]
  BY DEF Refill
<1>2. call[t] = Idle /\ Served(l) /\ bins' = bins /\ bytes' = bytes /\ live' = live
  BY DEF Refill
<1>3. b \in Blocks /\ c \in Classes
  BY <1>2, ServedClass DEF IInv, Shapes
<1>4. /\ First(c) \in Nat /\ First(c) <= BlockUnits /\ Aligned(First(c), c) /\ BlockUnits \in Nat
      /\ Size(c) \in Nat
  BY <1>3, SizeFacts, Numbers
<1>5. /\ call'[t] = [at |-> "refilled", block |-> b, layout |-> l]
      /\ \A s \in Threads \ {t} : call'[s] = call[s]
  BY <1>1 DEF IInv, Shapes
<1>6. /\ blk'[b] = [class |-> c, cursor |-> First(c), used |-> 0, head |-> Zero]
      /\ \A d \in Blocks \ {b} : blk'[d] = blk[d]
      /\ blk' = [d \in Blocks |-> blk'[d]]
  BY <1>1, <1>3 DEF IInv, Shapes, InitBlock, First
<1> HIDE DEF c
<1>7. Carved(b)' = {} /\ \A d \in Blocks \ {b} : Carved(d)' = Carved(d)
  <2>1. Carved(b)' = CarvedTo(b, c, First(c))
    BY <1>6 DEF Carved, CarvedTo, First
  <2> QED BY <1>3, <1>6, <2>1, CarvedNone DEF Carved
<1>8. CarvedCells' = CarvedCells
  <2>1. ASSUME NEW x \in CarvedCells' PROVE x \in CarvedCells
    <3>1. PICK d \in Blocks \ pr' : x \in Carved(d)'
      BY DEF CarvedCells
    <3>2. d \in Blocks \ pr /\ x \in Carved(d)
      BY <1>1, <1>7, <3>1
    <3> QED BY <3>2 DEF CarvedCells
  <2>2. ASSUME NEW x \in CarvedCells PROVE x \in CarvedCells'
    <3>1. PICK d \in Blocks \ pr : x \in Carved(d)
      BY DEF CarvedCells
    <3>2. d \in Blocks \ pr' /\ x \in Carved(d)'
      BY <1>1, <1>7, <3>1
    <3> QED BY <3>2 DEF CarvedCells
  <2> QED BY <2>1, <2>2
<1>9. \A x \in CarvedCells : Containing(x) \in Blocks \ {b} /\ x \in Addresses
  BY CellOf
<1>10. LiveCells' = LiveCells /\ \A d \in Blocks \ {b} : Kinds'[d] = Kinds[d]
  BY <1>2, <1>6 DEF LiveCells, Kinds
<1>11. Placed(Holdings, CarvedCells', LiveCells', Kinds')
  <2>1. Placed(Holdings, CarvedCells, LiveCells, Kinds)
    BY DEF IInv
  <2>2. ASSUME NEW q \in Lists, NEW a \in Holdings[q], q[2] # Own PROVE Kinds'[Containing(a)] = q[2]
    <3>1. Kinds[Containing(a)] = q[2] /\ a \in CarvedCells
      BY <2>1, <2>2 DEF Placed
    <3> QED BY <1>9, <1>10, <3>1
  <2> QED BY <1>8, <1>10, <2>1, <2>2 DEF Placed
<1>12. Fitting'
  <2>1. \A x, y \in live : x[1] = y[1] => x = y
    BY DEF IInv, Fitting
  <2>2. ASSUME NEW x \in live PROVE Fits(x)'
    <3>1. Fits(x) /\ x[1] \in CarvedCells
      BY DEF IInv, Fitting, Fits
    <3> QED BY <1>6, <1>8, <1>9, <3>1 DEF Fits
  <2> QED BY <1>2, <2>1, <2>2 DEF Fitting
<1>13. ASSUME NEW q \in Lists PROVE HeadOf(q)' = HeadOf(q)
  <2>1. CASE q[2] = Own
    BY <1>1, <1>6, <2>1, ListKinds DEF HeadOf
  <2>2. CASE q[2] # Own /\ q[1] = t
    BY <1>2, <1>5, <2>2 DEF HeadOf, TlabHead, Idle
  <2>3. CASE q[2] # Own /\ q[1] # t
    <3>1. q[1] \in Threads \ {t}
      BY <2>3, ListKinds
    <3> QED BY <1>2, <1>5, <2>3, <3>1 DEF HeadOf, TlabHead
  <2> QED BY <2>1, <2>2, <2>3
<1>14. /\ word' \in [Addresses -> Links \cup {Data}]
       /\ \A x \in CarvedCells : word'[x] = word[x]
  BY <1>1, <1>9 DEF IInv, Shapes
<1>15. ASSUME NEW q \in Lists
       PROVE  Holdings[q] \in SUBSET Addresses /\ Listed(Holdings[q], HeadOf(q)', word', Zero)
  <2> DEFINE h == HeadOf(q)
             w == word'
             L == Holdings[q]
  <2>1. L \in SUBSET Addresses /\ Listed(L, h, word, Zero) /\ \A x \in L : w[x] = word[x]
    BY <1>14, Held, HeldAddresses
  <2> HIDE DEF h, w, L
  <2>2. Listed(L, h, w, Zero)
    BY <2>1, ListedSame
  <2> QED BY <1>13, <2>1, <2>2 DEF h, w, L
<1>16. Holdings = [q \in Lists |-> Holdings[q]]
  BY DEF Holdings
<1>17. Holdings' = Holdings /\ Placed(Holdings, CarvedCells, LiveCells, Kinds)' /\ Linked'
  BY <1>11, <1>14, <1>15, <1>16, Rearranged
<1>18. ASSUME NEW d \in Blocks \ pr' PROVE BlockSound(d)'
  <2>1. CASE d # b
    BY <1>1, <1>6, <1>7, <1>17, <1>18, <2>1 DEF IInv, BlockSound
  <2>2. CASE d = b
    <3>1. Carved(b)' \ Holdings'[<<b, Own>>] = {} /\ Cardinality({}) = 0
      BY <1>7, FS_EmptySet
    <3>2. Size(c) * 0 = 0 /\ First(c) \in First(c)..BlockUnits
      BY <1>4
    <3>3. Size(c) * Cardinality(Carved(b)' \ Holdings'[<<b, Own>>]) = 0
      BY <3>1, <3>2
    <3> QED BY <1>4, <1>6, <2>2, <3>2, <3>3 DEF BlockSound
  <2> QED BY <2>1, <2>2
<1>19. blk' \in [Blocks -> Meta]
  <2>1. blk'[b] \in Meta
    BY <1>3, <1>4, <1>6 DEF Meta, Links
  <2>2. \A d \in Blocks : blk'[d] \in Meta
    BY <1>6, <2>1 DEF IInv, Shapes
  <2> QED BY <1>6, <2>2
<1>20. pr' \in SUBSET Blocks
  BY <1>1 DEF IInv, Shapes
<1>21. StoreSound'
  BY <1>12, <1>14, <1>17, <1>18, <1>19, <1>20 DEF StoreSound
<1>22. ASSUME NEW s \in Threads \ {t} PROVE CallSound(s)'
  <2>1. call[s].at = "refilled" => /\ blk'[call[s].block] = blk[call[s].block]
                                   /\ call[s].block \notin pr'
    BY <1>1, <1>3, <1>6, FreshBlock
  <2>2. \A u \in Threads : call'[u].at = "refilled" => call'[u] = call[u] \/ call'[u].block \in pr
    BY <1>5
  <2> QED BY <1>2, <1>5, <1>17, <2>1, <2>2, CallKept
<1>23. CallSound(t)'
  <2>1. Weights(t)' = Weights(t)
    BY <1>17 DEF Weights
  <2>2. bytes[t] = Total(Weights(t), Bins)
    BY <1>2 DEF IInv, CallSound, Idle
  <2>3. \A u \in Threads \ {t} : call'[u].at = "refilled" => call'[u].block # b
    BY <1>5, FreshBlock
  <2>4. blk'[b] = InitBlock(FromLayout(l)) /\ b \in Blocks \ pr'
    BY <1>1, <1>3, <1>6 DEF InitBlock, c, First
  <2> QED BY <1>2, <1>5, <2>1, <2>2, <2>3, <2>4 DEF CallSound
<1>24. call' \in [Threads -> Calls]
  BY <1>1, <1>3 DEF IInv, Shapes, Calls
<1>25. bins' \in [Threads -> [Bins -> Links]] /\ bytes' \in [Threads -> 0..Threshold]
  BY <1>2 DEF IInv, Shapes
<1> QED BY <1>21, <1>22, <1>23, <1>24, <1>25, FromStore

----------------------------------------------------------------------------
\* HoardAllocator::dealloc

\* The cell of an object and its class.
LEMMA ObjectCell ==
  ASSUME IInv, NEW o \in live
  PROVE  /\ o[1] \in CarvedCells \cap LiveCells /\ o[1] \in Addresses
         /\ Containing(o[1]) \in Blocks \ pr /\ blk[Containing(o[1])].class \in Classes
         /\ \A q \in Lists : o[1] \notin Holdings[q]
         /\ live' = live \ {o} => LiveCells' = LiveCells \ {o[1]}
<1>1. o[1] \in CarvedCells \cap LiveCells
  BY DEF IInv, Fitting, Fits, LiveCells
<1>2. o[1] \in Addresses /\ Containing(o[1]) \in Blocks \ pr
  BY <1>1, CellOf
<1>3. \A x, y \in live : x[1] = y[1] => x = y
  BY DEF IInv, Fitting
<1>4. live' = live \ {o} => LiveCells' = LiveCells \ {o[1]}
  BY <1>3 DEF LiveCells
<1> QED BY <1>1, <1>2, <1>4, CellIn, Held

LEMMA SmallClass ==
  ASSUME NEW c \in Classes, Small(Size(c))
  PROVE  c \in Bins
<1>1. c \in Nat /\ LogSmall \in Nat
  BY SizeFacts, BuffersAssumption, BlocksAssumption
<1>2. 2^c <= 2^LogSmall
  BY DEF Small, Size
<1>3. c <= LogSmall
  BY <1>1, <1>2, PowerOrder
<1> QED BY <1>1, <1>3 DEF Bins

LEMMA FreeTlabStep ==
  ASSUME IInv, NEW t \in Threads, NEW o \in live, FreeTlab(t, o)
  PROVE  IInv'
<1>0. PICK c : c = blk[Containing(o[1])].class
  OBVIOUS
<1> DEFINE a == o[1]
           q == <<t, c>>
           P == [Holdings EXCEPT ![q] = @ \cup {a}]
<1>1. /\ call[t] = Idle /\ ToTlab(t, c) /\ live' = live \ {o}
      /\ word' = [word EXCEPT ![a] = bins[t][c]]
      /\ bins' = [bins EXCEPT ![t][c] = a] /\ bytes' = [bytes EXCEPT ![t] = @ + Size(c)]
      /\ blk' = blk /\ pr' = pr /\ call' = call
  BY <1>0 DEF FreeTlab
<1>2. /\ a \in CarvedCells \cap LiveCells /\ a \in Addresses /\ c \in Classes
      /\ Containing(a) \in Blocks \ pr
      /\ LiveCells' = LiveCells \ {a} /\ \A z \in Lists : a \notin Holdings[z]
  BY <1>0, <1>1, ObjectCell
<1>3. c \in Bins
  BY <1>1, <1>2, SmallClass DEF ToTlab
<1>3a. blk[Containing(a)].class = c
  BY <1>0
<1> HIDE DEF a
<1>4. q \in Lists /\ q[1] = t /\ q[2] = c /\ c # Own /\ HeadOf(q) = bins[t][c] /\ bins[t][c] \in Links
      /\ bytes[t] = Total(Weights(t), Bins)
  BY <1>1, <1>3, IdleBin, ListKinds DEF Idle
<1>5. /\ \A d \in Blocks : Carved(d)' = Carved(d)
      /\ CarvedCells' = CarvedCells /\ Kinds' = Kinds
  <2>1. \A d \in Blocks : Carved(d)' = Carved(d)
    BY <1>1 DEF Carved
  <2> QED BY <1>1, <2>1 DEF CarvedCells, Kinds
<1>6. Fitting'
  BY <1>1, <1>5 DEF IInv, Fitting, Fits
<1>7. /\ word' \in [Addresses -> Links \cup {Data}] /\ word'[a] = bins[t][c]
      /\ \A L : L \subseteq Addresses /\ a \notin L => \A x \in L : word'[x] = word[x]
  BY <1>1, <1>2, <1>4, OneWord DEF IInv, Shapes
<1>8. Holdings = [z \in Lists |-> Holdings[z]]
  BY DEF Holdings
<1>9. /\ P = [z \in Lists |-> P[z]] /\ P[q] = Holdings[q] \cup {a}
      /\ \A z \in Lists \ {q} : P[z] = Holdings[z]
  BY <1>4, <1>8
<1>10. Placed(P, CarvedCells', LiveCells', Kinds')
  <2>1. Placed(Holdings, CarvedCells, LiveCells, Kinds)
    BY DEF IInv
  <2>2. Kinds[Containing(a)] = c
    BY <1>2, <1>3a DEF Kinds
  <2> HIDE DEF q
  <2>3. IF q[2] = Own THEN Containing(a) = q[1] ELSE Kinds[Containing(a)] = q[2]
    BY <1>4, <2>2
  <2>4. Placed([Holdings EXCEPT ![q] = @ \cup {a}], CarvedCells, LiveCells \ {a}, Kinds)
    BY <1>2, <1>4, <1>8, <2>1, <2>3, PlacedPush
  <2> QED BY <1>2, <1>5, <2>4
<1>11. Alone(t) /\ bins'[t][c] = a /\ \A d \in Bins \ {c} : bins'[t][d] = bins[t][d]
  BY <1>1, <1>3 DEF Alone, IInv, Shapes
<1>12. HeadOf(q)' = a /\ \A z \in Lists \ {q} : HeadOf(z)' = HeadOf(z)
  <2>1. TlabHead(t, c)' = a /\ \A d \in Bins \ {c} : TlabHead(t, d)' = TlabHead(t, d)
    BY <1>1, <1>11 DEF TlabHead, Idle
  <2>2. HeadOf(q)' = a
    BY <1>4, <2>1 DEF HeadOf
  <2>3. ASSUME NEW z \in Lists \ {q} PROVE HeadOf(z)' = HeadOf(z)
    <3>1. CASE z[2] = Own
      BY <1>1, <3>1, ListKinds DEF HeadOf
    <3>2. CASE z[2] # Own /\ z[1] = t
      <4>1. z[2] \in Bins \ {c}
        BY <3>2, ListKinds
      <4> QED BY <2>1, <3>2, <4>1 DEF HeadOf
    <3>3. CASE z[2] # Own /\ z[1] # t
      <4>1. z[1] \in Threads \ {t} /\ z[2] \in Bins
        BY <3>3, ListKinds
      <4> QED BY <1>11, <3>3, <4>1, OthersHeads DEF HeadOf
    <3> QED BY <3>1, <3>2, <3>3
  <2> QED BY <2>2, <2>3
<1> HIDE DEF q, P
<1>13. ASSUME NEW z \in Lists PROVE P[z] \in SUBSET Addresses /\ Listed(P[z], HeadOf(z)', word', Zero)
  <2> DEFINE h == HeadOf(z)
             w == word'
             L == Holdings[z]
  <2>1. /\ L \in SUBSET Addresses /\ Listed(L, h, word, Zero) /\ a \notin L /\ Zero \notin L
        /\ \A x \in L : w[x] = word[x]
    BY <1>2, <1>7, Held, HeldAddresses
  <2>2. P[z] \in SUBSET Addresses
    BY <1>2, <1>9, <2>1
  <2>3. CASE z = q
    <3>1. w[a] = h
      BY <1>4, <1>7, <2>3
    <3> HIDE DEF h, w, L
    <3>2. Listed(L \cup {a}, a, w, Zero)
      BY <2>1, <3>1, ListedPush
    <3> QED BY <1>9, <1>12, <2>2, <2>3, <3>2 DEF w, L
  <2>4. CASE z # q
    <3> HIDE DEF h, w, L
    <3>1. Listed(L, h, w, Zero)
      BY <2>1, ListedSame
    <3> QED BY <1>9, <1>12, <2>2, <2>4, <3>1 DEF h, w, L
  <2> QED BY <2>3, <2>4
<1>14. Holdings' = P /\ Placed(Holdings, CarvedCells, LiveCells, Kinds)' /\ Linked'
  BY <1>7, <1>9, <1>10, <1>13, Rearranged
<1>15. \A d \in Blocks \ pr' : BlockSound(d)'
  <2> SUFFICES ASSUME NEW d \in Blocks \ pr PROVE BlockSound(d)'
    BY <1>1
  <2>1. <<d, Own>> \in Lists \ {q}
    BY <1>4, ListKinds
  <2> QED BY <1>1, <1>5, <1>9, <1>14, <2>1 DEF IInv, BlockSound
<1>16. StoreSound'
  BY <1>1, <1>6, <1>7, <1>14, <1>15 DEF StoreSound, IInv, Shapes
<1>17. Total(Weights(t)', Bins) = Total(Weights(t), Bins) + Size(c)
  <2>1. \A d \in Bins \ {c} : <<t, d>> \in Lists \ {q}
    BY ListKinds DEF q
  <2> QED BY <1>2, <1>3, <1>4, <1>9, <1>14, <2>1, BytesPush DEF q
<1>18. bytes[t] \in 0..Threshold /\ bytes'[t] = bytes[t] + Size(c) /\ Size(c) \in Nat
       /\ Size(c) + bytes[t] <= Threshold
  BY <1>1, <1>2, SizeFacts DEF IInv, Shapes, ToTlab
<1>19. bytes'[t] = Total(Weights(t)', Bins) /\ bytes'[t] \in 0..Threshold
  BY <1>4, <1>17, <1>18, Numbers
<1>20. bytes' \in [Threads -> 0..Threshold] /\ bins' \in [Threads -> [Bins -> Links]] /\ call' \in [Threads -> Calls]
  BY <1>1, <1>2, <1>19 DEF IInv, Shapes, Links
<1>21. CallSound(t)'
  BY <1>1, <1>19 DEF CallSound, Idle
<1>22. ASSUME NEW s \in Threads \ {t} PROVE CallSound(s)'
  <2>1. \A d \in Bins : <<s, d>> \in Lists \ {q}
    BY ListKinds DEF q
  <2>2. \A d \in Bins : Holdings'[<<s, d>>] = Holdings[<<s, d>>]
    BY <1>9, <1>14, <2>1
  <2>3. call[s].at = "refilled" => call[s].block \notin pr
    BY FreshBlock
  <2> QED BY <1>1, <1>11, <2>2, <2>3, CallKept DEF Alone
<1> QED BY <1>16, <1>20, <1>21, <1>22, FromStore

LEMMA FreePoolStep ==
  ASSUME IInv, NEW t \in Threads, NEW o \in live, FreePool(t, o)
  PROVE  IInv'
<1> DEFINE a == o[1]
<1>1. /\ FreeCell(a) /\ live' = live \ {o} /\ bins' = bins /\ bytes' = bytes /\ call' = call
  BY DEF FreePool
<1>2. /\ a \in CarvedCells \cap LiveCells /\ LiveCells' = LiveCells \ {a}
  BY <1>1, ObjectCell
<1> HIDE DEF a
<1>3. Returned(Holdings, LiveCells, a)
  <2>1. Holdings = [z \in Lists |-> Holdings[z]]
    BY DEF Holdings
  <2>2. Placed(Holdings, CarvedCells, LiveCells, Kinds)
    BY DEF IInv
  <2>3. ASSUME NEW q \in Lists, q[2] # Own PROVE Listed(Holdings[q], HeadOf(q)', word, Zero)
    <3>1. HeadOf(q)' = HeadOf(q)
      BY <1>1, <2>3 DEF HeadOf, TlabHead
    <3> QED BY <3>1, Held
  <2> QED BY <1>1, <1>2, <2>1, <2>2, <2>3 DEF Returned
<1>4. /\ StoreSound' /\ \A q \in Lists : q[2] # Own => Holdings'[q] = Holdings[q]
      /\ \A d \in Blocks \ {Containing(a)} : blk'[d] = blk[d] /\ (d \in pr' <=> d \in pr)
  BY <1>3, CellFreed
<1>5. ASSUME NEW s \in Threads PROVE CallSound(s)'
  <2>1. \A c \in Bins : Holdings'[<<s, c>>] = Holdings[<<s, c>>]
    BY <1>4, ListKinds
  <2>2. call[s].at = "refilled" => /\ blk'[call[s].block] = blk[call[s].block]
                                   /\ call[s].block \notin pr'
    BY <1>2, <1>4, FreshKept
  <2> QED BY <1>1, <2>1, <2>2, CallKept
<1>6. bins' \in [Threads -> [Bins -> Links]] /\ bytes' \in [Threads -> 0..Threshold] /\ call' \in [Threads -> Calls]
  BY <1>1 DEF IInv, Shapes
<1> QED BY <1>4, <1>5, <1>6, FromStore
----------------------------------------------------------------------------
\* HoardAllocator::drop

\* What a thread that gives its lists back is at.
LEMMA ClearParts ==
  ASSUME IInv, NEW t \in Threads, call[t].at = "clearing"
  PROVE  /\ call[t] = Clearing(call[t].class, call[t].cell)
         /\ call[t].class \in Bins /\ call[t].cell \in Links
         /\ \A c \in Bins : c < call[t].class => bins[t][c] = Zero
<1>1. call[t] \in Calls
  BY DEF IInv, Shapes
<1>2. call[t] \in [at : {"clearing"}, class : Bins, cell : Links]
  BY <1>1 DEF Calls, Idle, Dead
<1>3. CallSound(t)
  BY DEF IInv
<1> QED BY <1>2, <1>3 DEF CallSound, Clearing

LEMMA BinNumbers ==
  /\ Bins = 0..LogSmall /\ LogSmall \in Nat /\ 0 \in Bins /\ Bins \subseteq Nat
  /\ \A c \in Bins : c < LogSmall => c + 1 \in Bins
BY BuffersAssumption, BlocksAssumption DEF Bins

LEMMA ExitStep ==
  ASSUME IInv, NEW t \in Threads, Exit(t)
  PROVE  IInv'
<1>1. /\ call[t] = Idle /\ call' = [call EXCEPT ![t] = Clearing(0, bins[t][0])]
      /\ UNCHANGED <<blk, pr, word, live>> /\ bins' = bins /\ bytes' = bytes
  BY DEF Exit
<1>2. call'[t] = Clearing(0, bins[t][0]) /\ \A s \in Threads \ {t} : call'[s] = call[s]
  BY <1>1 DEF IInv, Shapes
<1>3. bins[t][0] \in Links
  BY BinNumbers DEF IInv, Shapes
<1>4. ASSUME NEW s \in Threads, NEW c \in Bins PROVE TlabHead(s, c)' = TlabHead(s, c)
  <2>1. CASE s = t
    <3>1. TlabHead(t, c) = bins[t][c]
      BY <1>1 DEF TlabHead, Idle
    <3>2. c = 0 \/ ~(0 > c)
      BY BinNumbers
    <3>3. TlabHead(t, c)' = bins[t][c]
      BY <1>1, <1>2, <3>2, BinNumbers DEF TlabHead, Clearing
    <3> QED BY <2>1, <3>1, <3>3
  <2>2. CASE s # t
    BY <1>1, <1>2, <2>2 DEF TlabHead
  <2> QED BY <2>1, <2>2
<1>5. StoreSound' /\ Holdings' = Holdings
  BY <1>1, <1>4, Still
<1>6. ASSUME NEW s \in Threads \ {t} PROVE CallSound(s)'
  <2>1. call[s].at = "refilled" => call[s].block \notin pr
    BY FreshBlock
  <2>2. \A u \in Threads : call'[u].at = "refilled" => call'[u] = call[u]
    BY <1>2 DEF Clearing
  <2> QED BY <1>1, <1>2, <1>5, <2>1, <2>2, CallKept
<1>7. CallSound(t)'
  <2>1. \A c \in Bins : ~(c < 0)
    BY BinNumbers
  <2> QED BY <1>2, <2>1 DEF CallSound, Clearing
<1>8. call' \in [Threads -> Calls]
  BY <1>1, <1>3, BinNumbers DEF IInv, Shapes, Calls, Clearing
<1>9. bins' \in [Threads -> [Bins -> Links]] /\ bytes' \in [Threads -> 0..Threshold]
  BY <1>1 DEF IInv, Shapes
<1> QED BY <1>5, <1>6, <1>7, <1>8, <1>9, FromStore

\* The link is read before the cell goes back to its block.
LEMMA ClearCellStep ==
  ASSUME IInv, NEW t \in Threads, ClearCell(t)
  PROVE  IInv'
<1>0. PICK a, c : a = call[t].cell /\ c = call[t].class
  OBVIOUS
<1> DEFINE q == <<t, c>>
           P == [Holdings EXCEPT ![q] = @ \ {a}]
<1>1. /\ call[t].at = "clearing" /\ a # Zero /\ FreeCell(a)
      /\ call' = [call EXCEPT ![t].cell = word[@]]
      /\ bins' = bins /\ bytes' = bytes /\ live' = live
  BY <1>0 DEF ClearCell
<1>2. call[t] = Clearing(c, a) /\ c \in Bins
  BY <1>0, <1>1, ClearParts
<1>3. call'[t] = Clearing(c, word[a]) /\ \A s \in Threads \ {t} : call'[s] = call[s]
  BY <1>0, <1>1, <1>2 DEF IInv, Shapes, Clearing
<1>4. q \in Lists /\ q[1] = t /\ q[2] = c /\ c # Own
  BY <1>2, ListKinds
<1>5. HeadOf(q) = a /\ HeadOf(q)' = word[a]
  BY <1>2, <1>3, <1>4 DEF HeadOf, TlabHead, Clearing
<1>6. a \in Holdings[q] /\ word[a] \in Links
  <2>1. /\ HeadOf(q) \in Holdings[q] \cup {Zero}
        /\ \A x \in Holdings[q] : word[x] \in Links
    BY <1>4, HeldAddresses
  <2> HIDE DEF q
  <2>2. a \in Holdings[q]
    BY <1>1, <1>5, <2>1
  <2> QED BY <2>1, <2>2
<1>7. a \in CarvedCells /\ a \notin LiveCells
  BY <1>4, <1>6, Held
<1>8. Holdings = [z \in Lists |-> Holdings[z]]
  BY DEF Holdings
<1>9. /\ P = [z \in Lists |-> P[z]] /\ P[q] = Holdings[q] \ {a}
      /\ \A z \in Lists \ {q} : P[z] = Holdings[z]
  BY <1>4, <1>8
<1>10. Placed(P, CarvedCells, LiveCells \cup {a}, Kinds)
  <2>1. Placed(Holdings, CarvedCells, LiveCells, Kinds)
    BY DEF IInv
  <2> HIDE DEF q
  <2> QED BY <1>4, <1>6, <1>8, <2>1, PlacedPop
<1>11. \A z \in Lists \ {q} : z[2] # Own => HeadOf(z)' = HeadOf(z)
  <2> SUFFICES ASSUME NEW z \in Lists \ {q}, z[2] # Own PROVE HeadOf(z)' = HeadOf(z)
    OBVIOUS
  <2>1. CASE z[1] = t
    <3>1. z[2] # c /\ z[2] \in Bins
      BY <2>1, ListKinds
    <3> QED BY <1>1, <1>2, <1>3, <2>1, <3>1 DEF HeadOf, TlabHead, Clearing
  <2>2. CASE z[1] # t
    <3>1. z[1] \in Threads \ {t}
      BY <2>2, ListKinds
    <3> QED BY <1>1, <1>3, <3>1 DEF HeadOf, TlabHead
  <2> QED BY <2>1, <2>2
<1> HIDE DEF q, P
<1>12. ASSUME NEW z \in Lists, z[2] # Own PROVE Listed(P[z], HeadOf(z)', word, Zero)
  <2>1. CASE z = q
    <3> DEFINE L == Holdings[q]
    <3>1. Listed(L, a, word, Zero) /\ a \in L
      BY <1>4, <1>5, <1>6, Held
    <3> HIDE DEF L
    <3>2. Listed(L \ {a}, word[a], word, Zero)
      BY <3>1, ListedPop
    <3> QED BY <1>5, <1>9, <2>1, <3>2 DEF L
  <2>2. CASE z # q
    BY <1>9, <1>11, <1>12, <2>2, Held
  <2> QED BY <2>1, <2>2
<1>13. Returned(P, LiveCells \cup {a}, a)
  <2>1. LiveCells' = (LiveCells \cup {a}) \ {a}
    BY <1>1, <1>7 DEF LiveCells
  <2>2. \A z \in Lists : P[z] \subseteq Holdings[z] /\ (z[2] = Own => P[z] = Holdings[z])
    BY <1>4, <1>9
  <2> QED BY <1>1, <1>7, <1>9, <1>10, <1>12, <2>1, <2>2 DEF Returned
<1>14. /\ StoreSound' /\ \A z \in Lists : z[2] # Own => Holdings'[z] = P[z]
       /\ \A d \in Blocks \ {Containing(a)} : blk'[d] = blk[d] /\ (d \in pr' <=> d \in pr)
  BY <1>13, CellFreed
<1>15. ASSUME NEW s \in Threads \ {t} PROVE CallSound(s)'
  <2>1. \A d \in Bins : Holdings'[<<s, d>>] = Holdings[<<s, d>>]
    <3>1. \A d \in Bins : <<s, d>> \in Lists \ {q} /\ <<s, d>>[2] # Own
      BY ListKinds DEF q
    <3> QED BY <1>9, <1>14, <3>1
  <2>2. call[s].at = "refilled" => /\ blk'[call[s].block] = blk[call[s].block]
                                   /\ call[s].block \notin pr'
    BY <1>7, <1>14, FreshKept
  <2>3. \A u \in Threads : call'[u].at = "refilled" => call'[u] = call[u]
    BY <1>3 DEF Clearing
  <2> QED BY <1>1, <1>3, <2>1, <2>2, <2>3, CallKept
<1>16. CallSound(t)'
  <2>1. \A d \in Bins : d < c => bins'[t][d] = Zero
    BY <1>0, <1>1, ClearParts
  <2> QED BY <1>3, <2>1 DEF CallSound, Clearing
<1>17. call' \in [Threads -> Calls]
  <2>1. call'[t] \in Calls
    BY <1>2, <1>3, <1>6 DEF Calls, Clearing
  <2> QED BY <1>1, <1>3, <2>1 DEF IInv, Shapes
<1>18. bins' \in [Threads -> [Bins -> Links]] /\ bytes' \in [Threads -> 0..Threshold]
  BY <1>1 DEF IInv, Shapes
<1> QED BY <1>14, <1>15, <1>16, <1>17, <1>18, FromStore

LEMMA ClearBinStep ==
  ASSUME IInv, NEW t \in Threads, ClearBin(t)
  PROVE  IInv'
<1>0. PICK c : c = call[t].class
  OBVIOUS
<1>1. /\ call[t].at = "clearing" /\ call[t].cell = Zero
      /\ bins' = [bins EXCEPT ![t][c] = Zero]
      /\ call' = [call EXCEPT ![t] = AfterBin(t, c)]
      /\ bytes' = [bytes EXCEPT ![t] = IF call'[t].at = "dead" THEN 0 ELSE @]
      /\ UNCHANGED <<blk, pr, word, live>>
  BY <1>0 DEF ClearBin
<1>2. call[t] = Clearing(c, Zero) /\ c \in Bins /\ \A d \in Bins : d < c => bins[t][d] = Zero
  BY <1>0, <1>1, ClearParts
<1>3. /\ call'[t] = AfterBin(t, c)
      /\ \A s \in Threads \ {t} : call'[s] = call[s] /\ bins'[s] = bins[s] /\ bytes'[s] = bytes[s]
      /\ bins'[t][c] = Zero /\ \A d \in Bins \ {c} : bins'[t][d] = bins[t][d]
  BY <1>1, <1>2 DEF IInv, Shapes
<1>4. c \in 0..LogSmall /\ Bins = 0..LogSmall /\ LogSmall \in Nat
  BY <1>2, BinNumbers
<1>5. CASE c < LogSmall
  <2>1. call'[t] = Clearing(c + 1, bins[t][c + 1]) /\ c + 1 \in Bins /\ bins[t][c + 1] \in Links
    BY <1>3, <1>4, <1>5, BinNumbers DEF AfterBin, IInv, Shapes
  <2>2. ASSUME NEW s \in Threads, NEW d \in Bins PROVE TlabHead(s, d)' = TlabHead(s, d)
    <3>1. CASE s = t /\ d <= c
      <4>1. TlabHead(t, d) = Zero
        BY <1>2, <1>4, <3>1 DEF TlabHead, Clearing
      <4>2. TlabHead(t, d)' = Zero
        BY <1>2, <1>4, <2>1, <3>1 DEF TlabHead, Clearing
      <4> QED BY <3>1, <4>1, <4>2
    <3>2. CASE s = t /\ d = c + 1
      <4>1. TlabHead(t, d) = bins[t][c + 1]
        BY <1>2, <1>4, <3>2 DEF TlabHead, Clearing
      <4>2. TlabHead(t, d)' = bins[t][c + 1]
        BY <2>1, <3>2 DEF TlabHead, Clearing
      <4> QED BY <3>2, <4>1, <4>2
    <3>3. CASE s = t /\ d > c + 1
      <4>1. TlabHead(t, d) = bins[t][d]
        BY <1>2, <1>4, <3>3 DEF TlabHead, Clearing
      <4>2. TlabHead(t, d)' = bins'[t][d] /\ d # c
        BY <1>4, <2>1, <3>3 DEF TlabHead, Clearing
      <4> QED BY <1>3, <3>3, <4>1, <4>2
    <3>4. CASE s # t
      BY <1>3, <3>4 DEF TlabHead
    <3> QED BY <1>4, <3>1, <3>2, <3>3, <3>4
  <2>3. StoreSound' /\ Holdings' = Holdings
    BY <1>1, <2>2, Still
  <2>4. CallSound(t)'
    <3>1. ASSUME NEW d \in Bins, d < c + 1 PROVE bins'[t][d] = Zero
      <4>1. d = c \/ d < c
        BY <1>4, <3>1
      <4> QED BY <1>2, <1>3, <1>4, <4>1
    <3> QED BY <2>1, <3>1 DEF CallSound, Clearing
  <2>5. ASSUME NEW s \in Threads \ {t} PROVE CallSound(s)'
    <3>1. call[s].at = "refilled" => call[s].block \notin pr
      BY FreshBlock
    <3>2. \A u \in Threads : call'[u].at = "refilled" => call'[u] = call[u]
      BY <1>3, <2>1 DEF Clearing
    <3> QED BY <1>1, <1>3, <2>3, <3>1, <3>2, CallKept
  <2>6. call' \in [Threads -> Calls] /\ bytes' = bytes
    <3>1. call'[t] \in Calls /\ call'[t].at # "dead"
      BY <2>1 DEF Calls, Clearing
    <3> QED BY <1>1, <1>3, <3>1 DEF IInv, Shapes
  <2>7. bins' \in [Threads -> [Bins -> Links]] /\ bytes' \in [Threads -> 0..Threshold]
    BY <1>1, <1>2, <2>6 DEF IInv, Shapes, Links
  <2> QED BY <2>3, <2>4, <2>5, <2>6, <2>7, FromStore
<1>6. CASE ~(c < LogSmall)
  <2>1. call'[t] = Dead /\ c = LogSmall
    BY <1>3, <1>4, <1>6 DEF AfterBin, Dead
  <2>2. \A d \in Bins : bins'[t][d] = Zero
    <3>1. ASSUME NEW d \in Bins PROVE bins'[t][d] = Zero
      <4>1. d = c \/ d < c
        BY <1>4, <2>1
      <4> QED BY <1>2, <1>3, <1>4, <4>1
    <3> QED BY <3>1
  <2>3. ASSUME NEW s \in Threads, NEW d \in Bins PROVE TlabHead(s, d)' = TlabHead(s, d)
    <3>1. CASE s = t
      <4>1. d <= c
        BY <1>4, <2>1
      <4>2. TlabHead(t, d) = Zero
        BY <1>2, <1>4, <4>1 DEF TlabHead, Clearing
      <4>3. TlabHead(t, d)' = Zero
        BY <2>1, <2>2 DEF TlabHead, Dead
      <4> QED BY <3>1, <4>2, <4>3
    <3>2. CASE s # t
      BY <1>3, <3>2 DEF TlabHead
    <3> QED BY <3>1, <3>2
  <2>4. StoreSound' /\ Holdings' = Holdings
    BY <1>1, <2>3, Still
  <2>5. CallSound(t)'
    BY <2>1, <2>2 DEF CallSound, Dead
  <2>6. ASSUME NEW s \in Threads \ {t} PROVE CallSound(s)'
    <3>1. call[s].at = "refilled" => call[s].block \notin pr
      BY FreshBlock
    <3>2. \A u \in Threads : call'[u].at = "refilled" => call'[u] = call[u]
      BY <1>3, <2>1 DEF Dead
    <3> QED BY <1>1, <1>3, <2>4, <3>1, <3>2, CallKept
  <2>7. call' \in [Threads -> Calls]
    <3>1. call'[t] \in Calls
      BY <2>1 DEF Calls
    <3> QED BY <1>1, <1>3, <3>1 DEF IInv, Shapes
  <2>8. bins' \in [Threads -> [Bins -> Links]] /\ bytes' \in [Threads -> 0..Threshold]
    <3>1. 0 \in 0..Threshold
      BY Numbers
    <3> QED BY <1>1, <1>2, <3>1 DEF IInv, Shapes, Links
  <2> QED BY <2>4, <2>5, <2>6, <2>7, <2>8, FromStore
<1> QED BY <1>5, <1>6
----------------------------------------------------------------------------
\* The invariant is one

LEMMA InitHolds ==
  Init => IInv
<1> SUFFICES ASSUME Init PROVE IInv
  OBVIOUS
<1>1. /\ blk = [b \in Blocks |-> [class |-> 0, cursor |-> BlockUnits, used |-> 0, head |-> Zero]]
      /\ pr = Blocks /\ word = [a \in Addresses |-> Data]
      /\ bins = [t \in Threads |-> [c \in Bins |-> Zero]] /\ bytes = [t \in Threads |-> 0]
      /\ live = {} /\ call = [t \in Threads |-> Idle]
  BY DEF Init
<1>2. Shapes
  <2>1. 0 \in Classes /\ 0 \in 0..Threshold /\ BlockUnits \in 0..(2 * BlockUnits) /\ 0 \in 0..BlockUnits
    BY Numbers, BlocksAssumption DEF Classes
  <2> QED BY <1>1, <2>1 DEF Shapes, Meta, Links, Calls
<1>3. \A q \in Lists : HeadOf(q) = Zero
  BY <1>1, ListKinds DEF HeadOf, TlabHead, Idle
<1>4. Chain(Zero) = {} /\ Listed({}, Zero, word, Zero)
  <2> DEFINE E == {}
  <2>1. DOMAIN word = Addresses
    BY <1>1
  <2>2. Listed(E, Zero, word, Zero)
    BY ListedNone
  <2>3. E \in SUBSET DOMAIN word
    OBVIOUS
  <2> HIDE DEF E
  <2>4. ListCells(Zero, word, Zero) = E
    BY <2>1, <2>2, <2>3, Numbers, ListedFollowed
  <2> QED BY <2>2, <2>4 DEF Chain, E
<1>5. Holdings = [q \in Lists |-> {}]
  BY <1>3, <1>4 DEF Holdings
<1>6. Linked
  BY <1>3, <1>4, <1>5 DEF Linked
<1>7. CarvedCells = {} /\ Fitting /\ \A b \in Blocks \ pr : BlockSound(b)
  BY <1>1 DEF CarvedCells, Fitting
<1>8. Placed(Holdings, CarvedCells, LiveCells, Kinds)
  BY <1>5, <1>7 DEF Placed
<1>9. ASSUME NEW t \in Threads PROVE CallSound(t)
  <2> DEFINE f == Weights(t)
  <2>1. ASSUME NEW c \in Bins PROVE f[c] = 0
    <3>1. Holdings[<<t, c>>] = {}
      BY <1>5, ListKinds
    <3>2. Size(c) \in Nat
      BY Numbers, SizeFacts
    <3>3. Cardinality(Holdings[<<t, c>>]) = 0 /\ Size(c) * 0 = 0
      BY <3>1, <3>2, FS_EmptySet
    <3> QED BY <3>3 DEF Weights
  <2> HIDE DEF f
  <2>2. Weighed(f, Bins) = {}
    BY <2>1 DEF Weighed
  <2>3. Total(f, Bins) = 0
    BY <2>1, <2>2, Numbers, TotalCounts, FS_EmptySet
  <2> QED BY <1>1, <2>3 DEF CallSound, Idle, f
<1> QED BY <1>2, <1>6, <1>7, <1>8, <1>9 DEF IInv

LEMMA StepHolds ==
  IInv /\ [Next]_vars => IInv'
<1> SUFFICES ASSUME IInv, [Next]_vars PROVE IInv'
  OBVIOUS
<1>1. CASE UNCHANGED vars
  <2>1. UNCHANGED <<blk, pr, word, bins, bytes, live, call>>
    BY <1>1 DEF vars
  <2>2. \A t \in Threads, c \in Bins : TlabHead(t, c)' = TlabHead(t, c)
    BY <2>1 DEF TlabHead
  <2>3. StoreSound' /\ Holdings' = Holdings
    BY <2>1, <2>2, Still
  <2>4. ASSUME NEW s \in Threads PROVE CallSound(s)'
    <3>1. call[s].at = "refilled" => call[s].block \notin pr
      BY FreshBlock
    <3> QED BY <2>1, <2>3, <3>1, CallKept
  <2>5. bins' \in [Threads -> [Bins -> Links]] /\ bytes' \in [Threads -> 0..Threshold] /\ call' \in [Threads -> Calls]
    BY <2>1 DEF IInv, Shapes
  <2> QED BY <2>3, <2>4, <2>5, FromStore
<1>2. ASSUME NEW t \in Threads, NEW l \in Layouts, AllocTlab(t, l) PROVE IInv'
  BY <1>2, AllocTlabStep
<1>3. ASSUME NEW t \in Threads, NEW l \in Layouts, AllocPool(t, l) PROVE IInv'
  BY <1>3, AllocPoolStep
<1>4. ASSUME NEW t \in Threads, NEW l \in Layouts, Refill(t, l) PROVE IInv'
  BY <1>4, RefillStep
<1>5. ASSUME NEW t \in Threads, NEW o \in live, FreeTlab(t, o) PROVE IInv'
  BY <1>5, FreeTlabStep
<1>6. ASSUME NEW t \in Threads, NEW o \in live, FreePool(t, o) PROVE IInv'
  BY <1>6, FreePoolStep
<1>7. ASSUME NEW t \in Threads, Exit(t) PROVE IInv'
  BY <1>7, ExitStep
<1>8. ASSUME NEW t \in Threads, AllocFresh(t) PROVE IInv'
  BY <1>8, AllocFreshStep
<1>9. ASSUME NEW t \in Threads, ClearCell(t) PROVE IInv'
  BY <1>9, ClearCellStep
<1>10. ASSUME NEW t \in Threads, ClearBin(t) PROVE IInv'
  BY <1>10, ClearBinStep
<1> QED BY <1>1, <1>2, <1>3, <1>4, <1>5, <1>6, <1>7, <1>8, <1>9, <1>10 DEF Next, Step
----------------------------------------------------------------------------
\* What the invariant says of the properties

\* The lists the properties are about.
LEMMA ListsAre ==
  ASSUME IInv
  PROVE  /\ \A t \in Threads, c \in Bins : <<t, c>> \in Lists /\ InTlab(t, c) = Holdings[<<t, c>>]
         /\ \A b \in Blocks \ pr : /\ <<b, Own>> \in Lists /\ Chain(blk[b].head) = Holdings[<<b, Own>>]
                                   /\ Ends(blk[b].head)
<1>1. ASSUME NEW t \in Threads, NEW c \in Bins
      PROVE  <<t, c>> \in Lists /\ InTlab(t, c) = Holdings[<<t, c>>]
  <2>1. <<t, c>> \in Lists /\ c # Own
    BY ListKinds
  <2> QED BY <2>1 DEF InTlab, Holdings, HeadOf
<1>2. ASSUME NEW b \in Blocks \ pr
      PROVE  /\ <<b, Own>> \in Lists /\ Chain(blk[b].head) = Holdings[<<b, Own>>]
             /\ Ends(blk[b].head)
  <2> DEFINE q == <<b, Own>>
             h == blk[b].head
             L == Holdings[q]
  <2>1. q \in Lists /\ HeadOf(q) = h /\ L = Chain(h)
    BY ListKinds DEF HeadOf, Holdings
  <2>2. Listed(L, h, word, Zero) /\ L \in SUBSET Addresses
    <3> HIDE DEF q
    <3> QED BY <2>1, Held, HeldAddresses
  <2>3. DOMAIN word = Addresses
    BY DEF IInv, Shapes
  <2> HIDE DEF h, L
  <2>4. ListEnds(h, word, Zero)
    BY <2>2, <2>3, Numbers, ListedFollowed
  <2> QED BY <2>1, <2>4 DEF Ends, h, L
<1> QED BY <1>1, <1>2

LEMMA TypesFollow ==
  ASSUME IInv
  PROVE  TypeOK
BY DEF IInv, Shapes, TypeOK, Meta, Links

LEMMA ConservedFollows ==
  ASSUME IInv
  PROVE  CellsConserved
<1> SUFFICES ASSUME NEW b \in Blocks \ pr
             PROVE  /\ Ends(blk[b].head) /\ Chain(blk[b].head) \subseteq Carved(b)
                    /\ \A a \in Carved(b) :
                         Cardinality({o \in live : o[1] = a})
                         + Cardinality({q \in Threads \X Bins : a \in InTlab(q[1], q[2])})
                         + (IF a \in Chain(blk[b].head) THEN 1 ELSE 0) = 1
  BY DEF CellsConserved
<1> DEFINE r == <<b, Own>>
<1>1. r \in Lists /\ r[1] = b /\ r[2] = Own /\ Chain(blk[b].head) = Holdings[r] /\ Ends(blk[b].head)
  BY ListsAre
<1> HIDE DEF r
<1>2. Holdings[r] \subseteq Carved(b)
  BY <1>1, Held, CellOf
<1>3. ASSUME NEW a \in Carved(b)
      PROVE  Cardinality({o \in live : o[1] = a})
             + Cardinality({q \in Threads \X Bins : a \in InTlab(q[1], q[2])})
             + (IF a \in Holdings[r] THEN 1 ELSE 0) = 1
  <2> DEFINE S == {o \in live : o[1] = a}
             T == {q \in Threads \X Bins : a \in InTlab(q[1], q[2])}
  <2>1. a \in CarvedCells /\ Containing(a) = b
    BY CellIn
  <2>2. T = {q \in Threads \X Bins : a \in Holdings[q]}
    <3>1. ASSUME NEW q \in Threads \X Bins PROVE InTlab(q[1], q[2]) = Holdings[q]
      <4>1. q[1] \in Threads /\ q[2] \in Bins /\ q = <<q[1], q[2]>>
        OBVIOUS
      <4> QED BY <4>1, ListsAre
    <3> QED BY <3>1
  <2>3. \A q \in Threads \X Bins : q \in Lists /\ q # r
    <3>1. \A q \in Threads \X Bins : q[2] # Own
      <4>1. \A q \in Threads \X Bins : q[2] \in Bins /\ q[1] \in Threads
        OBVIOUS
      <4> QED BY <4>1, ListKinds
    <3> QED BY <1>1, <3>1 DEF Lists
  <2> HIDE DEF S, T
  <2>4. CASE a \in LiveCells
    <3>1. PICK o \in live : o[1] = a
      BY <2>4 DEF LiveCells
    <3>2. S = {o}
      BY <3>1 DEF S, IInv, Fitting
    <3>3. \A q \in Lists : a \notin Holdings[q]
      BY <2>4, Held
    <3>4. T = {}
      BY <2>2, <2>3, <3>3
    <3>5. Cardinality(S) = 1 /\ Cardinality(T) = 0
      BY <3>2, <3>4, FS_Singleton, FS_EmptySet
    <3> QED BY <1>1, <3>3, <3>5 DEF S, T
  <2>5. CASE a \notin LiveCells
    <3>1. S = {}
      BY <2>5 DEF S, LiveCells
    <3>2. PICK z \in Lists : a \in Holdings[z]
      BY <2>1, <2>5 DEF IInv, Placed
    <3>3. \A q \in Lists \ {z} : a \notin Holdings[q]
      BY <3>2, Held
    <3>4. Cardinality(S) = 0
      BY <3>1, FS_EmptySet
    <3>5. CASE z[2] = Own
      <4>1. z[1] = b /\ z = <<z[1], z[2]>>
        BY <2>1, <3>2, <3>5, Held, ListKinds
      <4>2. z = r
        BY <3>5, <4>1 DEF r
      <4>3. T = {}
        BY <2>2, <2>3, <3>3, <4>2
      <4>4. Cardinality(T) = 0
        BY <4>3, FS_EmptySet
      <4> QED BY <3>2, <3>4, <4>2, <4>4 DEF S, T
    <3>6. CASE z[2] # Own
      <4>1. z \in Threads \X Bins /\ z # r
        BY <1>1, <3>6, ListKinds DEF Lists
      <4>2. T = {z}
        BY <2>2, <2>3, <3>2, <3>3, <4>1
      <4>3. Cardinality(T) = 1 /\ a \notin Holdings[r]
        BY <1>1, <3>3, <4>1, <4>2, FS_Singleton
      <4> QED BY <3>4, <4>3 DEF S, T
    <3> QED BY <3>5, <3>6
  <2> QED BY <2>4, <2>5
<1> QED BY <1>1, <1>2, <1>3

LEMMA CountsFollow ==
  ASSUME IInv
  PROVE  CountsExact
<1>1. ASSUME NEW b \in Blocks \ pr
      PROVE  blk[b].used = Size(blk[b].class) * Cardinality(Carved(b) \ Chain(blk[b].head))
  BY ListsAre DEF IInv, BlockSound
<1>2. ASSUME NEW t \in Threads, call[t].at = "idle"
      PROVE  bytes[t] = Total([c \in Bins |-> Size(c) * Cardinality(InTlab(t, c))], Bins)
  <2>1. Weights(t) = [c \in Bins |-> Size(c) * Cardinality(InTlab(t, c))]
    BY ListsAre DEF Weights
  <2>2. bytes[t] = Total(Weights(t), Bins)
    BY <1>2 DEF IInv, CallSound
  <2> QED BY <2>1, <2>2
<1> QED BY <1>1, <1>2 DEF CountsExact

LEMMA FitFollows ==
  ASSUME IInv
  PROVE  ObjectsFit
<1>1. ASSUME NEW o \in live
      PROVE  LET b == Containing(o[1]) IN
               /\ b \notin pr
               /\ o[2] <= Size(blk[b].class) /\ o[1] % o[3] = 0
               /\ o[1] + o[2] <= Start(b) + BlockUnits
  <2> DEFINE b == Containing(o[1])
  <2>1. /\ o[1] \in CarvedCells
        /\ o[2] \in Nat /\ o[2] <= Size(blk[b].class) /\ o[1] % o[3] = 0
    BY DEF IInv, Fitting, Fits
  <2>2. b \in Blocks \ pr /\ o[1] \in Carved(b) /\ o[1] \in Nat
    BY <2>1, CellOf
  <2>3. o[1] + Size(blk[b].class) <= Start(b) + BlockUnits /\ blk[b].class \in Classes
    BY <2>2, CellIn
  <2>4. Size(blk[b].class) \in Nat /\ Start(b) \in Nat /\ BlockUnits \in Nat
    <3>1. b \in Nat /\ BlockUnits \in Nat
      BY <2>2, Numbers, BlocksAssumption
    <3> HIDE DEF b
    <3> QED BY <2>3, <3>1, SizeFacts DEF Start
  <2> QED BY <2>1, <2>2, <2>3, <2>4
<1>2. ASSUME NEW t \in Threads, NEW c \in Bins, NEW a \in InTlab(t, c)
      PROVE  blk[Containing(a)].class = c
  <2> DEFINE q == <<t, c>>
  <2>1. q \in Lists /\ q[2] = c /\ c # Own /\ a \in Holdings[q]
    BY ListsAre, ListKinds
  <2> HIDE DEF q
  <2> QED BY <2>1, Held
<1> QED BY <1>1, <1>2 DEF ObjectsFit

----------------------------------------------------------------------------
\* The invariant IInv holds in every reachable state.
THEOREM CellsInvariant == Spec => []IInv
<1>1. Init => IInv
  BY InitHolds
<1>2. IInv /\ [Next]_vars => IInv'
  BY StepHolds
<1> QED BY <1>1, <1>2, PTL DEF Spec

\* While cells travel between threads and threads exit, every carved cell of a
\* block in use has one place, the counts are those of the cells, and a dead
\* thread has none.
THEOREM CellsSoundHolds == Spec => []CellsSound
<1>1. IInv => CellsSound
  <2> SUFFICES ASSUME IInv PROVE CellsSound
    OBVIOUS
  <2>1. NothingKept
    BY DEF IInv, CallSound, NothingKept
  <2> QED BY <2>1, TypesFollow, ConservedFollows, CountsFollow DEF CellsSound
<1> QED BY <1>1, CellsInvariant, PTL

\* Every object has the size and alignment that were asked for, in a block in
\* use, whichever buffer its cell came through.
THEOREM ObjectsFitHolds == Spec => []ObjectsFit
<1>1. IInv => ObjectsFit
  BY FitFollows
<1> QED BY <1>1, CellsInvariant, PTL
----------------------------------------------------------------------------
\* The refinement

\* The variables of HoardHeap, as Heap has them, and its constant.
Out(b) == {o \in live : Containing(o[1]) = b}
OutOf == [b \in Blocks |-> Cardinality({o \in live : Containing(o[1]) = b})]
KindOf == [b \in Blocks |-> IF blk[b].cursor = BlockUnits /\ blk[b].used = 0 /\ blk[b].head = Zero
                            THEN 0 ELSE blk[b].class + 1]
Room == [c \in 1..(LogMax + 1) |-> (BlockUnits - AlignUp(MetaUnits, Size(c - 1))) \div Size(c - 1)]

\* A block in use shows its class and has no more objects than it has cells;
\* the others have none.
Shown ==
  /\ \A b \in Blocks \ pr :
       /\ blk[b].class \in Classes /\ KindOf[b] = blk[b].class + 1
       /\ Cardinality(Out(b)) <= Room[KindOf[b]]
  /\ \A b \in Blocks : /\ IsFiniteSet(Out(b)) /\ Cardinality(Out(b)) \in Nat
                       /\ b \in pr => Out(b) = {}

LEMMA ShownHolds ==
  IInv => Shown
<1> SUFFICES ASSUME IInv PROVE Shown
  OBVIOUS
<1>1. ASSUME NEW b \in Blocks PROVE IsFiniteSet(Out(b)) /\ Cardinality(Out(b)) \in Nat
  <2> DEFINE f == [o \in Out(b) |-> o[1]]
  <2>1. \A o \in Out(b) : o[1] \in Addresses
    BY ObjectCell DEF Out
  <2>2. \A x, y \in Out(b) : x[1] = y[1] => x = y
    BY DEF Out, IInv, Fitting
  <2>3. f \in Injection(Out(b), Addresses)
    BY <2>1, <2>2 DEF Injection, IsInjective
  <2> QED BY <2>3, Numbers, FS_Injection, FS_CardinalityType
<1>2. ASSUME NEW b \in pr PROVE Out(b) = {}
  BY ObjectCell DEF Out
<1>3. ASSUME NEW b \in Blocks \ pr
      PROVE  /\ blk[b].class \in Classes /\ KindOf[b] = blk[b].class + 1
             /\ Cardinality(Out(b)) <= Room[KindOf[b]]
  <2> DEFINE c == blk[b].class
             n == blk[b].cursor
             q == <<b, Own>>
             C == {o[1] : o \in Out(b)}
  <2>1. c \in Classes /\ n \in 0..BlockUnits /\ Carved(b) = CarvedTo(b, c, n)
    BY CellIn
  <2>2. c \in Nat /\ Size(c) \in Nat \ {0} /\ First(c) \in Nat /\ First(c) < BlockUnits
        /\ First(c) % Size(c) = 0
    BY <2>1, SizeFacts, Numbers DEF Aligned, Size
  <2>3. ASSUME n = BlockUnits, blk[b].used = 0, blk[b].head = Zero PROVE FALSE
    <3>1. q \in Lists /\ HeadOf(q) = Zero
      BY <2>3, ListKinds DEF HeadOf
    <3>2. Holdings[q] = {}
      <4> HIDE DEF q
      <4> QED BY <3>1, HeldAddresses
    <3>3. First(c) \in First(c)..(n - 1)
      BY <2>2, <2>3, Numbers
    <3>4. Start(b) + First(c) \in Carved(b)
      BY <2>1, <2>2, <3>3 DEF CarvedTo
    <3>5. blk[b].used = Size(c) * Cardinality(Carved(b) \ Holdings[q])
      BY DEF IInv, BlockSound
    <3>6. IsFiniteSet(Carved(b)) /\ Cardinality(Carved(b)) \in Nat
      <4> DEFINE S == Carved(b)
      <4>1. S \in SUBSET CarvedTo(b, c, n)
        BY <2>1
      <4> HIDE DEF S
      <4> QED BY <2>1, <4>1, CellsCounted DEF S
    <3>7. Cardinality(Carved(b)) # 0
      BY <3>4, <3>6, FS_EmptySet
    <3>8. Size(c) * Cardinality(Carved(b)) = 0
      BY <2>3, <3>2, <3>5
    <3> QED BY <2>2, <3>6, <3>7, <3>8
  <2>4. KindOf[b] = c + 1
    BY <2>3 DEF KindOf
  <2>5. C \in SUBSET CarvedTo(b, c, n)
    BY <2>1, ObjectCell, CellOf DEF Out
  <2>6. Cardinality(C) \in Nat /\ Cardinality(C) <= Capacity(c) /\ IsFiniteSet(C)
    <3> HIDE DEF C, c, n
    <3> QED BY <2>1, <2>5, CellsCounted
  <2>7. Cardinality(Out(b)) = Cardinality(C)
    <3> DEFINE f == [o \in Out(b) |-> o[1]]
    <3>1. \A x, y \in Out(b) : x[1] = y[1] => x = y
      BY DEF Out, IInv, Fitting
    <3>2. f \in Bijection(Out(b), C)
      BY <3>1 DEF Bijection, Injection, Surjection, IsInjective
    <3>3. ExistsBijection(Out(b), C)
      BY <3>2 DEF ExistsBijection
    <3> HIDE DEF C
    <3> QED BY <1>1, <3>3, FS_Bijection
  <2>8. Room[c + 1] = Capacity(c)
    <3>1. c + 1 \in 1..(LogMax + 1) /\ (c + 1) - 1 = c
      BY <2>1, <2>2, BlocksAssumption DEF Classes
    <3> HIDE DEF c
    <3> QED BY <3>1 DEF Room, Capacity, First
  <2> QED BY <2>1, <2>4, <2>6, <2>7, <2>8
<1>4. \A b \in pr : b \in Blocks
  BY DEF IInv, Shapes
<1> QED BY <1>1, <1>2, <1>3 DEF Shown

LEMMA ShownNext ==
  IInv' => Shown'
BY ShownHolds, PTL

\* What the steps do to the cells that are out.
LEMMA OutMore ==
  ASSUME IInv, NEW l, NEW a, HandOut(a, l), Containing(a) \in Blocks, a \notin LiveCells
  PROVE  OutOf' = [OutOf EXCEPT ![Containing(a)] = @ + 1]
         /\ Cardinality(Out(Containing(a)))' = OutOf[Containing(a)] + 1
<1> DEFINE b == Containing(a)
           o == <<a, l[1], l[2]>>
<1>1. live' = live \cup {o} /\ o \notin live /\ o[1] = a
  BY DEF HandOut, LiveCells
<1> HIDE DEF o
<1>2. \A d \in Blocks \ {b} : Out(d)' = Out(d)
  BY <1>1 DEF Out
<1>3. Out(b)' = Out(b) \cup {o} /\ o \notin Out(b)
  BY <1>1 DEF Out
<1>4. IsFiniteSet(Out(b))
  BY ShownHolds DEF Shown
<1>5. Cardinality(Out(b))' = Cardinality(Out(b)) + 1
  BY <1>3, <1>4, FS_AddElement
<1>6. \A d \in Blocks : OutOf[d] = Cardinality(Out(d)) /\ OutOf'[d] = Cardinality(Out(d))'
  BY DEF OutOf, Out
<1>7. OutOf' = [d \in Blocks |-> OutOf'[d]] /\ OutOf = [d \in Blocks |-> OutOf[d]]
  BY DEF OutOf
<1> QED BY <1>2, <1>5, <1>6, <1>7

LEMMA OutFewer ==
  ASSUME IInv, NEW o \in live, live' = live \ {o}
  PROVE  /\ Containing(o[1]) \in Blocks /\ OutOf[Containing(o[1])] > 0
         /\ OutOf' = [OutOf EXCEPT ![Containing(o[1])] = @ - 1]
<1> DEFINE b == Containing(o[1])
<1>1. b \in Blocks
  BY ObjectCell
<1>2. \A d \in Blocks \ {b} : Out(d)' = Out(d)
  BY DEF Out
<1>3. Out(b)' = Out(b) \ {o} /\ o \in Out(b)
  BY DEF Out
<1>4. IsFiniteSet(Out(b)) /\ Cardinality(Out(b)) \in Nat
  BY <1>1, ShownHolds DEF Shown
<1>5. Cardinality(Out(b))' = Cardinality(Out(b)) - 1 /\ Cardinality(Out(b)) # 0
  BY <1>3, <1>4, FS_RemoveElement, FS_EmptySet
<1>6. \A d \in Blocks : OutOf[d] = Cardinality(Out(d)) /\ OutOf'[d] = Cardinality(Out(d))'
  BY DEF OutOf, Out
<1>7. OutOf' = [d \in Blocks |-> OutOf'[d]] /\ OutOf = [d \in Blocks |-> OutOf[d]]
  BY DEF OutOf
<1> QED BY <1>1, <1>2, <1>4, <1>5, <1>6, <1>7
\* The kinds stay when the blocks in use do and keep their classes.
LEMMA KindsStay ==
  ASSUME IInv, IInv', NEW b \in Blocks \ pr, blk'[b].class = blk[b].class,
         \A d \in Blocks \ {b} : blk'[d] = blk[d], b \in pr' => blk'[b].head # Zero
  PROVE  KindOf' = KindOf
<1>1. KindOf[b] = blk[b].class + 1 /\ KindOf'[b] = blk'[b].class + 1
  <2>1. KindOf[b] = blk[b].class + 1
    BY ShownHolds DEF Shown
  <2>2. CASE b \in pr'
    BY <2>1, <2>2 DEF KindOf
  <2>3. CASE b \notin pr'
    BY <2>1, <2>3, ShownNext DEF Shown
  <2> QED BY <2>1, <2>2, <2>3
<1>2. \A d \in Blocks \ {b} : KindOf'[d] = KindOf[d]
  BY DEF KindOf
<1>3. KindOf = [d \in Blocks |-> KindOf[d]] /\ KindOf' = [d \in Blocks |-> KindOf'[d]]
  BY DEF KindOf
<1> QED BY <1>1, <1>2, <1>3

\* The cell was not out, and there was room for it as there is no more of them
\* afterwards than the block holds.
LEMMA HandOutAllocs ==
  ASSUME IInv, IInv', NEW a, NEW l, HandOut(a, l), a \notin LiveCells,
         NEW b \in Blocks \ pr, Containing(a) = b, b \notin pr', KindOf' = KindOf
  PROVE  Heap!Alloc(b)
<1>1. OutOf' = [OutOf EXCEPT ![b] = @ + 1] /\ Cardinality(Out(b))' = OutOf[b] + 1
  BY OutMore
<1>2. /\ Cardinality(Out(b))' <= Room[KindOf[b]]
      /\ KindOf'[b] = blk'[b].class + 1 /\ blk'[b].class \in Classes
  BY ShownNext DEF Shown, Room
<1>3. KindOf[b] # 0
  BY <1>2, BlocksAssumption DEF Classes
<1>4. OutOf[b] < Room[KindOf[b]]
  <2>1. OutOf[b] = Cardinality(Out(b)) /\ Cardinality(Out(b)) \in Nat
    BY ShownHolds DEF OutOf, Out, Shown
  <2>2. Room[KindOf[b]] \in Int
    <3> DEFINE c == blk'[b].class
    <3>1. c + 1 \in 1..(LogMax + 1) /\ c \in Nat /\ (c + 1) - 1 = c /\ c \in Classes
      BY <1>2, BlocksAssumption DEF Classes
    <3> HIDE DEF c
    <3>2. Room[c + 1] = (BlockUnits - First(c)) \div Size(c)
      BY <3>1 DEF Room, First
    <3>3. First(c) \in Nat /\ Size(c) \in Nat \ {0} /\ BlockUnits \in Nat
      BY <3>1, SizeFacts, Numbers
    <3> QED BY <1>2, <3>2, <3>3 DEF c
  <2> QED BY <1>1, <1>2, <2>1, <2>2
<1> QED BY <1>1, <1>3, <1>4 DEF Heap!Alloc, Heap!Unused, OutOf, KindOf, Room

LEMMA BlockAllocs ==
  ASSUME IInv, IInv', NEW b \in Blocks \ pr, AllocCell(b), ~IsFull(blk[b]),
         NEW l, HandOut(NextCell(b), l), pr' = pr
  PROVE  Heap!Alloc(b)
<1> DEFINE a == NextCell(b)
<1>1. a \in Carved(b)' /\ a \notin LiveCells
  <2>1. CASE blk[b].cursor < BlockUnits
    BY <2>1, TakenNew DEF Taken
  <2>2. CASE ~(blk[b].cursor < BlockUnits)
    BY <2>2, TakenPopped DEF Taken
  <2> QED BY <2>1, <2>2
<1> HIDE DEF a
<1>2. /\ blk'[b].class = blk[b].class
      /\ \A d \in Blocks \ {b} : blk'[d] = blk[d]
  BY AllocFields
<1>3. blk'[b].cursor \in 0..BlockUnits
  <2>1. blk[b].class \in Classes /\ blk'[b].cursor \in First(blk[b].class)..BlockUnits
    BY <1>2, CellIn DEF IInv, BlockSound
  <2> QED BY <2>1, SizeFacts, Numbers
<1>4. Containing(a) = b
  <2>1. Carved(b)' = CarvedTo(b, blk[b].class, blk'[b].cursor)
    BY <1>2 DEF Carved, CarvedTo, First
  <2> QED BY <1>1, <1>3, <2>1, CellIn, CellFacts
<1>5. KindOf' = KindOf
  BY <1>2, KindsStay
<1> QED BY <1>1, <1>4, <1>5, HandOutAllocs DEF a

\* The cells of a buffer are not out.
LEMMA BufferAllocs ==
  ASSUME IInv, IInv', NEW t \in Threads, NEW l \in Layouts, AllocTlab(t, l)
  PROVE  Heap!Next
<1> DEFINE c == FromLayout(l)
           a == bins[t][c]
           q == <<t, c>>
<1>1. /\ call[t] = Idle /\ Served(l) /\ c \in Bins /\ a # Zero /\ HandOut(a, l)
      /\ blk' = blk /\ pr' = pr
  BY ServedClass DEF AllocTlab, TlabHas
<1>2. q \in Lists /\ HeadOf(q) = a
  BY <1>1, IdleBin, ListKinds DEF Idle
<1>3. a \in Holdings[q]
  <2>1. HeadOf(q) \in Holdings[q] \cup {Zero}
    BY <1>2, HeldAddresses
  <2> HIDE DEF a, q
  <2> QED BY <1>1, <1>2, <2>1
<1> HIDE DEF a, c, q
<1>4. a \notin LiveCells /\ Containing(a) \in Blocks \ pr
  BY <1>2, <1>3, Held, CellOf
<1>5. KindOf' = KindOf
  BY <1>1 DEF KindOf
<1>6. Heap!Alloc(Containing(a))
  BY <1>1, <1>4, <1>5, HandOutAllocs
<1> QED BY <1>4, <1>6 DEF Heap!Next

LEMMA RefillDedicates ==
  ASSUME IInv, IInv', NEW t \in Threads, NEW l \in Layouts, Refill(t, l)
  PROVE  Heap!Next
<1> DEFINE c == FromLayout(l)
<1>1. PICK b \in pr : pr' = pr \ {b} /\ blk' = [blk EXCEPT ![b] = InitBlock(c)]
  BY DEF Refill
<1>2. Served(l) /\ live' = live
  BY DEF Refill
<1>3. b \in Blocks /\ c \in Classes
  BY <1>2, ServedClass DEF IInv, Shapes
<1> HIDE DEF c
<1>4. blk'[b].class = c /\ \A d \in Blocks \ {b} : blk'[d] = blk[d]
  BY <1>1, <1>3 DEF IInv, Shapes, InitBlock
<1>5. OutOf[b] = 0 /\ OutOf' = OutOf
  <2>1. Out(b) = {}
    BY <1>1, <1>3, ShownHolds DEF Shown
  <2> QED BY <1>2, <1>3, <2>1, FS_EmptySet DEF OutOf, Out
<1>6. KindOf' = [KindOf EXCEPT ![b] = c + 1]
  <2>1. KindOf'[b] = c + 1
    BY <1>1, <1>3, <1>4, ShownNext DEF Shown
  <2>2. \A d \in Blocks \ {b} : KindOf'[d] = KindOf[d]
    BY <1>4 DEF KindOf
  <2>3. KindOf = [d \in Blocks |-> KindOf[d]] /\ KindOf' = [d \in Blocks |-> KindOf'[d]]
    BY DEF KindOf
  <2> QED BY <1>3, <2>1, <2>2, <2>3
<1>7. c + 1 \in 1..(LogMax + 1)
  BY <1>3, BlocksAssumption DEF Classes
<1>8. c + 1 \in DOMAIN Room
  BY <1>7 DEF Room
<1>9. Heap!Dedicate(b, c + 1)
  BY <1>5, <1>6 DEF Heap!Dedicate, OutOf, KindOf
<1> QED BY <1>3, <1>8, <1>9 DEF Heap!Next, Room

LEMMA CellFrees ==
  ASSUME IInv, NEW o \in live, live' = live \ {o}, KindOf' = KindOf
  PROVE  Heap!Next
<1> DEFINE b == Containing(o[1])
<1>1. b \in Blocks /\ OutOf[b] > 0 /\ OutOf' = [OutOf EXCEPT ![b] = @ - 1]
  BY OutFewer
<1> HIDE DEF b
<1>2. Heap!Free(b)
  BY <1>1 DEF Heap!Free, OutOf, KindOf
<1> QED BY <1>1, <1>2 DEF Heap!Next

\* A block that is released keeps its class, and the cell as its head.
LEMMA ReturnKeeps ==
  ASSUME IInv, IInv', NEW a \in CarvedCells, FreeCell(a)
  PROVE  KindOf' = KindOf
<1>1. Containing(a) \in Blocks \ pr /\ a # Zero
  BY CellOf DEF Zero
<1> QED BY <1>1, FreeFields, KindsStay

\* Cells, buffers and blocks implement the heap of HoardHeap: an object's cell
\* is in a block that had one left, and a block changes its size class only
\* while clients have no cell of it.
THEOREM CellsImplementHeap == Spec => ImplementsHeap
<1>1. Init => Heap!Init
  <2> SUFFICES ASSUME Init PROVE Heap!Init
    OBVIOUS
  <2>1. live = {} /\ blk = [b \in Blocks |-> [class |-> 0, cursor |-> BlockUnits, used |-> 0, head |-> Zero]]
    BY DEF Init
  <2>2. OutOf = [b \in Blocks |-> 0]
    BY <2>1, FS_EmptySet DEF OutOf
  <2>3. KindOf = [b \in Blocks |-> 0]
    BY <2>1 DEF KindOf
  <2> QED BY <2>2, <2>3 DEF Heap!Init, Heap!Unused, OutOf, KindOf
<1>2. IInv /\ IInv' /\ [Next]_vars => [Heap!Next]_(Heap!vars)
  <2> SUFFICES ASSUME IInv, IInv', [Next]_vars PROVE Heap!Next \/ (OutOf' = OutOf /\ KindOf' = KindOf)
    BY DEF Heap!vars, OutOf, KindOf
  <2>1. CASE UNCHANGED <<blk, live>>
    BY <2>1 DEF OutOf, KindOf
  <2>2. ASSUME NEW t \in Threads, NEW l \in Layouts, AllocTlab(t, l) PROVE Heap!Next
    BY <2>2, BufferAllocs
  <2>3. ASSUME NEW t \in Threads, NEW l \in Layouts, AllocPool(t, l) PROVE Heap!Next
    <3>1. PICK b \in Blocks \ (pr \cup Fresh) :
            /\ ~IsFull(blk[b]) /\ AllocCell(b) /\ HandOut(NextCell(b), l)
      BY <2>3 DEF AllocPool
    <3>2. Heap!Alloc(b)
      BY <2>3, <3>1, BlockAllocs DEF AllocPool
    <3> QED BY <3>2 DEF Heap!Next
  <2>4. ASSUME NEW t \in Threads, NEW l \in Layouts, Refill(t, l) PROVE Heap!Next
    BY <2>4, RefillDedicates
  <2>5. ASSUME NEW t \in Threads, NEW o \in live, FreeTlab(t, o) PROVE Heap!Next
    <3>1. live' = live \ {o} /\ KindOf' = KindOf
      BY <2>5 DEF FreeTlab, KindOf
    <3> QED BY <3>1, CellFrees
  <2>6. ASSUME NEW t \in Threads, NEW o \in live, FreePool(t, o) PROVE Heap!Next
    <3>1. live' = live \ {o} /\ FreeCell(o[1]) /\ o[1] \in CarvedCells
      BY <2>6, ObjectCell DEF FreePool
    <3> QED BY <3>1, ReturnKeeps, CellFrees
  <2>7. ASSUME NEW t \in Threads, AllocFresh(t) PROVE Heap!Next
    <3> DEFINE b == call[t].block
    <3>1. b \in Blocks \ pr /\ ~IsFull(blk[b])
      BY <2>7, FreshBlock DEF AllocFresh
    <3>2. Heap!Alloc(b)
      BY <2>7, <3>1, BlockAllocs DEF AllocFresh
    <3> QED BY <3>1, <3>2 DEF Heap!Next
  <2>8. ASSUME NEW t \in Threads, ClearCell(t) PROVE OutOf' = OutOf /\ KindOf' = KindOf
    <3> DEFINE a == call[t].cell
               q == <<t, call[t].class>>
    <3>1. call[t].at = "clearing" /\ a # Zero /\ FreeCell(a) /\ live' = live
      BY <2>8 DEF ClearCell
    <3>2. q \in Lists /\ HeadOf(q) = a
      BY <3>1, ClearParts, ListKinds DEF HeadOf, TlabHead
    <3>3. a \in CarvedCells
      <4>1. HeadOf(q) \in Holdings[q] \cup {Zero} /\ Holdings[q] \in SUBSET CarvedCells
        <5> HIDE DEF q
        <5> QED BY <3>2, HeldAddresses, Held
      <4> HIDE DEF a, q
      <4> QED BY <3>1, <3>2, <4>1
    <3> QED BY <3>1, <3>3, ReturnKeeps DEF OutOf
  <2>9. ASSUME NEW t \in Threads, Exit(t) \/ ClearBin(t) PROVE UNCHANGED <<blk, live>>
    BY <2>9 DEF Exit, ClearBin
  <2>10. CASE UNCHANGED vars
    BY <2>1, <2>10 DEF vars
  <2>11. CASE Next
    <3>1. PICK t \in Threads :
            \/ \E l \in Layouts : AllocTlab(t, l) \/ AllocPool(t, l) \/ Refill(t, l)
            \/ \E o \in live : FreeTlab(t, o) \/ FreePool(t, o)
            \/ Exit(t) \/ AllocFresh(t) \/ ClearCell(t) \/ ClearBin(t)
      BY <2>11 DEF Next, Step
    <3> QED BY <3>1, <2>1, <2>2, <2>3, <2>4, <2>5, <2>6, <2>7, <2>8, <2>9
  <2> QED BY <2>10, <2>11
<1> QED BY <1>1, <1>2, CellsInvariant, PTL DEF Spec, ImplementsHeap, Heap!Spec
=============================================================================
