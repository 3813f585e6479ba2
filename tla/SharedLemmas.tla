---------------------------- MODULE SharedLemmas ----------------------------
(***************************************************************************)
(* Facts that the proofs of several components need: numbers and powers of *)
(* two, the cells of Buddies, the lists of LinkedLists, and Totals.        *)
(***************************************************************************)
EXTENDS LinkedLists, Totals, Buddies, FiniteSetTheorems, FunctionTheorems, TLAPS

----------------------------------------------------------------------------
\* A nonempty set of numbers has a least one: < is well-founded.
LEMMA NatMin ==
  ASSUME NEW T \in SUBSET Nat, T # {}
  PROVE  \E m \in T : \A n \in T : m <= n
<1> DEFINE Less == {p \in Nat \X Nat : p[1] < p[2]}
<1>1. IsWellFoundedOn(Less, Nat)
  <2>1. Less = OpToRel(<, Nat)
    BY Zenon DEF OpToRel
  <2> QED BY <2>1, NatLessThanWellFounded
<1>2. PICK m \in T : \A n \in T : ~(<<n, m>> \in Less)
  BY <1>1, WFMin
<1>3. ASSUME NEW n \in T, n < m PROVE FALSE
  <2>1. <<n, m>> \in Nat \X Nat /\ <<n, m>>[1] < <<n, m>>[2]
    BY <1>3
  <2>2. <<n, m>> \in Less
    BY <2>1
  <2> QED BY <1>2, <2>2
<1> QED BY <1>3

\* The quotient of a division.
LEMMA Quotient ==
  ASSUME NEW a \in Nat, NEW c \in Nat \ {0}
  PROVE  a \div c \in Nat /\ (a \div c) * c <= a /\ a < (a \div c + 1) * c
OBVIOUS

\* A power of two is the number of subsets of a set, which is not zero.
LEMMA PowerNat ==
  ASSUME NEW k \in Nat
  PROVE  2^k \in Nat \ {0}
<1>1. IsFiniteSet(1..k) /\ Cardinality(1..k) = k
  BY FS_Interval
<1>2. IsFiniteSet(SUBSET (1..k)) /\ Cardinality(SUBSET (1..k)) = 2^k
  BY <1>1, FS_SUBSET
<1>3. 2^k \in Nat
  BY <1>2, FS_CardinalityType
<1>4. 2^k # 0
  BY <1>2, FS_EmptySet
<1> QED BY <1>3, <1>4

\* Powers of two grow, as sets have the subsets of their subsets.
LEMMA PowerGrows ==
  ASSUME NEW k \in Nat, NEW j \in 0..k
  PROVE  2^j <= 2^k
<1>1. /\ IsFiniteSet(1..k) /\ Cardinality(1..k) = k
      /\ IsFiniteSet(1..j) /\ Cardinality(1..j) = j
  BY FS_Interval
<1>2. /\ IsFiniteSet(SUBSET (1..k)) /\ Cardinality(SUBSET (1..k)) = 2^k
      /\ Cardinality(SUBSET (1..j)) = 2^j
  BY <1>1, FS_SUBSET
<1>3. SUBSET (1..j) \in SUBSET (SUBSET (1..k))
  OBVIOUS
<1> QED BY <1>2, <1>3, FS_Subset

\* The subsets of a set of a + b members are pairs of subsets.
LEMMA PowerSum ==
  ASSUME NEW a \in Nat, NEW b \in Nat
  PROVE  2^(a + b) = 2^a * 2^b
<1> DEFINE A == 1..a
           B == (a + 1)..(a + b)
           X == (SUBSET A) \X (SUBSET B)
<1>1. /\ IsFiniteSet(A) /\ Cardinality(A) = a
      /\ IsFiniteSet(B) /\ Cardinality(B) = b
      /\ IsFiniteSet(1..(a + b)) /\ Cardinality(1..(a + b)) = a + b
  <2>1. ASSUME NEW i \in Int, NEW j \in Int, i <= j + 1
        PROVE  IsFiniteSet(i..j) /\ Cardinality(i..j) = j - i + 1
    BY <2>1, FS_Interval
  <2>2. 1 <= a + 1 /\ a + 1 <= a + b + 1 /\ 1 <= a + b + 1
    OBVIOUS
  <2>3. a - 1 + 1 = a /\ a + b - (a + 1) + 1 = b /\ a + b - 1 + 1 = a + b
    OBVIOUS
  <2> HIDE DEF A, B
  <2>4. IsFiniteSet(A) /\ Cardinality(A) = a
    BY <2>1, <2>2, <2>3 DEF A
  <2>5. IsFiniteSet(B) /\ Cardinality(B) = b
    BY <2>1, <2>2, <2>3 DEF B
  <2>6. IsFiniteSet(1..(a + b)) /\ Cardinality(1..(a + b)) = a + b
    BY <2>1, <2>2, <2>3
  <2> QED BY <2>4, <2>5, <2>6
<1>2. /\ IsFiniteSet(SUBSET A) /\ Cardinality(SUBSET A) = 2^a
      /\ IsFiniteSet(SUBSET B) /\ Cardinality(SUBSET B) = 2^b
      /\ IsFiniteSet(SUBSET (1..(a + b))) /\ Cardinality(SUBSET (1..(a + b))) = 2^(a + b)
  BY <1>1, FS_SUBSET
<1>3. IsFiniteSet(X) /\ Cardinality(X) = 2^a * 2^b
  <2> DEFINE S == SUBSET A
             T == SUBSET B
  <2>1. IsFiniteSet(S) /\ IsFiniteSet(T) /\ Cardinality(S) = 2^a /\ Cardinality(T) = 2^b
    BY <1>2
  <2> HIDE DEF S, T
  <2>2. IsFiniteSet(S \X T) /\ Cardinality(S \X T) = Cardinality(S) * Cardinality(T)
    BY <2>1, FS_Product
  <2> QED BY <2>1, <2>2 DEF S, T
<1>4. 1..(a + b) = A \cup B /\ A \cap B = {}
  OBVIOUS
<1> DEFINE f == [p \in X |-> p[1] \cup p[2]]
           Y == SUBSET (A \cup B)
<1>5. f \in Bijection(X, Y)
  <2>1. f \in [X -> Y]
    OBVIOUS
  <2>2. ASSUME NEW p \in X, NEW q \in X, f[p] = f[q] PROVE p = q
    <3>1. p[1] = f[p] \cap A /\ p[2] = f[p] \cap B /\ q[1] = f[q] \cap A /\ q[2] = f[q] \cap B
      BY <1>4
    <3>2. p = <<p[1], p[2]>> /\ q = <<q[1], q[2]>>
      OBVIOUS
    <3> QED BY <2>2, <3>1, <3>2
  <2>3. ASSUME NEW y \in Y PROVE \E p \in X : f[p] = y
    <3> WITNESS <<y \cap A, y \cap B>> \in X
    <3> QED OBVIOUS
  <2> HIDE DEF f, X, Y
  <2> QED BY <2>1, <2>2, <2>3, Fun_IsBij
<1> HIDE DEF f, X, A, B
<1>6. Cardinality(Y) = Cardinality(X)
  <2> HIDE DEF Y
  <2> QED BY <1>3, <1>5, FS_Bijection DEF ExistsBijection
<1> QED BY <1>2, <1>3, <1>4, <1>6

LEMMA PowerStep ==
  ASSUME NEW a \in Nat
  PROVE  2^(a + 1) = 2 * 2^a
<1>1. 2^1 = 2
  <2>1. IsFiniteSet({0}) /\ Cardinality({0}) = 1
    BY FS_Singleton
  <2>2. Cardinality(SUBSET {0}) = 2^1
    BY <2>1, FS_SUBSET
  <2> DEFINE S == {{}}
             x == {0}
  <2>3. SUBSET {0} = S \cup {x} /\ x \notin S
    OBVIOUS
  <2>4. IsFiniteSet(S) /\ Cardinality(S) = 1
    BY FS_Singleton
  <2> HIDE DEF S, x
  <2>5. Cardinality(S \cup {x}) = 2
    BY <2>3, <2>4, FS_AddElement
  <2> QED BY <2>2, <2>3, <2>5
<1>2. 1 \in Nat /\ 2^a \in Nat
  BY PowerNat
<1>3. 2^(a + 1) = 2^a * 2^1
  BY <1>2, PowerSum
<1> QED BY <1>1, <1>2, <1>3

\* A set has at least as many subsets as members.
LEMMA PowerAbove ==
  ASSUME NEW n \in Nat
  PROVE  n <= 2^n
<1> DEFINE f == [x \in 1..n |-> {x}]
<1>0. IsFiniteSet(1..n) /\ Cardinality(1..n) = n
  BY FS_Interval
<1>1. IsFiniteSet(SUBSET (1..n)) /\ Cardinality(SUBSET (1..n)) = 2^n
  BY <1>0, FS_SUBSET
<1>2. f \in [1..n -> SUBSET (1..n)] /\ \A x, y \in 1..n : f[x] = f[y] => x = y
  OBVIOUS
<1>3. f \in Injection(1..n, SUBSET (1..n))
  BY <1>2 DEF Injection, IsInjective
<1> QED BY <1>0, <1>1, <1>3, FS_Injection

----------------------------------------------------------------------------
\* An aligned cell starts at a multiple of its units, and those are aligned.
LEMMA AlignedMultiple ==
  ASSUME NEW c \in Nat
  PROVE  /\ \A u \in Nat : Aligned(u, c) => u \div 2^c \in Nat /\ u = (u \div 2^c) * 2^c
         /\ \A k \in Nat : k * 2^c \in Nat /\ Aligned(k * 2^c, c) /\ (k * 2^c) \div 2^c = k
<1>1. PICK n \in Nat \ {0} : n = 2^c
  BY PowerNat
<1>2. ASSUME NEW u \in Nat, u % n = 0 PROVE u \div n \in Nat /\ u = (u \div n) * n
  <2>1. u \div n \in Nat /\ u % n \in Nat /\ u = n * (u \div n) + (u % n)
    OBVIOUS
  <2>2. n * (u \div n) = (u \div n) * n /\ (u \div n) * n \in Nat
    BY <2>1
  <2> QED BY <1>2, <2>1, <2>2
<1>3. ASSUME NEW k \in Nat PROVE k * n \in Nat /\ (k * n) % n = 0 /\ (k * n) \div n = k
  <2>1. k * n \in Nat
    OBVIOUS
  <2> DEFINE q == (k * n) \div n
  <2>2. q \in Nat /\ q * n <= k * n /\ k * n < (q + 1) * n
    BY <2>1, Quotient
  <2> HIDE DEF q
  <2>3. ~(q < k)
    <3>1. ASSUME q < k PROVE FALSE
      <4> DEFINE d == k - (q + 1)
      <4>1. d \in Nat /\ k = (q + 1) + d
        BY <2>2, <3>1
      <4> HIDE DEF d
      <4>2. k * n = (q + 1) * n + d * n /\ d * n \in Nat /\ (q + 1) * n \in Nat
        BY <2>2, <4>1
      <4> QED BY <2>2, <4>2
    <3> QED BY <3>1
  <2>4. ~(k < q)
    <3>1. ASSUME k < q PROVE FALSE
      <4> DEFINE d == q - (k + 1)
      <4>1. d \in Nat /\ q = (k + 1) + d
        BY <2>2, <3>1
      <4> HIDE DEF d
      <4>2. q * n = k * n + n + d * n /\ d * n \in Nat
        BY <2>2, <4>1
      <4> QED BY <2>1, <2>2, <4>2
    <3> QED BY <3>1
  <2>5. q = k
    BY <2>2, <2>3, <2>4
  <2>6. (k * n) % n = 0
    <3>1. k * n = n * q + ((k * n) % n) /\ (k * n) % n \in Nat
      BY <2>1 DEF q
    <3> QED BY <2>5, <3>1
  <2> QED BY <2>1, <2>5, <2>6 DEF q
<1> QED BY <1>1, <1>2, <1>3 DEF Aligned

\* An aligned cell and its sibling are apart, and make up the parent cell.
LEMMA BuddyParts ==
  ASSUME NEW u \in Nat, NEW c \in Nat, Aligned(u, c)
  PROVE  LET s == Sibling(u, c)  p == Parent(u, c)
         IN  /\ s \in Nat /\ p \in Nat
             /\ Aligned(s, c) /\ Aligned(p, c + 1)
             /\ Cell(u, c) \cup Cell(s, c) = Cell(p, c + 1)
             /\ Cell(u, c) \cap Cell(s, c) = {}
             /\ Sibling(s, c) = u /\ Parent(s, c) = p /\ p \in {u, s} /\ s # u
<1> DEFINE k == u \div 2^c
<1>1. PICK n \in Nat \ {0} : n = 2^c
  BY PowerNat
<1>2. 2^(c + 1) = 2 * n
  BY <1>1, PowerStep
<1>3. k \in Nat /\ u = k * n
  BY <1>1, AlignedMultiple
<1>4. \A m \in Nat : m * n \in Nat /\ Aligned(m * n, c) /\ (m * n) \div n = m
  BY <1>1, AlignedMultiple
<1>5. \A m \in Nat : Aligned(m * (2 * n), c + 1)
  <2>1. c + 1 \in Nat
    OBVIOUS
  <2> QED BY <1>2, <2>1, AlignedMultiple
<1> HIDE DEF k
<1>6. PICK m \in Nat : k = 2 * m \/ k = 2 * m + 1
  <2>1. k \div 2 \in Nat /\ (k = 2 * (k \div 2) \/ k = 2 * (k \div 2) + 1)
    BY <1>3
  <2> QED BY <2>1
<1> DEFINE a == (2 * m) * n
           b == (2 * m + 1) * n
<1>7. /\ a \in Nat /\ b = a + n /\ a = m * (2 * n)
      /\ Aligned(a, c) /\ Aligned(b, c) /\ Aligned(a, c + 1)
      /\ a \div n = 2 * m /\ b \div n = 2 * m + 1
  <2>1. 2 * m \in Nat /\ 2 * m + 1 \in Nat
    OBVIOUS
  <2>2. a \in Nat /\ b = a + n /\ a = m * (2 * n)
    OBVIOUS
  <2> QED BY <1>4, <1>5, <2>1, <2>2
<1>8. (2 * m) % 2 = 0 /\ (2 * m + 1) % 2 = 1
  OBVIOUS
<1>9. u = a \/ u = b
  BY <1>3, <1>6
<1> HIDE DEF a, b
<1>10. /\ Sibling(a, c) = b /\ Sibling(b, c) = a /\ Parent(a, c) = a /\ Parent(b, c) = a
  <2>1. b - n = a
    BY <1>7
  <2> QED BY <1>1, <1>7, <1>8, <2>1 DEF Sibling, Parent
<1>11. Cell(a, c) = a..(a + n - 1) /\ Cell(b, c) = (a + n)..(a + n + n - 1)
       /\ Cell(a, c + 1) = a..(a + 2 * n - 1)
  BY <1>1, <1>2, <1>7 DEF Cell
<1>12. Cell(a, c) \cup Cell(b, c) = Cell(a, c + 1) /\ Cell(a, c) \cap Cell(b, c) = {} /\ a # b
  BY <1>7, <1>11
<1> QED BY <1>7, <1>9, <1>10, <1>12

\* An aligned cell is the parent of the halves it is split into.
LEMMA BuddyHalves ==
  ASSUME NEW u \in Nat, NEW c \in Nat, Aligned(u, c + 1)
  PROVE  Aligned(u, c) /\ Parent(u, c) = u
<1>1. PICK n \in Nat \ {0} : n = 2^c
  BY PowerNat
<1>2. 2^(c + 1) = 2 * n
  BY <1>1, PowerStep
<1> DEFINE m == u \div 2^(c + 1)
<1>3. m \in Nat /\ u = m * (2 * n)
  <2>1. c + 1 \in Nat
    OBVIOUS
  <2> QED BY <1>2, <2>1, AlignedMultiple
<1> HIDE DEF m
<1>4. 2 * m \in Nat /\ u = (2 * m) * n /\ (2 * m) % 2 = 0
  BY <1>3
<1>5. Aligned(u, c) /\ u \div n = 2 * m
  BY <1>1, <1>4, AlignedMultiple
<1> QED BY <1>1, <1>4, <1>5 DEF Parent

\* Of two aligned cells that overlap the larger one has all of the other, and
\* where the smaller ones of its units may start are all the aligned ones.
LEMMA AlignedNested ==
  ASSUME NEW u \in Nat, NEW c \in Nat, Aligned(u, c),
         NEW v \in Nat, NEW d \in 0..c, Aligned(v, d), Cell(v, d) \cap Cell(u, c) # {}
  PROVE  Cell(v, d) \subseteq Cell(u, c) /\ Aligned(u, d)
<1>1. PICK n \in Nat \ {0} : n = 2^d
  BY PowerNat
<1>2. PICK m \in Nat \ {0} : m = 2^(c - d)
  BY PowerNat
<1>3. 2^c = n * m
  <2>1. c - d \in Nat /\ d \in Nat /\ d + (c - d) = c
    OBVIOUS
  <2> QED BY <1>1, <1>2, <2>1, PowerSum
<1> DEFINE k == u \div 2^c
           i == v \div 2^d
<1>4. k \in Nat /\ i \in Nat /\ u = k * (n * m) /\ v = i * n
  <2>1. d \in Nat
    OBVIOUS
  <2> QED BY <1>1, <1>3, <2>1, AlignedMultiple
<1> HIDE DEF k, i
<1> DEFINE a == k * m
<1>5. a \in Nat /\ u = a * n /\ n * m = m * n
  BY <1>4
<1> HIDE DEF a
<1>6. Aligned(u, d)
  <2>1. d \in Nat
    OBVIOUS
  <2> QED BY <1>1, <1>5, <2>1, AlignedMultiple
<1>7. Cell(v, d) = (i * n)..(i * n + n - 1) /\ Cell(u, c) = (a * n)..(a * n + m * n - 1)
  BY <1>1, <1>3, <1>4, <1>5 DEF Cell
<1>8. PICK w \in Int : i * n <= w /\ w <= i * n + n - 1 /\ a * n <= w /\ w <= a * n + m * n - 1
  BY <1>4, <1>5, <1>7
<1>9. a <= i
  <2>1. ASSUME i < a PROVE FALSE
    <3> DEFINE e == a - (i + 1)
    <3>1. e \in Nat /\ a = (i + 1) + e
      BY <1>4, <1>5, <2>1
    <3> HIDE DEF e
    <3>2. a * n = i * n + n + e * n /\ e * n \in Nat /\ i * n \in Nat
      BY <1>4, <3>1
    <3> QED BY <1>8, <3>2
  <2> QED BY <1>4, <1>5, <2>1
<1>10. i + 1 <= a + m
  <2>1. ASSUME a + m <= i PROVE FALSE
    <3> DEFINE e == i - (a + m)
    <3>1. e \in Nat /\ i = a + m + e
      BY <1>4, <1>5, <2>1
    <3> HIDE DEF e
    <3>2. i * n = a * n + m * n + e * n /\ e * n \in Nat /\ a * n \in Nat /\ m * n \in Nat
      BY <1>5, <3>1
    <3> QED BY <1>8, <3>2
  <2> QED BY <1>4, <1>5, <2>1
<1>11. a * n <= i * n /\ i * n + n <= a * n + m * n
  <2> DEFINE e == i - a
             f == (a + m) - (i + 1)
  <2>1. e \in Nat /\ f \in Nat /\ i = a + e /\ a + m = i + 1 + f
    BY <1>4, <1>5, <1>9, <1>10
  <2> HIDE DEF e, f
  <2>2. i * n = a * n + e * n /\ e * n \in Nat /\ a * n \in Nat
    BY <1>5, <2>1
  <2>3. (a + m) * n = a * n + m * n /\ m * n \in Nat
    BY <1>5
  <2>4. (i + 1 + f) * n = i * n + n + f * n /\ f * n \in Nat /\ i * n \in Nat
    BY <1>4, <2>1
  <2> QED BY <2>1, <2>2, <2>3, <2>4
<1> QED BY <1>4, <1>5, <1>6, <1>7, <1>11

\* Where an aligned cell begins no smaller one is within.
LEMMA AlignedStart ==
  ASSUME NEW u \in Nat, NEW c \in Nat, Aligned(u, c), NEW v \in Nat, Aligned(v, c), v \in Cell(u, c)
  PROVE  v = u
<1>1. PICK n \in Nat \ {0} : n = 2^c
  BY PowerNat
<1> DEFINE k == u \div 2^c
           i == v \div 2^c
<1>2. k \in Nat /\ i \in Nat /\ u = k * n /\ v = i * n
  BY <1>1, AlignedMultiple
<1> HIDE DEF k, i
<1>3. k * n <= i * n /\ i * n < k * n + n
  BY <1>1, <1>2 DEF Cell
<1>4. ASSUME i < k PROVE FALSE
  <2> DEFINE e == k - (i + 1)
  <2>1. e \in Nat /\ k = (i + 1) + e
    BY <1>2, <1>4
  <2> HIDE DEF e
  <2>2. k * n = i * n + n + e * n /\ e * n \in Nat /\ i * n \in Nat
    BY <1>2, <2>1
  <2> QED BY <1>3, <2>2
<1>5. ASSUME k < i PROVE FALSE
  <2> DEFINE e == i - (k + 1)
  <2>1. e \in Nat /\ i = (k + 1) + e
    BY <1>2, <1>5
  <2> HIDE DEF e
  <2>2. i * n = k * n + n + e * n /\ e * n \in Nat /\ k * n \in Nat
    BY <1>2, <2>1
  <2> QED BY <1>3, <2>2
<1> QED BY <1>2, <1>4, <1>5

----------------------------------------------------------------------------
\* The cells in L, each at a depth of its own counted from the end, are the
\* list that starts at head: every link leads one step nearer to the end.
IsList(L, depth, head, word, end) ==
  /\ \A a \in L : depth[a] \in Nat \ {0}
  /\ \A a, b \in L : depth[a] = depth[b] => a = b
  /\ \A a \in L : IF depth[a] = 1 THEN word[a] = end
                  ELSE word[a] \in L /\ depth[word[a]] = depth[a] - 1
  /\ IF L = {} THEN head = end ELSE head \in L /\ \A a \in L : depth[a] <= depth[head]

\* Below the head there is a cell at every depth: each leads to the next.
LEMMA EveryDepth ==
  ASSUME NEW L, NEW depth, NEW head \in L, NEW word, NEW end,
         IsList(L, depth, head, word, end), NEW n \in 0..(depth[head] - 1)
  PROVE  \E a \in L : depth[a] = depth[head] - n
<1> DEFINE T == {m \in 0..(depth[head] - 1) : ~\E a \in L : depth[a] = depth[head] - m}
<1>1. depth[head] \in Nat \ {0}
  BY DEF IsList
<1>2. SUFFICES ASSUME T # {} PROVE FALSE
  OBVIOUS
<1>3. PICK m \in T : \A k \in T : m <= k
  <2>1. T \in SUBSET Nat
    BY <1>1
  <2> QED BY <1>2, <2>1, NatMin
<1>4. m # 0
  BY <1>1
<1>5. m - 1 \in 0..(depth[head] - 1) /\ m - 1 \notin T
  BY <1>1, <1>3, <1>4
<1>6. PICK a \in L : depth[a] = depth[head] - (m - 1)
  BY <1>5
<1>7. depth[a] # 1 /\ word[a] \in L /\ depth[word[a]] = depth[a] - 1
  BY <1>1, <1>6 DEF IsList
<1> QED BY <1>1, <1>6, <1>7

\* Following the links of a list visits its cells and stops.
LEMMA ListFollowed ==
  ASSUME NEW word, IsFiniteSet(DOMAIN word), NEW end, end \notin DOMAIN word,
         NEW L \in SUBSET DOMAIN word, NEW depth, NEW head,
         IsList(L, depth, head, word, end)
  PROVE  ListCells(head, word, end) = L /\ ListEnds(head, word, end)
<1> DEFINE N == Cardinality(DOMAIN word)
           D == IF L = {} THEN 0 ELSE depth[head]
           at == Follow(head, word, end)
           Next(f, n) == IF n = 0 THEN head
                         ELSE IF f[n - 1] \in DOMAIN word THEN word[f[n - 1]] ELSE end
           CellAt(n) == CHOOSE a \in L : depth[a] = D - n
           g == [n \in 0..N |-> IF n < D THEN CellAt(n) ELSE end]
<1>1. N \in Nat
  BY FS_CardinalityType
<1>2. D \in Nat
  BY DEF IsList
<1>3. \A n \in 0..(D - 1) : CellAt(n) \in L /\ depth[CellAt(n)] = D - n
  <2>1. ASSUME NEW n \in 0..(D - 1) PROVE \E a \in L : depth[a] = D - n
    <3>1. L # {} /\ head \in L /\ D = depth[head]
      BY DEF IsList
    <3> QED BY <3>1, EveryDepth
  <2> QED BY <2>1
<1>4. D <= N
  <2>1. [n \in 1..D |-> CellAt(n - 1)] \in Injection(1..D, DOMAIN word)
    <3> DEFINE f == [n \in 1..D |-> CellAt(n - 1)]
    <3> HIDE DEF CellAt, D
    <3>1. \A n \in 1..D : f[n] \in L /\ depth[f[n]] = D - (n - 1)
      BY <1>2, <1>3
    <3>2. \A n, k \in 1..D : f[n] = f[k] => n = k
      BY <1>2, <3>1
    <3>3. f \in [1..D -> DOMAIN word]
      BY <3>1
    <3> QED BY <3>2, <3>3 DEF Injection, IsInjective
  <2>2. Cardinality(1..D) = D
    BY <1>2, FS_Interval
  <2> QED BY <2>1, <2>2, FS_Injection
<1>5. \A n \in 0..(D - 1) :
        IF n = 0 THEN head = CellAt(n) ELSE word[CellAt(n - 1)] = CellAt(n)
  BY <1>2, <1>3 DEF IsList
<1>6. D > 0 => word[CellAt(D - 1)] = end
  BY <1>2, <1>3 DEF IsList
<1>7. D = 0 => head = end
  BY DEF IsList
<1> HIDE DEF D, N, CellAt
<1>8. g = [n \in 0..N |-> Next(g, n)]
  <2>1. ASSUME NEW n \in 0..N PROVE g[n] = Next(g, n)
    <3>1. CASE n = 0
      BY <1>1, <1>2, <1>5, <1>7, <3>1
    <3>2. CASE n # 0 /\ n < D
      BY <1>1, <1>2, <1>3, <1>5, <3>2
    <3>3. CASE n # 0 /\ n = D
      BY <1>1, <1>2, <1>3, <1>6, <3>3
    <3>4. CASE n # 0 /\ n > D
      BY <1>1, <1>2, <3>4
    <3> QED BY <1>1, <1>2, <3>1, <3>2, <3>3, <3>4
  <2> QED BY <2>1
<1>9. at = [n \in 0..N |-> Next(at, n)]
  BY <1>8 DEF Follow, N
<1>10. \A n \in 0..N : at[n] = g[n]
  <2> DEFINE T == {n \in 0..N : at[n] # g[n]}
  <2>1. SUFFICES ASSUME T # {} PROVE FALSE
    OBVIOUS
  <2>2. PICK n \in T : \A k \in T : n <= k
    <3>1. T \in SUBSET Nat
      OBVIOUS
    <3> QED BY <2>1, <3>1, NatMin
  <2>3. at[n] = Next(at, n) /\ g[n] = Next(g, n)
    BY <1>8, <1>9
  <2>4. n # 0
    BY <2>2, <2>3
  <2>5. at[n - 1] = g[n - 1]
    BY <1>1, <2>2, <2>4
  <2> QED BY <2>2, <2>3, <2>4, <2>5
<1>11. DOMAIN at = 0..N
  BY <1>9
<1>12. ListEnds(head, word, end)
  BY <1>1, <1>2, <1>4, <1>10 DEF ListEnds, N
<1>13. {at[n] : n \in DOMAIN at} \ {end} = {CellAt(n) : n \in 0..(D - 1)}
  BY <1>1, <1>2, <1>3, <1>4, <1>10, <1>11
<1>14. {CellAt(n) : n \in 0..(D - 1)} = L
  <2>1. ASSUME NEW a \in L PROVE D - depth[a] \in 0..(D - 1) /\ a = CellAt(D - depth[a])
    <3>1. depth[a] \in 1..D
      BY DEF IsList, D
    <3>2. D - depth[a] \in 0..(D - 1)
      BY <1>2, <3>1
    <3>3. depth[CellAt(D - depth[a])] = depth[a]
      BY <1>2, <1>3, <3>1, <3>2
    <3> QED BY <1>3, <3>2, <3>3 DEF IsList
  <2> QED BY <1>3, <2>1
<1> QED BY <1>12, <1>13, <1>14 DEF ListCells

----------------------------------------------------------------------------
\* What the proofs use of all this: the list that starts at head is L.
Listed(L, head, word, end) == \E depth : IsList(L, depth, head, word, end)

LEMMA ListedFollowed ==
  ASSUME NEW word, IsFiniteSet(DOMAIN word), NEW end, end \notin DOMAIN word,
         NEW L \in SUBSET DOMAIN word, NEW head, Listed(L, head, word, end)
  PROVE  ListCells(head, word, end) = L /\ ListEnds(head, word, end)
BY ListFollowed DEF Listed

\* A list without cells.
LEMMA ListedNone ==
  ASSUME NEW word, NEW end
  PROVE  Listed({}, end, word, end)
BY DEF Listed, IsList

\* The head and the links of a list are cells of it or its end.
LEMMA ListedLinks ==
  ASSUME NEW L, NEW head, NEW word, NEW end, Listed(L, head, word, end), end \notin L
  PROVE  /\ head \in L \cup {end}
         /\ head = end <=> L = {}
         /\ \A a \in L : word[a] \in L \cup {end}
BY DEF Listed, IsList

\* Only the links of its own cells matter to a list.
LEMMA ListedSame ==
  ASSUME NEW L, NEW head, NEW word, NEW word2, NEW end,
         Listed(L, head, word, end), \A a \in L : word2[a] = word[a]
  PROVE  Listed(L, head, word2, end)
BY DEF Listed, IsList

\* A cell is put in front of the head.
LEMMA ListedPush ==
  ASSUME NEW L, NEW head, NEW word, NEW word2, NEW end, Listed(L, head, word, end),
         \A a \in L : word2[a] = word[a],
         NEW c, c \notin L, end \notin L, word2[c] = head
  PROVE  Listed(L \cup {c}, c, word2, end)
<1>1. PICK depth : IsList(L, depth, head, word, end)
  BY DEF Listed
<1> DEFINE top == IF L = {} THEN 0 ELSE depth[head]
           deeper == [a \in L \cup {c} |-> IF a = c THEN top + 1 ELSE depth[a]]
<1>2. top \in Nat /\ \A a \in L : depth[a] <= top /\ depth[a] \in Nat \ {0}
  BY <1>1 DEF IsList
<1>3. L = {} => head = end
  BY <1>1 DEF IsList
<1>4. L # {} => head \in L /\ depth[head] = top
  BY <1>1 DEF IsList
<1> HIDE DEF top
<1>5. \A a \in L \cup {c} : deeper[a] \in Nat \ {0} /\ deeper[a] <= deeper[c]
  BY <1>2
<1>6. ASSUME NEW a \in L \cup {c}, NEW b \in L \cup {c}, deeper[a] = deeper[b] PROVE a = b
  BY <1>1, <1>2, <1>6 DEF IsList
<1>7. ASSUME NEW a \in L
      PROVE  IF deeper[a] = 1 THEN word2[a] = end
             ELSE word2[a] \in L \cup {c} /\ deeper[word2[a]] = deeper[a] - 1
  BY <1>1, <1>2 DEF IsList
<1>8. IF deeper[c] = 1 THEN word2[c] = end
      ELSE word2[c] \in L \cup {c} /\ deeper[word2[c]] = deeper[c] - 1
  <2>1. CASE L = {}
    BY <1>2, <1>3, <2>1 DEF top
  <2>2. CASE L # {}
    BY <1>2, <1>4, <2>2
  <2> QED BY <2>1, <2>2
<1>9. IsList(L \cup {c}, deeper, c, word2, end)
  BY <1>5, <1>6, <1>7, <1>8 DEF IsList
<1> QED BY <1>9 DEF Listed

\* The head is taken off.
LEMMA ListedPop ==
  ASSUME NEW L, NEW head \in L, NEW word, NEW end, Listed(L, head, word, end)
  PROVE  Listed(L \ {head}, word[head], word, end)
<1>1. PICK depth : IsList(L, depth, head, word, end)
  BY DEF Listed
<1>2. \A a \in L \ {head} : depth[a] < depth[head] /\ depth[a] \in Nat \ {0}
  BY <1>1 DEF IsList
<1>3. \A a \in L : IF depth[a] = 1 THEN word[a] = end
                   ELSE word[a] \in L \ {head} /\ depth[word[a]] = depth[a] - 1
  BY <1>1 DEF IsList
<1>4. IF L \ {head} = {} THEN word[head] = end
      ELSE word[head] \in L \ {head} /\ \A a \in L \ {head} : depth[a] <= depth[word[head]]
  BY <1>1, <1>2, <1>3 DEF IsList
<1>5. IsList(L \ {head}, depth, word[head], word, end)
  BY <1>1, <1>3, <1>4 DEF IsList
<1> QED BY <1>5 DEF Listed
----------------------------------------------------------------------------
\* Sums

\* A sum of f over S counts these pairs.
Weighed(f, S) == {p \in S \X Nat : p[2] < f[p[1]]}

LEMMA WeighedAdd ==
  ASSUME NEW f, NEW S, NEW x, x \notin S, f[x] \in Nat, IsFiniteSet(Weighed(f, S))
  PROVE  /\ IsFiniteSet(Weighed(f, S \cup {x}))
         /\ Cardinality(Weighed(f, S \cup {x})) = Cardinality(Weighed(f, S)) + f[x]
<1>0. PICK n \in Nat : n = f[x]
  OBVIOUS
<1> DEFINE N == 0..(n - 1)
           X == {x} \X N
<1>1. IsFiniteSet({x}) /\ Cardinality({x}) = 1
  BY FS_Singleton
<1>2. IsFiniteSet(N) /\ Cardinality(N) = n
  <2>1. n - 1 \in Int /\ 0 \in Int
    OBVIOUS
  <2>2. IsFiniteSet(N) /\ Cardinality(N) = IF 0 > n - 1 THEN 0 ELSE n - 1 - 0 + 1
    BY <2>1, FS_Interval
  <2> QED BY <2>2
<1>4. Weighed(f, S \cup {x}) = Weighed(f, S) \cup X
  BY <1>0 DEF Weighed
<1>5. Weighed(f, S) \cap X = {}
  BY DEF Weighed
<1> HIDE DEF N
<1>3. IsFiniteSet(X) /\ Cardinality(X) = n
  <2>1. IsFiniteSet(X) /\ Cardinality(X) = Cardinality({x}) * Cardinality(N)
    BY <1>1, <1>2, FS_Product
  <2> QED BY <1>1, <1>2, <2>1
<1> HIDE DEF X
<1> DEFINE W == Weighed(f, S)
<1>6. Cardinality(W) \in Nat
  BY FS_CardinalityType
<1>7. /\ IsFiniteSet(W \cup X)
      /\ Cardinality(W \cup X) = Cardinality(W) + Cardinality(X) - Cardinality(W \cap X)
  BY <1>3, FS_Union
<1>8. Cardinality(W \cap X) = 0
  BY <1>5, FS_EmptySet
<1>9. Cardinality(W \cup X) = Cardinality(W) + n
  BY <1>3, <1>6, <1>7, <1>8
<1> QED BY <1>0, <1>4, <1>7, <1>9

\* Induction over finite sets takes away one element.
LEMMA OneFewer ==
  ASSUME NEW S, IsFiniteSet(S), NEW s \in SUBSET S, NEW x \in s
  PROVE  /\ IsFiniteSet(s)
         /\ Cardinality(s \ {x}) = Cardinality(s) - 1 /\ Cardinality(s) - 1 \in Nat
<1>1. IsFiniteSet(s) /\ Cardinality(s) \in Nat
  BY FS_Subset, FS_CardinalityType
<1>2. Cardinality(s \ {x}) = Cardinality(s) - 1 /\ Cardinality(s \ {x}) \in Nat
  BY <1>1, FS_RemoveElement, FS_CardinalityType
<1> QED BY <1>1, <1>2

LEMMA WeighedFinite ==
  ASSUME NEW S, IsFiniteSet(S), NEW f, \A x \in S : f[x] \in Nat
  PROVE  IsFiniteSet(Weighed(f, S))
<1> DEFINE T == {n \in Nat : \E s \in SUBSET S : Cardinality(s) = n /\ ~IsFiniteSet(Weighed(f, s))}
<1>1. SUFFICES ASSUME ~IsFiniteSet(Weighed(f, S)) PROVE FALSE
  OBVIOUS
<1>2. T # {}
  BY <1>1, FS_CardinalityType
<1>3. PICK n \in T : \A k \in T : n <= k
  BY <1>2, NatMin
<1>4. PICK s \in SUBSET S : Cardinality(s) = n /\ ~IsFiniteSet(Weighed(f, s))
  BY <1>3
<1>5. s # {}
  <2>1. Weighed(f, {}) = {}
    BY DEF Weighed
  <2> QED BY <1>4, <2>1, FS_EmptySet
<1>6. PICK x : x \in s
  BY <1>5
<1>7. IsFiniteSet(s) /\ Cardinality(s \ {x}) = n - 1 /\ n - 1 \in Nat
  BY <1>4, <1>6, OneFewer
<1>8. n - 1 \notin T
  BY <1>3, <1>7
<1>9. IsFiniteSet(Weighed(f, s \ {x}))
  BY <1>7, <1>8
<1>10. s = (s \ {x}) \cup {x}
  BY <1>6
<1>11. IsFiniteSet(Weighed(f, (s \ {x}) \cup {x}))
  BY <1>6, <1>9, WeighedAdd
<1> QED BY <1>4, <1>10, <1>11

LEMMA TotalCounts ==
  ASSUME NEW S, IsFiniteSet(S), NEW f, \A x \in S : f[x] \in Nat
  PROVE  Total(f, S) = Cardinality(Weighed(f, S))
<1> DEFINE Any(s) == CHOOSE x \in s : TRUE
           Next(h, s) == IF s = {} THEN 0 ELSE f[Any(s)] + h[s \ {Any(s)}]
           g == [s \in SUBSET S |-> Cardinality(Weighed(f, s))]
           it == CHOOSE h : h = [s \in SUBSET S |-> Next(h, s)]
<1>1. Total(f, S) = it[S]
  BY DEF Total, MapThenSumSet, MapThenFoldSet
<1>2. \A s \in SUBSET S : IsFiniteSet(s) /\ IsFiniteSet(Weighed(f, s))
  BY FS_Subset, WeighedFinite
<1>3. \A s \in SUBSET S : s # {} => Any(s) \in s
  OBVIOUS
<1> HIDE DEF Any
<1>4. ASSUME NEW s \in SUBSET S PROVE g[s] = Next(g, s)
  <2>1. CASE s = {}
    <3>1. Weighed(f, {}) = {}
      BY DEF Weighed
    <3> QED BY <2>1, <3>1, FS_EmptySet
  <2>2. CASE s # {}
    <3> DEFINE x == Any(s)
    <3>1. x \in s /\ s \ {x} \in SUBSET S /\ s = (s \ {x}) \cup {x}
      BY <1>3, <2>2
    <3> HIDE DEF x
    <3>2. Cardinality(Weighed(f, (s \ {x}) \cup {x})) = Cardinality(Weighed(f, s \ {x})) + f[x]
      BY <1>2, <3>1, WeighedAdd
    <3>3. Cardinality(Weighed(f, s \ {x})) \in Nat
      BY <1>2, <3>1, FS_CardinalityType
    <3>4. f[x] \in Nat
      BY <3>1
    <3>5. g[s] = g[s \ {x}] + f[x]
      BY <3>1, <3>2
    <3>6. g[s] = f[x] + g[s \ {x}]
      BY <3>1, <3>3, <3>4, <3>5
    <3> QED BY <2>2, <3>6 DEF x
  <2> QED BY <2>1, <2>2
<1>5. g = [s \in SUBSET S |-> Next(g, s)]
  BY <1>4
<1>6. it = [s \in SUBSET S |-> Next(it, s)]
  BY <1>5
<1> HIDE DEF it
<1>7. it[S] = g[S]
  <2> DEFINE T == {n \in Nat : \E s \in SUBSET S : Cardinality(s) = n /\ it[s] # g[s]}
  <2>1. SUFFICES ASSUME it[S] # g[S] PROVE FALSE
    OBVIOUS
  <2>2. T # {}
    <3>1. Cardinality(S) \in Nat
      BY FS_CardinalityType
    <3> QED BY <2>1, <3>1
  <2>3. PICK n \in T : \A k \in T : n <= k
    <3>1. T \in SUBSET Nat
      OBVIOUS
    <3> QED BY <2>2, <3>1, NatMin
  <2>4. PICK s \in SUBSET S : Cardinality(s) = n /\ it[s] # g[s]
    BY <2>3
  <2>5. it[s] = Next(it, s) /\ g[s] = Next(g, s)
    BY <1>4, <1>6
  <2>6. s # {}
    BY <2>4, <2>5
  <2> DEFINE x == Any(s)
  <2>7. x \in s
    BY <1>3, <2>6
  <2>8. Cardinality(s \ {x}) = n - 1 /\ n - 1 \in Nat
    BY <2>4, <2>7, OneFewer
  <2>9. n - 1 \notin T
    <3>1. n \in Nat /\ ~(n <= n - 1)
      BY <2>3
    <3> QED BY <2>3, <3>1
  <2> HIDE DEF x
  <2>10. it[s \ {x}] = g[s \ {x}]
    BY <2>8, <2>9
  <2> QED BY <2>4, <2>5, <2>6, <2>10 DEF x
<1> QED BY <1>1, <1>7

\* What the proofs use of it.
LEMMA TotalNat ==
  ASSUME NEW S, IsFiniteSet(S), NEW f, \A x \in S : f[x] \in Nat
  PROVE  Total(f, S) \in Nat
BY TotalCounts, WeighedFinite, FS_CardinalityType

LEMMA TotalNone ==
  ASSUME NEW f
  PROVE  Total(f, {}) = 0
<1>1. Weighed(f, {}) = {}
  BY DEF Weighed
<1>2. Total(f, {}) = Cardinality(Weighed(f, {}))
  BY TotalCounts, FS_EmptySet
<1> QED BY <1>1, <1>2, FS_EmptySet

LEMMA TotalSame ==
  ASSUME NEW S, IsFiniteSet(S), NEW f, \A x \in S : f[x] \in Nat,
         NEW g, \A x \in S : g[x] = f[x]
  PROVE  Total(g, S) = Total(f, S)
<1>1. Weighed(g, S) = Weighed(f, S)
  BY DEF Weighed
<1> QED BY <1>1, TotalCounts

LEMMA TotalAdd ==
  ASSUME NEW S, IsFiniteSet(S), NEW f, \A y \in S : f[y] \in Nat, NEW x, x \notin S, f[x] \in Nat
  PROVE  Total(f, S \cup {x}) = Total(f, S) + f[x]
<1>1. IsFiniteSet(S \cup {x}) /\ \A y \in S \cup {x} : f[y] \in Nat
  BY FS_AddElement
<1>2. Cardinality(Weighed(f, S \cup {x})) = Cardinality(Weighed(f, S)) + f[x]
  BY WeighedFinite, WeighedAdd
<1> QED BY <1>1, <1>2, TotalCounts

LEMMA TotalRemove ==
  ASSUME NEW S, IsFiniteSet(S), NEW f, \A y \in S : f[y] \in Nat, NEW x \in S
  PROVE  Total(f, S \ {x}) = Total(f, S) - f[x]
<1>1. IsFiniteSet(S \ {x}) /\ S = (S \ {x}) \cup {x}
  BY FS_RemoveElement
<1> DEFINE R == S \ {x}
<1>2. R \cup {x} = S /\ x \notin R /\ IsFiniteSet(R) /\ \A y \in R : f[y] \in Nat
  BY <1>1
<1> HIDE DEF R
<1>3. Total(f, S) = Total(f, R) + f[x]
  <2>1. Total(f, R \cup {x}) = Total(f, R) + f[x]
    BY <1>2, TotalAdd
  <2> QED BY <1>2, <2>1
<1>4. Total(f, R) \in Nat /\ f[x] \in Nat
  BY <1>2, TotalNat
<1>5. Total(f, R) = Total(f, S) - f[x]
  BY <1>3, <1>4
<1> QED BY <1>5 DEF R

\* One summand changes.
LEMMA TotalChange ==
  ASSUME NEW S, IsFiniteSet(S), NEW f, NEW g, \A y \in S : f[y] \in Nat /\ g[y] \in Nat,
         NEW x \in S, \A y \in S \ {x} : g[y] = f[y]
  PROVE  Total(g, S) = Total(f, S) + g[x] - f[x]
<1>1. IsFiniteSet(S \ {x})
  BY FS_RemoveElement
<1>2. Total(g, S \ {x}) = Total(f, S \ {x})
  BY <1>1, TotalSame
<1>3. Total(g, S \ {x}) = Total(g, S) - g[x] /\ Total(f, S \ {x}) = Total(f, S) - f[x]
  BY TotalRemove
<1>4. Total(g, S) \in Nat /\ Total(f, S) \in Nat
  BY TotalNat
<1> QED BY <1>2, <1>3, <1>4

\* Summands that are found among others have the smaller sum.
LEMMA TotalAtMost ==
  ASSUME NEW S, IsFiniteSet(S), NEW f, \A x \in S : f[x] \in Nat,
         NEW R, IsFiniteSet(R), NEW g, \A y \in R : g[y] \in Nat,
         NEW h \in Injection(S, R), \A x \in S : f[x] <= g[h[x]]
  PROVE  Total(f, S) <= Total(g, R)
<1> DEFINE i == [p \in Weighed(f, S) |-> <<h[p[1]], p[2]>>]
<1>1. h \in [S -> R] /\ \A x, y \in S : h[x] = h[y] => x = y
  BY DEF Injection, IsInjective
<1>2. \A p \in Weighed(f, S) : p = <<p[1], p[2]>> /\ p[1] \in S /\ p[2] \in Nat /\ p[2] < f[p[1]]
  BY DEF Weighed
<1>3. ASSUME NEW p \in Weighed(f, S) PROVE i[p] \in Weighed(g, R)
  <2>1. p[2] < g[h[p[1]]]
    BY <1>1, <1>2
  <2> QED BY <1>1, <1>2, <2>1 DEF Weighed
<1>4. \A p, q \in Weighed(f, S) : i[p] = i[q] => p = q
  BY <1>1, <1>2
<1>5. i \in [Weighed(f, S) -> Weighed(g, R)]
  BY <1>3
<1>6. i \in Injection(Weighed(f, S), Weighed(g, R))
  BY <1>4, <1>5 DEF Injection, IsInjective
<1> QED BY <1>6, TotalCounts, WeighedFinite, FS_Injection
=============================================================================
