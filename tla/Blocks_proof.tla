---------------------------- MODULE Blocks_proof ----------------------------
(***************************************************************************)
(* Safety of what holds the superblocks, for every number of blocks and    *)
(* threads.                                                                *)
(*                                                                         *)
(* First the lists of a bin (BlockList): every list is doubly linked and   *)
(* of one emptiness group, no block is lost or in two places, the accounts *)
(* are exact, and the lists do what module BlockSets says of sets. The     *)
(* invariant says that there is a function `at` from blocks to places that *)
(* explains the heap, and every operation is described by what it does to  *)
(* that function.                                                          *)
(*                                                                         *)
(* Then the free-block stack of the page resource (BlockPageResource), for *)
(* all interleavings of pops and pushes: it is sound until the first ABA,  *)
(* and nothing but an ABA breaks it.                                       *)
(***************************************************************************)
EXTENDS BlockPageResource, BlockList, SharedLemmas

----------------------------------------------------------------------------
\* Doubly linked lists: a list that starts at first, whose back links are the
\* inverse of its links.
Doubly(L, first, next, prev, end) ==
  /\ Listed(L, first, next, end)
  /\ \A a \in L : IF a = first THEN prev[a] = end
                  ELSE prev[a] \in L /\ next[prev[a]] = a
  /\ \A a \in L : next[a] # end => prev[next[a]] = a

\* No cell leads to itself, and none to the head.
LEMMA ListedForward ==
  ASSUME NEW L, NEW first, NEW link, NEW end, Listed(L, first, link, end), end \notin L
  PROVE  \A a \in L : link[a] # a /\ link[a] # first
BY DEF Listed, IsList

\* A cell behind another one is taken out of the list.
LEMMA ListedUnlink ==
  ASSUME NEW L, NEW first, NEW link, NEW link2, NEW end, Listed(L, first, link, end), end \notin L,
         NEW b \in L, NEW p \in L, link[p] = b,
         \A a \in L \ {b} : link2[a] = IF a = p THEN link[b] ELSE link[a]
  PROVE  Listed(L \ {b}, first, link2, end)
<1>1. PICK depth : IsList(L, depth, first, link, end)
  BY DEF Listed
<1> DEFINE less == [a \in L |-> IF depth[a] > depth[b] THEN depth[a] - 1 ELSE depth[a]]
<1>2. \A a \in L : depth[a] \in Nat \ {0}
  BY <1>1 DEF IsList
<1>3. depth[p] = depth[b] + 1 /\ p # b
  BY <1>1, <1>2 DEF IsList
<1>4. \A a \in L \ {b} : less[a] \in Nat \ {0} /\ less[a] <= depth[a]
                         /\ less[a] >= depth[a] - 1
  BY <1>2
<1>5. \A a, c \in L : depth[a] = depth[c] => a = c
  BY <1>1 DEF IsList
<1>6. ASSUME NEW a \in L \ {b}, NEW c \in L \ {b}, less[a] = less[c] PROVE a = c
  <2>1. depth[a] # depth[b] /\ depth[c] # depth[b]
    BY <1>5
  <2>2. depth[a] = depth[c]
    BY <2>1, <1>6, <1>2
  <2> QED BY <2>2, <1>5
<1>7. \A a \in L : IF depth[a] = 1 THEN link[a] = end
                   ELSE link[a] \in L /\ depth[link[a]] = depth[a] - 1
  BY <1>1 DEF IsList
<1>8. ASSUME NEW a \in L \ {b}
      PROVE  IF less[a] = 1 THEN link2[a] = end
             ELSE link2[a] \in L \ {b} /\ less[link2[a]] = less[a] - 1
  <2>1. CASE a = p
    <3>1. link2[a] = link[b] /\ less[a] = depth[b]
      BY <2>1, <1>3, <1>2
    <3>2. CASE depth[b] = 1
      BY <3>1, <3>2, <1>7
    <3>3. CASE depth[b] # 1
      <4>1. link[b] \in L /\ depth[link[b]] = depth[b] - 1 /\ link[b] # b
        BY <3>3, <1>7, <1>2
      <4> QED BY <4>1, <3>1, <3>3, <1>2
    <3> QED BY <3>2, <3>3
  <2>2. CASE a # p
    <3>1. link2[a] = link[a]
      BY <2>2
    <3>2. depth[a] # depth[b] /\ depth[a] # depth[b] + 1
      BY <2>2, <1>3, <1>5
    <3>3. CASE depth[a] = 1
      BY <3>1, <3>3, <1>7, <1>2
    <3>4. CASE depth[a] # 1
      <4>1. link[a] \in L /\ depth[link[a]] = depth[a] - 1
        BY <3>4, <1>7
      <4>2. link[a] # b
        BY <4>1, <3>2, <1>2
      <4> QED BY <4>1, <4>2, <3>1, <3>2, <3>4, <1>2
    <3> QED BY <3>3, <3>4
  <2> QED BY <2>1, <2>2
<1>9. first \in L \ {b} /\ \A a \in L \ {b} : less[a] <= less[first]
  <2>1. first \in L /\ \A a \in L : depth[a] <= depth[first]
    BY <1>1 DEF IsList
  <2>2. depth[first] >= depth[b] + 1
    BY <2>1, <1>3
  <2> QED BY <2>1, <2>2, <1>2
<1>10. IsList(L \ {b}, less, first, link2, end)
  <2> HIDE DEF less
  <2> QED BY <1>4, <1>6, <1>8, <1>9 DEF IsList
<1> QED BY <1>10 DEF Listed

\* Only the links of its own cells matter to a list.
LEMMA DoublySame ==
  ASSUME NEW L, NEW first, NEW next, NEW prev, NEW end, Doubly(L, first, next, prev, end), end \notin L,
         NEW next2, NEW prev2, \A a \in L : next2[a] = next[a] /\ prev2[a] = prev[a]
  PROVE  Doubly(L, first, next2, prev2, end)
<1>1. Listed(L, first, next, end)
  BY DEF Doubly
<1>2. Listed(L, first, next2, end)
  BY <1>1, ListedSame
<1>3. \A a \in L : next[a] \in L \cup {end}
  BY <1>1, ListedLinks
<1> QED BY <1>2, <1>3 DEF Doubly

\* A cell is put in front of the head.
LEMMA DoublyPush ==
  ASSUME NEW L, NEW first, NEW next, NEW prev, NEW end, Doubly(L, first, next, prev, end), end \notin L,
         NEW c, c \notin L, c # end, NEW next2, NEW prev2, next2[c] = first, prev2[c] = end,
         \A a \in L : next2[a] = next[a] /\ prev2[a] = IF a = first THEN c ELSE prev[a]
  PROVE  Doubly(L \cup {c}, c, next2, prev2, end)
<1>1. Listed(L, first, next, end)
  BY DEF Doubly
<1>2. Listed(L \cup {c}, c, next2, end)
  BY <1>1, ListedPush
<1>3. first \in L \cup {end} /\ \A a \in L : next[a] \in L \cup {end} /\ next[a] # first
  BY <1>1, ListedLinks, ListedForward
<1>4. \A a \in L \cup {c} : IF a = c THEN prev2[a] = end
                             ELSE prev2[a] \in L \cup {c} /\ next2[prev2[a]] = a
  BY DEF Doubly
<1>5. \A a \in L \cup {c} : next2[a] # end => prev2[next2[a]] = a
  BY <1>3 DEF Doubly
<1> QED BY <1>2, <1>4, <1>5 DEF Doubly

\* What takes b out of a list: its neighbours lead past it.
LeadsPast(L, first, next, prev, b, first2, next2, prev2) ==
  /\ first2 = IF first = b THEN next[b] ELSE first
  /\ \A a \in L \ {b} : next2[a] = IF a = prev[b] THEN next[b] ELSE next[a]
  /\ \A a \in L \ {b} : prev2[a] = IF a = next[b] THEN prev[b] ELSE prev[a]

\* The other blocks stay doubly linked when one is taken out.
LEMMA DoublyUnlink ==
  ASSUME NEW L, NEW first, NEW next, NEW prev, NEW end, Doubly(L, first, next, prev, end), end \notin L,
         NEW b \in L, NEW first2, NEW next2, NEW prev2,
         LeadsPast(L, first, next, prev, b, first2, next2, prev2)
  PROVE  Doubly(L \ {b}, first2, next2, prev2, end)
<1>0. /\ first2 = IF first = b THEN next[b] ELSE first
      /\ \A a \in L \ {b} : next2[a] = IF a = prev[b] THEN next[b] ELSE next[a]
      /\ \A a \in L \ {b} : prev2[a] = IF a = next[b] THEN prev[b] ELSE prev[a]
  BY DEF LeadsPast
<1>1. Listed(L, first, next, end)
  BY DEF Doubly
<1>2. first \in L \cup {end} /\ \A a \in L : next[a] \in L \cup {end}
  BY <1>1, ListedLinks
<1>3. \A a \in L : next[a] # a /\ next[a] # first
  BY <1>1, ListedForward
<1>4. \A a \in L : IF a = first THEN prev[a] = end ELSE prev[a] \in L /\ next[prev[a]] = a
  BY DEF Doubly
<1>5. \A a \in L : next[a] # end => prev[next[a]] = a
  BY DEF Doubly
<1>6. Listed(L \ {b}, first2, next2, end)
  <2>1. CASE first = b
    <3>1. Listed(L \ {b}, next[b], next, end)
      BY <1>1, <2>1, ListedPop
    <3>2. \A a \in L \ {b} : next2[a] = next[a]
      BY <1>4, <2>1, <1>0
    <3> QED BY <3>1, <3>2, <2>1, <1>0, ListedSame
  <2>2. CASE first # b
    <3>1. prev[b] \in L /\ next[prev[b]] = b
      BY <1>4, <2>2
    <3> QED BY <3>1, <2>2, <1>0, <1>1, ListedUnlink
  <2> QED BY <2>1, <2>2
<1>7. ASSUME NEW a \in L \ {b}
      PROVE  IF a = first2 THEN prev2[a] = end
             ELSE prev2[a] \in L \ {b} /\ next2[prev2[a]] = a
  <2>1. CASE a = next[b]
    <3>1. prev2[a] = prev[b] /\ a # first
      BY <2>1, <1>3, <1>0
    <3>2. CASE first = b
      BY <3>1, <3>2, <2>1, <1>4, <1>0
    <3>3. CASE first # b
      <4>1. prev[b] \in L \ {b} /\ next[prev[b]] = b
        BY <3>3, <1>4, <1>3
      <4> QED BY <4>1, <3>1, <3>3, <2>1, <1>0
    <3> QED BY <3>2, <3>3, <1>0
  <2>2. CASE a # next[b]
    <3>1. prev2[a] = prev[a]
      BY <2>2, <1>0
    <3>2. CASE a = first
      BY <3>1, <3>2, <1>4, <1>0
    <3>3. CASE a # first
      <4>1. prev[a] \in L /\ next[prev[a]] = a /\ prev[a] # b
        BY <3>3, <2>2, <1>4
      <4>2. prev[a] # prev[b]
        BY <4>1, <1>4, <1>3
      <4>3. a # first2
        BY <3>3, <2>2, <1>0
      <4> QED BY <4>1, <4>2, <4>3, <3>1, <1>0
    <3> QED BY <3>2, <3>3, <1>0
  <2> QED BY <2>1, <2>2
<1>8. ASSUME NEW a \in L \ {b}, next2[a] # end PROVE prev2[next2[a]] = a
  <2>1. CASE a = prev[b]
    <3>1. next2[a] = next[b] /\ next[b] # end /\ next[b] \in L \ {b}
      BY <2>1, <1>8, <1>2, <1>3, <1>0
    <3> QED BY <3>1, <2>1, <1>0
  <2>2. CASE a # prev[b]
    <3>1. next2[a] = next[a] /\ next[a] # end /\ next[a] \in L /\ prev[next[a]] = a
      BY <2>2, <1>8, <1>2, <1>5, <1>0
    <3>2. next[a] # b
      BY <3>1, <2>2
    <3>3. next[a] # next[b]
      BY <3>1, <1>5
    <3> QED BY <3>1, <3>2, <3>3, <1>0
  <2> QED BY <2>1, <2>2
<1> QED BY <1>6, <1>7, <1>8 DEF Doubly

----------------------------------------------------------------------------
\* Where blocks are: <<l, g>> is the list of group g of bin l, <<l, Taken>> the
\* cache of bin l.
Taken == -1
\* In no bin: in the page resource, or in the hands of the thread that moves it.
Outside == <<"out", Taken>>
\* Where a block can be: in a list, in a cache, or outside.
Places == (Lists \X (Groups \cup {Taken})) \cup {Outside}
\* The blocks placed in list g of bin l.
At(at, l, g) == {b \in SuperBlocks : at[b] = <<l, g>>}
\* The blocks placed in bin l, in a list or its cache.
Held(at, l) == {b \in SuperBlocks : at[b][1] = l}
\* The blocks placed in the lists of bin l.
Grouped(at, l) == {b \in SuperBlocks : at[b][1] = l /\ at[b][2] \in Groups}

\* The heaps an operation may see.
Heaps == [prev : [SuperBlocks -> Refs], next : [SuperBlocks -> Refs],
          group : [SuperBlocks -> Groups], used : [SuperBlocks -> 0..Cells],
          head : [Lists -> [Groups -> Refs]], cache : [Lists -> Refs],
          ub : [Lists -> Int], tb : [Lists -> Int]]

\* Each list holds the blocks that are there.
Chained(h, at, l, g) == Doubly(At(at, l, g), h.head[l][g], h.next, h.prev, NoBlock)

\* Every list of the heap is a doubly linked list of the blocks placed in it.
Shape(h, at) ==
  /\ h \in Heaps
  /\ at \in [SuperBlocks -> Places]
  /\ \A l \in Lists, g \in Groups : Chained(h, at, l, g)

\* A block is cached where its place says.
CacheSound(h, at) ==
  \A l \in Lists, b \in SuperBlocks : h.cache[l] = b <=> at[b] = <<l, Taken>>

\* A block in a list is in that of its emptiness group.
Sorted(h, at) ==
  \A b \in SuperBlocks : at[b][2] \in Groups => h.group[b] = at[b][2] /\ Group(h, b) = at[b][2]

\* Two heaps that differ in links, heads and groups only.
SameBut(h, k) == k.used = h.used /\ k.cache = h.cache /\ k.ub = h.ub /\ k.tb = h.tb

\* The place of the cached block is no group, and there are ten groups.
LEMMA NotTaken == Taken \notin Groups /\ Groups = 0..9
BY DEF Taken, Groups, EmptinessClasses

\* The constants are as the code has them: a superblock has room for a cell.
LEMMA Constants ==
  /\ IsFiniteSet(SuperBlocks) /\ NoBlock \notin SuperBlocks
  /\ DataBytes \in Nat \ {0} /\ CellBytes \in Nat \ {0} /\ Cells \in Nat \ {0}
<1>1. DataBytes \in Nat \ {0} /\ CellBytes \in Nat \ {0} /\ CellBytes <= DataBytes
  BY BlockListAssumption
<1>2. DataBytes \div CellBytes \in Nat /\ DataBytes < (DataBytes \div CellBytes + 1) * CellBytes
  BY <1>1, Quotient
<1>3. DataBytes \div CellBytes # 0
  BY <1>1, <1>2
<1> QED BY <1>1, <1>2, <1>3, BlockListAssumption DEF Cells

\* What put and the second half of transfer write.
PushWrites(h, l, g, b, k) ==
  /\ k \in Heaps /\ SameBut(h, k)
  /\ k.next = [h.next EXCEPT ![b] = h.head[l][g]]
  /\ k.prev = [x \in SuperBlocks |-> IF x = h.head[l][g] THEN b
                                     ELSE IF x = b THEN NoBlock ELSE h.prev[x]]
  /\ k.group = [h.group EXCEPT ![b] = g]
  /\ k.head = [h.head EXCEPT ![l] = [h.head[l] EXCEPT ![g] = b]]

\* Push writes these fields.
LEMMA PushFields ==
  ASSUME NEW h \in Heaps, NEW l \in Lists, NEW g \in Groups, NEW b \in SuperBlocks
  PROVE  PushWrites(h, l, g, b, Push(h, l, g, b))
<1> DEFINE a == h.head[l][g]
           m == [h EXCEPT !.group[b] = g, !.next[b] = a, !.prev[b] = NoBlock, !.head[l][g] = b]
           k == Push(h, l, g, b)
<1>1. a \in Refs /\ b \in Refs /\ NoBlock \in Refs
  BY DEF Heaps, Refs
<1>2. /\ m \in Heaps /\ SameBut(h, m)
      /\ m.next = [h.next EXCEPT ![b] = a] /\ m.prev = [h.prev EXCEPT ![b] = NoBlock]
      /\ m.group = [h.group EXCEPT ![b] = g]
      /\ m.head = [h.head EXCEPT ![l] = [h.head[l] EXCEPT ![g] = b]]
  BY <1>1 DEF Heaps, SameBut
<1>3. k = SetPrev(m, a, b)
  BY DEF Push
<1> HIDE DEF m, k
<1>4. CASE a = NoBlock
  <2>1. k = m
    BY <1>3, <1>4 DEF SetPrev
  <2>2. h.prev \in [SuperBlocks -> Refs]
    BY DEF Heaps
  <2>3. k.prev = [x \in SuperBlocks |-> IF x = a THEN b ELSE IF x = b THEN NoBlock ELSE h.prev[x]]
    BY <2>1, <2>2, <1>2, <1>4, Constants
  <2> QED BY <2>1, <2>3, <1>2 DEF k, PushWrites
<1>5. CASE a # NoBlock
  <2>1. k = [m EXCEPT !.prev[a] = b] /\ a \in SuperBlocks
    BY <1>1, <1>3, <1>5 DEF SetPrev, Refs
  <2>2. k \in Heaps /\ SameBut(m, k) /\ k.next = m.next /\ k.group = m.group /\ k.head = m.head
        /\ k.prev = [m.prev EXCEPT ![a] = b]
    BY <2>1, <1>1, <1>2 DEF Heaps, SameBut
  <2>3. h.prev \in [SuperBlocks -> Refs]
    BY DEF Heaps
  <2>4. k.prev = [x \in SuperBlocks |-> IF x = a THEN b ELSE IF x = b THEN NoBlock ELSE h.prev[x]]
    BY <2>1, <2>2, <2>3, <1>2
  <2> QED BY <2>2, <2>4, <1>2 DEF SameBut, k, PushWrites
<1> QED BY <1>4, <1>5

\* What remove and the first half of transfer write.
UnlinkWrites(h, l, g, b, k) ==
  /\ k \in Heaps /\ SameBut(h, k) /\ k.group = h.group
  /\ k.next = [x \in SuperBlocks |-> IF x = h.prev[b] THEN h.next[b] ELSE h.next[x]]
  /\ k.prev = [x \in SuperBlocks |-> IF x = h.next[b] THEN h.prev[b] ELSE h.prev[x]]
  /\ k.head = [h.head EXCEPT ![l] = [h.head[l] EXCEPT ![g] = IF @ = b THEN h.next[b] ELSE @]]

\* Unlink writes these fields.
LEMMA UnlinkFields ==
  ASSUME NEW h \in Heaps, NEW l \in Lists, NEW g \in Groups, NEW b \in SuperBlocks
  PROVE  UnlinkWrites(h, l, g, b, Unlink(h, l, g, b))
<1> DEFINE m == IF h.head[l][g] = b THEN [h EXCEPT !.head[l][g] = h.next[b]] ELSE h
           n == SetNext(m, h.prev[b], h.next[b])
           k == Unlink(h, l, g, b)
<1>1. /\ h.next[b] \in Refs /\ h.prev[b] \in Refs
      /\ h.next \in [SuperBlocks -> Refs] /\ h.prev \in [SuperBlocks -> Refs]
      /\ h.head \in [Lists -> [Groups -> Refs]]
  BY DEF Heaps
<1>2. /\ m \in Heaps /\ SameBut(h, m) /\ m.group = h.group /\ m.next = h.next /\ m.prev = h.prev
      /\ m.head = [h.head EXCEPT ![l] = [h.head[l] EXCEPT ![g] = IF @ = b THEN h.next[b] ELSE @]]
  <2>1. CASE h.head[l][g] = b
    <3>1. m = [h EXCEPT !.head[l][g] = h.next[b]]
      BY <2>1
    <3> QED BY <2>1, <3>1, <1>1 DEF Heaps, SameBut
  <2>2. CASE h.head[l][g] # b
    <3>1. m = h
      BY <2>2
    <3>2. h.head = [h.head EXCEPT ![l] = [h.head[l] EXCEPT ![g] = IF @ = b THEN h.next[b] ELSE @]]
      BY <2>2, <1>1
    <3> QED BY <3>1, <3>2 DEF SameBut
  <2> QED BY <2>1, <2>2
<1>a. n = SetNext(m, h.prev[b], h.next[b])
  OBVIOUS
<1>b. k = SetPrev(n, h.next[b], h.prev[b])
  BY DEF Unlink
<1> HIDE DEF m, n, k
<1>3. /\ n \in Heaps /\ SameBut(h, n) /\ n.group = h.group /\ n.prev = h.prev /\ n.head = m.head
      /\ n.next = [x \in SuperBlocks |-> IF x = h.prev[b] THEN h.next[b] ELSE h.next[x]]
  <2>1. CASE h.prev[b] = NoBlock
    <3>1. n = m
      BY <1>a, <2>1 DEF SetNext
    <3> QED BY <3>1, <2>1, <1>1, <1>2, Constants
  <2>2. CASE h.prev[b] # NoBlock
    <3>1. n = [m EXCEPT !.next[h.prev[b]] = h.next[b]] /\ h.prev[b] \in SuperBlocks
      BY <1>a, <2>2, <1>1 DEF SetNext, Refs
    <3>2. /\ n \in Heaps /\ SameBut(m, n) /\ n.group = m.group /\ n.prev = m.prev /\ n.head = m.head
          /\ n.next = [m.next EXCEPT ![h.prev[b]] = h.next[b]]
      <4>1. m \in Heaps /\ m.next \in [SuperBlocks -> Refs]
        BY <1>1, <1>2
      <4> QED BY <3>1, <4>1, <1>1 DEF Heaps, SameBut
    <3>3. n.next = [x \in SuperBlocks |-> IF x = h.prev[b] THEN h.next[b] ELSE h.next[x]]
      BY <3>1, <3>2, <1>1, <1>2
    <3> QED BY <3>2, <3>3, <1>2 DEF SameBut
  <2> QED BY <2>1, <2>2
<1>5. /\ k \in Heaps /\ SameBut(h, k) /\ k.group = h.group /\ k.next = n.next /\ k.head = m.head
      /\ k.prev = [x \in SuperBlocks |-> IF x = h.next[b] THEN h.prev[b] ELSE h.prev[x]]
  <2>1. CASE h.next[b] = NoBlock
    <3>1. k = n
      BY <2>1, <1>b DEF SetPrev
    <3> QED BY <3>1, <2>1, <1>1, <1>3, Constants
  <2>2. CASE h.next[b] # NoBlock
    <3>1. k = [n EXCEPT !.prev[h.next[b]] = h.prev[b]] /\ h.next[b] \in SuperBlocks
      BY <2>2, <1>1, <1>b DEF SetPrev, Refs
    <3>2. /\ k \in Heaps /\ SameBut(n, k) /\ k.group = n.group /\ k.next = n.next /\ k.head = n.head
          /\ k.prev = [n.prev EXCEPT ![h.next[b]] = h.prev[b]]
      BY <3>1, <1>1, <1>3 DEF Heaps, SameBut
    <3>3. k.prev = [x \in SuperBlocks |-> IF x = h.next[b] THEN h.prev[b] ELSE h.prev[x]]
      BY <3>1, <3>2, <1>1, <1>3
    <3> QED BY <3>2, <3>3, <1>3 DEF SameBut
  <2> QED BY <2>1, <2>2
<1> QED BY <1>2, <1>3, <1>5 DEF k, UnlinkWrites

\* A block that is in no list is put into one.
LEMMA PushShape ==
  ASSUME NEW h, NEW at, Shape(h, at), NEW l \in Lists, NEW g \in Groups, NEW b \in SuperBlocks,
         at[b][2] \notin Groups
  PROVE  LET k == Push(h, l, g, b)
         IN  /\ Shape(k, [at EXCEPT ![b] = <<l, g>>])
             /\ SameBut(h, k) /\ k.group = [h.group EXCEPT ![b] = g]
<1> DEFINE k == Push(h, l, g, b)
           a == h.head[l][g]
           new == [at EXCEPT ![b] = <<l, g>>]
<1>0. /\ h \in Heaps /\ at \in [SuperBlocks -> Places]
      /\ h.next \in [SuperBlocks -> Refs] /\ h.prev \in [SuperBlocks -> Refs]
      /\ h.head \in [Lists -> [Groups -> Refs]]
  BY DEF Shape, Heaps
<1>1. /\ k \in Heaps /\ SameBut(h, k)
      /\ k.next = [h.next EXCEPT ![b] = a]
      /\ k.prev = [x \in SuperBlocks |-> IF x = a THEN b ELSE IF x = b THEN NoBlock ELSE h.prev[x]]
      /\ k.group = [h.group EXCEPT ![b] = g]
      /\ k.head = [h.head EXCEPT ![l] = [h.head[l] EXCEPT ![g] = b]]
  <2>1. PushWrites(h, l, g, b, k)
    BY <1>0, PushFields
  <2> HIDE DEF k
  <2> QED BY <2>1 DEF PushWrites
<1> HIDE DEF k
<1>2. new \in [SuperBlocks -> Places]
  BY <1>0 DEF Places
<1>3. ASSUME NEW l2 \in Lists, NEW g2 \in Groups PROVE Chained(k, new, l2, g2)
  <2> DEFINE L == At(at, l2, g2)
  <2>1. Doubly(L, h.head[l2][g2], h.next, h.prev, NoBlock)
    BY DEF Shape, Chained
  <2>2. NoBlock \notin L /\ b \notin L /\ L \subseteq SuperBlocks
    BY Constants DEF At
  <2>3. a \in At(at, l, g) \cup {NoBlock}
    <3>1. Chained(h, at, l, g) /\ NoBlock \notin At(at, l, g)
      BY Constants DEF Shape, At
    <3>2. Listed(At(at, l, g), a, h.next, NoBlock)
      BY <3>1 DEF Chained, Doubly
    <3> HIDE DEF a
    <3> QED BY <3>1, <3>2, ListedLinks
  <2>4. \A x \in L : k.next[x] = h.next[x]
    BY <1>0, <1>1, <2>2
  <2>5. CASE l2 = l /\ g2 = g
    <3>1. At(new, l2, g2) = L \cup {b}
      BY <2>5, <1>0 DEF At
    <3>2. k.head[l2][g2] = b /\ h.head[l2][g2] = a
      BY <2>5, <1>0, <1>1
    <3>3. k.next[b] = a /\ k.prev[b] = NoBlock
      BY <1>0, <1>1, <2>2, <2>3, <2>5
    <3>4. \A x \in L : k.prev[x] = IF x = a THEN b ELSE h.prev[x]
      BY <1>1, <2>2
    <3> HIDE DEF L, a
    <3>5. b # NoBlock
      BY Constants
    <3>6. Doubly(L, a, h.next, h.prev, NoBlock)
      BY <2>1, <3>2
    <3>7. \A x \in L : k.next[x] = h.next[x] /\ k.prev[x] = IF x = a THEN b ELSE h.prev[x]
      BY <2>4, <3>4
    <3>8. Doubly(L \cup {b}, b, k.next, k.prev, NoBlock)
      BY <2>2, <3>3, <3>5, <3>6, <3>7, DoublyPush
    <3> QED BY <3>1, <3>2, <3>8 DEF Chained
  <2>6. CASE ~(l2 = l /\ g2 = g)
    <3>1. At(new, l2, g2) = L
      BY <2>6, <1>0, <2>2 DEF At
    <3>2. k.head[l2][g2] = h.head[l2][g2]
      BY <2>6, <1>0, <1>1
    <3>3. a \notin L
      BY <2>2, <2>3, <2>6 DEF At
    <3>4. \A x \in L : k.prev[x] = h.prev[x]
      BY <1>1, <2>2, <3>3
    <3> HIDE DEF L, a
    <3> QED BY <2>1, <2>2, <2>4, <3>1, <3>2, <3>4, DoublySame DEF Chained
  <2> QED BY <2>5, <2>6
<1> QED BY <1>1, <1>2, <1>3 DEF Shape, k

\* A block is taken out of its list.
LEMMA UnlinkShape ==
  ASSUME NEW h, NEW at, Shape(h, at), NEW l \in Lists, NEW g \in Groups, NEW b \in SuperBlocks,
         at[b] = <<l, g>>
  PROVE  LET k == Unlink(h, l, g, b)
         IN  Shape(k, [at EXCEPT ![b] = Outside]) /\ SameBut(h, k) /\ k.group = h.group
<1> DEFINE k == Unlink(h, l, g, b)
           new == [at EXCEPT ![b] = Outside]
<1>0. /\ h \in Heaps /\ at \in [SuperBlocks -> Places]
      /\ h.next \in [SuperBlocks -> Refs] /\ h.prev \in [SuperBlocks -> Refs]
      /\ h.head \in [Lists -> [Groups -> Refs]]
  BY DEF Shape, Heaps
<1>1. /\ k \in Heaps /\ SameBut(h, k) /\ k.group = h.group
      /\ k.next = [x \in SuperBlocks |-> IF x = h.prev[b] THEN h.next[b] ELSE h.next[x]]
      /\ k.prev = [x \in SuperBlocks |-> IF x = h.next[b] THEN h.prev[b] ELSE h.prev[x]]
      /\ k.head = [h.head EXCEPT ![l] = [h.head[l] EXCEPT ![g] = IF @ = b THEN h.next[b] ELSE @]]
  <2>1. UnlinkWrites(h, l, g, b, k)
    BY <1>0, UnlinkFields
  <2> HIDE DEF k
  <2> QED BY <2>1 DEF UnlinkWrites
<1> HIDE DEF k
<1>2. new \in [SuperBlocks -> Places]
  BY <1>0 DEF Places
<1>3. ASSUME NEW l2 \in Lists, NEW g2 \in Groups PROVE Chained(k, new, l2, g2)
  <2> DEFINE L == At(at, l2, g2)
             M == At(at, l, g)
  <2>1. Doubly(L, h.head[l2][g2], h.next, h.prev, NoBlock)
    BY DEF Shape, Chained
  <2>2. NoBlock \notin L /\ L \subseteq SuperBlocks /\ NoBlock \notin M /\ b \in M
    BY Constants DEF At
  <2>3. Doubly(M, h.head[l][g], h.next, h.prev, NoBlock)
    BY DEF Shape, Chained
  <2>4. h.next[b] \in M \cup {NoBlock} /\ h.prev[b] \in M \cup {NoBlock}
    <3> HIDE DEF M
    <3>1. Listed(M, h.head[l][g], h.next, NoBlock)
      BY <2>3 DEF Doubly
    <3>2. h.next[b] \in M \cup {NoBlock}
      BY <3>1, <2>2, ListedLinks
    <3> QED BY <2>2, <2>3, <3>2 DEF Doubly
  <2>5. \A x \in L : /\ k.next[x] = IF x = h.prev[b] THEN h.next[b] ELSE h.next[x]
                     /\ k.prev[x] = IF x = h.next[b] THEN h.prev[b] ELSE h.prev[x]
    BY <1>1, <2>2
  <2>6. CASE l2 = l /\ g2 = g
    <3>1. At(new, l2, g2) = L \ {b} /\ b \in L
      BY <2>6, <1>0 DEF At, Outside, Lists
    <3>2. k.head[l2][g2] = IF h.head[l2][g2] = b THEN h.next[b] ELSE h.head[l2][g2]
      BY <2>6, <1>0, <1>1
    <3> HIDE DEF L
    <3>3. \A x \in L \ {b} : k.next[x] = IF x = h.prev[b] THEN h.next[b] ELSE h.next[x]
      BY <2>5
    <3>4. \A x \in L \ {b} : k.prev[x] = IF x = h.next[b] THEN h.prev[b] ELSE h.prev[x]
      BY <2>5
    <3>5. NoBlock \notin L
      BY <2>2
    <3>6. LeadsPast(L, h.head[l2][g2], h.next, h.prev, b, k.head[l2][g2], k.next, k.prev)
      BY <3>2, <3>3, <3>4 DEF LeadsPast
    <3>7. Doubly(L \ {b}, k.head[l2][g2], k.next, k.prev, NoBlock)
      BY <2>1, <3>1, <3>5, <3>6, DoublyUnlink
    <3> QED BY <3>1, <3>7 DEF Chained
  <2>7. CASE ~(l2 = l /\ g2 = g)
    <3>1. At(new, l2, g2) = L /\ L \cap M = {}
      BY <2>7, <1>0 DEF At, Outside, Lists
    <3>2. k.head[l2][g2] = h.head[l2][g2]
      BY <2>7, <1>0, <1>1
    <3> HIDE DEF L
    <3>3. \A x \in L : k.next[x] = h.next[x] /\ k.prev[x] = h.prev[x]
      BY <2>2, <2>4, <2>5, <3>1
    <3> QED BY <2>1, <2>2, <3>1, <3>2, <3>3, DoublySame DEF Chained
  <2> QED BY <2>6, <2>7
<1> QED BY <1>1, <1>2, <1>3 DEF Shape, k

\* The head of a list: pop takes it out like remove does.
LEMMA PopIsUnlink ==
  ASSUME NEW h, NEW at, Shape(h, at), NEW l \in Lists, NEW g \in Groups, h.head[l][g] # NoBlock
  PROVE  LET b == h.head[l][g]
         IN  /\ b \in SuperBlocks /\ at[b] = <<l, g>>
             /\ Pop(h, l, g) = Unlink(h, l, g, b)
<1> DEFINE b == h.head[l][g]
           L == At(at, l, g)
<1>1. Doubly(L, b, h.next, h.prev, NoBlock) /\ NoBlock \notin L
  BY Constants DEF Shape, Chained, At
<1>2. b \in L
  BY <1>1, ListedLinks DEF Doubly
<1>3. h.prev[b] = NoBlock
  BY <1>1, <1>2 DEF Doubly
<1>4. Pop(h, l, g) = Unlink(h, l, g, b)
  BY <1>3 DEF Pop, Unlink, SetNext
<1> QED BY <1>2, <1>4 DEF At

\* Its neighbours and its group field are the only things popped blocks lose.
LEMMA PopShape ==
  ASSUME NEW h, NEW at, Shape(h, at), NEW l \in Lists, NEW g \in Groups, h.head[l][g] # NoBlock
  PROVE  LET b == h.head[l][g]  k == Pop(h, l, g)
         IN  /\ b \in SuperBlocks /\ at[b] = <<l, g>>
             /\ Shape(k, [at EXCEPT ![b] = Outside]) /\ SameBut(h, k) /\ k.group = h.group
<1> DEFINE b == h.head[l][g]
<1>1. b \in SuperBlocks /\ at[b] = <<l, g>> /\ Pop(h, l, g) = Unlink(h, l, g, b)
  BY PopIsUnlink
<1> HIDE DEF b
<1>2. LET k == Unlink(h, l, g, b)
      IN  Shape(k, [at EXCEPT ![b] = Outside]) /\ SameBut(h, k) /\ k.group = h.group
  BY <1>1, UnlinkShape
<1> QED BY <1>1, <1>2 DEF b

\* The head of a list is placed in it.
LEMMA HeadPlace ==
  ASSUME NEW h, NEW at, Shape(h, at), NEW l \in Lists, NEW g \in Groups, NEW b,
         h.head[l][g] = b, b # NoBlock
  PROVE  at[b] = <<l, g>>
BY PopIsUnlink

\* A list without a head holds no block.
LEMMA EmptyList ==
  ASSUME NEW h, NEW at, Shape(h, at), NEW l \in Lists, NEW g \in Groups
  PROVE  h.head[l][g] = NoBlock <=> At(at, l, g) = {}
<1>1. Chained(h, at, l, g) /\ NoBlock \notin At(at, l, g)
  BY Constants DEF Shape, At
<1>2. Listed(At(at, l, g), h.head[l][g], h.next, NoBlock)
  BY <1>1 DEF Chained, Doubly
<1> QED BY <1>1, <1>2, ListedLinks

----------------------------------------------------------------------------
\* Emptiness groups

\* A block's group is that of the abstract bin, 0 if it is empty, and the last
\* if it is full.
LEMMA GroupFacts ==
  ASSUME NEW h, NEW b, h.used[b] \in 0..Cells
  PROVE  /\ Group(h, b) \in Groups
         /\ Group(h, b) = Sets!Group(h.used[b])
         /\ Group(h, b) <= EmptinessClasses <=> h.used[b] < Cells
         /\ Group(h, b) = 0 <=> h.used[b] = 0
<1> DEFINE u == h.used[b]
           q == (8 * u) \div Cells
<1>1. u \in Nat /\ Cells \in Nat \ {0} /\ CellBytes \in Nat \ {0} /\ u <= Cells
  BY Constants
<1>2. q \in Nat /\ q * Cells <= 8 * u /\ 8 * u < (q + 1) * Cells
  <2> DEFINE e == 8 * u
  <2>1. e \in Nat
    BY <1>1
  <2> HIDE DEF e, u
  <2>2. e \div Cells \in Nat /\ (e \div Cells) * Cells <= e /\ e < (e \div Cells + 1) * Cells
    BY <1>1, <2>1, Quotient
  <2> QED BY <2>2 DEF e
<1>3. (8 * u * CellBytes) \div (Cells * CellBytes) = q
  <2> HIDE DEF q, u
  <2> DEFINE r == (8 * u * CellBytes) \div (Cells * CellBytes)
             m == Cells * CellBytes
             n == 8 * u * CellBytes
  <2>1. m \in Nat \ {0} /\ n \in Nat
    BY <1>1
  <2>2. r \in Nat /\ r * m <= n /\ n < (r + 1) * m
    <3> HIDE DEF m, n
    <3>1. n \div m \in Nat /\ (n \div m) * m <= n /\ n < (n \div m + 1) * m
      BY <2>1, Quotient
    <3> QED BY <3>1 DEF m, n
  <2>3. q * m <= n /\ n < (q + 1) * m
    <3>1. q * m = (q * Cells) * CellBytes /\ (q + 1) * m = ((q + 1) * Cells) * CellBytes
      BY <1>1, <1>2
    <3>2. \A x, y \in Nat : x <= y => x * CellBytes <= y * CellBytes
      BY <1>1
    <3>3. \A x, y \in Nat : x < y => x * CellBytes < y * CellBytes
      BY <1>1
    <3>4. q * Cells \in Nat /\ (q + 1) * Cells \in Nat /\ 8 * u \in Nat
      BY <1>1, <1>2
    <3> QED BY <3>1, <3>2, <3>3, <3>4, <1>2
  <2> HIDE DEF r, m, n
  <2>4. ~(r < q)
    <3>1. ASSUME r < q PROVE FALSE
      <4>1. (r + 1) * m <= q * m
        BY <3>1, <2>1, <2>2, <1>2
      <4>2. (r + 1) * m \in Nat /\ q * m \in Nat
        BY <2>1, <2>2, <1>2
      <4> QED BY <4>1, <4>2, <2>1, <2>2, <2>3
    <3> QED BY <3>1
  <2>5. ~(q < r)
    <3>1. ASSUME q < r PROVE FALSE
      <4>1. (q + 1) * m <= r * m
        BY <3>1, <2>1, <2>2, <1>2
      <4>2. (q + 1) * m \in Nat /\ r * m \in Nat
        BY <2>1, <2>2, <1>2
      <4> QED BY <4>1, <4>2, <2>1, <2>2, <2>3
    <3> QED BY <3>1
  <2>6. r = q
    BY <2>2, <2>4, <2>5, <1>2
  <2> QED BY <2>6 DEF r
<1>4. Group(h, b) = IF u = 0 THEN 0 ELSE 1 + q
  BY <1>3 DEF Group, EmptinessClasses
<1>5. Sets!Group(u) = IF u = 0 THEN 0 ELSE 1 + q
  BY DEF Sets!Group, Sets!EmptinessClasses
<1> HIDE DEF q, u
<1>6. u = Cells => q = 8
  BY <1>1, <1>2
<1>7. u < Cells => q < 8
  <2> SUFFICES ASSUME u < Cells, q >= 8 PROVE FALSE
    BY <1>2
  <2>1. 8 * Cells <= q * Cells
    BY <1>1, <1>2
  <2> QED BY <2>1, <1>1, <1>2
<1>8. Groups = 0..9 /\ EmptinessClasses = 8
  BY NotTaken DEF EmptinessClasses
<1>9. /\ Group(h, b) \in Groups
      /\ Group(h, b) <= EmptinessClasses <=> u < Cells
      /\ Group(h, b) = 0 <=> u = 0
  BY <1>1, <1>2, <1>4, <1>6, <1>7, <1>8
<1> QED BY <1>4, <1>5, <1>9 DEF u

\* Two heaps with the same used bytes have the same groups.
LEMMA GroupSame ==
  ASSUME NEW h, NEW k, k.used = h.used, NEW b
  PROVE  Group(k, b) = Group(h, b)
BY DEF Group

----------------------------------------------------------------------------
\* pop_most_empty_block

\* Where its loops end: at the first group with a block, or behind the last.
EndsAt(h, l, m) ==
  /\ m \in 0..(EmptinessClasses + 1)
  /\ m <= EmptinessClasses => h.head[l][m] # NoBlock
  /\ \A i \in 0..(m - 1) : h.head[l][i] = NoBlock

\* There is an end to speak of: whether lists are empty decides which.
LEMMA SomeEnd == \A h, l : \E m : EndsAt(h, l, m)
<1> SUFFICES ASSUME NEW h, NEW l PROVE \E m : EndsAt(h, l, m)
  OBVIOUS
<1> DEFINE T == {m \in 0..9 : m = 9 \/ h.head[l][m] # NoBlock}
<1>1. T \in SUBSET Nat /\ T # {}
  OBVIOUS
<1>2. PICK m \in T : \A n \in T : m <= n
  <2> HIDE DEF T
  <2> QED BY <1>1, NatMin
<1>3. \A i \in 0..(m - 1) : h.head[l][i] = NoBlock
  <2> SUFFICES ASSUME NEW i \in 0..(m - 1), h.head[l][i] # NoBlock PROVE FALSE
    OBVIOUS
  <2>1. i \in T /\ i < m
    OBVIOUS
  <2> QED BY <2>1, <1>2
<1> QED BY <1>2, <1>3 DEF EndsAt, EmptinessClasses

\* It pops the head of the first list that is not empty, and puts no block
\* back, when every block is in the list of its group.
LEMMA ScanEnds ==
  ASSUME NEW h, NEW at, Shape(h, at), Sorted(h, at), NEW l \in Lists, NEW m, EndsAt(h, l, m)
  PROVE  LET r == PopMostEmpty(h, l)
         IN  IF m > EmptinessClasses THEN r.heap = h /\ r.block = NoBlock
             ELSE r.heap = Pop(h, l, m) /\ r.block = h.head[l][m]
<1> DEFINE start == [heap |-> h, group |-> 0, block |-> NoBlock]
           N == Turns
           scan == Scan(h, l)
           After(f, n) == IF n = 0 THEN start ELSE Turn(f[n - 1], l)
           done == IF m = 9 THEN [heap |-> h, group |-> 9, block |-> NoBlock]
                   ELSE [heap |-> Pop(h, l, m), group |-> m, block |-> h.head[l][m]]
           g == [n \in 0..N |-> IF n <= m THEN [heap |-> h, group |-> n, block |-> NoBlock]
                                ELSE done]
<1>1. N \in Nat /\ N >= 9 /\ (N = 9 => SuperBlocks = {})
  <2>1. Cardinality(SuperBlocks) \in Nat /\ (Cardinality(SuperBlocks) = 0 => SuperBlocks = {})
    BY Constants, FS_CardinalityType, FS_EmptySet
  <2> QED BY <2>1 DEF Turns, EmptinessClasses
<1>2. m \in 0..9 /\ EmptinessClasses = 8
  BY DEF EndsAt, EmptinessClasses
<1>3. m <= 8 => /\ h.head[l][m] # NoBlock /\ h.head[l][m] \in SuperBlocks
                /\ Group(Pop(h, l, m), h.head[l][m]) = m
  <2> SUFFICES ASSUME m <= 8
               PROVE  /\ h.head[l][m] # NoBlock /\ h.head[l][m] \in SuperBlocks
                      /\ Group(Pop(h, l, m), h.head[l][m]) = m
    OBVIOUS
  <2> DEFINE b == h.head[l][m]
  <2>1. b # NoBlock /\ m \in Groups
    BY <1>2, NotTaken DEF EndsAt
  <2>2. b \in SuperBlocks /\ at[b] = <<l, m>> /\ Pop(h, l, m).used = h.used
    <3>1. b \in SuperBlocks /\ at[b] = <<l, m>> /\ SameBut(h, Pop(h, l, m))
      <4> HIDE DEF SameBut
      <4> QED BY <2>1, PopShape
    <3> QED BY <3>1 DEF SameBut
  <2> HIDE DEF b
  <2>3. Group(h, b) = m
    BY <2>1, <2>2 DEF Sorted
  <2>4. Group(Pop(h, l, m), b) = m
    BY <2>2, <2>3, GroupSame
  <2> QED BY <2>1, <2>2, <2>4 DEF b
<1>4. ASSUME NEW n \in Nat, n < m
      PROVE  Turn([heap |-> h, group |-> n, block |-> NoBlock], l)
               = [heap |-> h, group |-> n + 1, block |-> NoBlock]
  <2>1. h.head[l][n] = NoBlock /\ n <= 8
    BY <1>2, <1>4 DEF EndsAt
  <2> QED BY <2>1, <1>2 DEF Turn
<1>5. Turn([heap |-> h, group |-> m, block |-> NoBlock], l) = done
  <2>1. CASE m = 9
    BY <2>1, <1>2 DEF Turn
  <2>2. CASE m <= 8
    <3> DEFINE x == [heap |-> h, group |-> m, block |-> NoBlock]
               k == Pop(h, l, m)
               b == h.head[l][m]
    <3>1. ~(Group(k, b) > m) /\ b # NoBlock /\ m <= EmptinessClasses
      BY <2>2, <1>2, <1>3
    <3>2. x.group = m /\ x.heap = h /\ x.block = NoBlock
      OBVIOUS
    <3>3. Turn(x, l) = [heap |-> k, group |-> m, block |-> b]
      <4> HIDE DEF x
      <4> QED BY <3>1, <3>2, <1>2 DEF Turn
    <3> QED BY <2>2, <3>3
  <2> QED BY <2>1, <2>2, <1>2
<1>6. Turn(done, l) = done
  <2>1. CASE m = 9
    BY <2>1, <1>2 DEF Turn
  <2>2. CASE m <= 8
    BY <2>2, <1>2, <1>3 DEF Turn
  <2> QED BY <2>1, <2>2, <1>2
<1> HIDE DEF N, done
<1>7. g = [n \in 0..N |-> After(g, n)]
  <2>1. ASSUME NEW n \in 0..N PROVE g[n] = After(g, n)
    <3>1. CASE n = 0
      BY <1>1, <1>2, <3>1
    <3>2. CASE n # 0 /\ n <= m
      BY <1>1, <1>2, <1>4, <3>2
    <3>3. CASE n # 0 /\ n = m + 1
      BY <1>1, <1>2, <1>5, <3>3
    <3>4. CASE n # 0 /\ n > m + 1
      BY <1>1, <1>2, <1>6, <3>4
    <3> QED BY <1>1, <1>2, <3>1, <3>2, <3>3, <3>4
  <2> QED BY <2>1
<1>8. scan = [n \in 0..N |-> After(scan, n)]
  BY <1>7 DEF Scan, N
<1>9. \A n \in 0..N : scan[n] = g[n]
  <2> DEFINE T == {n \in 0..N : scan[n] # g[n]}
  <2>1. SUFFICES ASSUME T # {} PROVE FALSE
    OBVIOUS
  <2>2. PICK n \in T : \A k \in T : n <= k
    <3>1. T \in SUBSET Nat
      OBVIOUS
    <3> QED BY <2>1, <3>1, NatMin
  <2>3. scan[n] = After(scan, n) /\ g[n] = After(g, n)
    BY <1>7, <1>8
  <2>4. n # 0
    BY <2>2, <2>3
  <2>5. scan[n - 1] = g[n - 1]
    BY <1>1, <2>2, <2>4
  <2> QED BY <2>2, <2>3, <2>4, <2>5
<1>10. m <= 8 => N > 9
  BY <1>1, <1>3
<1>11. PopMostEmpty(h, l) = IF m = 9 THEN [heap |-> h, group |-> 9, block |-> NoBlock] ELSE done
  <2>1. PopMostEmpty(h, l) = g[N]
    BY <1>1, <1>9 DEF PopMostEmpty, N
  <2>2. CASE m = 9
    <3>1. N <= 9 => g[N] = [heap |-> h, group |-> 9, block |-> NoBlock]
      BY <1>1, <2>2
    <3>2. N > 9 => g[N] = done
      BY <1>1, <2>2
    <3> QED BY <2>1, <2>2, <3>1, <3>2, <1>1 DEF done
  <2>3. CASE m <= 8
    BY <2>1, <2>3, <1>1, <1>2, <1>10
  <2> QED BY <2>2, <2>3, <1>2
<1> QED BY <1>2, <1>11 DEF done
----------------------------------------------------------------------------
\* A bin is sound when its lists, its cache and the groups of its blocks are,
\* and exact when its accounts are the sums over the blocks it holds.
Sound(h, at) == Shape(h, at) /\ CacheSound(h, at) /\ Sorted(h, at)

\* The bytes in use of each block.
Bytes(h) == [b \in SuperBlocks |-> BytesOf(h, b)]
\* The accounts of bin l are the sums over the blocks placed in it.
Exact(h, at, l) ==
  /\ h.ub[l] = Total(Bytes(h), Held(at, l))
  /\ h.tb[l] = DataBytes * Cardinality(Held(at, l))

\* Bytes in use are naturals.
LEMMA BytesNat ==
  ASSUME NEW h \in Heaps
  PROVE  \A b \in SuperBlocks : Bytes(h)[b] = BytesOf(h, b) /\ BytesOf(h, b) \in Nat
<1> SUFFICES ASSUME NEW b \in SuperBlocks PROVE Bytes(h)[b] = BytesOf(h, b) /\ BytesOf(h, b) \in Nat
  OBVIOUS
<1>1. h.used[b] \in Nat
  BY Constants DEF Heaps
<1> QED BY <1>1, Constants DEF Bytes, BytesOf

\* A bin holds finitely many blocks.
LEMMA HeldFinite ==
  \A at, l : IsFiniteSet(Held(at, l)) /\ Cardinality(Held(at, l)) \in Nat
<1> SUFFICES ASSUME NEW at, NEW l PROVE IsFiniteSet(Held(at, l)) /\ Cardinality(Held(at, l)) \in Nat
  OBVIOUS
<1>1. Held(at, l) \subseteq SuperBlocks
  BY DEF Held
<1> QED BY <1>1, Constants, FS_Subset, FS_CardinalityType

\* Exact accounts never wrap below zero.
LEMMA ExactNat ==
  ASSUME NEW h \in Heaps, NEW at, NEW l \in Lists, Exact(h, at, l)
  PROVE  h.ub[l] \in Nat /\ h.tb[l] \in Nat
<1>1. \A b \in Held(at, l) : Bytes(h)[b] \in Nat
  BY BytesNat DEF Held
<1>2. Total(Bytes(h), Held(at, l)) \in Nat
  BY <1>1, HeldFinite, TotalNat
<1> QED BY <1>2, HeldFinite, Constants DEF Exact

\* A list nothing happens to.
LEMMA ExactSame ==
  ASSUME NEW h \in Heaps, NEW at, NEW l \in Lists, Exact(h, at, l),
         NEW k \in Heaps, NEW at2, Held(at2, l) = Held(at, l),
         k.ub[l] = h.ub[l], k.tb[l] = h.tb[l], \A b \in Held(at, l) : k.used[b] = h.used[b]
  PROVE  Exact(k, at2, l)
<1>1. \A b \in Held(at, l) : Bytes(h)[b] \in Nat /\ Bytes(k)[b] = Bytes(h)[b]
  BY BytesNat DEF Held, BytesOf
<1>2. Total(Bytes(k), Held(at, l)) = Total(Bytes(h), Held(at, l))
  BY <1>1, HeldFinite, TotalSame
<1> QED BY <1>2 DEF Exact

\* A block is put into it.
LEMMA ExactAdd ==
  ASSUME NEW h \in Heaps, NEW at, NEW l \in Lists, Exact(h, at, l),
         NEW b \in SuperBlocks, b \notin Held(at, l),
         NEW k \in Heaps, NEW at2, Held(at2, l) = Held(at, l) \cup {b},
         k.ub[l] = h.ub[l] + BytesOf(k, b), k.tb[l] = h.tb[l] + DataBytes,
         \A x \in Held(at, l) : k.used[x] = h.used[x]
  PROVE  Exact(k, at2, l)
<1>1. \A x \in Held(at, l) : Bytes(h)[x] \in Nat /\ Bytes(k)[x] = Bytes(h)[x]
  BY BytesNat DEF Held, BytesOf
<1>2. Total(Bytes(k), Held(at, l)) = Total(Bytes(h), Held(at, l))
  BY <1>1, HeldFinite, TotalSame
<1>3. Bytes(k)[b] = BytesOf(k, b) /\ Bytes(k)[b] \in Nat
  BY BytesNat
<1>4. Total(Bytes(k), Held(at2, l)) = h.ub[l] + BytesOf(k, b)
  <2>1. Total(Bytes(k), Held(at, l) \cup {b}) = Total(Bytes(k), Held(at, l)) + Bytes(k)[b]
    BY <1>1, <1>3, HeldFinite, TotalAdd
  <2> QED BY <2>1, <1>2, <1>3 DEF Exact
<1>5. Cardinality(Held(at2, l)) = Cardinality(Held(at, l)) + 1
  BY HeldFinite, FS_AddElement
<1>6. DataBytes * Cardinality(Held(at2, l)) = DataBytes * Cardinality(Held(at, l)) + DataBytes
  BY <1>5, HeldFinite, Constants
<1> QED BY <1>4, <1>6 DEF Exact

\* A block is taken away.
LEMMA ExactRemove ==
  ASSUME NEW h \in Heaps, NEW at, NEW l \in Lists, Exact(h, at, l),
         NEW b \in Held(at, l),
         NEW k \in Heaps, NEW at2, Held(at2, l) = Held(at, l) \ {b},
         k.ub[l] = h.ub[l] - BytesOf(h, b), k.tb[l] = h.tb[l] - DataBytes,
         \A x \in Held(at, l) : k.used[x] = h.used[x]
  PROVE  Exact(k, at2, l)
<1>0. b \in SuperBlocks
  BY DEF Held
<1>1. \A x \in Held(at, l) : Bytes(h)[x] \in Nat /\ Bytes(k)[x] \in Nat /\ Bytes(k)[x] = Bytes(h)[x]
  BY BytesNat DEF Held, BytesOf
<1>2. Total(Bytes(k), Held(at, l)) = Total(Bytes(h), Held(at, l))
  BY <1>1, HeldFinite, TotalSame
<1>3. Bytes(k)[b] = BytesOf(h, b)
  BY <1>0, <1>1, BytesNat
<1>4. Total(Bytes(k), Held(at2, l)) = h.ub[l] - BytesOf(h, b)
  <2>1. Total(Bytes(k), Held(at, l) \ {b}) = Total(Bytes(k), Held(at, l)) - Bytes(k)[b]
    <3> DEFINE S == Held(at, l)
               f == Bytes(k)
    <3>1. IsFiniteSet(S) /\ b \in S /\ \A x \in S : f[x] \in Nat
      BY <1>1, HeldFinite
    <3> HIDE DEF S, f
    <3>2. Total(f, S \ {b}) = Total(f, S) - f[b]
      BY <3>1, TotalRemove, SMTT(30)
    <3> QED BY <3>2 DEF S, f
  <2> QED BY <2>1, <1>2, <1>3 DEF Exact
<1>5. Cardinality(Held(at2, l)) = Cardinality(Held(at, l)) - 1
  BY HeldFinite, FS_RemoveElement
<1>6. DataBytes * Cardinality(Held(at2, l)) = DataBytes * Cardinality(Held(at, l)) - DataBytes
  BY <1>5, HeldFinite, Constants
<1> QED BY <1>4, <1>6 DEF Exact

\* A cell of one of its blocks is taken or given back.
LEMMA ExactCell ==
  ASSUME NEW h \in Heaps, NEW at, NEW l \in Lists, Exact(h, at, l),
         NEW b \in Held(at, l), NEW d \in {-1, 1},
         NEW k \in Heaps, NEW at2, Held(at2, l) = Held(at, l),
         k.ub[l] = h.ub[l] + d * CellBytes, k.tb[l] = h.tb[l],
         k.used[b] = h.used[b] + d,
         \A x \in Held(at, l) \ {b} : k.used[x] = h.used[x]
  PROVE  Exact(k, at2, l)
<1>0. b \in SuperBlocks
  BY DEF Held
<1>1. \A x \in Held(at, l) : Bytes(h)[x] \in Nat /\ Bytes(k)[x] \in Nat
  BY BytesNat DEF Held
<1>2. \A x \in Held(at, l) \ {b} : Bytes(k)[x] = Bytes(h)[x]
  BY BytesNat DEF Held, BytesOf
<1>3. Total(Bytes(k), Held(at, l)) = Total(Bytes(h), Held(at, l)) + Bytes(k)[b] - Bytes(h)[b]
  BY <1>1, <1>2, HeldFinite, TotalChange
<1>4. Bytes(k)[b] = Bytes(h)[b] + d * CellBytes
  <2>1. h.used[b] \in Nat /\ k.used[b] \in Nat
    BY <1>0, Constants DEF Heaps
  <2>2. k.used[b] * CellBytes = h.used[b] * CellBytes + d * CellBytes
    BY <2>1, Constants
  <2> QED BY <2>2, <1>0, BytesNat DEF BytesOf
<1>5. Total(Bytes(h), Held(at, l)) \in Nat
  BY <1>1, HeldFinite, TotalNat
<1>6. Total(Bytes(k), Held(at, l)) = h.ub[l] + d * CellBytes
  BY <1>1, <1>3, <1>4, <1>5, Constants DEF Exact
<1> QED BY <1>6 DEF Exact

----------------------------------------------------------------------------
\* What does not touch links leaves the lists alone.
LEMMA ShapeSame ==
  ASSUME NEW h, NEW at, Shape(h, at), NEW k \in Heaps, NEW at2 \in [SuperBlocks -> Places],
         k.prev = h.prev, k.next = h.next, k.head = h.head,
         \A b \in SuperBlocks : at2[b] # at[b] => at2[b][2] \notin Groups /\ at[b][2] \notin Groups
  PROVE  Shape(k, at2)
<1>1. ASSUME NEW l \in Lists, NEW g \in Groups PROVE Chained(k, at2, l, g)
  <2>1. At(at2, l, g) = At(at, l, g)
    BY DEF At
  <2>2. Chained(h, at, l, g)
    BY DEF Shape
  <2> QED BY <2>1, <2>2 DEF Chained
<1> QED BY <1>1 DEF Shape

\* The accounts of bin l moved by du and dt and nothing else did.
Accounted(h, l, du, dt, k) ==
  /\ k \in Heaps
  /\ k.prev = h.prev /\ k.next = h.next /\ k.head = h.head /\ k.cache = h.cache
  /\ k.group = h.group /\ k.used = h.used
  /\ k.ub = [h.ub EXCEPT ![l] = @ + du] /\ k.tb = [h.tb EXCEPT ![l] = @ + dt]

\* Account does that.
LEMMA AccountFields ==
  ASSUME NEW h \in Heaps, NEW l \in Lists, NEW du \in Int, NEW dt \in Int
  PROVE  Accounted(h, l, du, dt, Account(h, l, du, dt))
<1> DEFINE u == [h.ub EXCEPT ![l] = @ + du]
           t == [h.tb EXCEPT ![l] = @ + dt]
           k == Account(h, l, du, dt)
<1>1. u \in [Lists -> Int] /\ t \in [Lists -> Int]
  BY DEF Heaps
<1>2. k = [h EXCEPT !.ub = u, !.tb = t]
  BY DEF Account
<1> HIDE DEF u, t, k
<1>3. /\ k \in Heaps
      /\ k.prev = h.prev /\ k.next = h.next /\ k.head = h.head /\ k.cache = h.cache
      /\ k.group = h.group /\ k.used = h.used /\ k.ub = u /\ k.tb = t
  BY <1>1, <1>2 DEF Heaps
<1> QED BY <1>3 DEF Accounted, u, t, k

\* Writing a cache leaves the rest of the heap alone.
LEMMA CacheFields ==
  ASSUME NEW h \in Heaps, NEW l \in Lists, NEW c \in Refs
  PROVE  LET k == [h EXCEPT !.cache[l] = c]
         IN  /\ k \in Heaps
             /\ k.prev = h.prev /\ k.next = h.next /\ k.head = h.head
             /\ k.group = h.group /\ k.used = h.used /\ k.ub = h.ub /\ k.tb = h.tb
             /\ k.cache = [h.cache EXCEPT ![l] = c]
BY DEF Heaps

\* Counting cells leaves the rest of the heap alone.
LEMMA UsedFields ==
  ASSUME NEW h \in Heaps, NEW b \in SuperBlocks, NEW u \in 0..Cells
  PROVE  LET k == [h EXCEPT !.used[b] = u]
         IN  /\ k \in Heaps
             /\ k.prev = h.prev /\ k.next = h.next /\ k.head = h.head
             /\ k.group = h.group /\ k.cache = h.cache /\ k.ub = h.ub /\ k.tb = h.tb
             /\ k.used = [h.used EXCEPT ![b] = u]
BY DEF Heaps

\* Accounts are not about the lists.
LEMMA AccountSound ==
  ASSUME NEW h, NEW at, Sound(h, at), NEW l \in Lists, NEW du \in Int, NEW dt \in Int
  PROVE  Sound(Account(h, l, du, dt), at)
<1> DEFINE k == Account(h, l, du, dt)
<1>1. h \in Heaps /\ at \in [SuperBlocks -> Places]
  BY DEF Sound, Shape
<1>2. /\ k \in Heaps
      /\ k.prev = h.prev /\ k.next = h.next /\ k.head = h.head /\ k.cache = h.cache
      /\ k.group = h.group /\ k.used = h.used
  <2>1. Accounted(h, l, du, dt, k)
    BY <1>1, AccountFields
  <2> HIDE DEF k
  <2> QED BY <2>1 DEF Accounted
<1> HIDE DEF k
<1>3. Shape(k, at)
  BY <1>1, <1>2, ShapeSame DEF Sound
<1> QED BY <1>2, <1>3, GroupSame DEF Sound, CacheSound, Sorted, k

\* A block that was cached, or comes from outside, joins the list of its group.
LEMMA PutGroupSound ==
  ASSUME NEW h, NEW at, Shape(h, at), Sorted(h, at), NEW l \in Lists, NEW b \in SuperBlocks,
         at[b][2] \notin Groups
  PROVE  LET k == PutGroup(h, l, b)
             at2 == [at EXCEPT ![b] = <<l, Group(h, b)>>]
         IN  Shape(k, at2) /\ Sorted(k, at2) /\ SameBut(h, k) /\ Group(h, b) \in Groups
<1> DEFINE g == Group(h, b)
           k == PutGroup(h, l, b)
           at2 == [at EXCEPT ![b] = <<l, g>>]
<1>1. h \in Heaps /\ at \in [SuperBlocks -> Places] /\ h.group \in [SuperBlocks -> Groups]
  BY DEF Shape, Heaps
<1>2. g \in Groups
  <2>1. h.used[b] \in 0..Cells
    BY <1>1 DEF Heaps
  <2> QED BY <2>1, GroupFacts
<1>3. k = Push(h, l, g, b)
  BY DEF PutGroup
<1> HIDE DEF g, k
<1>4. Shape(k, at2) /\ SameBut(h, k) /\ k.group = [h.group EXCEPT ![b] = g]
  BY <1>2, <1>3, PushShape
<1>5. ASSUME NEW x \in SuperBlocks, at2[x][2] \in Groups
      PROVE  k.group[x] = at2[x][2] /\ Group(k, x) = at2[x][2]
  <2>1. Group(k, x) = Group(h, x)
    BY <1>4, GroupSame DEF SameBut
  <2>2. CASE x = b
    BY <1>1, <1>4, <2>1, <2>2 DEF g
  <2>3. CASE x # b
    <3>1. at2[x] = at[x] /\ k.group[x] = h.group[x]
      BY <1>1, <1>4, <2>3
    <3> QED BY <3>1, <2>1, <1>5 DEF Sorted
  <2> QED BY <2>2, <2>3
<1>6. Sorted(k, at2)
  BY <1>5 DEF Sorted
<1> QED BY <1>2, <1>4, <1>6 DEF k, g

\* Popping keeps the order of the others.
LEMMA OutsideSorted ==
  ASSUME NEW h, NEW at \in [SuperBlocks -> Places], Sorted(h, at), NEW k,
         k.used = h.used, k.group = h.group, NEW b \in SuperBlocks
  PROVE  Sorted(k, [at EXCEPT ![b] = Outside])
<1> DEFINE at2 == [at EXCEPT ![b] = Outside]
<1> SUFFICES ASSUME NEW x \in SuperBlocks, at2[x][2] \in Groups
             PROVE  k.group[x] = at2[x][2] /\ Group(k, x) = at2[x][2]
  BY DEF Sorted
<1>1. x # b /\ at2[x] = at[x]
  BY NotTaken DEF Outside
<1>2. Group(k, x) = Group(h, x)
  BY GroupSame
<1> QED BY <1>1, <1>2 DEF Sorted

\* The blocks of the lists of a bin that may serve an allocation first.
MostEmptyAt(at, l, b) ==
  /\ b \in Grouped(at, l) /\ at[b][2] <= EmptinessClasses
  /\ \A x \in Grouped(at, l) : at[b][2] <= at[x][2]

\* pop_most_empty_block takes an emptiest block of the lists out of them, or finds
\* none because every listed block is full.
LEMMA PopMostEmptySound ==
  ASSUME NEW h, NEW at, Shape(h, at), Sorted(h, at), NEW l \in Lists
  PROVE  LET r == PopMostEmpty(h, l)
         IN  \/ /\ r.block = NoBlock /\ r.heap = h
                /\ \A x \in Grouped(at, l) : at[x][2] = EmptinessClasses + 1
             \/ /\ r.block \in SuperBlocks /\ MostEmptyAt(at, l, r.block)
                /\ Shape(r.heap, [at EXCEPT ![r.block] = Outside])
                /\ Sorted(r.heap, [at EXCEPT ![r.block] = Outside])
                /\ SameBut(h, r.heap)
<1> DEFINE r == PopMostEmpty(h, l)
<1>0. at \in [SuperBlocks -> Places] /\ Groups = 0..9 /\ EmptinessClasses = 8
  BY NotTaken DEF Shape, EmptinessClasses
<1>1. PICK m : EndsAt(h, l, m)
  BY SomeEnd
<1>2. m \in 0..9
  BY <1>1 DEF EndsAt, EmptinessClasses
<1>3. IF m > EmptinessClasses THEN r.heap = h /\ r.block = NoBlock
      ELSE r.heap = Pop(h, l, m) /\ r.block = h.head[l][m]
  BY <1>1, ScanEnds
<1> HIDE DEF r
<1>4. ASSUME NEW x \in Grouped(at, l) PROVE at[x][2] \in Groups /\ at[x][2] >= m
  <2>1. x \in SuperBlocks /\ at[x][1] = l /\ at[x][2] \in Groups
    BY DEF Grouped
  <2>2. at[x] = <<l, at[x][2]>>
    <3>1. at[x] \in Places
      BY <1>0, <2>1
    <3> QED BY <3>1, <2>1, NotTaken DEF Places, Outside
  <2>3. x \in At(at, l, at[x][2])
    BY <2>1, <2>2 DEF At
  <2>4. h.head[l][at[x][2]] # NoBlock
    BY <2>1, <2>3, EmptyList
  <2> QED BY <2>1, <2>4, <1>0, <1>1, <1>2 DEF EndsAt
<1>5. CASE m = 9
  BY <1>0, <1>3, <1>4, <1>5 DEF r
<1>6. CASE m <= 8
  <2> DEFINE b == h.head[l][m]
  <2>1. b # NoBlock /\ m \in Groups
    BY <1>0, <1>1, <1>6, <1>2 DEF EndsAt
  <2>2. /\ b \in SuperBlocks /\ at[b] = <<l, m>>
        /\ Shape(Pop(h, l, m), [at EXCEPT ![b] = Outside])
        /\ SameBut(h, Pop(h, l, m)) /\ Pop(h, l, m).group = h.group
    BY <2>1, PopShape
  <2> HIDE DEF b
  <2>3. r.heap = Pop(h, l, m) /\ r.block = b
    BY <1>3, <1>6, <1>0, <1>2 DEF b
  <2>4. Sorted(Pop(h, l, m), [at EXCEPT ![b] = Outside])
    BY <2>2, <1>0, OutsideSorted DEF SameBut
  <2>5. MostEmptyAt(at, l, b)
    BY <2>1, <2>2, <1>0, <1>4, <1>6 DEF MostEmptyAt, Grouped
  <2> QED BY <2>2, <2>3, <2>4, <2>5 DEF r
<1> QED BY <1>2, <1>5, <1>6

\* Of the groups, only blocks in lists count.
LEMMA SortedSame ==
  ASSUME NEW h, NEW at, Sorted(h, at), NEW k, k.group = h.group, NEW at2,
         \A b \in SuperBlocks : at2[b][2] \in Groups =>
           at2[b] = at[b] /\ k.used[b] = h.used[b]
  PROVE  Sorted(k, at2)
BY DEF Sorted, Group

----------------------------------------------------------------------------
\* The operations of BlockList

\* The cached block c, if there is one, joins the list of its group.
JoinAt(h, at, l, c) == [x \in SuperBlocks |-> IF x = c THEN <<l, Group(h, c)>> ELSE at[x]]

\* The block that leaves the cache joins the list of its group.
LEMMA JoinSound ==
  ASSUME NEW h, NEW at, Shape(h, at), Sorted(h, at), NEW l \in Lists, NEW c \in Refs,
         c # NoBlock => at[c][2] \notin Groups
  PROVE  LET k == IF c = NoBlock THEN h ELSE PutGroup(h, l, c)
         IN  /\ Shape(k, JoinAt(h, at, l, c)) /\ Sorted(k, JoinAt(h, at, l, c))
             /\ SameBut(h, k)
             /\ c # NoBlock => Group(h, c) \in Groups
<1>0. at \in [SuperBlocks -> Places]
  BY DEF Shape
<1>1. CASE c = NoBlock
  <2>1. JoinAt(h, at, l, c) = at
    BY <1>0, <1>1, Constants DEF JoinAt
  <2> QED BY <1>1, <2>1 DEF SameBut
<1>2. CASE c # NoBlock
  <2>1. c \in SuperBlocks
    BY <1>2 DEF Refs
  <2>2. JoinAt(h, at, l, c) = [at EXCEPT ![c] = <<l, Group(h, c)>>]
    BY <1>0, <2>1 DEF JoinAt
  <2>3. LET k == PutGroup(h, l, c)
            at2 == [at EXCEPT ![c] = <<l, Group(h, c)>>]
        IN  Shape(k, at2) /\ Sorted(k, at2) /\ SameBut(h, k) /\ Group(h, c) \in Groups
    BY <1>2, <2>1, PutGroupSound
  <2> QED BY <1>2, <2>2, <2>3
<1> QED BY <1>1, <1>2

\* Block b is cached, and the block that was cached joins a list.
PutAt(h, at, l, b) ==
  [x \in SuperBlocks |-> IF x = b THEN <<l, Taken>>
                         ELSE IF x = h.cache[l] THEN <<l, Group(h, x)>> ELSE at[x]]

\* BlockList::put caches the block and counts it in.
LEMMA ListPutSound ==
  ASSUME NEW h, NEW at, Sound(h, at), NEW l \in Lists, NEW b \in SuperBlocks, at[b] = Outside
  PROVE  LET k == ListPut(h, l, b)
         IN  /\ Sound(k, PutAt(h, at, l, b))
             /\ k.used = h.used /\ k.cache = [h.cache EXCEPT ![l] = b]
             /\ k.ub = [h.ub EXCEPT ![l] = @ + BytesOf(h, b)]
             /\ k.tb = [h.tb EXCEPT ![l] = @ + DataBytes]
<1> DEFINE c == h.cache[l]
           h1 == IF c = NoBlock THEN h ELSE PutGroup(h, l, c)
           h2 == [h1 EXCEPT !.cache[l] = b]
           k == Account(h2, l, BytesOf(h, b), DataBytes)
           at1 == JoinAt(h, at, l, c)
           at2 == PutAt(h, at, l, b)
<1>0. /\ h \in Heaps /\ at \in [SuperBlocks -> Places] /\ c \in Refs
      /\ h.cache \in [Lists -> Refs] /\ b \in Refs /\ b # NoBlock
  BY Constants DEF Sound, Shape, Heaps, Refs
<1>1. c # b /\ (c # NoBlock => c \in SuperBlocks /\ at[c] = <<l, Taken>>)
  BY <1>0 DEF Sound, CacheSound, Outside, Lists, Refs
<1>2. /\ Shape(h1, at1) /\ Sorted(h1, at1) /\ SameBut(h, h1)
      /\ c # NoBlock => Group(h, c) \in Groups
  <2>1. c # NoBlock => at[c][2] \notin Groups
    BY <1>1, NotTaken
  <2> HIDE DEF c
  <2> QED BY <1>0, <2>1, JoinSound DEF Sound
<1>3. ListPut(h, l, b) = k
  BY <1>1 DEF ListPut
<1> HIDE DEF h1, at1, c
<1>4. h1 \in Heaps /\ at1 \in [SuperBlocks -> Places]
  BY <1>2 DEF Shape
<1>5. /\ h2 \in Heaps
      /\ h2.prev = h1.prev /\ h2.next = h1.next /\ h2.head = h1.head
      /\ h2.group = h1.group /\ h2.used = h1.used /\ h2.ub = h1.ub /\ h2.tb = h1.tb
      /\ h2.cache = [h1.cache EXCEPT ![l] = b]
  BY <1>0, <1>4, CacheFields
<1> HIDE DEF h2
<1>6. at2 = [at1 EXCEPT ![b] = <<l, Taken>>] /\ at1[b] = Outside
  BY <1>0, <1>1, <1>4 DEF at1, JoinAt, PutAt, c
<1>7. at2 \in [SuperBlocks -> Places]
  BY <1>4, <1>6 DEF Places
<1>8. Shape(h2, at2)
  <2>1. \A x \in SuperBlocks : at2[x] # at1[x] => at2[x][2] \notin Groups /\ at1[x][2] \notin Groups
    BY <1>4, <1>6, NotTaken DEF Outside
  <2> QED BY <1>2, <1>5, <1>7, <2>1, ShapeSame
<1>9. Sorted(h2, at2)
  <2>1. \A x \in SuperBlocks : at2[x][2] \in Groups => at2[x] = at1[x]
    BY <1>4, <1>6, NotTaken
  <2> QED BY <1>2, <1>5, <2>1, SortedSame
<1>10. CacheSound(h2, at2)
  <2> SUFFICES ASSUME NEW l2 \in Lists, NEW x \in SuperBlocks
               PROVE  h2.cache[l2] = x <=> at2[x] = <<l2, Taken>>
    BY DEF CacheSound
  <2>1. h2.cache = [h.cache EXCEPT ![l] = b]
    BY <1>2, <1>5 DEF SameBut
  <2>2. h.cache[l2] = x <=> at[x] = <<l2, Taken>>
    BY DEF Sound, CacheSound
  <2>3. x # b => at2[x] = IF x = c THEN <<l, Group(h, c)>> ELSE at[x]
    BY <1>6, <1>4 DEF at1, JoinAt
  <2>4. CASE x = b
    <3>1. at2[x] = <<l, Taken>> /\ at[x] = Outside
      BY <1>6, <1>4, <2>4
    <3> QED BY <3>1, <2>1, <2>2, <2>4, <1>0 DEF Outside, Lists
  <2>5. CASE x # b /\ x = c
    <3>1. at[x] = <<l, Taken>> /\ at2[x] = <<l, Group(h, c)>> /\ Group(h, c) \in Groups
      BY <1>0, <1>1, <1>2, <2>3, <2>5, Constants
    <3> QED BY <3>1, <2>1, <2>2, <2>5, <1>0, NotTaken
  <2>6. CASE x # b /\ x # c
    BY <2>1, <2>2, <2>3, <2>6, <1>0 DEF c
  <2> QED BY <2>4, <2>5, <2>6
<1>11. Sound(h2, at2)
  BY <1>8, <1>9, <1>10 DEF Sound
<1>12. BytesOf(h, b) \in Int /\ DataBytes \in Int
  BY <1>0, BytesNat, Constants
<1>13. Accounted(h2, l, BytesOf(h, b), DataBytes, k)
  BY <1>5, <1>12, AccountFields
<1>14. Sound(k, at2)
  BY <1>11, <1>12, AccountSound
<1> HIDE DEF k, at2
<1>15. /\ k.used = h.used /\ k.cache = [h.cache EXCEPT ![l] = b]
       /\ k.ub = [h.ub EXCEPT ![l] = @ + BytesOf(h, b)]
       /\ k.tb = [h.tb EXCEPT ![l] = @ + DataBytes]
  BY <1>2, <1>5, <1>13 DEF Accounted, SameBut
<1> QED BY <1>3, <1>14, <1>15 DEF at2

\* The most suitable block is taken out: the cached one, or one of the emptiest.
PopOf(h, at, l, b) ==
  /\ b \in SuperBlocks
  /\ IF h.cache[l] # NoBlock THEN b = h.cache[l] ELSE MostEmptyAt(at, l, b)

\* BlockList::pop takes out the cached or an emptiest block and counts it out.
LEMMA ListPopSound ==
  ASSUME NEW h, NEW at, Sound(h, at), NEW l \in Lists
  PROVE  LET r == ListPop(h, l)  k == r.heap  b == r.block
         IN  \/ /\ b = NoBlock /\ k = h /\ h.cache[l] = NoBlock
                /\ \A x \in Grouped(at, l) : at[x][2] = EmptinessClasses + 1
             \/ /\ PopOf(h, at, l, b)
                /\ Sound(k, [at EXCEPT ![b] = Outside])
                /\ k.used = h.used /\ k.cache = [h.cache EXCEPT ![l] = NoBlock]
                /\ k.ub = [h.ub EXCEPT ![l] = @ - BytesOf(h, b)]
                /\ k.tb = [h.tb EXCEPT ![l] = @ - DataBytes]
<1> DEFINE c == h.cache[l]
           p == PopMostEmpty(h, l)
           r == ListPop(h, l)
           k == r.heap
           Took(m, b) == /\ PopOf(h, at, l, b)
                         /\ Sound(m, [at EXCEPT ![b] = Outside])
                         /\ m.used = h.used /\ m.cache = [h.cache EXCEPT ![l] = NoBlock]
                         /\ m.ub = h.ub /\ m.tb = h.tb
<1>0. /\ h \in Heaps /\ at \in [SuperBlocks -> Places] /\ c \in Refs
      /\ h.cache \in [Lists -> Refs] /\ NoBlock \in Refs
  BY DEF Sound, Shape, Heaps, Refs
<1>1. ASSUME NEW m, NEW b, Took(m, b), r.block = b, r.heap = Account(m, l, -BytesOf(h, b), -DataBytes)
      PROVE  /\ PopOf(h, at, l, b)
             /\ Sound(k, [at EXCEPT ![b] = Outside])
             /\ k.used = h.used /\ k.cache = [h.cache EXCEPT ![l] = NoBlock]
             /\ k.ub = [h.ub EXCEPT ![l] = @ - BytesOf(h, b)]
             /\ k.tb = [h.tb EXCEPT ![l] = @ - DataBytes]
  <2>1. b \in SuperBlocks /\ m \in Heaps
    BY <1>1 DEF PopOf, Sound, Shape
  <2>2. BytesOf(h, b) \in Nat /\ DataBytes \in Nat
    BY <2>1, <1>0, BytesNat, Constants
  <2>3. -BytesOf(h, b) \in Int /\ -DataBytes \in Int
    BY <2>2
  <2> HIDE DEF k
  <2>4. Accounted(m, l, -BytesOf(h, b), -DataBytes, k) /\ Sound(k, [at EXCEPT ![b] = Outside])
    BY <1>1, <2>1, <2>3, AccountFields, AccountSound DEF k
  <2>5. h.ub \in [Lists -> Int] /\ h.tb \in [Lists -> Int]
    BY <1>0 DEF Heaps
  <2>6. /\ [h.ub EXCEPT ![l] = @ + (-BytesOf(h, b))] = [h.ub EXCEPT ![l] = @ - BytesOf(h, b)]
        /\ [h.tb EXCEPT ![l] = @ + (-DataBytes)] = [h.tb EXCEPT ![l] = @ - DataBytes]
    BY <2>2, <2>5
  <2> QED BY <1>1, <2>4, <2>6 DEF Accounted
<1>2. CASE c # NoBlock
  <2> DEFINE m == [h EXCEPT !.cache[l] = NoBlock]
             at2 == [at EXCEPT ![c] = Outside]
  <2>1. /\ m \in Heaps
        /\ m.prev = h.prev /\ m.next = h.next /\ m.head = h.head
        /\ m.group = h.group /\ m.used = h.used /\ m.ub = h.ub /\ m.tb = h.tb
        /\ m.cache = [h.cache EXCEPT ![l] = NoBlock]
    BY <1>0, CacheFields
  <2>2. c \in SuperBlocks /\ at[c] = <<l, Taken>>
    BY <1>0, <1>2 DEF Sound, CacheSound, Refs
  <2>3. r.block = c /\ r.heap = Account(m, l, -BytesOf(h, c), -DataBytes)
    BY <1>2 DEF ListPop
  <2> HIDE DEF m, c, r
  <2>4. at2 \in [SuperBlocks -> Places]
    BY <1>0, <2>2 DEF Places
  <2>5. Shape(m, at2)
    <3>1. \A x \in SuperBlocks : at2[x] # at[x] => at2[x][2] \notin Groups /\ at[x][2] \notin Groups
      BY <1>0, <2>2, NotTaken DEF Outside
    <3>2. Shape(h, at)
      BY DEF Sound
    <3> HIDE DEF at2
    <3> QED BY <2>1, <2>4, <3>1, <3>2, ShapeSame
  <2>6. Sorted(m, at2)
    BY <1>0, <2>1, <2>2, OutsideSorted DEF Sound
  <2>7. CacheSound(m, at2)
    <3> SUFFICES ASSUME NEW l2 \in Lists, NEW x \in SuperBlocks
                 PROVE  m.cache[l2] = x <=> at2[x] = <<l2, Taken>>
      BY DEF CacheSound
    <3>1. h.cache[l2] = x <=> at[x] = <<l2, Taken>>
      BY DEF Sound, CacheSound
    <3>2. x = c => at2[x] = Outside
      BY <1>0, <2>2
    <3>3. x # c => at2[x] = at[x]
      BY <1>0, <2>2
    <3> QED BY <3>1, <3>2, <3>3, <2>1, <2>2, <1>0, Constants DEF Outside, Lists, c
  <2>8. Took(m, c)
    BY <1>2, <2>1, <2>2, <2>5, <2>6, <2>7 DEF PopOf, Sound, c
  <2> QED BY <1>1, <2>3, <2>8 DEF r
<1>3. CASE c = NoBlock
  <2>1. IF p.block = NoBlock THEN r.heap = p.heap
        ELSE r.heap = Account(p.heap, l, -BytesOf(h, p.block), -DataBytes)
    BY <1>3 DEF ListPop
  <2>2. r.block = p.block
    BY <1>3 DEF ListPop
  <2>3. \/ /\ p.block = NoBlock /\ p.heap = h
           /\ \A x \in Grouped(at, l) : at[x][2] = EmptinessClasses + 1
        \/ /\ p.block \in SuperBlocks /\ MostEmptyAt(at, l, p.block)
           /\ Shape(p.heap, [at EXCEPT ![p.block] = Outside])
           /\ Sorted(p.heap, [at EXCEPT ![p.block] = Outside])
           /\ SameBut(h, p.heap)
    BY PopMostEmptySound DEF Sound
  <2> HIDE DEF p, r
  <2>4. CASE p.block = NoBlock
    <3>1. p.block \notin SuperBlocks
      BY <2>4, Constants
    <3> QED BY <1>3, <2>1, <2>2, <2>3, <2>4, <3>1 DEF r
  <2>5. CASE p.block # NoBlock
    <3> DEFINE b == p.block
               m == p.heap
               at2 == [at EXCEPT ![b] = Outside]
    <3>1. /\ b \in SuperBlocks /\ MostEmptyAt(at, l, b)
          /\ Shape(m, at2) /\ Sorted(m, at2) /\ SameBut(h, m)
      BY <2>3, <2>5
    <3> HIDE DEF b, m
    <3>2. CacheSound(m, at2)
      <4> SUFFICES ASSUME NEW l2 \in Lists, NEW x \in SuperBlocks
                   PROVE  m.cache[l2] = x <=> at2[x] = <<l2, Taken>>
        BY DEF CacheSound
      <4>1. h.cache[l2] = x <=> at[x] = <<l2, Taken>>
        BY DEF Sound, CacheSound
      <4>2. at[b] # <<l2, Taken>>
        BY <3>1, NotTaken DEF MostEmptyAt, Grouped
      <4>3. at2[x] = IF x = b THEN Outside ELSE at[x]
        BY <1>0, <3>1
      <4> QED BY <3>1, <4>1, <4>2, <4>3 DEF SameBut, Outside, Lists
    <3>3. m.cache = [h.cache EXCEPT ![l] = NoBlock]
      BY <1>0, <1>3, <3>1 DEF SameBut
    <3>4. Took(m, b)
      BY <1>3, <3>1, <3>2, <3>3 DEF PopOf, Sound, SameBut
    <3>5. r.block = b /\ r.heap = Account(m, l, -BytesOf(h, b), -DataBytes)
      BY <2>1, <2>2, <2>5 DEF b, m
    <3> QED BY <1>1, <3>4, <3>5 DEF r
  <2> QED BY <2>4, <2>5
<1> QED BY <1>2, <1>3

\* A cell is taken out of the cached block.
LEMMA TakeCellSound ==
  ASSUME NEW h, NEW at, Sound(h, at), NEW l \in Lists, NEW c \in SuperBlocks, h.cache[l] = c,
         h.used[c] < Cells
  PROVE  LET k == TakeCell(h, l)
         IN  /\ Sound(k, at)
             /\ k.used = [h.used EXCEPT ![c] = @ + 1] /\ k.cache = h.cache
             /\ k.ub = [h.ub EXCEPT ![l] = @ + CellBytes] /\ k.tb = h.tb
<1> DEFINE u == h.used[c] + 1
           m == [h EXCEPT !.used[c] = u]
           k == Account(m, l, CellBytes, 0)
<1>0. h \in Heaps /\ at \in [SuperBlocks -> Places] /\ h.used \in [SuperBlocks -> 0..Cells]
      /\ h.ub \in [Lists -> Int] /\ h.tb \in [Lists -> Int]
  BY DEF Sound, Shape, Heaps
<1>1. u \in 0..Cells
  BY <1>0, Constants
<1>2. TakeCell(h, l) = k
  BY DEF TakeCell
<1>3. u = h.used[c] + 1
  OBVIOUS
<1> HIDE DEF u
<1>4. /\ m \in Heaps
      /\ m.prev = h.prev /\ m.next = h.next /\ m.head = h.head
      /\ m.group = h.group /\ m.cache = h.cache /\ m.ub = h.ub /\ m.tb = h.tb
      /\ m.used = [h.used EXCEPT ![c] = u]
  BY <1>0, <1>1, UsedFields
<1> HIDE DEF m
<1>5. Shape(h, at) /\ Sorted(h, at) /\ CacheSound(h, at)
  BY DEF Sound
<1>6. Shape(m, at)
  BY <1>0, <1>4, <1>5, ShapeSame
<1>7. at[c][2] \notin Groups
  BY <1>5, NotTaken DEF CacheSound
<1>8. Sorted(m, at)
  <2>1. \A b \in SuperBlocks : at[b][2] \in Groups => m.used[b] = h.used[b]
    BY <1>0, <1>4, <1>7
  <2> QED BY <1>4, <1>5, <2>1 DEF Sorted, Group
<1>9. Sound(m, at)
  BY <1>4, <1>5, <1>6, <1>8 DEF Sound, CacheSound
<1>10. CellBytes \in Int /\ 0 \in Int
  BY Constants
<1>11. Accounted(m, l, CellBytes, 0, k)
  BY <1>4, <1>10, AccountFields
<1>12. Sound(k, at)
  BY <1>9, <1>10, AccountSound
<1> HIDE DEF k
<1>13. [h.tb EXCEPT ![l] = @ + 0] = h.tb
  BY <1>0
<1>14. /\ k.used = [h.used EXCEPT ![c] = @ + 1] /\ k.cache = h.cache
       /\ k.ub = [h.ub EXCEPT ![l] = @ + CellBytes] /\ k.tb = h.tb
  BY <1>3, <1>4, <1>11, <1>13 DEF Accounted
<1> QED BY <1>2, <1>12, <1>14

\* The cached block has a free cell.
Usable(h, l) == h.cache[l] # NoBlock /\ h.used[h.cache[l]] < Cells

\* What an allocation finds: a cell of the cached block, one of an emptiest
\* block, which is then cached, or none.
LEMMA ListAllocSound ==
  ASSUME NEW h, NEW at, Sound(h, at), NEW l \in Lists
  PROVE  LET r == ListAlloc(h, l)  k == r.heap  c == h.cache[l]
         IN  \/ /\ Usable(h, l) /\ r.ok /\ Sound(k, at)
                /\ k.used = [h.used EXCEPT ![c] = @ + 1] /\ k.cache = h.cache
                /\ k.ub = [h.ub EXCEPT ![l] = @ + CellBytes] /\ k.tb = h.tb
             \/ \E b \in SuperBlocks :
                  /\ ~Usable(h, l) /\ r.ok /\ MostEmptyAt(at, l, b)
                  /\ Sound(k, PutAt(h, at, l, b))
                  /\ k.used = [h.used EXCEPT ![b] = @ + 1]
                  /\ k.cache = [h.cache EXCEPT ![l] = b]
                  /\ k.ub = [h.ub EXCEPT ![l] = @ + CellBytes] /\ k.tb = h.tb
             \/ /\ ~Usable(h, l) /\ ~r.ok
                /\ \A x \in Grouped(at, l) : at[x][2] = EmptinessClasses + 1
                /\ Sound(k, JoinAt(h, at, l, c))
                /\ k.used = h.used /\ k.cache = [h.cache EXCEPT ![l] = NoBlock]
                /\ k.ub = h.ub /\ k.tb = h.tb
<1> DEFINE c == h.cache[l]
           r == ListAlloc(h, l)
           h0 == [h EXCEPT !.cache[l] = NoBlock]
           h1 == IF c = NoBlock THEN h ELSE PutGroup(h0, l, c)
           p == PopMostEmpty(h1, l)
           at1 == JoinAt(h, at, l, c)
<1>0. /\ h \in Heaps /\ at \in [SuperBlocks -> Places] /\ c \in Refs
      /\ h.cache \in [Lists -> Refs] /\ NoBlock \in Refs
      /\ Shape(h, at) /\ Sorted(h, at) /\ CacheSound(h, at)
  BY DEF Sound, Shape, Heaps, Refs
<1>1. c # NoBlock => c \in SuperBlocks /\ at[c] = <<l, Taken>>
  BY <1>0 DEF CacheSound, Refs
<1>2. r = IF Usable(h, l) THEN [heap |-> TakeCell(h, l), ok |-> TRUE]
          ELSE IF p.block = NoBlock THEN [heap |-> p.heap, ok |-> FALSE]
          ELSE [heap |-> TakeCell([p.heap EXCEPT !.cache[l] = p.block], l), ok |-> TRUE]
  BY DEF ListAlloc, Usable
<1>3. CASE Usable(h, l)
  <2>1. c \in SuperBlocks /\ h.used[c] < Cells
    BY <1>1, <1>3 DEF Usable
  <2>2. r.heap = TakeCell(h, l) /\ r.ok
    BY <1>2, <1>3
  <2> HIDE DEF c, r
  <2>3. LET k == TakeCell(h, l)
        IN  /\ Sound(k, at)
            /\ k.used = [h.used EXCEPT ![c] = @ + 1] /\ k.cache = h.cache
            /\ k.ub = [h.ub EXCEPT ![l] = @ + CellBytes] /\ k.tb = h.tb
    BY <2>1, TakeCellSound DEF c
  <2> QED BY <1>3, <2>2, <2>3 DEF c, r
<1>4. CASE ~Usable(h, l)
  <2>1. /\ h0 \in Heaps
        /\ h0.prev = h.prev /\ h0.next = h.next /\ h0.head = h.head
        /\ h0.group = h.group /\ h0.used = h.used /\ h0.ub = h.ub /\ h0.tb = h.tb
        /\ h0.cache = [h.cache EXCEPT ![l] = NoBlock]
    BY <1>0, CacheFields
  <2>2. c # NoBlock => Group(h, c) = EmptinessClasses + 1 /\ Group(h0, c) = Group(h, c)
    <3> SUFFICES ASSUME c # NoBlock
                 PROVE  Group(h, c) = EmptinessClasses + 1 /\ Group(h0, c) = Group(h, c)
      OBVIOUS
    <3>1. h.used[c] \in 0..Cells /\ ~(h.used[c] < Cells)
      BY <1>0, <1>1, <1>4 DEF Heaps, Usable
    <3> HIDE DEF h0, c
    <3>2. Group(h, c) \in Groups /\ ~(Group(h, c) <= EmptinessClasses)
      BY <3>1, GroupFacts
    <3>3. Group(h0, c) = Group(h, c)
      BY <2>1, GroupSame
    <3> QED BY <3>2, <3>3, NotTaken DEF EmptinessClasses
  <2>3. /\ Shape(h1, at1) /\ Sorted(h1, at1)
        /\ h1.used = h.used /\ h1.cache = [h.cache EXCEPT ![l] = NoBlock]
        /\ h1.ub = h.ub /\ h1.tb = h.tb
    <3>1. CASE c = NoBlock
      <4>1. at1 = at
        BY <1>0, <3>1, Constants DEF JoinAt
      <4>2. h1 = h /\ h.cache = [h.cache EXCEPT ![l] = NoBlock]
        BY <1>0, <3>1
      <4> QED BY <1>0, <4>1, <4>2
    <3>2. CASE c # NoBlock
      <4>1. h1 = PutGroup(h0, l, c) /\ c \in SuperBlocks /\ at[c][2] \notin Groups
        BY <1>1, <3>2, NotTaken
      <4> HIDE DEF h0, h1, c
      <4>2. at1 = [at EXCEPT ![c] = <<l, Group(h0, c)>>]
        BY <1>0, <4>1, <3>2, <2>2 DEF JoinAt
      <4>3. Shape(h0, at)
        BY <1>0, <2>1, ShapeSame
      <4>4. Sorted(h0, at)
        BY <1>0, <2>1, SortedSame
      <4>5. LET k == PutGroup(h0, l, c)
                at2 == [at EXCEPT ![c] = <<l, Group(h0, c)>>]
            IN  Shape(k, at2) /\ Sorted(k, at2) /\ SameBut(h0, k) /\ Group(h0, c) \in Groups
        BY <4>1, <4>3, <4>4, PutGroupSound
      <4> QED BY <4>1, <4>2, <4>5, <2>1 DEF SameBut
    <3> QED BY <3>1, <3>2
  <2> HIDE DEF h1, h0
  <2>4. h1 \in Heaps /\ at1 \in [SuperBlocks -> Places]
    BY <2>3 DEF Shape
  <2>5. \A x \in SuperBlocks : at1[x] = IF x = c THEN <<l, EmptinessClasses + 1>> ELSE at[x]
    BY <2>2, Constants DEF JoinAt
  <2>6. \A x \in SuperBlocks : x # c => (x \in Grouped(at1, l) <=> x \in Grouped(at, l))
    BY <2>5 DEF Grouped
  <2>7. c \notin Grouped(at, l)
    <3>1. c \notin SuperBlocks \/ at[c] = <<l, Taken>>
      BY <1>1, Constants
    <3> QED BY <3>1, NotTaken DEF Grouped
  <2>8. CacheSound(h1, at1)
    <3> SUFFICES ASSUME NEW l2 \in Lists, NEW x \in SuperBlocks
                 PROVE  h1.cache[l2] = x <=> at1[x] = <<l2, Taken>>
      BY DEF CacheSound
    <3>1. h.cache[l2] = x <=> at[x] = <<l2, Taken>>
      BY <1>0 DEF CacheSound
    <3>2. h1.cache[l2] = IF l2 = l THEN NoBlock ELSE h.cache[l2]
      BY <1>0, <2>3
    <3>3. x = c => at1[x] = <<l, EmptinessClasses + 1>> /\ at[x] = <<l, Taken>>
      BY <2>5, <1>1, Constants
    <3>4. EmptinessClasses + 1 # Taken
      BY DEF EmptinessClasses, Taken
    <3>5. x # c => at1[x] = at[x]
      BY <2>5
    <3>6. CASE x = c
      BY <3>1, <3>2, <3>3, <3>4, <3>6, Constants
    <3>7. CASE x # c
      BY <3>1, <3>2, <3>5, <3>7, Constants
    <3> QED BY <3>6, <3>7
  <2>9. \/ /\ p.block = NoBlock /\ p.heap = h1
           /\ \A x \in Grouped(at1, l) : at1[x][2] = EmptinessClasses + 1
        \/ /\ p.block \in SuperBlocks /\ MostEmptyAt(at1, l, p.block)
           /\ Shape(p.heap, [at1 EXCEPT ![p.block] = Outside])
           /\ Sorted(p.heap, [at1 EXCEPT ![p.block] = Outside])
           /\ SameBut(h1, p.heap)
    BY <2>3, PopMostEmptySound
  <2> HIDE DEF p, at1
  <2>10. CASE p.block = NoBlock
    <3>1. /\ p.heap = h1 /\ \A x \in Grouped(at1, l) : at1[x][2] = EmptinessClasses + 1
      BY <2>9, <2>10, Constants
    <3>2. r.heap = h1 /\ ~r.ok
      BY <1>2, <1>4, <2>10, <3>1
    <3>3. \A x \in Grouped(at, l) : at[x][2] = EmptinessClasses + 1
      <4> SUFFICES ASSUME NEW x \in Grouped(at, l) PROVE at[x][2] = EmptinessClasses + 1
        OBVIOUS
      <4>1. x \in SuperBlocks /\ x # c
        BY <2>7 DEF Grouped
      <4> QED BY <4>1, <2>5, <2>6, <3>1
    <3>4. Sound(h1, at1)
      BY <2>3, <2>8 DEF Sound
    <3> HIDE DEF r
    <3>5. Sound(r.heap, at1) /\ r.heap.used = h.used /\ r.heap.cache = [h.cache EXCEPT ![l] = NoBlock]
          /\ r.heap.ub = h.ub /\ r.heap.tb = h.tb
      BY <2>3, <3>2, <3>4
    <3> QED BY <1>4, <3>2, <3>3, <3>5 DEF r, at1
  <2>11. CASE p.block # NoBlock
    <3> DEFINE b == p.block
               m == p.heap
               n == [m EXCEPT !.cache[l] = b]
               out == [at1 EXCEPT ![b] = Outside]
               at2 == PutAt(h, at, l, b)
    <3>1. /\ b \in SuperBlocks /\ MostEmptyAt(at1, l, b)
          /\ Shape(m, out) /\ Sorted(m, out) /\ SameBut(h1, m)
      BY <2>9, <2>11
    <3>2. r.heap = TakeCell(n, l) /\ r.ok
      BY <1>2, <1>4, <2>11
    <3> HIDE DEF b, m, r
    <3>3. b # c
      <4>1. at1[b][2] <= EmptinessClasses /\ EmptinessClasses = 8
        BY <3>1 DEF MostEmptyAt, EmptinessClasses
      <4> QED BY <4>1, <3>1, <2>5
    <3>4. MostEmptyAt(at, l, b)
      <4>1. b \in Grouped(at, l) /\ at[b] = at1[b]
        BY <3>1, <3>3, <2>5, <2>6 DEF MostEmptyAt
      <4>2. ASSUME NEW x \in Grouped(at, l) PROVE at[b][2] <= at[x][2]
        <5>1. x \in SuperBlocks /\ x # c
          BY <2>7 DEF Grouped
        <5>2. x \in Grouped(at1, l) /\ at1[x] = at[x]
          BY <5>1, <2>5, <2>6
        <5> QED BY <5>2, <4>1, <3>1 DEF MostEmptyAt
      <4> QED BY <4>1, <4>2, <3>1 DEF MostEmptyAt
    <3>5. m \in Heaps /\ out \in [SuperBlocks -> Places] /\ b \in Refs
      BY <3>1 DEF Shape, Refs
    <3>6. /\ n \in Heaps
          /\ n.prev = m.prev /\ n.next = m.next /\ n.head = m.head
          /\ n.group = m.group /\ n.used = m.used /\ n.ub = m.ub /\ n.tb = m.tb
          /\ n.cache = [m.cache EXCEPT ![l] = b]
      BY <3>5, CacheFields
    <3> HIDE DEF n
    <3>7. n.used = h.used /\ n.ub = h.ub /\ n.tb = h.tb
      BY <3>1, <3>6, <2>3 DEF SameBut
    <3>8. n.cache = [h.cache EXCEPT ![l] = b]
      <4>1. n.cache = [h1.cache EXCEPT ![l] = b]
        BY <3>1, <3>6 DEF SameBut
      <4> QED BY <4>1, <2>3, <1>0
    <3>9. at2 = [out EXCEPT ![b] = <<l, Taken>>]
      BY <2>4, <3>1, <3>3 DEF PutAt, at1, JoinAt
    <3>10. at2 \in [SuperBlocks -> Places] /\ \A x \in SuperBlocks :
             at2[x] = IF x = b THEN <<l, Taken>> ELSE out[x]
      BY <3>1, <3>5, <3>9 DEF Places
    <3>11. out[b] = Outside
      BY <3>1, <2>4
    <3> HIDE DEF at2, out
    <3>12. Shape(n, at2)
      <4>1. \A x \in SuperBlocks : at2[x] # out[x] => at2[x][2] \notin Groups /\ out[x][2] \notin Groups
        BY <3>10, <3>11, NotTaken DEF Outside
      <4> QED BY <3>1, <3>6, <3>10, <4>1, ShapeSame
    <3>13. Sorted(n, at2)
      <4>1. \A x \in SuperBlocks : at2[x][2] \in Groups => at2[x] = out[x]
        BY <3>10, NotTaken
      <4> QED BY <3>1, <3>6, <4>1, SortedSame
    <3>14. CacheSound(n, at2)
      <4> SUFFICES ASSUME NEW l2 \in Lists, NEW x \in SuperBlocks
                   PROVE  n.cache[l2] = x <=> at2[x] = <<l2, Taken>>
        BY DEF CacheSound
      <4>1. h1.cache[l2] = x <=> at1[x] = <<l2, Taken>>
        BY <2>8 DEF CacheSound
      <4>2. n.cache[l2] = IF l2 = l THEN b ELSE h1.cache[l2]
        BY <1>0, <3>8, <2>3
      <4>3. h1.cache[l] = NoBlock
        BY <1>0, <2>3
      <4>4. x # b => at2[x] = at1[x]
        BY <3>10, <2>4 DEF out
      <4>5. at1[b] # <<l2, Taken>>
        BY <3>1, NotTaken DEF MostEmptyAt, Grouped
      <4>6. at2[b] = <<l, Taken>>
        BY <3>1, <3>10
      <4>7. CASE x = b
        BY <4>1, <4>2, <4>5, <4>6, <4>7
      <4>8. CASE x # b
        BY <4>1, <4>2, <4>3, <4>4, <4>8, Constants
      <4> QED BY <4>7, <4>8
    <3>15. Sound(n, at2)
      BY <3>12, <3>13, <3>14 DEF Sound
    <3>16. n.cache[l] = b /\ n.used[b] < Cells
      <4>1. n.cache[l] = b
        BY <1>0, <3>8
      <4>2. h.used[b] \in 0..Cells
        BY <1>0, <3>1 DEF Heaps
      <4>3. Group(h, b) = at[b][2] /\ at[b][2] <= EmptinessClasses
        BY <1>0, <3>1, <3>4 DEF Sorted, MostEmptyAt, Grouped
      <4>4. h.used[b] < Cells
        BY <4>2, <4>3, GroupFacts
      <4> QED BY <4>1, <4>4, <3>7
    <3>17. LET k == TakeCell(n, l)
           IN  /\ Sound(k, at2)
               /\ k.used = [n.used EXCEPT ![b] = @ + 1] /\ k.cache = n.cache
               /\ k.ub = [n.ub EXCEPT ![l] = @ + CellBytes] /\ k.tb = n.tb
      BY <3>1, <3>15, <3>16, TakeCellSound
    <3>18. LET k == r.heap
           IN  /\ Sound(k, at2)
               /\ k.used = [h.used EXCEPT ![b] = @ + 1] /\ k.cache = [h.cache EXCEPT ![l] = b]
               /\ k.ub = [h.ub EXCEPT ![l] = @ + CellBytes] /\ k.tb = h.tb
      BY <3>2, <3>7, <3>8, <3>17
    <3> QED BY <1>4, <3>1, <3>2, <3>4, <3>18 DEF at2, r
  <2> QED BY <2>10, <2>11
<1> QED BY <1>3, <1>4

\* A block leaves its bin.
LEMMA ListRemoveSound ==
  ASSUME NEW h, NEW at, Sound(h, at), NEW l \in Lists, NEW b \in SuperBlocks, at[b][1] = l
  PROVE  LET k == ListRemove(h, l, b)
         IN  /\ Sound(k, [at EXCEPT ![b] = Outside])
             /\ k.used = h.used
             /\ k.cache = [h.cache EXCEPT ![l] = IF @ = b THEN NoBlock ELSE @]
             /\ k.ub = [h.ub EXCEPT ![l] = @ - BytesOf(h, b)]
             /\ k.tb = [h.tb EXCEPT ![l] = @ - DataBytes]
<1> DEFINE m == Account(h, l, -BytesOf(h, b), -DataBytes)
           k == ListRemove(h, l, b)
           at2 == [at EXCEPT ![b] = Outside]
<1>0. /\ h \in Heaps /\ at \in [SuperBlocks -> Places]
      /\ h.cache \in [Lists -> Refs] /\ NoBlock \in Refs
      /\ h.ub \in [Lists -> Int] /\ h.tb \in [Lists -> Int]
  BY DEF Sound, Shape, Heaps, Refs
<1>1. BytesOf(h, b) \in Nat /\ DataBytes \in Nat
  BY <1>0, BytesNat, Constants
<1>2. -BytesOf(h, b) \in Int /\ -DataBytes \in Int
  BY <1>1
<1>3. Accounted(h, l, -BytesOf(h, b), -DataBytes, m) /\ Sound(m, at)
  BY <1>0, <1>2, AccountFields, AccountSound
<1>4. k = IF h.cache[l] = b THEN [m EXCEPT !.cache[l] = NoBlock] ELSE Unlink(m, l, h.group[b], b)
  BY DEF ListRemove
<1> HIDE DEF m, k
<1>5. /\ m \in Heaps /\ m.cache = h.cache /\ m.group = h.group /\ m.used = h.used
      /\ m.ub = [h.ub EXCEPT ![l] = @ - BytesOf(h, b)]
      /\ m.tb = [h.tb EXCEPT ![l] = @ - DataBytes]
  <2>1. /\ [h.ub EXCEPT ![l] = @ + (-BytesOf(h, b))] = [h.ub EXCEPT ![l] = @ - BytesOf(h, b)]
        /\ [h.tb EXCEPT ![l] = @ + (-DataBytes)] = [h.tb EXCEPT ![l] = @ - DataBytes]
    BY <1>0, <1>1
  <2> QED BY <1>3, <2>1 DEF Accounted
<1>6. Shape(m, at) /\ Sorted(m, at) /\ CacheSound(m, at)
  BY <1>3 DEF Sound
<1>7. at2 \in [SuperBlocks -> Places] /\ \A x \in SuperBlocks :
        at2[x] = IF x = b THEN Outside ELSE at[x]
  BY <1>0 DEF Places
<1>8. CASE h.cache[l] = b
  <2>1. k = [m EXCEPT !.cache[l] = NoBlock]
    BY <1>4, <1>8
  <2>2. /\ k \in Heaps
        /\ k.prev = m.prev /\ k.next = m.next /\ k.head = m.head
        /\ k.group = m.group /\ k.used = m.used /\ k.ub = m.ub /\ k.tb = m.tb
        /\ k.cache = [m.cache EXCEPT ![l] = NoBlock]
    BY <2>1, <1>0, <1>5, CacheFields
  <2>3. at[b] = <<l, Taken>>
    BY <1>5, <1>6, <1>8 DEF CacheSound
  <2>4. Shape(k, at2)
    <3>1. \A x \in SuperBlocks : at2[x] # at[x] => at2[x][2] \notin Groups /\ at[x][2] \notin Groups
      BY <1>7, <2>3, NotTaken DEF Outside
    <3> HIDE DEF at2
    <3> QED BY <1>6, <1>7, <2>2, <3>1, ShapeSame
  <2>5. Sorted(k, at2)
    BY <1>0, <1>6, <2>2, OutsideSorted
  <2> HIDE DEF at2
  <2>6. CacheSound(k, at2)
    <3> SUFFICES ASSUME NEW l2 \in Lists, NEW x \in SuperBlocks
                 PROVE  k.cache[l2] = x <=> at2[x] = <<l2, Taken>>
      BY DEF CacheSound
    <3>1. m.cache[l2] = x <=> at[x] = <<l2, Taken>>
      BY <1>6 DEF CacheSound
    <3>2. k.cache[l2] = IF l2 = l THEN NoBlock ELSE m.cache[l2]
      BY <1>0, <1>5, <2>2
    <3>3. CASE x = b
      <4>1. at2[x] # <<l2, Taken>>
        BY <3>3, <1>7 DEF Outside, Lists
      <4>2. l2 # l => at[x] # <<l2, Taken>>
        BY <3>3, <2>3
      <4> QED BY <3>1, <3>2, <4>1, <4>2, Constants
    <3>4. CASE x # b
      <4>1. at2[x] = at[x]
        BY <3>4, <1>7
      <4>2. m.cache[l] = b
        BY <1>5, <1>8
      <4> QED BY <3>1, <3>2, <3>4, <4>1, <4>2, Constants
    <3> QED BY <3>3, <3>4
  <2>7. Sound(k, at2)
    BY <2>4, <2>5, <2>6 DEF Sound
  <2>8. k.cache = [h.cache EXCEPT ![l] = IF @ = b THEN NoBlock ELSE @]
    BY <1>0, <1>5, <1>8, <2>2
  <2> QED BY <2>2, <2>7, <2>8, <1>5 DEF k, at2
<1>9. CASE h.cache[l] # b
  <2>1. at[b][2] \in Groups /\ at[b] = <<l, at[b][2]>>
    <3>1. at[b] \in Places /\ at[b] # <<l, Taken>>
      BY <1>0, <1>5, <1>6, <1>9 DEF CacheSound
    <3> QED BY <3>1, NotTaken DEF Places, Outside, Lists
  <2>2. h.group[b] = at[b][2]
    BY <2>1, <1>5, <1>6 DEF Sorted
  <2> DEFINE g == at[b][2]
  <2>3. k = Unlink(m, l, g, b)
    BY <1>4, <1>9, <2>2
  <2> HIDE DEF g
  <2>4. g \in Groups /\ at[b] = <<l, g>>
    BY <2>1 DEF g
  <2>5. Shape(k, at2) /\ SameBut(m, k) /\ k.group = m.group
    BY <2>3, <2>4, <1>6, UnlinkShape
  <2>6. Sorted(k, at2)
    BY <1>0, <1>6, <2>5, OutsideSorted DEF SameBut
  <2> HIDE DEF at2
  <2>7. CacheSound(k, at2)
    <3> SUFFICES ASSUME NEW l2 \in Lists, NEW x \in SuperBlocks
                 PROVE  k.cache[l2] = x <=> at2[x] = <<l2, Taken>>
      BY DEF CacheSound
    <3>1. m.cache[l2] = x <=> at[x] = <<l2, Taken>>
      BY <1>6 DEF CacheSound
    <3> QED BY <3>1, <1>7, <2>4, <2>5, NotTaken DEF Outside, Lists, SameBut
  <2>8. Sound(k, at2)
    BY <2>5, <2>6, <2>7 DEF Sound
  <2>9. h.cache = [h.cache EXCEPT ![l] = IF @ = b THEN NoBlock ELSE @]
    BY <1>0, <1>9
  <2> QED BY <2>5, <2>8, <2>9, <1>5 DEF k, at2, SameBut
<1> QED BY <1>8, <1>9

\* A cell of b comes back: b may change its list.
FreeAt(h, at, l, b) ==
  IF h.cache[l] = b THEN at
  ELSE [at EXCEPT ![b] = <<l, Group([h EXCEPT !.used[b] = @ - 1], b)>>]

\* BlockList::free_cell keeps lists, caches and groups sound.
LEMMA ListFreeSound ==
  ASSUME NEW h, NEW at, Sound(h, at), NEW l \in Lists, NEW b \in SuperBlocks, at[b][1] = l,
         h.used[b] > 0
  PROVE  LET k == ListFree(h, l, b)
         IN  /\ Sound(k, FreeAt(h, at, l, b))
             /\ FreeAt(h, at, l, b) \in [SuperBlocks -> Places]
             /\ k.used = [h.used EXCEPT ![b] = @ - 1] /\ k.cache = h.cache
             /\ k.ub = [h.ub EXCEPT ![l] = @ - CellBytes] /\ k.tb = h.tb
<1> DEFINE u == h.used[b] - 1
           m == [h EXCEPT !.used[b] = u]
           oldg == Group(h, b)
           newg == Group(m, b)
           n == IF h.cache[l] = b THEN m ELSE Transfer(m, l, b, oldg, newg)
           k == Account(n, l, -CellBytes, 0)
           at2 == FreeAt(h, at, l, b)
<1>0. /\ h \in Heaps /\ at \in [SuperBlocks -> Places] /\ h.used \in [SuperBlocks -> 0..Cells]
      /\ h.ub \in [Lists -> Int] /\ h.tb \in [Lists -> Int]
      /\ Shape(h, at) /\ Sorted(h, at) /\ CacheSound(h, at)
  BY DEF Sound, Shape, Heaps
<1>1. u \in 0..Cells /\ u = h.used[b] - 1
  BY <1>0, Constants
<1>2. ListFree(h, l, b) = k
  BY DEF ListFree
<1>3. at2 = IF h.cache[l] = b THEN at ELSE [at EXCEPT ![b] = <<l, newg>>]
  BY DEF FreeAt
<1> HIDE DEF u, at2
<1>4. /\ m \in Heaps
      /\ m.prev = h.prev /\ m.next = h.next /\ m.head = h.head
      /\ m.group = h.group /\ m.cache = h.cache /\ m.ub = h.ub /\ m.tb = h.tb
      /\ m.used = [h.used EXCEPT ![b] = u]
  BY <1>0, <1>1, UsedFields
<1> HIDE DEF m
<1>5. Shape(m, at) /\ CacheSound(m, at)
  <2>1. Shape(m, at)
    BY <1>0, <1>4, ShapeSame
  <2> QED BY <1>0, <1>4, <2>1 DEF CacheSound
<1>6. newg \in Groups
  <2>1. m.used[b] \in 0..Cells
    BY <1>4 DEF Heaps
  <2> QED BY <2>1, GroupFacts
<1>7. \A x \in SuperBlocks \ {b} : at[x][2] \in Groups =>
        m.group[x] = at[x][2] /\ Group(m, x) = at[x][2]
  <2> SUFFICES ASSUME NEW x \in SuperBlocks \ {b}, at[x][2] \in Groups
               PROVE  m.group[x] = at[x][2] /\ Group(m, x) = at[x][2]
    OBVIOUS
  <2>1. m.used[x] = h.used[x]
    BY <1>0, <1>4
  <2> QED BY <2>1, <1>0, <1>4 DEF Sorted, Group
<1>8. Sound(n, at2) /\ SameBut(m, n)
  <2>1. CASE h.cache[l] = b
    <3>1. n = m /\ at2 = at
      BY <2>1, <1>3
    <3>2. at[b] = <<l, Taken>>
      BY <2>1, <1>0 DEF CacheSound
    <3>3. Sorted(m, at)
      BY <3>2, <1>7, NotTaken DEF Sorted
    <3> QED BY <3>1, <3>3, <1>5 DEF Sound, SameBut
  <2>2. CASE h.cache[l] # b
    <3>1. at[b][2] \in Groups /\ at[b] = <<l, at[b][2]>>
      <4>1. at[b] \in Places /\ at[b] # <<l, Taken>>
        BY <1>0, <2>2 DEF CacheSound
      <4> QED BY <4>1, NotTaken DEF Places, Outside, Lists
    <3>2. at[b] = <<l, oldg>> /\ oldg \in Groups /\ m.group[b] = oldg
      BY <3>1, <1>0, <1>4 DEF Sorted
    <3>3. n = Transfer(m, l, b, oldg, newg) /\ at2 = [at EXCEPT ![b] = <<l, newg>>]
      BY <2>2, <1>3
    <3> HIDE DEF n, oldg, newg
    <3>4. m.head[l][newg] = b => newg = oldg
      <4> SUFFICES ASSUME m.head[l][newg] = b PROVE newg = oldg
        OBVIOUS
      <4>1. at[b] = <<l, newg>>
        BY <1>5, <1>6, Constants, HeadPlace
      <4> QED BY <4>1, <3>2
    <3>5. CASE newg = oldg
      <4>1. n = m
        BY <3>3, <3>5 DEF Transfer
      <4>2. at2 = at
        BY <3>2, <3>3, <3>5, <1>0
      <4>3. Sorted(m, at)
        BY <1>7, <3>2, <3>5 DEF Sorted, newg
      <4> QED BY <4>1, <4>2, <4>3, <1>5 DEF Sound, SameBut
    <3>6. CASE newg # oldg
      <4> DEFINE p == Unlink(m, l, oldg, b)
                 out == [at EXCEPT ![b] = Outside]
      <4>1. n = Push(p, l, newg, b)
        BY <3>3, <3>4, <3>6 DEF Transfer
      <4>2. Shape(p, out) /\ SameBut(m, p) /\ p.group = m.group
        BY <1>5, <3>2, UnlinkShape
      <4> HIDE DEF p
      <4>3. out[b][2] \notin Groups
        BY <1>0, NotTaken DEF Outside
      <4>4. at2 = [out EXCEPT ![b] = <<l, newg>>]
        BY <1>0, <3>3
      <4> HIDE DEF out
      <4>5. Shape(n, at2) /\ SameBut(p, n) /\ n.group = [p.group EXCEPT ![b] = newg]
        <5>1. LET k2 == Push(p, l, newg, b)
              IN  /\ Shape(k2, [out EXCEPT ![b] = <<l, newg>>])
                  /\ SameBut(p, k2) /\ k2.group = [p.group EXCEPT ![b] = newg]
          BY <1>6, <4>2, <4>3, PushShape
        <5> QED BY <5>1, <4>1, <4>4
      <4>6. \A x \in SuperBlocks : at2[x] = IF x = b THEN <<l, newg>> ELSE at[x]
        BY <1>0, <3>3
      <4>7. n.used = m.used /\ n.cache = m.cache /\ SameBut(m, n)
        BY <4>2, <4>5 DEF SameBut
      <4>8. Sorted(n, at2)
        <5> SUFFICES ASSUME NEW x \in SuperBlocks, at2[x][2] \in Groups
                     PROVE  n.group[x] = at2[x][2] /\ Group(n, x) = at2[x][2]
          BY DEF Sorted
        <5>1. Group(n, x) = Group(m, x)
          BY <4>7, GroupSame
        <5>2. n.group[x] = IF x = b THEN newg ELSE m.group[x]
          <6>1. m.group \in [SuperBlocks -> Groups]
            BY <1>4 DEF Heaps
          <6> QED BY <6>1, <4>2, <4>5
        <5>3. CASE x = b
          BY <5>1, <5>2, <5>3, <4>6 DEF newg
        <5>4. CASE x # b
          <6>1. at[x][2] \in Groups /\ at2[x] = at[x]
            BY <5>4, <4>6
          <6> QED BY <6>1, <5>1, <5>2, <5>4, <1>7
        <5> QED BY <5>3, <5>4
      <4>9. CacheSound(n, at2)
        <5> SUFFICES ASSUME NEW l2 \in Lists, NEW x \in SuperBlocks
                     PROVE  n.cache[l2] = x <=> at2[x] = <<l2, Taken>>
          BY DEF CacheSound
        <5>1. m.cache[l2] = x <=> at[x] = <<l2, Taken>>
          BY <1>5 DEF CacheSound
        <5> QED BY <5>1, <4>6, <4>7, <3>2, <1>6, NotTaken
      <4> QED BY <4>5, <4>7, <4>8, <4>9 DEF Sound
    <3> QED BY <3>5, <3>6
  <2> QED BY <2>1, <2>2
<1> HIDE DEF n
<1>9. n \in Heaps
  BY <1>8 DEF Sound, Shape
<1>10. -CellBytes \in Int /\ 0 \in Int /\ CellBytes \in Nat
  BY Constants
<1>11. Accounted(n, l, -CellBytes, 0, k)
  BY <1>9, <1>10, AccountFields
<1>12. Sound(k, at2)
  BY <1>8, <1>10, AccountSound
<1> HIDE DEF k
<1>13. [h.tb EXCEPT ![l] = @ + 0] = h.tb
       /\ [h.ub EXCEPT ![l] = @ + (-CellBytes)] = [h.ub EXCEPT ![l] = @ - CellBytes]
  BY <1>0, <1>10
<1>14. /\ k.used = [h.used EXCEPT ![b] = @ - 1] /\ k.cache = h.cache
       /\ k.ub = [h.ub EXCEPT ![l] = @ - CellBytes] /\ k.tb = h.tb
  BY <1>1, <1>4, <1>8, <1>11, <1>13 DEF Accounted, SameBut
<1>15. at2 \in [SuperBlocks -> Places]
  BY <1>8 DEF Sound, Shape
<1> QED BY <1>2, <1>12, <1>14, <1>15 DEF at2
----------------------------------------------------------------------------
\* What the operations do to the sets of blocks, and to the accounts

\* Every bin that was exact still is.
Kept(h, at, k, at2) == \A l \in Lists : Exact(h, at, l) => Exact(k, at2, l)

\* The types of a sound heap.
LEMMA SoundTypes ==
  ASSUME NEW h, NEW at, Sound(h, at)
  PROVE  /\ h \in Heaps /\ at \in [SuperBlocks -> Places]
         /\ h.cache \in [Lists -> Refs] /\ h.used \in [SuperBlocks -> 0..Cells]
         /\ h.ub \in [Lists -> Int] /\ h.tb \in [Lists -> Int]
         /\ \A l \in Lists : h.cache[l] # NoBlock =>
              h.cache[l] \in SuperBlocks /\ at[h.cache[l]] = <<l, Taken>>
         /\ \A b \in SuperBlocks : Group(h, b) \in Groups
<1>1. h \in Heaps /\ at \in [SuperBlocks -> Places]
  BY DEF Sound, Shape
<1>2. h.cache \in [Lists -> Refs] /\ h.used \in [SuperBlocks -> 0..Cells]
      /\ h.ub \in [Lists -> Int] /\ h.tb \in [Lists -> Int]
  BY <1>1 DEF Heaps
<1>3. \A l \in Lists : h.cache[l] # NoBlock =>
        h.cache[l] \in SuperBlocks /\ at[h.cache[l]] = <<l, Taken>>
  BY <1>2 DEF Sound, CacheSound, Refs
<1>4. \A b \in SuperBlocks : Group(h, b) \in Groups
  BY <1>2, GroupFacts
<1> QED BY <1>1, <1>2, <1>3, <1>4

\* Where a block can be.
LEMMA PlaceKinds ==
  ASSUME NEW at \in [SuperBlocks -> Places], NEW b \in SuperBlocks
  PROVE  \/ at[b] = Outside
         \/ \E l \in Lists : at[b] = <<l, Taken>>
         \/ \E l \in Lists, g \in Groups : at[b] = <<l, g>>
BY DEF Places

\* What the move of the cached block into the lists does to the sets of blocks.
LEMMA JoinSets ==
  ASSUME NEW h, NEW at, Sound(h, at), NEW l \in Lists
  PROVE  LET c == h.cache[l]  at2 == JoinAt(h, at, l, c)
         IN  /\ Grouped(at2, l) = Grouped(at, l) \cup ({c} \ {NoBlock})
             /\ \A m \in Lists \ {l} : Grouped(at2, m) = Grouped(at, m)
             /\ \A m \in Lists : Held(at2, m) = Held(at, m)
             /\ \A x \in SuperBlocks : at2[x] = Outside <=> at[x] = Outside
             /\ \A m \in Lists \ {l}, x \in SuperBlocks : at[x][1] = m => at2[x] = at[x]
<1> DEFINE c == h.cache[l]
           at2 == JoinAt(h, at, l, c)
<1>1. /\ \A x \in SuperBlocks : at2[x] = IF x = c THEN <<l, Group(h, c)>> ELSE at[x]
      /\ c # NoBlock => c \in SuperBlocks /\ at[c] = <<l, Taken>> /\ Group(h, c) \in Groups
  BY SoundTypes DEF JoinAt
<1> HIDE DEF c, at2
<1>2. Grouped(at2, l) = Grouped(at, l) \cup ({c} \ {NoBlock})
  BY <1>1, Constants DEF Grouped
<1>3. \A m \in Lists \ {l} : Grouped(at2, m) = Grouped(at, m)
  BY <1>1, Constants DEF Grouped
<1>4. \A m \in Lists : Held(at2, m) = Held(at, m)
  BY <1>1, Constants DEF Held
<1>5. \A x \in SuperBlocks : at2[x] = Outside <=> at[x] = Outside
  BY <1>1, Constants DEF Outside, Lists
<1>6. \A m \in Lists \ {l}, x \in SuperBlocks : at[x][1] = m => at2[x] = at[x]
  BY <1>1, Constants
<1> QED BY <1>2, <1>3, <1>4, <1>5, <1>6 DEF c, at2

\* What put does to them.
LEMMA PutSets ==
  ASSUME NEW h, NEW at, Sound(h, at), NEW l \in Lists, NEW b \in SuperBlocks,
         at[b] = Outside \/ at[b][1] = l
  PROVE  LET c == h.cache[l]  at2 == PutAt(h, at, l, b)
         IN  /\ Grouped(at2, l) = (Grouped(at, l) \cup ({c} \ {NoBlock})) \ {b}
             /\ \A m \in Lists \ {l} : Grouped(at2, m) = Grouped(at, m)
             /\ Held(at2, l) = Held(at, l) \cup {b}
             /\ \A m \in Lists \ {l} : Held(at2, m) = Held(at, m)
             /\ \A x \in SuperBlocks : at2[x] = Outside <=> at[x] = Outside /\ x # b
<1> DEFINE c == h.cache[l]
           at2 == PutAt(h, at, l, b)
<1>1. /\ \A x \in SuperBlocks : at2[x] = IF x = b THEN <<l, Taken>>
                                         ELSE IF x = c THEN <<l, Group(h, x)>> ELSE at[x]
      /\ c # NoBlock => c \in SuperBlocks /\ at[c] = <<l, Taken>> /\ Group(h, c) \in Groups
  BY SoundTypes DEF PutAt
<1>2. \A m \in Lists \ {l} : at[b][1] # m
  BY DEF Outside, Lists
<1> HIDE DEF c, at2
<1>a. /\ at2[b] = <<l, Taken>>
      /\ c \in SuperBlocks \ {b} => at2[c] = <<l, Group(h, c)>>
      /\ \A x \in SuperBlocks \ {b, c} : at2[x] = at[x]
  BY <1>1
<1>b. c = NoBlock \/ (c \in SuperBlocks /\ at[c] = <<l, Taken>> /\ Group(h, c) \in Groups)
  BY <1>1
<1>c. /\ at2[b][1] = l /\ at2[b][2] = Taken /\ at2[b] # Outside
      /\ c \in SuperBlocks \ {b} =>
           at2[c][1] = l /\ at2[c][2] \in Groups /\ at2[c] # Outside
      /\ c \in SuperBlocks => at[c][1] = l /\ at[c][2] = Taken /\ at[c] # Outside
  BY <1>a, <1>b, Constants DEF Outside, Lists
<1>3. Grouped(at2, l) = (Grouped(at, l) \cup ({c} \ {NoBlock})) \ {b}
  <2>1. \A x \in SuperBlocks : x \in Grouped(at2, l) <=> x \in (Grouped(at, l) \cup ({c} \ {NoBlock})) \ {b}
    BY <1>a, <1>b, <1>c, Constants, NotTaken DEF Grouped
  <2> QED BY <2>1, <1>b DEF Grouped
<1>4. \A m \in Lists \ {l} : Grouped(at2, m) = Grouped(at, m)
  <2>1. \A m \in Lists \ {l}, x \in SuperBlocks : x \in Grouped(at2, m) <=> x \in Grouped(at, m)
    BY <1>a, <1>b, <1>c, <1>2 DEF Grouped
  <2> QED BY <2>1 DEF Grouped
<1>5. Held(at2, l) = Held(at, l) \cup {b}
  <2>1. \A x \in SuperBlocks : x \in Held(at2, l) <=> x \in Held(at, l) \cup {b}
    BY <1>a, <1>b, <1>c DEF Held
  <2> QED BY <2>1 DEF Held
<1>6. \A m \in Lists \ {l} : Held(at2, m) = Held(at, m)
  <2>1. \A m \in Lists \ {l}, x \in SuperBlocks : x \in Held(at2, m) <=> x \in Held(at, m)
    BY <1>a, <1>b, <1>c, <1>2 DEF Held
  <2> QED BY <2>1 DEF Held
<1>7. \A x \in SuperBlocks : at2[x] = Outside <=> at[x] = Outside /\ x # b
  BY <1>a, <1>b, <1>c
<1> QED BY <1>3, <1>4, <1>5, <1>6, <1>7 DEF c, at2

\* What taking a block out does to them.
LEMMA OutSets ==
  ASSUME NEW at \in [SuperBlocks -> Places], NEW b \in SuperBlocks
  PROVE  LET at2 == [at EXCEPT ![b] = Outside]
         IN  /\ \A m \in Lists : Grouped(at2, m) = Grouped(at, m) \ {b}
             /\ \A m \in Lists : Held(at2, m) = Held(at, m) \ {b}
             /\ \A x \in SuperBlocks : at2[x] = Outside <=> at[x] = Outside \/ x = b
BY DEF Grouped, Held, Outside, Lists

\* ListPut keeps the accounts.
LEMMA PutKept ==
  ASSUME NEW h, NEW at, Sound(h, at), NEW l \in Lists, NEW b \in SuperBlocks, at[b] = Outside
  PROVE  LET k == ListPut(h, l, b)
         IN  Kept(h, at, k, PutAt(h, at, l, b)) /\ \A m \in Lists \ {l} : k.ub[m] = h.ub[m] /\ k.tb[m] = h.tb[m]
<1> DEFINE k == ListPut(h, l, b)
           at2 == PutAt(h, at, l, b)
<1>0. LET p == ListPut(h, l, b)
      IN  /\ Sound(p, PutAt(h, at, l, b))
          /\ p.used = h.used /\ p.cache = [h.cache EXCEPT ![l] = b]
          /\ p.ub = [h.ub EXCEPT ![l] = @ + BytesOf(h, b)]
          /\ p.tb = [h.tb EXCEPT ![l] = @ + DataBytes]
  BY ListPutSound
<1>1. /\ Sound(k, at2) /\ k.used = h.used
      /\ k.ub = [h.ub EXCEPT ![l] = @ + BytesOf(h, b)]
      /\ k.tb = [h.tb EXCEPT ![l] = @ + DataBytes]
  BY <1>0
<1>2. /\ Held(at2, l) = Held(at, l) \cup {b}
      /\ \A m \in Lists \ {l} : Held(at2, m) = Held(at, m)
  BY PutSets
<1> HIDE DEF k, at2
<1>3. h \in Heaps /\ k \in Heaps /\ h.ub \in [Lists -> Int] /\ h.tb \in [Lists -> Int]
  BY <1>1, SoundTypes
<1>4. b \notin Held(at, l)
  BY DEF Held, Outside, Lists
<1>5. \A m \in Lists \ {l} : k.ub[m] = h.ub[m] /\ k.tb[m] = h.tb[m]
  BY <1>1, <1>3
<1>6. ASSUME NEW m \in Lists, Exact(h, at, m) PROVE Exact(k, at2, m)
  <2>1. CASE m = l
    <3>1. k.ub[l] = h.ub[l] + BytesOf(k, b) /\ k.tb[l] = h.tb[l] + DataBytes
      BY <1>1, <1>3 DEF BytesOf
    <3>2. \A x \in Held(at, l) : k.used[x] = h.used[x]
      BY <1>1
    <3> QED BY <2>1, <3>1, <3>2, <1>2, <1>3, <1>4, <1>6, ExactAdd
  <2>2. CASE m # l
    <3>1. k.ub[m] = h.ub[m] /\ k.tb[m] = h.tb[m] /\ Held(at2, m) = Held(at, m)
      BY <2>2, <1>2, <1>5
    <3> QED BY <3>1, <1>1, <1>3, <1>6, ExactSame
  <2> QED BY <2>1, <2>2
<1> QED BY <1>5, <1>6 DEF Kept, k, at2

\* So does taking a block out.
LEMMA RemovedKept ==
  ASSUME NEW h, NEW at, Sound(h, at), NEW l \in Lists, NEW b \in SuperBlocks, at[b][1] = l,
         NEW k \in Heaps, k.used = h.used,
         k.ub = [h.ub EXCEPT ![l] = @ - BytesOf(h, b)],
         k.tb = [h.tb EXCEPT ![l] = @ - DataBytes]
  PROVE  Kept(h, at, k, [at EXCEPT ![b] = Outside])
<1> DEFINE at2 == [at EXCEPT ![b] = Outside]
<1>1. h \in Heaps /\ at \in [SuperBlocks -> Places] /\ h.ub \in [Lists -> Int] /\ h.tb \in [Lists -> Int]
  BY SoundTypes
<1>2. \A m \in Lists : Held(at2, m) = Held(at, m) \ {b}
  BY <1>1, OutSets
<1> HIDE DEF at2
<1>3. b \in Held(at, l) /\ \A m \in Lists \ {l} : b \notin Held(at, m)
  BY DEF Held
<1>4. ASSUME NEW m \in Lists, Exact(h, at, m) PROVE Exact(k, at2, m)
  <2>1. CASE m = l
    <3>1. k.ub[l] = h.ub[l] - BytesOf(h, b) /\ k.tb[l] = h.tb[l] - DataBytes
      BY <1>1
    <3>2. \A x \in Held(at, l) : k.used[x] = h.used[x]
      OBVIOUS
    <3> QED BY <2>1, <3>1, <3>2, <1>1, <1>2, <1>3, <1>4, ExactRemove
  <2>2. CASE m # l
    <3>1. k.ub[m] = h.ub[m]
      BY <2>2, <1>1
    <3>2. k.tb[m] = h.tb[m]
      BY <2>2, <1>1
    <3>3. Held(at2, m) = Held(at, m)
      BY <2>2, <1>2, <1>3
    <3> QED BY <3>1, <3>2, <3>3, <1>1, <1>4, ExactSame
  <2> QED BY <2>1, <2>2
<1> QED BY <1>4 DEF Kept, at2

\* So does a cell that is taken or comes back.
LEMMA CellKept ==
  ASSUME NEW h, NEW at, Sound(h, at), NEW l \in Lists, NEW b \in SuperBlocks, at[b][1] = l,
         NEW k \in Heaps, NEW at2, \A m \in Lists : Held(at2, m) = Held(at, m), NEW d \in {-1, 1},
         k.used[b] = h.used[b] + d, \A x \in SuperBlocks \ {b} : k.used[x] = h.used[x],
         k.ub[l] = h.ub[l] + d * CellBytes, \A m \in Lists \ {l} : k.ub[m] = h.ub[m],
         k.tb = h.tb
  PROVE  Kept(h, at, k, at2)
<1>1. h \in Heaps
  BY SoundTypes
<1>2. b \in Held(at, l) /\ (\A m \in Lists \ {l} : b \notin Held(at, m))
      /\ \A m : Held(at, m) \subseteq SuperBlocks
  BY DEF Held
<1>3. ASSUME NEW m \in Lists, Exact(h, at, m) PROVE Exact(k, at2, m)
  <2>1. CASE m = l
    BY <2>1, <1>1, <1>2, <1>3, ExactCell
  <2>2. CASE m # l
    <3>1. \A x \in Held(at, m) : k.used[x] = h.used[x]
      BY <2>2, <1>2
    <3> QED BY <2>2, <3>1, <1>1, <1>3, ExactSame
  <2> QED BY <2>1, <2>2
<1> QED BY <1>3 DEF Kept
----------------------------------------------------------------------------
\* The sets of a bin

\* The blocks of bin l, from places and cache.
MembersAt(h, at, l) == Grouped(at, l) \cup ({h.cache[l]} \ {NoBlock})
\* The listed blocks of each bin, by place.
ListsOf(at) == [l \in Lists |-> Grouped(at, l)]
\* The blocks outside the bins.
Out(at) == {b \in SuperBlocks : at[b] = Outside}

\* An operation leads from h to the sound heap k: the caches, the lists, the
\* cells in use and the blocks outside are then these.
Becomes(h, at, k, at2, cache, lists, used, out) ==
  /\ Sound(k, at2) /\ Kept(h, at, k, at2)
  /\ k.cache = cache /\ ListsOf(at2) = lists /\ k.used = used /\ Out(at2) = out

\* What a bin holds is what is in its lists and its cache.
LEMMA HeldMembers ==
  ASSUME NEW h, NEW at, Sound(h, at), NEW l \in Lists
  PROVE  Held(at, l) = MembersAt(h, at, l)
<1>1. /\ at \in [SuperBlocks -> Places] /\ h.cache \in [Lists -> Refs]
      /\ h.cache[l] # NoBlock => h.cache[l] \in SuperBlocks /\ at[h.cache[l]] = <<l, Taken>>
  BY SoundTypes
<1>2. ASSUME NEW b \in SuperBlocks PROVE b \in Held(at, l) <=> b \in MembersAt(h, at, l)
  <2>1. h.cache[l] = b <=> at[b] = <<l, Taken>>
    BY DEF Sound, CacheSound
  <2>2. b # NoBlock
    BY Constants
  <2>3. CASE at[b] = Outside
    <3>1. at[b][1] # l /\ at[b] # <<l, Taken>>
      BY <2>3 DEF Outside, Lists
    <3> QED BY <3>1, <2>1, <2>2 DEF Held, MembersAt, Grouped
  <2>4. ASSUME NEW m \in Lists, at[b] = <<m, Taken>> PROVE b \in Held(at, l) <=> b \in MembersAt(h, at, l)
    <3>1. at[b][1] = m /\ at[b][2] = Taken
      BY <2>4
    <3> QED BY <3>1, <2>1, <2>2, <2>4, NotTaken DEF Held, MembersAt, Grouped
  <2>5. ASSUME NEW m \in Lists, NEW g \in Groups, at[b] = <<m, g>> PROVE b \in Held(at, l) <=> b \in MembersAt(h, at, l)
    <3>1. at[b][1] = m /\ at[b][2] = g /\ h.cache[l] # b
      BY <2>5, <2>1, NotTaken
    <3> QED BY <3>1, <2>2 DEF Held, MembersAt, Grouped
  <2> QED BY <2>3, <2>4, <2>5, <1>1, PlaceKinds
<1>3. Held(at, l) \subseteq SuperBlocks /\ MembersAt(h, at, l) \subseteq SuperBlocks
  BY <1>1 DEF Held, MembersAt, Grouped
<1> QED BY <1>2, <1>3

\* Accounts kept by two operations are kept by one after the other.
LEMMA KeptThen ==
  ASSUME NEW h, NEW at, NEW h1, NEW at1, NEW k, NEW at2, Kept(h, at, h1, at1), Kept(h1, at1, k, at2)
  PROVE  Kept(h, at, k, at2)
BY DEF Kept

\* ListPut caches b.
LEMMA PutBecomes ==
  ASSUME NEW h, NEW at, Sound(h, at), NEW l \in Lists, NEW b \in SuperBlocks, at[b] = Outside
  PROVE  Becomes(h, at, ListPut(h, l, b), PutAt(h, at, l, b), [h.cache EXCEPT ![l] = b],
                 [ListsOf(at) EXCEPT ![l] = MembersAt(h, at, l)], h.used, Out(at) \ {b})
<1> DEFINE k == ListPut(h, l, b)
           at2 == PutAt(h, at, l, b)
<1>1. LET p == ListPut(h, l, b)
      IN  /\ Sound(p, PutAt(h, at, l, b))
          /\ p.used = h.used /\ p.cache = [h.cache EXCEPT ![l] = b]
          /\ p.ub = [h.ub EXCEPT ![l] = @ + BytesOf(h, b)]
          /\ p.tb = [h.tb EXCEPT ![l] = @ + DataBytes]
  BY ListPutSound
<1>2. LET c == h.cache[l]  a == PutAt(h, at, l, b)
      IN  /\ Grouped(a, l) = (Grouped(at, l) \cup ({c} \ {NoBlock})) \ {b}
          /\ \A m \in Lists \ {l} : Grouped(a, m) = Grouped(at, m)
          /\ Held(a, l) = Held(at, l) \cup {b}
          /\ \A m \in Lists \ {l} : Held(a, m) = Held(at, m)
          /\ \A x \in SuperBlocks : a[x] = Outside <=> at[x] = Outside /\ x # b
  BY PutSets
<1>3. LET p == ListPut(h, l, b)
      IN  Kept(h, at, p, PutAt(h, at, l, b)) /\ \A m \in Lists \ {l} : p.ub[m] = h.ub[m] /\ p.tb[m] = h.tb[m]
  BY PutKept
<1>4. /\ Sound(k, at2) /\ k.used = h.used /\ k.cache = [h.cache EXCEPT ![l] = b]
      /\ Grouped(at2, l) = MembersAt(h, at, l) \ {b}
      /\ \A m \in Lists \ {l} : Grouped(at2, m) = Grouped(at, m)
      /\ \A x \in SuperBlocks : at2[x] = Outside <=> at[x] = Outside /\ x # b
      /\ Kept(h, at, k, at2)
  BY <1>1, <1>2, <1>3 DEF MembersAt
<1> HIDE DEF k, at2
<1>5. b \notin MembersAt(h, at, l)
  <2>1. b \notin Held(at, l)
    BY DEF Held, Outside, Lists
  <2> QED BY <2>1, HeldMembers
<1>6. ListsOf(at2) = [ListsOf(at) EXCEPT ![l] = MembersAt(h, at, l)]
  <2>1. \A m \in Lists : Grouped(at2, m) = IF m = l THEN MembersAt(h, at, l) ELSE Grouped(at, m)
    BY <1>4, <1>5
  <2> QED BY <2>1, Zenon DEF ListsOf
<1>7. Out(at2) = Out(at) \ {b}
  BY <1>4 DEF Out
<1> QED BY <1>4, <1>6, <1>7 DEF Becomes, k, at2

\* Out of a bin goes b.
LeftOut(at, l, b, at2) ==
  /\ ListsOf(at2) = [ListsOf(at) EXCEPT ![l] = @ \ {b}]
  /\ Out(at2) = Out(at) \cup {b}

\* The lists without b.
LEMMA OutLists ==
  ASSUME NEW at \in [SuperBlocks -> Places], NEW l \in Lists, NEW b \in SuperBlocks, at[b][1] = l
  PROVE  LeftOut(at, l, b, [at EXCEPT ![b] = Outside])
<1> DEFINE at2 == [at EXCEPT ![b] = Outside]
<1>1. /\ \A m \in Lists : Grouped(at2, m) = Grouped(at, m) \ {b}
      /\ \A x \in SuperBlocks : at2[x] = Outside <=> at[x] = Outside \/ x = b
  BY OutSets
<1> HIDE DEF at2
<1>2. \A m \in Lists \ {l} : b \notin Grouped(at, m)
  BY DEF Grouped
<1>3. ListsOf(at2) = [ListsOf(at) EXCEPT ![l] = @ \ {b}]
  <2>1. \A m \in Lists : Grouped(at2, m) = IF m = l THEN Grouped(at, m) \ {b} ELSE Grouped(at, m)
    BY <1>1, <1>2
  <2> QED BY <2>1, Zenon DEF ListsOf
<1>4. Out(at2) = Out(at) \cup {b}
  BY <1>1 DEF Out
<1> QED BY <1>3, <1>4 DEF at2, LeftOut

\* ListPop takes out the block it finds.
LEMMA PopBecomes ==
  ASSUME NEW h, NEW at, Sound(h, at), NEW l \in Lists
  PROVE  LET r == ListPop(h, l)  b == r.block
         IN  \/ /\ b = NoBlock /\ r.heap = h /\ h.cache[l] = NoBlock
                /\ \A x \in Grouped(at, l) : at[x][2] = EmptinessClasses + 1
             \/ /\ PopOf(h, at, l, b) /\ at[b][1] = l
                /\ Becomes(h, at, r.heap, [at EXCEPT ![b] = Outside],
                           [h.cache EXCEPT ![l] = NoBlock],
                           [ListsOf(at) EXCEPT ![l] = @ \ {b}], h.used, Out(at) \cup {b})
<1> DEFINE r == ListPop(h, l)
           b == r.block
           k == r.heap
<1>1. \/ /\ b = NoBlock /\ k = h /\ h.cache[l] = NoBlock
         /\ \A x \in Grouped(at, l) : at[x][2] = EmptinessClasses + 1
      \/ /\ PopOf(h, at, l, b)
         /\ Sound(k, [at EXCEPT ![b] = Outside])
         /\ k.used = h.used /\ k.cache = [h.cache EXCEPT ![l] = NoBlock]
         /\ k.ub = [h.ub EXCEPT ![l] = @ - BytesOf(h, b)]
         /\ k.tb = [h.tb EXCEPT ![l] = @ - DataBytes]
  <2>1. LET p == ListPop(h, l)  k2 == p.heap  b2 == p.block
        IN  \/ /\ b2 = NoBlock /\ k2 = h /\ h.cache[l] = NoBlock
               /\ \A x \in Grouped(at, l) : at[x][2] = EmptinessClasses + 1
            \/ /\ PopOf(h, at, l, b2)
               /\ Sound(k2, [at EXCEPT ![b2] = Outside])
               /\ k2.used = h.used /\ k2.cache = [h.cache EXCEPT ![l] = NoBlock]
               /\ k2.ub = [h.ub EXCEPT ![l] = @ - BytesOf(h, b2)]
               /\ k2.tb = [h.tb EXCEPT ![l] = @ - DataBytes]
    BY ListPopSound
  <2> QED BY <2>1
<1> HIDE DEF k, b
<1>2. CASE b = NoBlock /\ k = h /\ h.cache[l] = NoBlock
           /\ \A x \in Grouped(at, l) : at[x][2] = EmptinessClasses + 1
  BY <1>2 DEF k, b
<1>3. CASE /\ PopOf(h, at, l, b)
           /\ Sound(k, [at EXCEPT ![b] = Outside])
           /\ k.used = h.used /\ k.cache = [h.cache EXCEPT ![l] = NoBlock]
           /\ k.ub = [h.ub EXCEPT ![l] = @ - BytesOf(h, b)]
           /\ k.tb = [h.tb EXCEPT ![l] = @ - DataBytes]
  <2>1. b \in SuperBlocks /\ at[b][1] = l
    <3>1. b \in SuperBlocks
      BY <1>3 DEF PopOf
    <3>2. CASE h.cache[l] # NoBlock
      <4>1. at[b] = <<l, Taken>>
        BY <1>3, <3>2, SoundTypes DEF PopOf
      <4> QED BY <3>1, <4>1
    <3>3. CASE h.cache[l] = NoBlock
      BY <1>3, <3>1, <3>3 DEF PopOf, MostEmptyAt, Grouped
    <3> QED BY <3>2, <3>3
  <2>2. k \in Heaps /\ at \in [SuperBlocks -> Places]
    BY <1>3, SoundTypes
  <2>3. Kept(h, at, k, [at EXCEPT ![b] = Outside])
    BY <1>3, <2>1, <2>2, RemovedKept
  <2>4. /\ ListsOf([at EXCEPT ![b] = Outside]) = [ListsOf(at) EXCEPT ![l] = @ \ {b}]
        /\ Out([at EXCEPT ![b] = Outside]) = Out(at) \cup {b}
    <3>1. LeftOut(at, l, b, [at EXCEPT ![b] = Outside])
      BY <2>1, <2>2, OutLists
    <3> QED BY <3>1 DEF LeftOut
  <2>5. Becomes(h, at, k, [at EXCEPT ![b] = Outside], [h.cache EXCEPT ![l] = NoBlock],
                [ListsOf(at) EXCEPT ![l] = @ \ {b}], h.used, Out(at) \cup {b})
    BY <1>3, <2>3, <2>4 DEF Becomes
  <2> QED BY <1>3, <2>1, <2>5 DEF k, b
<1> QED BY <1>1, <1>2, <1>3

\* ListAlloc takes a cell of the cached block, or of an emptiest one, which is
\* cached then, or finds none and leaves the bin without a cached block.
AllocOf(h, at, l, k, ok) ==
  \/ /\ Usable(h, l) /\ ok
     /\ Becomes(h, at, k, at, h.cache, ListsOf(at),
                [h.used EXCEPT ![h.cache[l]] = @ + 1], Out(at))
  \/ \E b \in SuperBlocks :
       /\ ~Usable(h, l) /\ ok /\ MostEmptyAt(at, l, b)
       /\ Becomes(h, at, k, PutAt(h, at, l, b), [h.cache EXCEPT ![l] = b],
                  [ListsOf(at) EXCEPT ![l] = MembersAt(h, at, l) \ {b}],
                  [h.used EXCEPT ![b] = @ + 1], Out(at))
  \/ /\ ~Usable(h, l) /\ ~ok
     /\ \A x \in Grouped(at, l) : at[x][2] = EmptinessClasses + 1
     /\ Becomes(h, at, k, JoinAt(h, at, l, h.cache[l]), [h.cache EXCEPT ![l] = NoBlock],
                [ListsOf(at) EXCEPT ![l] = MembersAt(h, at, l)], h.used, Out(at))
     /\ \A m \in Lists \ {l}, x \in SuperBlocks :
          at[x][1] = m => JoinAt(h, at, l, h.cache[l])[x] = at[x]

\* BlockList::alloc_cell takes the cell the sets allow, or finds the bin full.
LEMMA AllocBecomes ==
  ASSUME NEW h, NEW at, Sound(h, at), NEW l \in Lists
  PROVE  AllocOf(h, at, l, ListAlloc(h, l).heap, ListAlloc(h, l).ok)
<1> DEFINE k == ListAlloc(h, l).heap
           ok == ListAlloc(h, l).ok
           c == h.cache[l]
<1>0. /\ h \in Heaps /\ at \in [SuperBlocks -> Places]
      /\ h.cache \in [Lists -> Refs] /\ h.used \in [SuperBlocks -> 0..Cells]
      /\ h.ub \in [Lists -> Int] /\ h.tb \in [Lists -> Int]
      /\ c # NoBlock => c \in SuperBlocks /\ at[c] = <<l, Taken>>
  BY SoundTypes
<1>1. \/ /\ Usable(h, l) /\ ok /\ Sound(k, at)
         /\ k.used = [h.used EXCEPT ![c] = @ + 1] /\ k.cache = h.cache
         /\ k.ub = [h.ub EXCEPT ![l] = @ + CellBytes] /\ k.tb = h.tb
      \/ \E b \in SuperBlocks :
           /\ ~Usable(h, l) /\ ok /\ MostEmptyAt(at, l, b)
           /\ Sound(k, PutAt(h, at, l, b))
           /\ k.used = [h.used EXCEPT ![b] = @ + 1]
           /\ k.cache = [h.cache EXCEPT ![l] = b]
           /\ k.ub = [h.ub EXCEPT ![l] = @ + CellBytes] /\ k.tb = h.tb
      \/ /\ ~Usable(h, l) /\ ~ok
         /\ \A x \in Grouped(at, l) : at[x][2] = EmptinessClasses + 1
         /\ Sound(k, JoinAt(h, at, l, c))
         /\ k.used = h.used /\ k.cache = [h.cache EXCEPT ![l] = NoBlock]
         /\ k.ub = h.ub /\ k.tb = h.tb
  <2>1. LET r == ListAlloc(h, l)  k2 == r.heap  c2 == h.cache[l]
        IN  \/ /\ Usable(h, l) /\ r.ok /\ Sound(k2, at)
               /\ k2.used = [h.used EXCEPT ![c2] = @ + 1] /\ k2.cache = h.cache
               /\ k2.ub = [h.ub EXCEPT ![l] = @ + CellBytes] /\ k2.tb = h.tb
            \/ \E b \in SuperBlocks :
                 /\ ~Usable(h, l) /\ r.ok /\ MostEmptyAt(at, l, b)
                 /\ Sound(k2, PutAt(h, at, l, b))
                 /\ k2.used = [h.used EXCEPT ![b] = @ + 1]
                 /\ k2.cache = [h.cache EXCEPT ![l] = b]
                 /\ k2.ub = [h.ub EXCEPT ![l] = @ + CellBytes] /\ k2.tb = h.tb
            \/ /\ ~Usable(h, l) /\ ~r.ok
               /\ \A x \in Grouped(at, l) : at[x][2] = EmptinessClasses + 1
               /\ Sound(k2, JoinAt(h, at, l, c2))
               /\ k2.used = h.used /\ k2.cache = [h.cache EXCEPT ![l] = NoBlock]
               /\ k2.ub = h.ub /\ k2.tb = h.tb
    BY ListAllocSound
  <2> QED BY <2>1
<1> HIDE DEF k, ok, c
<1>2. [h.ub EXCEPT ![l] = @ + CellBytes] = [h.ub EXCEPT ![l] = @ + 1 * CellBytes]
  BY Constants
<1>3. CASE /\ Usable(h, l) /\ ok /\ Sound(k, at)
           /\ k.used = [h.used EXCEPT ![c] = @ + 1] /\ k.cache = h.cache
           /\ k.ub = [h.ub EXCEPT ![l] = @ + CellBytes] /\ k.tb = h.tb
  <2>1. c \in SuperBlocks /\ at[c][1] = l /\ k \in Heaps
    BY <1>0, <1>3, SoundTypes DEF Usable, c
  <2>2. k.ub = [h.ub EXCEPT ![l] = @ + 1 * CellBytes]
    BY <1>2, <1>3
  <2>3. Kept(h, at, k, at)
    <3>1. /\ k.used[c] = h.used[c] + 1 /\ \A x \in SuperBlocks \ {c} : k.used[x] = h.used[x]
          /\ k.ub[l] = h.ub[l] + 1 * CellBytes /\ \A m \in Lists \ {l} : k.ub[m] = h.ub[m]
          /\ k.tb = h.tb
      BY <1>0, <1>3, <2>1, <2>2
    <3> QED BY <2>1, <3>1, CellKept
  <2>4. Becomes(h, at, k, at, h.cache, ListsOf(at), [h.used EXCEPT ![h.cache[l]] = @ + 1], Out(at))
    BY <1>3, <2>3 DEF Becomes, c
  <2> QED BY <1>3, <2>4 DEF AllocOf, k, ok
<1>4. ASSUME NEW b \in SuperBlocks,
             /\ ~Usable(h, l) /\ ok /\ MostEmptyAt(at, l, b)
             /\ Sound(k, PutAt(h, at, l, b))
             /\ k.used = [h.used EXCEPT ![b] = @ + 1]
             /\ k.cache = [h.cache EXCEPT ![l] = b]
             /\ k.ub = [h.ub EXCEPT ![l] = @ + CellBytes] /\ k.tb = h.tb
      PROVE  AllocOf(h, at, l, k, ok)
  <2> DEFINE at2 == PutAt(h, at, l, b)
  <2>1. at[b][1] = l /\ at[b] # Outside /\ k \in Heaps
    BY <1>4, SoundTypes DEF MostEmptyAt, Grouped, Outside, Lists
  <2>2. /\ Grouped(at2, l) = (Grouped(at, l) \cup ({h.cache[l]} \ {NoBlock})) \ {b}
        /\ \A m \in Lists \ {l} : Grouped(at2, m) = Grouped(at, m)
        /\ Held(at2, l) = Held(at, l) \cup {b}
        /\ \A m \in Lists \ {l} : Held(at2, m) = Held(at, m)
        /\ \A x \in SuperBlocks : at2[x] = Outside <=> at[x] = Outside /\ x # b
    <3>1. LET c2 == h.cache[l]  a == PutAt(h, at, l, b)
          IN  /\ Grouped(a, l) = (Grouped(at, l) \cup ({c2} \ {NoBlock})) \ {b}
              /\ \A m \in Lists \ {l} : Grouped(a, m) = Grouped(at, m)
              /\ Held(a, l) = Held(at, l) \cup {b}
              /\ \A m \in Lists \ {l} : Held(a, m) = Held(at, m)
              /\ \A x \in SuperBlocks : a[x] = Outside <=> at[x] = Outside /\ x # b
      BY <2>1, PutSets
    <3> QED BY <3>1
  <2> HIDE DEF at2
  <2>3. \A m \in Lists : Held(at2, m) = Held(at, m)
    BY <2>1, <2>2 DEF Held
  <2>4. Kept(h, at, k, at2)
    <3>1. /\ k.used[b] = h.used[b] + 1 /\ \A x \in SuperBlocks \ {b} : k.used[x] = h.used[x]
          /\ k.ub[l] = h.ub[l] + 1 * CellBytes /\ \A m \in Lists \ {l} : k.ub[m] = h.ub[m]
          /\ k.tb = h.tb
      BY <1>0, <1>2, <1>4
    <3> QED BY <2>1, <2>3, <3>1, CellKept
  <2>5. ListsOf(at2) = [ListsOf(at) EXCEPT ![l] = MembersAt(h, at, l) \ {b}]
    <3>1. \A m \in Lists : Grouped(at2, m) = IF m = l THEN MembersAt(h, at, l) \ {b} ELSE Grouped(at, m)
      BY <2>2 DEF MembersAt
    <3> QED BY <3>1, Zenon DEF ListsOf
  <2>6. Out(at2) = Out(at)
    BY <2>1, <2>2 DEF Out
  <2>7. Becomes(h, at, k, PutAt(h, at, l, b), [h.cache EXCEPT ![l] = b],
                [ListsOf(at) EXCEPT ![l] = MembersAt(h, at, l) \ {b}],
                [h.used EXCEPT ![b] = @ + 1], Out(at))
    BY <1>4, <2>4, <2>5, <2>6 DEF Becomes, at2
  <2> QED BY <1>4, <2>7 DEF AllocOf
<1>5. CASE /\ ~Usable(h, l) /\ ~ok
           /\ \A x \in Grouped(at, l) : at[x][2] = EmptinessClasses + 1
           /\ Sound(k, JoinAt(h, at, l, c))
           /\ k.used = h.used /\ k.cache = [h.cache EXCEPT ![l] = NoBlock]
           /\ k.ub = h.ub /\ k.tb = h.tb
  <2> DEFINE at2 == JoinAt(h, at, l, h.cache[l])
  <2>1. /\ Grouped(at2, l) = Grouped(at, l) \cup ({h.cache[l]} \ {NoBlock})
        /\ \A m \in Lists \ {l} : Grouped(at2, m) = Grouped(at, m)
        /\ \A m \in Lists : Held(at2, m) = Held(at, m)
        /\ \A x \in SuperBlocks : at2[x] = Outside <=> at[x] = Outside
        /\ \A m \in Lists \ {l}, x \in SuperBlocks : at[x][1] = m => at2[x] = at[x]
    <3>1. LET c2 == h.cache[l]  a == JoinAt(h, at, l, c2)
          IN  /\ Grouped(a, l) = Grouped(at, l) \cup ({c2} \ {NoBlock})
              /\ \A m \in Lists \ {l} : Grouped(a, m) = Grouped(at, m)
              /\ \A m \in Lists : Held(a, m) = Held(at, m)
              /\ \A x \in SuperBlocks : a[x] = Outside <=> at[x] = Outside
              /\ \A m \in Lists \ {l}, x \in SuperBlocks : at[x][1] = m => a[x] = at[x]
      BY JoinSets
    <3> QED BY <3>1
  <2>2. Sound(k, at2) /\ k \in Heaps
    BY <1>5, SoundTypes DEF c
  <2> HIDE DEF at2
  <2>3. Kept(h, at, k, at2)
    <3>1. ASSUME NEW m \in Lists, Exact(h, at, m) PROVE Exact(k, at2, m)
      BY <1>0, <1>5, <2>1, <2>2, <3>1, ExactSame
    <3> QED BY <3>1 DEF Kept
  <2>4. ListsOf(at2) = [ListsOf(at) EXCEPT ![l] = MembersAt(h, at, l)]
    <3>1. \A m \in Lists : Grouped(at2, m) = IF m = l THEN MembersAt(h, at, l) ELSE Grouped(at, m)
      BY <2>1 DEF MembersAt
    <3> QED BY <3>1, Zenon DEF ListsOf
  <2>5. Out(at2) = Out(at)
    BY <2>1 DEF Out
  <2>6. Becomes(h, at, k, at2, [h.cache EXCEPT ![l] = NoBlock],
                [ListsOf(at) EXCEPT ![l] = MembersAt(h, at, l)], h.used, Out(at))
    BY <1>5, <2>2, <2>3, <2>4, <2>5 DEF Becomes
  <2>7. /\ Becomes(h, at, k, JoinAt(h, at, l, h.cache[l]), [h.cache EXCEPT ![l] = NoBlock],
                   [ListsOf(at) EXCEPT ![l] = MembersAt(h, at, l)], h.used, Out(at))
        /\ \A m \in Lists \ {l}, x \in SuperBlocks :
             at[x][1] = m => JoinAt(h, at, l, h.cache[l])[x] = at[x]
    BY <2>1, <2>6 DEF at2
  <2>8. ~Usable(h, l) /\ ~ok /\ \A x \in Grouped(at, l) : at[x][2] = EmptinessClasses + 1
    BY <1>5
  <2> QED BY <2>7, <2>8, Zenon DEF AllocOf, k, ok
<1>6. AllocOf(h, at, l, k, ok)
  <2>1. CASE \E b \in SuperBlocks :
             /\ ~Usable(h, l) /\ ok /\ MostEmptyAt(at, l, b)
             /\ Sound(k, PutAt(h, at, l, b))
             /\ k.used = [h.used EXCEPT ![b] = @ + 1]
             /\ k.cache = [h.cache EXCEPT ![l] = b]
             /\ k.ub = [h.ub EXCEPT ![l] = @ + CellBytes] /\ k.tb = h.tb
    BY <2>1, <1>4
  <2> QED BY <1>1, <1>3, <1>5, <2>1 DEF k, ok
<1> QED BY <1>6 DEF k, ok

\* A cell of b comes back: b leaves the bin with its last one.
FreeOf(h, at, l, b, k, at2) ==
  /\ IF h.used[b] = 1
     THEN Becomes(h, at, k, at2, [h.cache EXCEPT ![l] = IF @ = b THEN NoBlock ELSE @],
                  [ListsOf(at) EXCEPT ![l] = @ \ {b}], [h.used EXCEPT ![b] = @ - 1],
                  Out(at) \cup {b})
     ELSE Becomes(h, at, k, at2, h.cache, ListsOf(at), [h.used EXCEPT ![b] = @ - 1], Out(at))
  /\ \A m \in Lists \ {l} : k.ub[m] = h.ub[m] /\ k.tb[m] = h.tb[m]

\* free_cell alone leaves b in its bin.
CellOf(h, at, l, b, k, at2) ==
  /\ Becomes(h, at, k, at2, h.cache, ListsOf(at), [h.used EXCEPT ![b] = @ - 1], Out(at))
  /\ \A m \in Lists \ {l} : k.ub[m] = h.ub[m] /\ k.tb[m] = h.tb[m]
  /\ at2[b][1] = l

\* What ListFree leaves.
LEMMA CellBecomes ==
  ASSUME NEW h, NEW at, Sound(h, at), NEW l \in Lists, NEW b \in SuperBlocks, at[b][1] = l,
         h.used[b] > 0
  PROVE  CellOf(h, at, l, b, ListFree(h, l, b), FreeAt(h, at, l, b))
<1> DEFINE k == ListFree(h, l, b)
           at2 == FreeAt(h, at, l, b)
           g == Group([h EXCEPT !.used[b] = @ - 1], b)
<1>1. /\ Sound(k, at2) /\ at2 \in [SuperBlocks -> Places]
      /\ k.used = [h.used EXCEPT ![b] = @ - 1] /\ k.cache = h.cache
      /\ k.ub = [h.ub EXCEPT ![l] = @ - CellBytes] /\ k.tb = h.tb
  <2>1. LET p == ListFree(h, l, b)
        IN  /\ Sound(p, FreeAt(h, at, l, b))
            /\ FreeAt(h, at, l, b) \in [SuperBlocks -> Places]
            /\ p.used = [h.used EXCEPT ![b] = @ - 1] /\ p.cache = h.cache
            /\ p.ub = [h.ub EXCEPT ![l] = @ - CellBytes] /\ p.tb = h.tb
    BY ListFreeSound
  <2> QED BY <2>1
<1>2. /\ h \in Heaps /\ at \in [SuperBlocks -> Places] /\ h.used \in [SuperBlocks -> 0..Cells]
      /\ h.ub \in [Lists -> Int] /\ h.tb \in [Lists -> Int]
  BY SoundTypes
<1>3. at2 = IF h.cache[l] = b THEN at ELSE [at EXCEPT ![b] = <<l, g>>]
  BY DEF FreeAt
<1> HIDE DEF k, at2, g
<1>4. k \in Heaps
  BY <1>1, SoundTypes
<1>5. (\A x \in SuperBlocks \ {b} : at2[x] = at[x]) /\ at2[b][1] = l /\ at2[b] # Outside /\ at[b] # Outside
  BY <1>2, <1>3 DEF Outside, Lists
<1>6. (\A m \in Lists : Held(at2, m) = Held(at, m)) /\ Out(at2) = Out(at)
  BY <1>5 DEF Held, Out
<1>7. b \in Grouped(at2, l) <=> b \in Grouped(at, l)
  <2>1. h.cache[l] = b <=> at2[b] = <<l, Taken>>
    BY <1>1 DEF Sound, CacheSound
  <2>2. h.cache[l] = b <=> at[b] = <<l, Taken>>
    BY DEF Sound, CacheSound
  <2>3. ASSUME NEW p \in [SuperBlocks -> Places], p[b][1] = l
        PROVE  b \in Grouped(p, l) <=> p[b] # <<l, Taken>>
    <3>1. CASE p[b] = Outside
      BY <2>3, <3>1 DEF Outside, Lists
    <3>2. ASSUME NEW m \in Lists, p[b] = <<m, Taken>> PROVE b \in Grouped(p, l) <=> p[b] # <<l, Taken>>
      BY <2>3, <3>2, NotTaken DEF Grouped
    <3>3. ASSUME NEW m \in Lists, NEW i \in Groups, p[b] = <<m, i>>
          PROVE  b \in Grouped(p, l) <=> p[b] # <<l, Taken>>
      BY <2>3, <3>3, NotTaken DEF Grouped
    <3> QED BY <3>1, <3>2, <3>3, PlaceKinds
  <2> QED BY <2>1, <2>2, <2>3, <1>1, <1>2, <1>5
<1>8. ListsOf(at2) = ListsOf(at)
  <2>1. \A m \in Lists, x \in SuperBlocks : x \in Grouped(at2, m) <=> x \in Grouped(at, m)
    BY <1>5, <1>7 DEF Grouped
  <2>2. \A m \in Lists : Grouped(at2, m) = Grouped(at, m)
    BY <2>1 DEF Grouped
  <2> QED BY <2>2, Zenon DEF ListsOf
<1>9. (-1) * CellBytes = -CellBytes /\ CellBytes \in Nat
  BY Constants
<1>10. Kept(h, at, k, at2)
  <2>1. /\ k.used[b] = h.used[b] + (-1) /\ \A x \in SuperBlocks \ {b} : k.used[x] = h.used[x]
        /\ k.tb = h.tb /\ \A m \in Lists \ {l} : k.ub[m] = h.ub[m]
    BY <1>1, <1>2
  <2>2. k.ub[l] = h.ub[l] + (-1) * CellBytes
    BY <1>1, <1>2, <1>9
  <2>3. -1 \in {-1, 1}
    OBVIOUS
  <2> DEFINE d == -1
  <2>4. k.used[b] = h.used[b] + d /\ k.ub[l] = h.ub[l] + d * CellBytes /\ d \in {-1, 1}
    BY <2>1, <2>2
  <2> HIDE DEF d
  <2> QED BY <1>4, <1>6, <2>1, <2>4, CellKept
<1>11. Becomes(h, at, k, at2, h.cache, ListsOf(at), [h.used EXCEPT ![b] = @ - 1], Out(at))
  BY <1>1, <1>6, <1>8, <1>10 DEF Becomes
<1>12. \A m \in Lists \ {l} : k.ub[m] = h.ub[m] /\ k.tb[m] = h.tb[m]
  BY <1>1, <1>2
<1> QED BY <1>5, <1>11, <1>12 DEF k, at2, CellOf

\* What ListRemove leaves.
Removed(h, at, l, b, k) ==
  /\ Sound(k, [at EXCEPT ![b] = Outside])
  /\ k.used = h.used
  /\ k.cache = [h.cache EXCEPT ![l] = IF @ = b THEN NoBlock ELSE @]
  /\ k.ub = [h.ub EXCEPT ![l] = @ - BytesOf(h, b)]
  /\ k.tb = [h.tb EXCEPT ![l] = @ - DataBytes]

\* BlockList::remove takes the block out and counts it out.
LEMMA ListRemoved ==
  ASSUME NEW h, NEW at, Sound(h, at), NEW l \in Lists, NEW b \in SuperBlocks, at[b][1] = l
  PROVE  Removed(h, at, l, b, ListRemove(h, l, b))
<1>1. LET k == ListRemove(h, l, b)
      IN  /\ Sound(k, [at EXCEPT ![b] = Outside])
          /\ k.used = h.used
          /\ k.cache = [h.cache EXCEPT ![l] = IF @ = b THEN NoBlock ELSE @]
          /\ k.ub = [h.ub EXCEPT ![l] = @ - BytesOf(h, b)]
          /\ k.tb = [h.tb EXCEPT ![l] = @ - DataBytes]
  BY ListRemoveSound
<1> QED BY <1>1 DEF Removed

\* Pool::free_cell_slow_impl frees a cell as the sets do, and gives an empty block
\* back.
LEMMA FreeBecomes ==
  ASSUME NEW h, NEW at, Sound(h, at), NEW l \in Lists, NEW b \in SuperBlocks, at[b][1] = l,
         h.used[b] > 0
  PROVE  \E at2 : FreeOf(h, at, l, b, FreeCell(h, l, b), at2)
<1> DEFINE h1 == ListFree(h, l, b)
           at1 == FreeAt(h, at, l, b)
           k == ListRemove(h1, l, b)
           at2 == [at1 EXCEPT ![b] = Outside]
<1>1. /\ Becomes(h, at, h1, at1, h.cache, ListsOf(at), [h.used EXCEPT ![b] = @ - 1], Out(at))
      /\ \A m \in Lists \ {l} : h1.ub[m] = h.ub[m] /\ h1.tb[m] = h.tb[m]
      /\ at1[b][1] = l
  <2>1. CellOf(h, at, l, b, h1, at1)
    BY CellBecomes
  <2> HIDE DEF h1, at1
  <2> QED BY <2>1 DEF CellOf
<1>2. FreeCell(h, l, b) = IF h1.used[b] = 0 THEN k ELSE h1
  BY DEF FreeCell
<1>3. Removed(h1, at1, l, b, k)
  <2>1. Sound(h1, at1) /\ at1[b][1] = l
    BY <1>1 DEF Becomes
  <2> HIDE DEF h1, at1
  <2> QED BY <2>1, ListRemoved
<1> HIDE DEF h1, at1, k
<1>4. /\ Sound(k, at2)
      /\ k.used = h1.used
      /\ k.cache = [h1.cache EXCEPT ![l] = IF @ = b THEN NoBlock ELSE @]
      /\ k.ub = [h1.ub EXCEPT ![l] = @ - BytesOf(h1, b)]
      /\ k.tb = [h1.tb EXCEPT ![l] = @ - DataBytes]
  BY <1>3 DEF Removed
<1>5. Sound(h1, at1) /\ Kept(h, at, h1, at1) /\ h1.cache = h.cache /\ ListsOf(at1) = ListsOf(at)
      /\ h1.used = [h.used EXCEPT ![b] = @ - 1] /\ Out(at1) = Out(at)
  BY <1>1 DEF Becomes
<1>6. /\ at1 \in [SuperBlocks -> Places] /\ k \in Heaps /\ h.used \in [SuperBlocks -> 0..Cells]
      /\ h1.ub \in [Lists -> Int] /\ h1.tb \in [Lists -> Int]
  BY <1>4, <1>5, SoundTypes
<1>7. ListsOf(at2) = [ListsOf(at) EXCEPT ![l] = @ \ {b}] /\ Out(at2) = Out(at) \cup {b}
  <2>1. /\ ListsOf(at2) = [ListsOf(at1) EXCEPT ![l] = @ \ {b}]
        /\ Out(at2) = Out(at1) \cup {b}
    <3>1. LeftOut(at1, l, b, at2)
      BY <1>1, <1>6, OutLists
    <3> HIDE DEF at2
    <3> QED BY <3>1 DEF LeftOut
  <2> HIDE DEF at2
  <2> QED BY <2>1, <1>5
<1>8. Kept(h1, at1, k, at2)
  BY <1>1, <1>4, <1>5, <1>6, RemovedKept
<1>9. Kept(h, at, k, at2)
  BY <1>5, <1>8, KeptThen
<1> HIDE DEF at2
<1>10. Becomes(h, at, k, at2, [h.cache EXCEPT ![l] = IF @ = b THEN NoBlock ELSE @],
               [ListsOf(at) EXCEPT ![l] = @ \ {b}], [h.used EXCEPT ![b] = @ - 1], Out(at) \cup {b})
  BY <1>4, <1>5, <1>7, <1>9 DEF Becomes
<1>11. \A m \in Lists \ {l} : k.ub[m] = h.ub[m] /\ k.tb[m] = h.tb[m]
  BY <1>1, <1>4, <1>6
<1>12. h1.used[b] = 0 <=> h.used[b] = 1
  BY <1>5, <1>6, Constants
<1>13. CASE h.used[b] = 1
  <2>1. FreeOf(h, at, l, b, k, at2)
    BY <1>10, <1>11, <1>13 DEF FreeOf
  <2> QED BY <2>1, <1>2, <1>12, <1>13
<1>14. CASE h.used[b] # 1
  <2>1. FreeOf(h, at, l, b, h1, at1)
    BY <1>1, <1>14 DEF FreeOf
  <2> QED BY <2>1, <1>2, <1>12, <1>14
<1> QED BY <1>13, <1>14

\* A bin without a free cell looks for a block of the global one.
FoundOf(h, at, g) ==
  /\ g.block # NoBlock /\ PopOf(h, at, "global", g.block)
  /\ \E at2 : Becomes(h, at, ListPut(g.heap, "local", g.block), at2,
                      [h.cache EXCEPT !["local"] = g.block, !["global"] = NoBlock],
                      [l \in Lists |-> MembersAt(h, at, l) \ {g.block}], h.used, Out(at))

\* The global bin had none: all its listed blocks are full and its cache is empty.
NoneOf(h, at, g) ==
  /\ g.block = NoBlock /\ h.cache["global"] = NoBlock
  /\ \A x \in Grouped(at, "global") : at[x][2] = EmptinessClasses + 1
  /\ \E at2 : Becomes(h, at, g.heap, at2, [h.cache EXCEPT !["local"] = NoBlock],
                      [ListsOf(at) EXCEPT !["local"] = MembersAt(h, at, "local")], h.used, Out(at))

\* What is most suitable does not depend on what happens in the other bin.
LEMMA PopOfSame ==
  ASSUME NEW h, NEW at, NEW h1, NEW at1, NEW l \in Lists, NEW b, h1.cache[l] = h.cache[l],
         Grouped(at1, l) = Grouped(at, l), \A x \in Grouped(at, l) : at1[x] = at[x]
  PROVE  PopOf(h1, at1, l, b) <=> PopOf(h, at, l, b)
<1>1. MostEmptyAt(at1, l, b) <=> MostEmptyAt(at, l, b)
  BY DEF MostEmptyAt
<1> QED BY <1>1 DEF PopOf

\* A local bin without a cell turns to the global one, which has a block or has none.
LEMMA RefillBecomes ==
  ASSUME NEW h, NEW at, Sound(h, at), ~ListAlloc(h, "local").ok
  PROVE  LET g == ListPop(ListAlloc(h, "local").heap, "global")
         IN  /\ ~Usable(h, "local")
             /\ \A x \in Grouped(at, "local") : at[x][2] = EmptinessClasses + 1
             /\ FoundOf(h, at, g) \/ NoneOf(h, at, g)
<1> DEFINE h1 == ListAlloc(h, "local").heap
           g == ListPop(h1, "global")
           h2 == g.heap
           b == g.block
           k == ListPut(h2, "local", b)
           at1 == JoinAt(h, at, "local", h.cache["local"])
           at2 == [at1 EXCEPT ![b] = Outside]
           at3 == PutAt(h2, at2, "local", b)
<1>1. "local" \in Lists /\ "global" \in Lists /\ Lists = {"local", "global"}
  BY DEF Lists
<1>2. /\ ~Usable(h, "local")
      /\ \A x \in Grouped(at, "local") : at[x][2] = EmptinessClasses + 1
      /\ Becomes(h, at, h1, at1, [h.cache EXCEPT !["local"] = NoBlock],
                 [ListsOf(at) EXCEPT !["local"] = MembersAt(h, at, "local")], h.used, Out(at))
      /\ \A m \in Lists \ {"local"}, x \in SuperBlocks : at[x][1] = m => at1[x] = at[x]
  <2>1. AllocOf(h, at, "local", ListAlloc(h, "local").heap, ListAlloc(h, "local").ok)
    BY <1>1, AllocBecomes
  <2> QED BY <2>1 DEF AllocOf
<1> HIDE DEF h1, at1
<1>3. /\ Sound(h1, at1) /\ Kept(h, at, h1, at1)
      /\ h1.cache = [h.cache EXCEPT !["local"] = NoBlock]
      /\ ListsOf(at1) = [ListsOf(at) EXCEPT !["local"] = MembersAt(h, at, "local")]
      /\ h1.used = h.used /\ Out(at1) = Out(at)
  BY <1>2 DEF Becomes
<1>4. h.cache \in [Lists -> Refs] /\ ListsOf(at) \in [Lists -> SUBSET SuperBlocks]
  BY SoundTypes DEF ListsOf, Grouped
<1>5. h1.cache["global"] = h.cache["global"]
  BY <1>1, <1>3, <1>4
<1>6. Grouped(at1, "global") = Grouped(at, "global") /\ Grouped(at1, "local") = MembersAt(h, at, "local")
  BY <1>1, <1>3 DEF ListsOf
<1>7. \A x \in Grouped(at, "global") : at1[x] = at[x]
  BY <1>1, <1>2 DEF Grouped
<1>8. \/ /\ b = NoBlock /\ h2 = h1 /\ h1.cache["global"] = NoBlock
         /\ \A x \in Grouped(at1, "global") : at1[x][2] = EmptinessClasses + 1
      \/ /\ PopOf(h1, at1, "global", b) /\ at1[b][1] = "global"
         /\ Becomes(h1, at1, h2, at2, [h1.cache EXCEPT !["global"] = NoBlock],
                    [ListsOf(at1) EXCEPT !["global"] = @ \ {b}], h1.used, Out(at1) \cup {b})
  <2>1. LET r == ListPop(h1, "global")  c == r.block
        IN  \/ /\ c = NoBlock /\ r.heap = h1 /\ h1.cache["global"] = NoBlock
               /\ \A x \in Grouped(at1, "global") : at1[x][2] = EmptinessClasses + 1
            \/ /\ PopOf(h1, at1, "global", c) /\ at1[c][1] = "global"
               /\ Becomes(h1, at1, r.heap, [at1 EXCEPT ![c] = Outside],
                          [h1.cache EXCEPT !["global"] = NoBlock],
                          [ListsOf(at1) EXCEPT !["global"] = @ \ {c}], h1.used, Out(at1) \cup {c})
    BY <1>1, <1>3, PopBecomes
  <2> QED BY <2>1
<1>9. CASE /\ b = NoBlock /\ h2 = h1 /\ h1.cache["global"] = NoBlock
           /\ \A x \in Grouped(at1, "global") : at1[x][2] = EmptinessClasses + 1
  <2>1. Becomes(h, at, g.heap, at1, [h.cache EXCEPT !["local"] = NoBlock],
                [ListsOf(at) EXCEPT !["local"] = MembersAt(h, at, "local")], h.used, Out(at))
    BY <1>2, <1>9
  <2>2. /\ g.block = NoBlock /\ h.cache["global"] = NoBlock
        /\ \A x \in Grouped(at, "global") : at[x][2] = EmptinessClasses + 1
    BY <1>5, <1>6, <1>7, <1>9
  <2> HIDE DEF g
  <2>3. NoneOf(h, at, g)
    BY <2>1, <2>2 DEF NoneOf
  <2> QED BY <1>2, <2>3 DEF g, h1
<1>10. CASE /\ PopOf(h1, at1, "global", b) /\ at1[b][1] = "global"
            /\ Becomes(h1, at1, h2, at2, [h1.cache EXCEPT !["global"] = NoBlock],
                       [ListsOf(at1) EXCEPT !["global"] = @ \ {b}], h1.used, Out(at1) \cup {b})
  <2> HIDE DEF g
  <2>1. PopOf(h, at, "global", b)
    BY <1>1, <1>5, <1>6, <1>7, <1>10, PopOfSame
  <2>2. b \in SuperBlocks /\ b # NoBlock
    BY <2>1, Constants DEF PopOf
  <2>3. /\ Sound(h2, at2) /\ Kept(h1, at1, h2, at2)
        /\ h2.cache = [h1.cache EXCEPT !["global"] = NoBlock]
        /\ ListsOf(at2) = [ListsOf(at1) EXCEPT !["global"] = @ \ {b}]
        /\ h2.used = h1.used /\ Out(at2) = Out(at1) \cup {b}
    BY <1>10 DEF Becomes
  <2>4. at1 \in [SuperBlocks -> Places] /\ at2[b] = Outside
    BY <1>3, <2>2, SoundTypes
  <2> HIDE DEF at2, h2, b
  <2>5. Becomes(h2, at2, k, at3, [h2.cache EXCEPT !["local"] = b],
                [ListsOf(at2) EXCEPT !["local"] = MembersAt(h2, at2, "local")], h2.used, Out(at2) \ {b})
    BY <1>1, <2>2, <2>3, <2>4, PutBecomes
  <2> HIDE DEF k, at3
  <2>6. /\ Sound(k, at3) /\ Kept(h2, at2, k, at3)
        /\ k.cache = [h2.cache EXCEPT !["local"] = b]
        /\ ListsOf(at3) = [ListsOf(at2) EXCEPT !["local"] = MembersAt(h2, at2, "local")]
        /\ k.used = h2.used /\ Out(at3) = Out(at2) \ {b}
    BY <2>5 DEF Becomes
  <2>7. Kept(h, at, k, at3)
    BY <1>3, <2>3, <2>6, KeptThen
  <2>8. k.cache = [h.cache EXCEPT !["local"] = b, !["global"] = NoBlock]
    BY <1>1, <1>3, <1>4, <2>3, <2>6
  <2>9. at[b][1] = "global" /\ at[b] # Outside
    <3>1. CASE h.cache["global"] # NoBlock
      BY <1>1, <2>1, <3>1, SoundTypes DEF PopOf, Outside
    <3>2. CASE h.cache["global"] = NoBlock
      BY <2>1, <3>2 DEF PopOf, MostEmptyAt, Grouped, Outside
    <3> QED BY <3>1, <3>2
  <2>10. b \notin MembersAt(h, at, "local")
    <3>1. b \notin Held(at, "local")
      BY <2>9 DEF Held
    <3> QED BY <1>1, <3>1, HeldMembers
  <2>11. MembersAt(h2, at2, "local") = MembersAt(h, at, "local")
    <3>1. Grouped(at2, "local") = MembersAt(h, at, "local")
      BY <1>1, <1>6, <2>3 DEF ListsOf
    <3>2. h2.cache["local"] = NoBlock
      BY <1>1, <1>3, <1>4, <2>3
    <3> QED BY <3>1, <3>2 DEF MembersAt
  <2>12. Grouped(at3, "global") = Grouped(at, "global") \ {b}
    BY <1>1, <1>6, <2>3, <2>6 DEF ListsOf
  <2>13. Grouped(at, "global") \ {b} = MembersAt(h, at, "global") \ {b}
    <3>1. h.cache["global"] # NoBlock => h.cache["global"] = b
      BY <2>1 DEF PopOf
    <3> QED BY <3>1 DEF MembersAt
  <2>14. Grouped(at3, "local") = MembersAt(h, at, "local") \ {b}
    BY <1>1, <2>6, <2>10, <2>11 DEF ListsOf
  <2>15. ListsOf(at3) = [l \in Lists |-> MembersAt(h, at, l) \ {b}]
    <3>1. \A l \in Lists : Grouped(at3, l) = MembersAt(h, at, l) \ {b}
      BY <1>1, <2>12, <2>13, <2>14
    <3> QED BY <3>1, Zenon DEF ListsOf
  <2>16. Out(at3) = Out(at)
    BY <1>3, <2>3, <2>6, <2>9 DEF Out
  <2>17. Becomes(h, at, k, at3, [h.cache EXCEPT !["local"] = b, !["global"] = NoBlock],
                 [l \in Lists |-> MembersAt(h, at, l) \ {b}], h.used, Out(at))
    BY <1>3, <2>3, <2>6, <2>7, <2>8, <2>15, <2>16 DEF Becomes
  <2>18. Becomes(h, at, ListPut(g.heap, "local", g.block), at3,
                 [h.cache EXCEPT !["local"] = g.block, !["global"] = NoBlock],
                 [l \in Lists |-> MembersAt(h, at, l) \ {g.block}], h.used, Out(at))
    BY <2>17 DEF k, h2, b
  <2>19. FoundOf(h, at, g)
    BY <2>1, <2>2, <2>18 DEF FoundOf, b
  <2> QED BY <1>2, <2>19 DEF g, h1
<1> QED BY <1>8, <1>9, <1>10

\* A block of the page resource comes without cells in use.
LEMMA FreshBecomes ==
  ASSUME NEW h, NEW at, Sound(h, at), NEW b \in SuperBlocks, at[b] = Outside, h.used[b] = 0
  PROVE  \E at2 : Becomes(h, at, ListPut([h EXCEPT !.used[b] = 0], "local", b), at2,
                          [h.cache EXCEPT !["local"] = b],
                          [ListsOf(at) EXCEPT !["local"] = MembersAt(h, at, "local")],
                          h.used, Out(at) \ {b})
<1> DEFINE m == [h EXCEPT !.used[b] = 0]
<1>1. "local" \in Lists
  BY DEF Lists
<1>2. h \in Heaps /\ h.used \in [SuperBlocks -> 0..Cells]
  BY SoundTypes
<1>3. m = h
  <2>1. [h.used EXCEPT ![b] = 0] = h.used
    BY <1>2
  <2>2. m = [h EXCEPT !.used = [h.used EXCEPT ![b] = 0]]
    OBVIOUS
  <2> QED BY <2>1, <2>2, <1>2 DEF Heaps
<1> HIDE DEF m
<1>4. Becomes(h, at, ListPut(h, "local", b), PutAt(h, at, "local", b), [h.cache EXCEPT !["local"] = b],
              [ListsOf(at) EXCEPT !["local"] = MembersAt(h, at, "local")], h.used, Out(at) \ {b})
  BY <1>1, PutBecomes
<1> QED BY <1>3, <1>4 DEF m

\* A block goes from the local bin to the global one: the one that flushing or
\* dropping the bin takes out of it leaves the heap h1 behind.
MoveOf(h, at, b, k, at2) ==
  /\ Sound(k, at2)
  /\ Exact(h, at, "global") => Exact(k, at2, "global")
  /\ k.cache = [h.cache EXCEPT !["local"] = NoBlock, !["global"] = b]
  /\ ListsOf(at2) = [ListsOf(at) EXCEPT !["local"] = @ \ {b}, !["global"] = MembersAt(h, at, "global")]
  /\ k.used = h.used /\ Out(at2) = Out(at)

\* What is left of the heap when b is taken out of the local bin.
TakenOut(h, at, b, h1) ==
  /\ b \in SuperBlocks /\ at[b][1] = "local"
  /\ Sound(h1, [at EXCEPT ![b] = Outside])
  /\ h1.cache = [h.cache EXCEPT !["local"] = NoBlock] /\ h1.used = h.used
  /\ h1.ub["global"] = h.ub["global"] /\ h1.tb["global"] = h.tb["global"]

\* What it is when the global bin has got b.
PutBack(h, at, b, h1, k, at2) ==
  /\ MoveOf(h, at, b, k, at2)
  /\ Kept(h1, [at EXCEPT ![b] = Outside], k, at2)
  /\ k.ub["local"] = h1.ub["local"] /\ k.tb["local"] = h1.tb["local"]

\* ListPut does that.
LEMMA MoveBecomes ==
  ASSUME NEW h, NEW at, Sound(h, at), NEW b, NEW h1, TakenOut(h, at, b, h1)
  PROVE  \E at2 : PutBack(h, at, b, h1, ListPut(h1, "global", b), at2)
<1> DEFINE at1 == [at EXCEPT ![b] = Outside]
           k == ListPut(h1, "global", b)
           at2 == PutAt(h1, at1, "global", b)
<1>0. /\ b \in SuperBlocks /\ at[b][1] = "local"
      /\ Sound(h1, [at EXCEPT ![b] = Outside])
      /\ h1.cache = [h.cache EXCEPT !["local"] = NoBlock] /\ h1.used = h.used
      /\ h1.ub["global"] = h.ub["global"] /\ h1.tb["global"] = h.tb["global"]
  BY DEF TakenOut
<1>1. "local" \in Lists /\ "global" \in Lists /\ Lists = {"local", "global"} /\ "local" # "global"
  BY DEF Lists
<1>2. /\ h \in Heaps /\ at \in [SuperBlocks -> Places] /\ h.cache \in [Lists -> Refs] /\ h1 \in Heaps
      /\ ListsOf(at) \in [Lists -> SUBSET SuperBlocks]
  BY <1>0, SoundTypes DEF ListsOf, Grouped
<1>3. at1[b] = Outside /\ Sound(h1, at1)
  BY <1>0, <1>2
<1>4. /\ ListsOf(at1) = [ListsOf(at) EXCEPT !["local"] = @ \ {b}]
      /\ Out(at1) = Out(at) \cup {b}
  <2>1. LeftOut(at, "local", b, at1)
    BY <1>0, <1>1, <1>2, OutLists
  <2> HIDE DEF at1
  <2> QED BY <2>1 DEF LeftOut
<1>5. \A m \in Lists : Held(at1, m) = Held(at, m) \ {b}
  BY <1>0, <1>2, OutSets
<1> HIDE DEF at1
<1>6. Becomes(h1, at1, k, at2, [h1.cache EXCEPT !["global"] = b],
              [ListsOf(at1) EXCEPT !["global"] = MembersAt(h1, at1, "global")], h1.used, Out(at1) \ {b})
  BY <1>0, <1>1, <1>3, PutBecomes
<1>7. k.ub["local"] = h1.ub["local"] /\ k.tb["local"] = h1.tb["local"]
  <2>1. LET p == ListPut(h1, "global", b)
        IN  Kept(h1, at1, p, PutAt(h1, at1, "global", b))
            /\ \A m \in Lists \ {"global"} : p.ub[m] = h1.ub[m] /\ p.tb[m] = h1.tb[m]
    BY <1>0, <1>1, <1>3, PutKept
  <2> QED BY <1>1, <2>1
<1> HIDE DEF k, at2
<1>8. /\ Sound(k, at2) /\ Kept(h1, at1, k, at2)
      /\ k.cache = [h1.cache EXCEPT !["global"] = b]
      /\ ListsOf(at2) = [ListsOf(at1) EXCEPT !["global"] = MembersAt(h1, at1, "global")]
      /\ k.used = h1.used /\ Out(at2) = Out(at1) \ {b}
  BY <1>0, <1>6 DEF Becomes
<1>9. Held(at1, "global") = Held(at, "global")
  BY <1>0, <1>1, <1>5 DEF Held
<1>10. Exact(h, at, "global") => Exact(k, at2, "global")
  <2>1. ASSUME Exact(h, at, "global") PROVE Exact(h1, at1, "global")
    BY <1>0, <1>1, <1>2, <1>9, <2>1, ExactSame
  <2> QED BY <2>1, <1>1, <1>8 DEF Kept
<1>11. k.cache = [h.cache EXCEPT !["local"] = NoBlock, !["global"] = b]
  BY <1>0, <1>1, <1>2, <1>8
<1>12. MembersAt(h1, at1, "global") = MembersAt(h, at, "global")
  <2>1. Grouped(at1, "global") = Grouped(at, "global")
    BY <1>0, <1>1, <1>4 DEF ListsOf
  <2>2. h1.cache["global"] = h.cache["global"]
    BY <1>0, <1>1, <1>2
  <2> QED BY <2>1, <2>2 DEF MembersAt
<1>13. ListsOf(at2) = [ListsOf(at) EXCEPT !["local"] = @ \ {b}, !["global"] = MembersAt(h, at, "global")]
  BY <1>0, <1>1, <1>2, <1>4, <1>8, <1>12
<1>14. Out(at2) = Out(at)
  <2>1. b \notin Out(at)
    BY <1>0 DEF Out, Outside
  <2> QED BY <2>1, <1>4, <1>8
<1>15. MoveOf(h, at, b, k, at2)
  BY <1>0, <1>8, <1>10, <1>11, <1>13, <1>14 DEF MoveOf
<1>16. PutBack(h, at, b, h1, k, at2)
  BY <1>7, <1>8, <1>15 DEF PutBack, at1
<1> QED BY <1>16 DEF k

\* flush_block_slow takes the block alloc would take cells of.
LEMMA FlushBecomes ==
  ASSUME NEW h, NEW at, Sound(h, at), ListPop(h, "local").block # NoBlock
  PROVE  LET r == ListPop(h, "local")
         IN  /\ PopOf(h, at, "local", r.block) /\ r.block \in MembersAt(h, at, "local")
             /\ \E at2 : /\ MoveOf(h, at, r.block, ListPut(r.heap, "global", r.block), at2)
                         /\ Kept(h, at, ListPut(r.heap, "global", r.block), at2)
<1> DEFINE b == ListPop(h, "local").block
           h1 == ListPop(h, "local").heap
           at1 == [at EXCEPT ![b] = Outside]
           k == ListPut(h1, "global", b)
<1>1. "local" \in Lists /\ "global" \in Lists /\ "local" # "global"
  BY DEF Lists
<1>2. /\ PopOf(h, at, "local", b) /\ at[b][1] = "local"
      /\ Becomes(h, at, h1, at1, [h.cache EXCEPT !["local"] = NoBlock],
                 [ListsOf(at) EXCEPT !["local"] = @ \ {b}], h.used, Out(at) \cup {b})
  <2>1. LET r == ListPop(h, "local")  c == r.block
        IN  \/ /\ c = NoBlock /\ r.heap = h /\ h.cache["local"] = NoBlock
               /\ \A x \in Grouped(at, "local") : at[x][2] = EmptinessClasses + 1
            \/ /\ PopOf(h, at, "local", c) /\ at[c][1] = "local"
               /\ Becomes(h, at, r.heap, [at EXCEPT ![c] = Outside],
                          [h.cache EXCEPT !["local"] = NoBlock],
                          [ListsOf(at) EXCEPT !["local"] = @ \ {c}], h.used, Out(at) \cup {c})
    BY <1>1, PopBecomes
  <2> QED BY <2>1
<1>3. b \in SuperBlocks
  BY <1>2 DEF PopOf
<1>4. h1.ub["global"] = h.ub["global"] /\ h1.tb["global"] = h.tb["global"]
  <2>1. LET r == ListPop(h, "local")  k2 == r.heap  c == r.block
        IN  \/ /\ c = NoBlock /\ k2 = h /\ h.cache["local"] = NoBlock
               /\ \A x \in Grouped(at, "local") : at[x][2] = EmptinessClasses + 1
            \/ /\ PopOf(h, at, "local", c)
               /\ Sound(k2, [at EXCEPT ![c] = Outside])
               /\ k2.used = h.used /\ k2.cache = [h.cache EXCEPT !["local"] = NoBlock]
               /\ k2.ub = [h.ub EXCEPT !["local"] = @ - BytesOf(h, c)]
               /\ k2.tb = [h.tb EXCEPT !["local"] = @ - DataBytes]
    BY <1>1, ListPopSound
  <2>2. h1.ub = [h.ub EXCEPT !["local"] = @ - BytesOf(h, b)]
        /\ h1.tb = [h.tb EXCEPT !["local"] = @ - DataBytes]
    BY <2>1
  <2>3. h.ub \in [Lists -> Int] /\ h.tb \in [Lists -> Int]
    BY SoundTypes
  <2> HIDE DEF h1, b
  <2> QED BY <1>1, <2>2, <2>3
<1> HIDE DEF h1, b
<1>5. /\ Sound(h1, at1) /\ Kept(h, at, h1, at1) /\ h1.used = h.used
      /\ h1.cache = [h.cache EXCEPT !["local"] = NoBlock]
  BY <1>2 DEF Becomes
<1>6. \E at2 : MoveOf(h, at, b, k, at2) /\ Kept(h1, at1, k, at2)
  <2>1. TakenOut(h, at, b, h1)
    BY <1>2, <1>3, <1>4, <1>5 DEF TakenOut
  <2>2. \E at2 : PutBack(h, at, b, h1, k, at2)
    BY <2>1, MoveBecomes
  <2> QED BY <2>2 DEF PutBack
<1>7. \E at2 : MoveOf(h, at, b, k, at2) /\ Kept(h, at, k, at2)
  BY <1>5, <1>6, KeptThen
<1>8. b \in MembersAt(h, at, "local")
  <2>1. b \in Held(at, "local")
    BY <1>2, <1>3 DEF Held
  <2> QED BY <1>1, <2>1, HeldMembers
<1> QED BY <1>2, <1>7, <1>8 DEF b, h1, k

\* Pool::drop takes the cached block out, or the head of the first list that
\* has one.
DropOut(h) ==
  LET c == h.cache["local"]
      g == Min({i \in Groups : h.head["local"][i] # NoBlock})
  IN  IF c # NoBlock THEN [heap |-> [h EXCEPT !.cache["local"] = NoBlock], block |-> c]
      ELSE [heap |-> Pop(h, "local", g), block |-> h.head["local"][g]]

\* Pool::drop takes the cached block out first, then one of the first list in use.
LEMMA DropOutSound ==
  ASSUME NEW h, NEW at, Sound(h, at), MembersAt(h, at, "local") # {}
  PROVE  LET r == DropOut(h)
         IN  /\ r.block \in SuperBlocks /\ at[r.block][1] = "local"
             /\ h.cache["local"] # NoBlock => r.block = h.cache["local"]
             /\ Sound(r.heap, [at EXCEPT ![r.block] = Outside])
             /\ r.heap.cache = [h.cache EXCEPT !["local"] = NoBlock]
             /\ r.heap.used = h.used /\ r.heap.ub = h.ub /\ r.heap.tb = h.tb
<1> DEFINE b == DropOut(h).block
           k == DropOut(h).heap
           at1 == [at EXCEPT ![b] = Outside]
           c == h.cache["local"]
           T == {i \in Groups : h.head["local"][i] # NoBlock}
           g == Min(T)
<1>1. "local" \in Lists
  BY DEF Lists
<1>2. /\ h \in Heaps /\ at \in [SuperBlocks -> Places] /\ h.cache \in [Lists -> Refs]
      /\ c # NoBlock => c \in SuperBlocks /\ at[c] = <<"local", Taken>>
      /\ NoBlock \in Refs
  BY <1>1, SoundTypes DEF Refs
<1>3. Shape(h, at) /\ Sorted(h, at) /\ CacheSound(h, at)
  BY DEF Sound
<1>4. CASE c # NoBlock
  <2>1. b = c /\ k = [h EXCEPT !.cache["local"] = NoBlock]
    BY <1>4 DEF DropOut
  <2>2. /\ k \in Heaps
        /\ k.prev = h.prev /\ k.next = h.next /\ k.head = h.head
        /\ k.group = h.group /\ k.used = h.used /\ k.ub = h.ub /\ k.tb = h.tb
        /\ k.cache = [h.cache EXCEPT !["local"] = NoBlock]
    <3>1. LET m == [h EXCEPT !.cache["local"] = NoBlock]
          IN  /\ m \in Heaps
              /\ m.prev = h.prev /\ m.next = h.next /\ m.head = h.head
              /\ m.group = h.group /\ m.used = h.used /\ m.ub = h.ub /\ m.tb = h.tb
              /\ m.cache = [h.cache EXCEPT !["local"] = NoBlock]
      BY <1>1, <1>2, CacheFields
    <3> HIDE DEF k
    <3> QED BY <2>1, <3>1
  <2> HIDE DEF k, b, c
  <2>3. at1 \in [SuperBlocks -> Places]
    BY <1>2 DEF Places
  <2>4. b \in SuperBlocks /\ at[b] = <<"local", Taken>>
    BY <1>2, <1>4, <2>1
  <2>5. Shape(k, at1)
    <3>1. \A x \in SuperBlocks : at1[x] # at[x] => at1[x][2] \notin Groups /\ at[x][2] \notin Groups
      BY <1>2, <2>4, NotTaken DEF Outside
    <3> HIDE DEF at1
    <3> QED BY <1>3, <2>2, <2>3, <3>1, ShapeSame
  <2>6. Sorted(k, at1)
    BY <1>2, <1>3, <2>2, <2>4, OutsideSorted
  <2>7. CacheSound(k, at1)
    <3> SUFFICES ASSUME NEW l \in Lists, NEW x \in SuperBlocks
                 PROVE  k.cache[l] = x <=> at1[x] = <<l, Taken>>
      BY DEF CacheSound
    <3>1. h.cache[l] = x <=> at[x] = <<l, Taken>>
      BY <1>3 DEF CacheSound
    <3>2. CASE x = b
      BY <1>1, <1>2, <2>1, <2>2, <2>4, <3>1, <3>2, Constants DEF Outside, Lists
    <3>3. CASE x # b
      <4>1. at1[x] = at[x]
        BY <3>3, <1>2
      <4>2. CASE l = "local"
        BY <4>1, <4>2, <1>1, <1>2, <2>1, <2>2, <3>1, <3>3, Constants DEF c
      <4>3. CASE l # "local"
        BY <4>1, <4>3, <1>1, <1>2, <2>2, <3>1
      <4> QED BY <4>2, <4>3
    <3> QED BY <3>2, <3>3
  <2>8. Sound(k, at1)
    BY <2>5, <2>6, <2>7 DEF Sound
  <2>9. at[b][1] = "local"
    BY <2>4
  <2> QED BY <2>1, <2>2, <2>4, <2>8, <2>9 DEF k, b, c
<1>5. CASE c = NoBlock
  <2>1. b = h.head["local"][g] /\ k = Pop(h, "local", g)
    BY <1>5 DEF DropOut
  <2>2. T # {}
    <3>1. PICK x : x \in Grouped(at, "local")
      BY <1>5 DEF MembersAt
    <3>2. x \in SuperBlocks /\ at[x][1] = "local" /\ at[x][2] \in Groups
      BY <3>1 DEF Grouped
    <3>3. at[x] = <<"local", at[x][2]>>
      <4>1. at[x] \in Places
        BY <1>2, <3>2
      <4> QED BY <4>1, <3>2, NotTaken DEF Places, Outside
    <3>4. x \in At(at, "local", at[x][2])
      BY <3>2, <3>3 DEF At
    <3>5. h.head["local"][at[x][2]] # NoBlock
      BY <1>1, <1>3, <3>2, <3>4, EmptyList
    <3> QED BY <3>2, <3>5
  <2>3. g \in T
    <3>1. T \in SUBSET Nat
      BY NotTaken
    <3> HIDE DEF T
    <3>2. \E m \in T : \A n \in T : m <= n
      BY <2>2, <3>1, NatMin
    <3> QED BY <3>2 DEF Min
  <2>4. g \in Groups /\ h.head["local"][g] # NoBlock
    BY <2>3
  <2> HIDE DEF g, T
  <2>5. /\ b \in SuperBlocks /\ at[b] = <<"local", g>> /\ Shape(k, at1)
        /\ SameBut(h, k) /\ k.group = h.group
    <3> DEFINE e == h.head["local"][g]
    <3>1. /\ e \in SuperBlocks /\ at[e] = <<"local", g>>
          /\ Shape(Pop(h, "local", g), [at EXCEPT ![e] = Outside])
          /\ SameBut(h, Pop(h, "local", g)) /\ Pop(h, "local", g).group = h.group
      BY <1>1, <1>3, <2>4, PopShape
    <3> HIDE DEF b, k
    <3> QED BY <2>1, <3>1
  <2> HIDE DEF k, b, c
  <2>6. Sorted(k, at1)
    BY <1>2, <1>3, <2>5, OutsideSorted DEF SameBut
  <2>7. CacheSound(k, at1)
    <3> SUFFICES ASSUME NEW l \in Lists, NEW x \in SuperBlocks
                 PROVE  k.cache[l] = x <=> at1[x] = <<l, Taken>>
      BY DEF CacheSound
    <3>1. h.cache[l] = x <=> at[x] = <<l, Taken>>
      BY <1>3 DEF CacheSound
    <3>2. k.cache = h.cache
      BY <2>5 DEF SameBut
    <3>3. CASE x = b
      <4>1. at1[x] = Outside /\ at[x] = <<"local", g>> /\ g # Taken
        BY <3>3, <1>2, <2>4, <2>5, NotTaken
      <4>2. at1[x] # <<l, Taken>> /\ at[x] # <<l, Taken>>
        BY <4>1 DEF Outside, Lists
      <4> QED BY <3>1, <3>2, <4>2
    <3>4. CASE x # b
      BY <1>2, <3>1, <3>2, <3>4
    <3> QED BY <3>3, <3>4
  <2>8. Sound(k, at1)
    BY <2>5, <2>6, <2>7 DEF Sound
  <2>9. at[b][1] = "local" /\ k.cache = [h.cache EXCEPT !["local"] = NoBlock]
    <3>1. h.cache = [h.cache EXCEPT !["local"] = NoBlock]
      BY <1>1, <1>2, <1>5 DEF c
    <3> QED BY <2>5, <3>1 DEF SameBut
  <2>10. k.used = h.used /\ k.ub = h.ub /\ k.tb = h.tb /\ h.cache["local"] = NoBlock
    BY <1>5, <2>5 DEF SameBut, c
  <2> QED BY <2>5, <2>8, <2>9, <2>10 DEF k, b
<1> QED BY <1>4, <1>5

\* Drop moves it to the global bin; the accounts of the local one stay.
LEMMA DropBecomes ==
  ASSUME NEW h, NEW at, Sound(h, at), MembersAt(h, at, "local") # {}
  PROVE  LET r == DropOut(h)
         IN  /\ r.block \in MembersAt(h, at, "local")
             /\ h.cache["local"] # NoBlock => r.block = h.cache["local"]
             /\ \E at2 : MoveOf(h, at, r.block, ListPut(r.heap, "global", r.block), at2)
             /\ ListPut(r.heap, "global", r.block).ub["local"] = h.ub["local"]
             /\ ListPut(r.heap, "global", r.block).tb["local"] = h.tb["local"]
<1> DEFINE b == DropOut(h).block
           h1 == DropOut(h).heap
           k == ListPut(h1, "global", b)
<1>1. "local" \in Lists
  BY DEF Lists
<1>2. /\ b \in SuperBlocks /\ at[b][1] = "local"
      /\ h.cache["local"] # NoBlock => b = h.cache["local"]
      /\ Sound(h1, [at EXCEPT ![b] = Outside])
      /\ h1.cache = [h.cache EXCEPT !["local"] = NoBlock]
      /\ h1.used = h.used /\ h1.ub = h.ub /\ h1.tb = h.tb
  <2>1. LET r == DropOut(h)
        IN  /\ r.block \in SuperBlocks /\ at[r.block][1] = "local"
            /\ h.cache["local"] # NoBlock => r.block = h.cache["local"]
            /\ Sound(r.heap, [at EXCEPT ![r.block] = Outside])
            /\ r.heap.cache = [h.cache EXCEPT !["local"] = NoBlock]
            /\ r.heap.used = h.used /\ r.heap.ub = h.ub /\ r.heap.tb = h.tb
    BY DropOutSound
  <2> QED BY <2>1
<1> HIDE DEF b, h1
<1>3. \E at2 : /\ MoveOf(h, at, b, k, at2)
               /\ k.ub["local"] = h1.ub["local"] /\ k.tb["local"] = h1.tb["local"]
  <2>1. TakenOut(h, at, b, h1)
    BY <1>2 DEF TakenOut
  <2>2. \E at2 : PutBack(h, at, b, h1, k, at2)
    BY <2>1, MoveBecomes
  <2> QED BY <2>2 DEF PutBack
<1>4. b \in MembersAt(h, at, "local")
  <2>1. b \in Held(at, "local")
    BY <1>2 DEF Held
  <2> QED BY <1>1, <2>1, HeldMembers
<1> QED BY <1>2, <1>3, <1>4 DEF b, h1, k
----------------------------------------------------------------------------
\* The bins as sets

\* Walking the links finds the blocks of the lists.
LEMMA WalkIs ==
  ASSUME NEW h, NEW at, Sound(h, at), NEW l \in Lists, NEW g \in Groups
  PROVE  Walk(h, l, g) = At(at, l, g)
<1>1. h.next \in [SuperBlocks -> Refs] /\ At(at, l, g) \in SUBSET SuperBlocks
  BY DEF Sound, Shape, Heaps, At
<1>2. Listed(At(at, l, g), h.head[l][g], h.next, NoBlock)
  BY DEF Sound, Shape, Chained, Doubly
<1>3. DOMAIN h.next = SuperBlocks
  BY <1>1
<1>4. ListCells(h.head[l][g], h.next, NoBlock) = At(at, l, g)
  BY <1>1, <1>2, <1>3, Constants, ListedFollowed
<1> QED BY <1>4 DEF Walk

\* The blocks found by walking the links are those placed in the lists.
LEMMA InGroupsIs ==
  ASSUME NEW h, NEW at, Sound(h, at), NEW l \in Lists
  PROVE  InGroups(h, l) = Grouped(at, l)
<1>1. at \in [SuperBlocks -> Places] /\ Shape(h, at)
  BY DEF Sound, Shape
<1>2. \A g \in Groups : Walk(h, l, g) = At(at, l, g)
  BY WalkIs
<1>3. \A g \in Groups : h.head[l][g] = NoBlock <=> At(at, l, g) = {}
  BY <1>1, EmptyList
<1>4. \A b : b \in InGroups(h, l) <=> \E g \in Groups : b \in At(at, l, g)
  BY <1>2, <1>3 DEF InGroups
<1>5. ASSUME NEW b PROVE (\E g \in Groups : b \in At(at, l, g)) <=> b \in Grouped(at, l)
  <2>1. ASSUME NEW g \in Groups, b \in At(at, l, g) PROVE b \in Grouped(at, l)
    BY <2>1 DEF At, Grouped
  <2>2. ASSUME b \in Grouped(at, l) PROVE \E g \in Groups : b \in At(at, l, g)
    <3>1. b \in SuperBlocks /\ at[b][1] = l /\ at[b][2] \in Groups
      BY <2>2 DEF Grouped
    <3>2. at[b] = <<l, at[b][2]>>
      <4>1. at[b] \in Places
        BY <1>1, <3>1
      <4> QED BY <4>1, <3>1, NotTaken DEF Places, Outside
    <3> QED BY <3>1, <3>2 DEF At
  <2> QED BY <2>1, <2>2
<1> QED BY <1>4, <1>5

\* The same for both bins, with their caches.
LEMMA ListsAre ==
  ASSUME NEW h, NEW at, Sound(h, at)
  PROVE  /\ [l \in Lists |-> InGroups(h, l)] = ListsOf(at)
         /\ \A l \in Lists : Members(h, l) = MembersAt(h, at, l)
<1>1. \A l \in Lists : InGroups(h, l) = Grouped(at, l)
  BY InGroupsIs
<1> QED BY <1>1 DEF ListsOf, Members, MembersAt

\* The blocks alloc and pop may choose are those of the abstract bin.
LEMMA MostEmptyIs ==
  ASSUME NEW h, NEW at, Sound(h, at), NEW l \in Lists, NEW b
  PROVE  MostEmptyAt(at, l, b) <=>
           /\ b \in Grouped(at, l) /\ h.used[b] < Cells
           /\ \A a \in Grouped(at, l) : Sets!Group(h.used[b]) <= Sets!Group(h.used[a])
<1>1. \A x \in Grouped(at, l) : /\ at[x][2] = Sets!Group(h.used[x])
                                /\ at[x][2] <= EmptinessClasses <=> h.used[x] < Cells
  <2> SUFFICES ASSUME NEW x \in Grouped(at, l)
               PROVE  /\ at[x][2] = Sets!Group(h.used[x])
                      /\ at[x][2] <= EmptinessClasses <=> h.used[x] < Cells
    OBVIOUS
  <2>1. x \in SuperBlocks /\ at[x][2] \in Groups
    BY DEF Grouped
  <2>2. h.used[x] \in 0..Cells
    BY <2>1, SoundTypes
  <2>3. Group(h, x) = at[x][2]
    BY <2>1 DEF Sound, Sorted
  <2>4. /\ Group(h, x) = Sets!Group(h.used[x])
        /\ Group(h, x) <= EmptinessClasses <=> h.used[x] < Cells
    BY <2>2, GroupFacts
  <2> QED BY <2>3, <2>4
<1> QED BY <1>1 DEF MostEmptyAt

\* Every block has its place, and the accounts of the bins are exact, except
\* those of a bin that is being dropped.
Placed(at) ==
  /\ Sound(heap, at)
  /\ pr = Out(at) /\ \A b \in pr : heap.used[b] = 0
  /\ heap.ub \in [Lists -> Nat] /\ heap.tb \in [Lists -> Nat]
  /\ Exact(heap, at, "global")
  /\ busy # "drop" => Exact(heap, at, "local")
  /\ busy \in {"no", "alloc", "flush", "drop"}

\* The inductive invariant: some placement of the blocks explains the heap.
BinInv == \E at : Placed(at)

\* The refinement mapping in terms of places.
LEMMA SetsNow ==
  ASSUME NEW at, Placed(at)
  PROVE  /\ Sets!Bins = Lists
         /\ [l \in Lists |-> InGroups(heap, l)] = ListsOf(at)
         /\ \A l \in Lists : Sets!Members(l) = MembersAt(heap, at, l)
         /\ \A l \in Lists : \A b : b \in Sets!Emptiest(l) <=> MostEmptyAt(at, l, b)
         /\ \A l \in Lists : \A b : b \in Sets!MostEmpty(l) <=> PopOf(heap, at, l, b)
         /\ \A l \in Lists : Sets!CacheUsable(l) <=> Usable(heap, l)
<1>1. Sound(heap, at)
  BY DEF Placed
<1>2. Sets!Bins = Lists
  BY DEF Sets!Bins, Lists
<1>3. [l \in Lists |-> InGroups(heap, l)] = ListsOf(at)
  BY <1>1, ListsAre
<1>4. \A l \in Lists : [i \in Lists |-> InGroups(heap, i)][l] = Grouped(at, l)
  BY <1>3 DEF ListsOf
<1>5. \A l \in Lists : Sets!Members(l) = MembersAt(heap, at, l)
  BY <1>4 DEF Sets!Members, MembersAt
<1>6. ASSUME NEW l \in Lists, NEW b PROVE b \in Sets!Emptiest(l) <=> MostEmptyAt(at, l, b)
  <2>1. MostEmptyAt(at, l, b) <=>
           /\ b \in Grouped(at, l) /\ heap.used[b] < Cells
           /\ \A a \in Grouped(at, l) : Sets!Group(heap.used[b]) <= Sets!Group(heap.used[a])
    BY <1>1, MostEmptyIs
  <2> QED BY <2>1, <1>4 DEF Sets!Emptiest
<1>7. ASSUME NEW l \in Lists, NEW b PROVE b \in Sets!MostEmpty(l) <=> PopOf(heap, at, l, b)
  <2>1. heap.cache[l] # NoBlock => heap.cache[l] \in SuperBlocks
    BY <1>1, SoundTypes
  <2>2. MostEmptyAt(at, l, b) => b \in SuperBlocks
    BY DEF MostEmptyAt, Grouped
  <2> QED BY <1>6, <2>1, <2>2 DEF Sets!MostEmpty, PopOf
<1>8. \A l \in Lists : Sets!CacheUsable(l) <=> Usable(heap, l)
  BY DEF Sets!CacheUsable, Usable
<1> QED BY <1>2, <1>3, <1>5, <1>6, <1>7, <1>8
----------------------------------------------------------------------------
\* What the actions preserve, and what they are to the abstract bin

\* A step that is not part of a drop, after which every bin that was exact is.
LEMMA PlacedNext ==
  ASSUME NEW at, Placed(at), NEW at2, Sound(heap', at2), Kept(heap, at, heap', at2),
         busy # "drop", busy' \in {"no", "alloc", "flush", "drop"},
         pr' = Out(at2), \A b \in pr' : heap'.used[b] = 0
  PROVE  Placed(at2)'
<1>1. Lists = {"local", "global"} /\ \A l \in Lists : Exact(heap, at, l)
  BY DEF Lists, Placed
<1>2. \A l \in Lists : Exact(heap', at2, l)
  BY <1>1 DEF Kept
<1>3. heap' \in Heaps /\ heap'.ub \in [Lists -> Int] /\ heap'.tb \in [Lists -> Int]
  BY SoundTypes
<1>4. \A l \in Lists : heap'.ub[l] \in Nat /\ heap'.tb[l] \in Nat
  BY <1>2, <1>3, ExactNat
<1>5. heap'.ub \in [Lists -> Nat] /\ heap'.tb \in [Lists -> Nat]
  BY <1>3, <1>4
<1> QED BY <1>1, <1>2, <1>5 DEF Placed

\* Pool::alloc_cell out of the local bin implements an allocation of the sets.
LEMMA AllocStep ==
  ASSUME NEW at, Placed(at), Alloc
  PROVE  BinInv' /\ Sets!Next
<1>0. Sound(heap, at) /\ "local" \in Lists /\ busy # "drop" /\ pr = Out(at)
      /\ \A b \in pr : heap.used[b] = 0
  BY DEF Placed, Lists, Alloc
<1>1. heap' = ListAlloc(heap, "local").heap /\ ListAlloc(heap, "local").ok /\ busy' = "no" /\ pr' = pr
  BY DEF Alloc
<1>2. AllocOf(heap, at, "local", ListAlloc(heap, "local").heap, ListAlloc(heap, "local").ok)
  BY <1>0, AllocBecomes
<1>3. heap.used \in [SuperBlocks -> 0..Cells] /\ heap.cache \in [Lists -> Refs]
  BY <1>0, SoundTypes
<1>4. CASE /\ Usable(heap, "local")
           /\ Becomes(heap, at, heap', at, heap.cache, ListsOf(at),
                      [heap.used EXCEPT ![heap.cache["local"]] = @ + 1], Out(at))
  <2>1. /\ Sound(heap', at) /\ Kept(heap, at, heap', at) /\ heap'.cache = heap.cache
        /\ heap'.used = [heap.used EXCEPT ![heap.cache["local"]] = @ + 1]
    BY <1>4 DEF Becomes
  <2>2. at[heap.cache["local"]] = <<"local", Taken>>
    BY <1>0, <1>4, SoundTypes DEF Usable
  <2>3. \A b \in pr' : heap'.used[b] = 0
    BY <1>0, <1>1, <1>3, <2>1, <2>2 DEF Out, Outside
  <2>4. Placed(at)'
    <3>1. pr' = Out(at) /\ busy' \in {"no", "alloc", "flush", "drop"} /\ busy # "drop"
      BY <1>0, <1>1
    <3> QED BY <2>1, <2>3, <3>1, PlacedNext
  <2>5. [l \in Lists |-> InGroups(heap', l)] = [l \in Lists |-> InGroups(heap, l)]
    BY <1>0, <2>1, ListsAre
  <2>6. Sets!CacheUsable("local")
    BY <1>0, <1>4, SetsNow
  <2>7. Sets!AllocFromCache
    BY <1>1, <2>1, <2>5, <2>6 DEF Sets!AllocFromCache
  <2> QED BY <2>4, <2>7 DEF BinInv, Sets!Next
<1>5. ASSUME NEW b \in SuperBlocks, ~Usable(heap, "local"), MostEmptyAt(at, "local", b),
             Becomes(heap, at, heap', PutAt(heap, at, "local", b), [heap.cache EXCEPT !["local"] = b],
                     [ListsOf(at) EXCEPT !["local"] = MembersAt(heap, at, "local") \ {b}],
                     [heap.used EXCEPT ![b] = @ + 1], Out(at))
      PROVE  BinInv' /\ Sets!Next
  <2>0. PICK at2 : at2 = PutAt(heap, at, "local", b)
    OBVIOUS
  <2>1. /\ Sound(heap', at2) /\ Kept(heap, at, heap', at2)
        /\ heap'.cache = [heap.cache EXCEPT !["local"] = b]
        /\ ListsOf(at2) = [ListsOf(at) EXCEPT !["local"] = MembersAt(heap, at, "local") \ {b}]
        /\ heap'.used = [heap.used EXCEPT ![b] = @ + 1] /\ Out(at2) = Out(at)
    BY <1>5, <2>0 DEF Becomes
  <2>2. b \notin Out(at)
    BY <1>5 DEF MostEmptyAt, Grouped, Out, Outside
  <2>3. \A x \in pr' : heap'.used[x] = 0
    <3>1. \A x \in Out(at) : x \in SuperBlocks
      BY DEF Out
    <3> QED BY <1>0, <1>1, <1>3, <2>1, <2>2, <3>1
  <2>4. Placed(at2)'
    BY <1>0, <1>1, <2>1, <2>3, PlacedNext
  <2>5. [l \in Lists |-> InGroups(heap', l)]
          = [[l \in Lists |-> InGroups(heap, l)] EXCEPT !["local"] = Sets!Members("local") \ {b}]
    <3>1. [l \in Lists |-> InGroups(heap', l)] = ListsOf(at2)
      BY <2>1, ListsAre
    <3>2. [l \in Lists |-> InGroups(heap, l)] = ListsOf(at)
          /\ Sets!Members("local") = MembersAt(heap, at, "local")
      BY <1>0, SetsNow
    <3> QED BY <3>1, <3>2, <2>1
  <2>6. ~Sets!CacheUsable("local") /\ b \in Sets!Emptiest("local")
    BY <1>0, <1>5, SetsNow
  <2>7. Sets!AllocFromList
    BY <1>1, <2>1, <2>5, <2>6 DEF Sets!AllocFromList
  <2> QED BY <2>4, <2>7 DEF BinInv, Sets!Next
<1> QED
  <2>1. \/ /\ Usable(heap, "local")
           /\ Becomes(heap, at, heap', at, heap.cache, ListsOf(at),
                      [heap.used EXCEPT ![heap.cache["local"]] = @ + 1], Out(at))
        \/ \E b \in SuperBlocks :
             /\ ~Usable(heap, "local") /\ MostEmptyAt(at, "local", b)
             /\ Becomes(heap, at, heap', PutAt(heap, at, "local", b), [heap.cache EXCEPT !["local"] = b],
                        [ListsOf(at) EXCEPT !["local"] = MembersAt(heap, at, "local") \ {b}],
                        [heap.used EXCEPT ![b] = @ + 1], Out(at))
    BY <1>1, <1>2 DEF AllocOf
  <2> QED BY <2>1, <1>4, <1>5

\* What the guards of the other allocations say.
LEMMA NotServed ==
  ASSUME NEW at, Placed(at), ~ListAlloc(heap, "local").ok
  PROVE  LET g == ListPop(ListAlloc(heap, "local").heap, "global")
         IN  /\ ~Sets!CacheUsable("local") /\ Sets!Emptiest("local") = {}
             /\ \/ FoundOf(heap, at, g) /\ g.block \in Sets!MostEmpty("global")
                \/ NoneOf(heap, at, g) /\ Sets!MostEmpty("global") = {}
<1> DEFINE g == ListPop(ListAlloc(heap, "local").heap, "global")
<1>0. Sound(heap, at) /\ "local" \in Lists /\ "global" \in Lists
  BY DEF Placed, Lists
<1>1. /\ ~Usable(heap, "local")
      /\ \A x \in Grouped(at, "local") : at[x][2] = EmptinessClasses + 1
      /\ FoundOf(heap, at, g) \/ NoneOf(heap, at, g)
  BY <1>0, RefillBecomes
<1> HIDE DEF g
<1>2. ~Sets!CacheUsable("local")
  BY <1>0, <1>1, SetsNow
<1>3. \A l \in Lists : (\A x \in Grouped(at, l) : at[x][2] = EmptinessClasses + 1) =>
        \A b : ~MostEmptyAt(at, l, b)
  BY DEF MostEmptyAt, EmptinessClasses
<1>4. Sets!Emptiest("local") = {}
  BY <1>0, <1>1, <1>3, SetsNow
<1>5. FoundOf(heap, at, g) => g.block \in Sets!MostEmpty("global")
  BY <1>0, SetsNow DEF FoundOf
<1>6. NoneOf(heap, at, g) => Sets!MostEmpty("global") = {}
  <2> SUFFICES ASSUME NoneOf(heap, at, g) PROVE \A b : ~PopOf(heap, at, "global", b)
    BY <1>0, SetsNow
  <2> QED BY <1>0, <1>3 DEF NoneOf, PopOf
<1> QED BY <1>1, <1>2, <1>4, <1>5, <1>6 DEF g

\* A refill from the global bin implements a move of the sets.
LEMMA RefillGlobalStep ==
  ASSUME NEW at, Placed(at), RefillFromGlobal
  PROVE  BinInv' /\ Sets!Next
<1> DEFINE g == ListPop(ListAlloc(heap, "local").heap, "global")
<1>0. /\ ~ListAlloc(heap, "local").ok /\ g.block # NoBlock
      /\ heap' = ListPut(g.heap, "local", g.block)
      /\ busy \in {"no", "alloc"} /\ busy' = "alloc" /\ pr' = pr
  BY DEF RefillFromGlobal
<1>1. LET p == ListPop(ListAlloc(heap, "local").heap, "global")
      IN  /\ ~Sets!CacheUsable("local") /\ Sets!Emptiest("local") = {}
          /\ \/ FoundOf(heap, at, p) /\ p.block \in Sets!MostEmpty("global")
             \/ NoneOf(heap, at, p) /\ Sets!MostEmpty("global") = {}
  BY <1>0, NotServed
<1>2. /\ ~Sets!CacheUsable("local") /\ Sets!Emptiest("local") = {}
      /\ \/ FoundOf(heap, at, g) /\ g.block \in Sets!MostEmpty("global")
         \/ NoneOf(heap, at, g) /\ Sets!MostEmpty("global") = {}
  BY <1>1
<1> HIDE DEF g
<1>3. PICK b : b = g.block
  OBVIOUS
<1>4. FoundOf(heap, at, g) /\ b \in Sets!MostEmpty("global")
  BY <1>0, <1>2, <1>3 DEF NoneOf
<1>5. PICK at2 : Becomes(heap, at, heap', at2,
                         [heap.cache EXCEPT !["local"] = b, !["global"] = NoBlock],
                         [l \in Lists |-> MembersAt(heap, at, l) \ {b}], heap.used, Out(at))
  BY <1>0, <1>3, <1>4 DEF FoundOf
<1>6. /\ Sound(heap', at2) /\ Kept(heap, at, heap', at2)
      /\ heap'.cache = [heap.cache EXCEPT !["local"] = b, !["global"] = NoBlock]
      /\ ListsOf(at2) = [l \in Lists |-> MembersAt(heap, at, l) \ {b}]
      /\ heap'.used = heap.used /\ Out(at2) = Out(at)
  BY <1>5 DEF Becomes
<1>7. Placed(at2)'
  <2>1. /\ pr' = Out(at2) /\ \A x \in pr' : heap'.used[x] = 0
        /\ busy' \in {"no", "alloc", "flush", "drop"} /\ busy # "drop"
    BY <1>0, <1>6 DEF Placed
  <2> QED BY <1>6, <2>1, PlacedNext
<1>8. [l \in Lists |-> InGroups(heap', l)] = [l \in Sets!Bins |-> Sets!Members(l) \ {b}]
  <2>1. [l \in Lists |-> InGroups(heap', l)] = ListsOf(at2)
    BY <1>6, ListsAre
  <2>2. \A l \in Lists : Sets!Members(l) = MembersAt(heap, at, l)
    BY SetsNow
  <2>3. Sets!Bins = Lists
    BY SetsNow
  <2> QED BY <1>6, <2>1, <2>2, <2>3
<1>9. heap'.cache = [l \in Sets!Bins |-> IF l = "local" THEN b
                                         ELSE IF heap.cache[l] = b THEN NoBlock ELSE heap.cache[l]]
  <2>1. heap.cache \in [Lists -> Refs] /\ Lists = {"local", "global"}
    BY SoundTypes DEF Placed, Lists
  <2>2. Sets!Bins = Lists
    BY SetsNow
  <2>3. heap.cache["global"] = b \/ heap.cache["global"] = NoBlock
    BY <1>3, <1>4 DEF FoundOf, PopOf
  <2> QED BY <1>6, <2>1, <2>2, <2>3
<1>10. Sets!Refill
  BY <1>0, <1>2, <1>4, <1>6, <1>8, <1>9 DEF Sets!Refill
<1> QED BY <1>7, <1>10 DEF BinInv, Sets!Next

\* A refill from the page resource implements an acquisition of the sets.
LEMMA RefillFreshStep ==
  ASSUME NEW at, Placed(at), RefillFresh
  PROVE  BinInv' /\ Sets!Next
<1> DEFINE g == ListPop(ListAlloc(heap, "local").heap, "global")
<1>0. /\ ~ListAlloc(heap, "local").ok /\ g.block = NoBlock
      /\ busy \in {"no", "alloc"} /\ busy' = "alloc"
  BY DEF RefillFresh
<1>a. PICK b \in pr : /\ heap' = ListPut([g.heap EXCEPT !.used[b] = 0], "local", b)
                      /\ pr' = pr \ {b}
  BY DEF RefillFresh
<1>1. LET p == ListPop(ListAlloc(heap, "local").heap, "global")
      IN  /\ ~Sets!CacheUsable("local") /\ Sets!Emptiest("local") = {}
          /\ \/ FoundOf(heap, at, p) /\ p.block \in Sets!MostEmpty("global")
             \/ NoneOf(heap, at, p) /\ Sets!MostEmpty("global") = {}
  BY <1>0, NotServed
<1>2. /\ ~Sets!CacheUsable("local") /\ Sets!Emptiest("local") = {}
      /\ \/ FoundOf(heap, at, g) /\ g.block \in Sets!MostEmpty("global")
         \/ NoneOf(heap, at, g) /\ Sets!MostEmpty("global") = {}
  BY <1>1
<1> HIDE DEF g
<1>3. NoneOf(heap, at, g) /\ Sets!MostEmpty("global") = {}
  BY <1>0, <1>2 DEF FoundOf
<1>4. PICK k : k = g.heap
  OBVIOUS
<1>5. PICK at1 : Becomes(heap, at, k, at1, [heap.cache EXCEPT !["local"] = NoBlock],
                         [ListsOf(at) EXCEPT !["local"] = MembersAt(heap, at, "local")],
                         heap.used, Out(at))
  BY <1>3, <1>4 DEF NoneOf
<1>6. /\ Sound(k, at1) /\ Kept(heap, at, k, at1)
      /\ k.cache = [heap.cache EXCEPT !["local"] = NoBlock]
      /\ ListsOf(at1) = [ListsOf(at) EXCEPT !["local"] = MembersAt(heap, at, "local")]
      /\ k.used = heap.used /\ Out(at1) = Out(at)
  BY <1>5 DEF Becomes
<1>7. b \in SuperBlocks /\ at1[b] = Outside /\ k.used[b] = 0 /\ b \in Out(at)
  <2>1. b \in Out(at1) /\ b \in Out(at) /\ k.used[b] = 0
    BY <1>6 DEF Placed
  <2> QED BY <2>1 DEF Out
<1>8. PICK at2 : Becomes(k, at1, heap', at2, [k.cache EXCEPT !["local"] = b],
                         [ListsOf(at1) EXCEPT !["local"] = MembersAt(k, at1, "local")],
                         k.used, Out(at1) \ {b})
  <2>1. \E at2 : Becomes(k, at1, ListPut([k EXCEPT !.used[b] = 0], "local", b), at2,
                         [k.cache EXCEPT !["local"] = b],
                         [ListsOf(at1) EXCEPT !["local"] = MembersAt(k, at1, "local")],
                         k.used, Out(at1) \ {b})
    BY <1>6, <1>7, FreshBecomes
  <2>2. heap' = ListPut([k EXCEPT !.used[b] = 0], "local", b)
    BY <1>a, <1>4
  <2> QED BY <2>1, <2>2
<1>9. /\ Sound(heap', at2) /\ Kept(k, at1, heap', at2)
      /\ heap'.cache = [k.cache EXCEPT !["local"] = b]
      /\ ListsOf(at2) = [ListsOf(at1) EXCEPT !["local"] = MembersAt(k, at1, "local")]
      /\ heap'.used = k.used /\ Out(at2) = Out(at1) \ {b}
  BY <1>8 DEF Becomes
<1>10. Kept(heap, at, heap', at2)
  BY <1>6, <1>9, KeptThen
<1>11. Placed(at2)'
  <2>1. /\ pr' = Out(at2) /\ \A x \in pr' : heap'.used[x] = 0
        /\ busy' \in {"no", "alloc", "flush", "drop"} /\ busy # "drop"
    BY <1>0, <1>a, <1>6, <1>9 DEF Placed
  <2> QED BY <1>9, <1>10, <2>1, PlacedNext
<1>12. heap.cache \in [Lists -> Refs] /\ "local" \in Lists
  BY SoundTypes DEF Placed, Lists
<1>13. MembersAt(k, at1, "local") = MembersAt(heap, at, "local")
  <2>1. Grouped(at1, "local") = MembersAt(heap, at, "local") /\ k.cache["local"] = NoBlock
    BY <1>6, <1>12 DEF ListsOf
  <2> QED BY <2>1 DEF MembersAt
<1>14. [l \in Lists |-> InGroups(heap', l)]
         = [[l \in Lists |-> InGroups(heap, l)] EXCEPT !["local"] = Sets!Members("local")]
  <2>1. [l \in Lists |-> InGroups(heap', l)] = ListsOf(at2)
    BY <1>9, ListsAre
  <2>2. [l \in Lists |-> InGroups(heap, l)] = ListsOf(at)
        /\ Sets!Members("local") = MembersAt(heap, at, "local")
    BY <1>12, SetsNow
  <2> QED BY <1>6, <1>9, <1>13, <2>1, <2>2
<1>15. heap'.cache = [heap.cache EXCEPT !["local"] = b]
  BY <1>6, <1>9, <1>12
<1>16. Sets!Refill
  BY <1>a, <1>2, <1>3, <1>6, <1>9, <1>14, <1>15 DEF Sets!Refill
<1> QED BY <1>11, <1>16 DEF BinInv, Sets!Next

\* A refused allocation implements one of the sets.
LEMMA AllocFailsStep ==
  ASSUME NEW at, Placed(at), AllocFails
  PROVE  BinInv' /\ Sets!Next
<1> DEFINE g == ListPop(ListAlloc(heap, "local").heap, "global")
<1>0. /\ ~ListAlloc(heap, "local").ok /\ g.block = NoBlock /\ heap' = g.heap
      /\ busy \in {"no", "alloc"} /\ busy' = "no" /\ pr = {} /\ pr' = pr
  BY DEF AllocFails
<1>1. LET p == ListPop(ListAlloc(heap, "local").heap, "global")
      IN  /\ ~Sets!CacheUsable("local") /\ Sets!Emptiest("local") = {}
          /\ \/ FoundOf(heap, at, p) /\ p.block \in Sets!MostEmpty("global")
             \/ NoneOf(heap, at, p) /\ Sets!MostEmpty("global") = {}
  BY <1>0, NotServed
<1>2. /\ ~Sets!CacheUsable("local") /\ Sets!Emptiest("local") = {}
      /\ \/ FoundOf(heap, at, g) /\ g.block \in Sets!MostEmpty("global")
         \/ NoneOf(heap, at, g) /\ Sets!MostEmpty("global") = {}
  BY <1>1
<1> HIDE DEF g
<1>3. NoneOf(heap, at, g)
  BY <1>0, <1>2 DEF FoundOf
<1>4. PICK at2 : Becomes(heap, at, heap', at2, [heap.cache EXCEPT !["local"] = NoBlock],
                         [ListsOf(at) EXCEPT !["local"] = MembersAt(heap, at, "local")],
                         heap.used, Out(at))
  BY <1>0, <1>3 DEF NoneOf
<1>5. /\ Sound(heap', at2) /\ Kept(heap, at, heap', at2)
      /\ heap'.cache = [heap.cache EXCEPT !["local"] = NoBlock]
      /\ ListsOf(at2) = [ListsOf(at) EXCEPT !["local"] = MembersAt(heap, at, "local")]
      /\ heap'.used = heap.used /\ Out(at2) = Out(at)
  BY <1>4 DEF Becomes
<1>6. Placed(at2)'
  <2>1. /\ pr' = Out(at2) /\ \A x \in pr' : heap'.used[x] = 0
        /\ busy' \in {"no", "alloc", "flush", "drop"} /\ busy # "drop"
    BY <1>0, <1>5 DEF Placed
  <2> QED BY <1>5, <2>1, PlacedNext
<1>7. [l \in Lists |-> InGroups(heap', l)]
        = [[l \in Lists |-> InGroups(heap, l)] EXCEPT !["local"] = Sets!Members("local")]
  <2>1. [l \in Lists |-> InGroups(heap', l)] = ListsOf(at2)
    BY <1>5, ListsAre
  <2>2. [l \in Lists |-> InGroups(heap, l)] = ListsOf(at)
        /\ Sets!Members("local") = MembersAt(heap, at, "local")
    BY SetsNow DEF Lists
  <2> QED BY <1>5, <2>1, <2>2
<1>8. Sets!Miss
  BY <1>0, <1>2, <1>5, <1>7 DEF Sets!Miss
<1> QED BY <1>6, <1>8 DEF BinInv, Sets!Next

\* A cell may come back to the global bin while the local one is dropped.
LEMMA FreeStep ==
  ASSUME NEW at, Placed(at), NEW l \in Lists, NEW b \in SuperBlocks,
         b \in Members(heap, l), heap.used[b] > 0, heap' = FreeCell(heap, l, b),
         pr' = (IF heap.used[b] = 1 THEN pr \cup {b} ELSE pr),
         busy' \in {"no", "alloc", "flush", "drop"},
         busy = "drop" => busy' = "drop" /\ l = "global"
  PROVE  BinInv' /\ Sets!Next
<1>0. Sound(heap, at) /\ pr = Out(at) /\ \A x \in pr : heap.used[x] = 0
  BY DEF Placed
<1>1. b \in MembersAt(heap, at, l)
  BY <1>0, ListsAre
<1>2. at[b][1] = l
  <2>1. b \in Held(at, l)
    BY <1>0, <1>1, HeldMembers
  <2> QED BY <2>1 DEF Held
<1>3. PICK at2 : FreeOf(heap, at, l, b, heap', at2)
  BY <1>0, <1>2, FreeBecomes
<1>4. /\ Sound(heap', at2) /\ Kept(heap, at, heap', at2)
      /\ heap'.used = [heap.used EXCEPT ![b] = @ - 1]
      /\ heap.used[b] = 1 => /\ heap'.cache = [heap.cache EXCEPT ![l] = IF @ = b THEN NoBlock ELSE @]
                             /\ ListsOf(at2) = [ListsOf(at) EXCEPT ![l] = @ \ {b}]
                             /\ Out(at2) = Out(at) \cup {b}
      /\ heap.used[b] # 1 => /\ heap'.cache = heap.cache
                             /\ ListsOf(at2) = ListsOf(at) /\ Out(at2) = Out(at)
      /\ \A m \in Lists \ {l} : heap'.ub[m] = heap.ub[m] /\ heap'.tb[m] = heap.tb[m]
  BY <1>3 DEF FreeOf, Becomes
<1>5. heap.used \in [SuperBlocks -> 0..Cells]
  BY <1>0, SoundTypes
<1>6. pr' = Out(at2) /\ \A x \in pr' : heap'.used[x] = 0
  <2>1. pr' = Out(at2)
    BY <1>0, <1>4
  <2>2. b \notin Out(at) /\ Out(at) \subseteq SuperBlocks
    BY <1>2 DEF Out, Outside, Lists
  <2>3. \A x \in Out(at) : heap'.used[x] = 0
    BY <1>0, <1>4, <1>5, <2>2
  <2>4. heap.used[b] = 1 => heap'.used[b] = 0
    BY <1>4, <1>5
  <2> QED BY <1>4, <2>1, <2>3, <2>4
<1>7. Placed(at2)'
  <2>1. CASE busy # "drop"
    BY <1>4, <1>6, <2>1, PlacedNext
  <2>2. CASE busy = "drop"
    <3>1. l = "global" /\ busy' = "drop" /\ "global" \in Lists /\ "local" \in Lists \ {"global"}
          /\ Lists = {"local", "global"}
      BY <2>2 DEF Lists
    <3>2. Exact(heap', at2, "global")
      BY <1>4, <3>1 DEF Kept, Placed
    <3>3. heap' \in Heaps /\ heap'.ub \in [Lists -> Int] /\ heap'.tb \in [Lists -> Int]
      BY <1>4, SoundTypes
    <3>4. heap'.ub["global"] \in Nat /\ heap'.tb["global"] \in Nat
      BY <3>1, <3>2, <3>3, ExactNat
    <3>5. heap'.ub["local"] \in Nat /\ heap'.tb["local"] \in Nat
      BY <1>4, <3>1 DEF Placed
    <3>6. heap'.ub \in [Lists -> Nat] /\ heap'.tb \in [Lists -> Nat]
      BY <3>1, <3>3, <3>4, <3>5
    <3> QED BY <1>4, <1>6, <3>1, <3>2, <3>6 DEF Placed
  <2> QED BY <2>1, <2>2
<1>8. /\ [i \in Lists |-> InGroups(heap', i)] = ListsOf(at2)
      /\ [i \in Lists |-> InGroups(heap, i)] = ListsOf(at)
      /\ Sets!Bins = Lists /\ Sets!Members(l) = MembersAt(heap, at, l)
  BY <1>4, ListsAre, SetsNow
<1>9. Sets!Free(l, b)
  <2>1. CASE heap.used[b] = 1
    BY <1>1, <1>4, <1>8, <2>1 DEF Sets!Free
  <2>2. CASE heap.used[b] # 1
    BY <1>1, <1>4, <1>8, <2>2 DEF Sets!Free
  <2> QED BY <2>1, <2>2
<1> QED BY <1>7, <1>8, <1>9 DEF BinInv, Sets!Next

\* What a move is to the abstract bin.
LEMMA MoveIs ==
  ASSUME NEW at, Placed(at), NEW b, NEW at2, MoveOf(heap, at, b, heap', at2),
         b \in MembersAt(heap, at, "local"),
         heap.cache["local"] # NoBlock => b = heap.cache["local"], pr' = pr
  PROVE  Sets!Next
<1>1. "local" \in Lists /\ "global" \in Lists /\ "local" # "global"
  BY DEF Lists
<1>2. /\ Sound(heap', at2)
      /\ heap'.cache = [heap.cache EXCEPT !["local"] = NoBlock, !["global"] = b]
      /\ ListsOf(at2) = [ListsOf(at) EXCEPT !["local"] = @ \ {b}, !["global"] = MembersAt(heap, at, "global")]
      /\ heap'.used = heap.used
  BY DEF MoveOf
<1>3. /\ [i \in Lists |-> InGroups(heap', i)] = ListsOf(at2)
      /\ [i \in Lists |-> InGroups(heap, i)] = ListsOf(at)
      /\ Sets!Members("local") = MembersAt(heap, at, "local")
      /\ Sets!Members("global") = MembersAt(heap, at, "global")
  BY <1>1, <1>2, ListsAre, SetsNow
<1>4. [i \in Lists |-> InGroups(heap', i)]
        = [[i \in Lists |-> InGroups(heap, i)] EXCEPT !["local"] = @ \ {b}, !["global"] = Sets!Members("global")]
  BY <1>2, <1>3
<1>5. Sets!Move
  BY <1>2, <1>3, <1>4 DEF Sets!Move
<1> QED BY <1>5 DEF Sets!Next

\* A flush implements a move to the global bin, or nothing when the local bin is empty.
LEMMA FlushStep ==
  ASSUME NEW at, Placed(at), Flush
  PROVE  BinInv' /\ [Sets!Next]_(Sets!vars)
<1> DEFINE r == ListPop(heap, "local")
<1>0. /\ heap' = IF r.block = NoBlock THEN r.heap ELSE ListPut(r.heap, "global", r.block)
      /\ busy = "flush" /\ busy' = "no" /\ pr' = pr
  BY DEF Flush
<1>1. Sound(heap, at) /\ pr = Out(at) /\ "local" \in Lists /\ \A x \in pr : heap.used[x] = 0
  BY DEF Placed, Lists
<1>2. CASE r.block = NoBlock
  <2>1. heap' = heap
    <3>1. LET p == ListPop(heap, "local")  c == p.block
          IN  \/ /\ c = NoBlock /\ p.heap = heap /\ heap.cache["local"] = NoBlock
                 /\ \A x \in Grouped(at, "local") : at[x][2] = EmptinessClasses + 1
              \/ /\ PopOf(heap, at, "local", c) /\ at[c][1] = "local"
                 /\ Becomes(heap, at, p.heap, [at EXCEPT ![c] = Outside],
                            [heap.cache EXCEPT !["local"] = NoBlock],
                            [ListsOf(at) EXCEPT !["local"] = @ \ {c}], heap.used, Out(at) \cup {c})
      BY <1>1, PopBecomes
    <3> QED BY <1>0, <1>2, <3>1, Constants DEF PopOf
  <2> HIDE DEF r
  <2>2. Placed(at)'
    BY <1>0, <2>1 DEF Placed
  <2>3. UNCHANGED Sets!vars
    BY <1>0, <2>1 DEF Sets!vars
  <2> QED BY <2>2, <2>3 DEF BinInv
<1>3. CASE r.block # NoBlock
  <2>1. LET p == ListPop(heap, "local")
        IN  /\ PopOf(heap, at, "local", p.block) /\ p.block \in MembersAt(heap, at, "local")
            /\ \E at2 : /\ MoveOf(heap, at, p.block, ListPut(p.heap, "global", p.block), at2)
                        /\ Kept(heap, at, ListPut(p.heap, "global", p.block), at2)
    BY <1>1, <1>3, FlushBecomes
  <2>2. PICK b : b = r.block
    OBVIOUS
  <2>3. /\ PopOf(heap, at, "local", b) /\ b \in MembersAt(heap, at, "local")
        /\ \E at2 : MoveOf(heap, at, b, heap', at2) /\ Kept(heap, at, heap', at2)
    BY <1>0, <1>3, <2>1, <2>2
  <2> HIDE DEF r
  <2>4. PICK at2 : MoveOf(heap, at, b, heap', at2) /\ Kept(heap, at, heap', at2)
    BY <2>3
  <2>5. Placed(at2)'
    <3>1. /\ Sound(heap', at2) /\ pr' = Out(at2) /\ \A x \in pr' : heap'.used[x] = 0
          /\ busy # "drop" /\ busy' \in {"no", "alloc", "flush", "drop"}
      BY <1>0, <1>1, <2>4 DEF MoveOf
    <3> QED BY <2>4, <3>1, PlacedNext
  <2>6. Sets!Next
    <3>1. heap.cache["local"] # NoBlock => b = heap.cache["local"]
      BY <2>3 DEF PopOf
    <3> QED BY <1>0, <2>3, <2>4, <3>1, MoveIs
  <2> QED BY <2>5, <2>6 DEF BinInv
<1> QED BY <1>2, <1>3

\* A turn of Pool::drop implements a move to the global bin.
LEMMA DropStep ==
  ASSUME NEW at, Placed(at), Drop
  PROVE  BinInv' /\ Sets!Next
<1> DEFINE r == DropOut(heap)
<1>0. busy' = "drop" /\ pr' = pr /\ Members(heap, "local") # {}
  BY DEF Drop
<1>1. /\ Sound(heap, at) /\ pr = Out(at) /\ \A x \in pr : heap.used[x] = 0
      /\ "local" \in Lists /\ "global" \in Lists /\ Lists = {"local", "global"}
  BY DEF Placed, Lists
<1>2. heap' = ListPut(r.heap, "global", r.block)
  <2>1. CASE heap.cache["local"] # NoBlock
    BY <2>1 DEF Drop, DropOut
  <2>2. CASE heap.cache["local"] = NoBlock
    BY <2>2 DEF Drop, DropOut
  <2> QED BY <2>1, <2>2
<1>3. MembersAt(heap, at, "local") # {}
  BY <1>0, <1>1, ListsAre
<1>4. LET p == DropOut(heap)
      IN  /\ p.block \in MembersAt(heap, at, "local")
          /\ heap.cache["local"] # NoBlock => p.block = heap.cache["local"]
          /\ \E at2 : MoveOf(heap, at, p.block, ListPut(p.heap, "global", p.block), at2)
          /\ ListPut(p.heap, "global", p.block).ub["local"] = heap.ub["local"]
          /\ ListPut(p.heap, "global", p.block).tb["local"] = heap.tb["local"]
  BY <1>1, <1>3, DropBecomes
<1>5. PICK b : b = r.block
  OBVIOUS
<1>6. /\ b \in MembersAt(heap, at, "local")
      /\ heap.cache["local"] # NoBlock => b = heap.cache["local"]
      /\ \E at2 : MoveOf(heap, at, b, heap', at2)
      /\ heap'.ub["local"] = heap.ub["local"] /\ heap'.tb["local"] = heap.tb["local"]
  BY <1>2, <1>4, <1>5
<1> HIDE DEF r
<1>7. PICK at2 : MoveOf(heap, at, b, heap', at2)
  BY <1>6
<1>8. /\ Sound(heap', at2) /\ Exact(heap', at2, "global")
      /\ heap'.used = heap.used /\ Out(at2) = Out(at)
  BY <1>7 DEF MoveOf, Placed
<1>9. Placed(at2)'
  <2>1. heap' \in Heaps /\ heap'.ub \in [Lists -> Int] /\ heap'.tb \in [Lists -> Int]
    BY <1>8, SoundTypes
  <2>2. heap'.ub["global"] \in Nat /\ heap'.tb["global"] \in Nat
    BY <1>1, <1>8, <2>1, ExactNat
  <2>3. heap'.ub["local"] \in Nat /\ heap'.tb["local"] \in Nat
    BY <1>1, <1>6 DEF Placed
  <2>4. heap'.ub \in [Lists -> Nat] /\ heap'.tb \in [Lists -> Nat]
    BY <1>1, <2>1, <2>2, <2>3
  <2>5. pr' = Out(at2) /\ \A x \in pr' : heap'.used[x] = 0
    BY <1>0, <1>1, <1>8
  <2> QED BY <1>0, <1>8, <2>4, <2>5 DEF Placed
<1>10. Sets!Next
  BY <1>0, <1>6, <1>7, MoveIs
<1> QED BY <1>9, <1>10 DEF BinInv

\* The end of Pool::drop is a stutter of the sets.
LEMMA DropEndStep ==
  ASSUME NEW at, Placed(at), DropEnd
  PROVE  BinInv' /\ [Sets!Next]_(Sets!vars)
<1> DEFINE u == heap.ub["local"]
           t == heap.tb["local"]
<1>0. /\ heap' = [heap EXCEPT !.ub["local"] = 0, !.tb["local"] = 0]
      /\ busy = "drop" /\ busy' = "no" /\ pr' = pr /\ Members(heap, "local") = {}
  BY DEF DropEnd
<1>1. /\ Sound(heap, at) /\ pr = Out(at) /\ \A x \in pr : heap.used[x] = 0
      /\ "local" \in Lists /\ "global" \in Lists /\ Lists = {"local", "global"}
      /\ heap.ub \in [Lists -> Nat] /\ heap.tb \in [Lists -> Nat] /\ heap \in Heaps
  BY SoundTypes DEF Placed, Lists
<1>2. u \in Nat /\ t \in Nat /\ -u \in Int /\ -t \in Int
  BY <1>1
<1>3. heap' = Account(heap, "local", -u, -t)
  <2>1. heap.ub["local"] + (-u) = 0 /\ heap.tb["local"] + (-t) = 0
    BY <1>2
  <2>2. Account(heap, "local", -u, -t)
          = [heap EXCEPT !.ub["local"] = heap.ub["local"] + (-u), !.tb["local"] = heap.tb["local"] + (-t)]
    BY DEF Account
  <2> QED BY <1>0, <2>1, <2>2
<1>4. Sound(heap', at) /\ Accounted(heap, "local", -u, -t, heap')
  BY <1>1, <1>2, <1>3, AccountSound, AccountFields
<1>5. /\ heap'.used = heap.used /\ heap'.cache = heap.cache /\ heap' \in Heaps
      /\ heap'.ub = [heap.ub EXCEPT !["local"] = 0] /\ heap'.tb = [heap.tb EXCEPT !["local"] = 0]
  <2>1. /\ heap'.used = heap.used /\ heap'.cache = heap.cache /\ heap' \in Heaps
        /\ heap'.ub = [heap.ub EXCEPT !["local"] = @ + (-u)]
        /\ heap'.tb = [heap.tb EXCEPT !["local"] = @ + (-t)]
    BY <1>4 DEF Accounted
  <2>2. heap.ub["local"] + (-u) = 0 /\ heap.tb["local"] + (-t) = 0
    BY <1>2
  <2> QED BY <2>1, <2>2
<1>6. Exact(heap', at, "global")
  <2>1. heap'.ub["global"] = heap.ub["global"] /\ heap'.tb["global"] = heap.tb["global"]
    BY <1>1, <1>5
  <2>2. Exact(heap, at, "global")
    BY DEF Placed
  <2> QED BY <1>1, <1>5, <2>1, <2>2, ExactSame
<1>7. Exact(heap', at, "local")
  <2>1. Held(at, "local") = {}
    BY <1>0, <1>1, HeldMembers, ListsAre
  <2>2. Total(Bytes(heap'), {}) = 0 /\ Cardinality({}) = 0 /\ DataBytes * 0 = 0
    BY TotalNone, FS_EmptySet, Constants
  <2>3. heap'.ub["local"] = 0 /\ heap'.tb["local"] = 0
    BY <1>1, <1>5
  <2> QED BY <2>1, <2>2, <2>3 DEF Exact
<1>8. Placed(at)'
  <2>1. heap'.ub \in [Lists -> Nat] /\ heap'.tb \in [Lists -> Nat]
    BY <1>1, <1>5
  <2> QED BY <1>0, <1>1, <1>4, <1>5, <1>6, <1>7, <2>1 DEF Placed
<1>9. UNCHANGED Sets!vars
  <2>1. [i \in Lists |-> InGroups(heap', i)] = [i \in Lists |-> InGroups(heap, i)]
    BY <1>1, <1>4, ListsAre
  <2> QED BY <1>0, <1>5, <2>1 DEF Sets!vars
<1> QED BY <1>8, <1>9 DEF BinInv

\* A step that changes nothing keeps the invariant.
LEMMA StutterStep ==
  ASSUME NEW at, Placed(at), UNCHANGED binVars
  PROVE  BinInv' /\ [Sets!Next]_(Sets!vars)
<1>1. heap' = heap /\ pr' = pr /\ busy' = busy
  BY DEF binVars
<1>2. Placed(at)'
  BY <1>1 DEF Placed
<1>3. UNCHANGED Sets!vars
  BY <1>1 DEF Sets!vars
<1> QED BY <1>2, <1>3 DEF BinInv

\* Bins start empty, with every block outside.
LEMMA BinInitPlaced ==
  ASSUME BinInit
  PROVE  BinInv /\ Sets!Init
<1>1. PICK at : at = [b \in SuperBlocks |-> Outside]
  OBVIOUS
<1>2. /\ \A l \in Lists : Held(at, l) = {} /\ Grouped(at, l) = {}
      /\ \A l \in Lists, g \in Groups : At(at, l, g) = {}
      /\ Out(at) = SuperBlocks /\ at \in [SuperBlocks -> Places]
  BY <1>1 DEF Held, Grouped, At, Out, Outside, Lists, Places
<1>3. heap \in Heaps
  <2>1. 0 \in Groups /\ 0 \in 0..Cells /\ NoBlock \in Refs
    BY NotTaken, Constants DEF Refs
  <2> QED BY <2>1 DEF BinInit, Heaps
<1>4. /\ heap.head = [l \in Lists |-> [g \in Groups |-> NoBlock]]
      /\ heap.cache = [l \in Lists |-> NoBlock] /\ heap.used = [b \in SuperBlocks |-> 0]
      /\ heap.ub = [l \in Lists |-> 0] /\ heap.tb = [l \in Lists |-> 0]
      /\ pr = SuperBlocks /\ busy = "no"
  BY DEF BinInit
<1>5. Shape(heap, at)
  <2>1. ASSUME NEW l \in Lists, NEW g \in Groups PROVE Chained(heap, at, l, g)
    <3>1. Listed({}, NoBlock, heap.next, NoBlock)
      BY ListedNone
    <3>2. Doubly({}, NoBlock, heap.next, heap.prev, NoBlock)
      BY <3>1 DEF Doubly
    <3>3. heap.head[l][g] = NoBlock /\ At(at, l, g) = {}
      BY <1>2, <1>4
    <3> QED BY <3>2, <3>3 DEF Chained
  <2> QED BY <1>2, <1>3, <2>1 DEF Shape
<1>6. CacheSound(heap, at) /\ Sorted(heap, at)
  <2>1. CacheSound(heap, at)
    BY <1>1, <1>4, Constants DEF CacheSound, Outside, Lists
  <2>2. Sorted(heap, at)
    BY <1>1, NotTaken DEF Sorted, Outside
  <2> QED BY <2>1, <2>2
<1>7. Sound(heap, at)
  BY <1>5, <1>6 DEF Sound
<1>8. \A l \in Lists : Exact(heap, at, l)
  <2>1. Total(Bytes(heap), {}) = 0 /\ Cardinality({}) = 0 /\ DataBytes * 0 = 0
    BY TotalNone, FS_EmptySet, Constants
  <2> QED BY <1>2, <1>4, <2>1 DEF Exact
<1>9. Placed(at)
  BY <1>2, <1>4, <1>7, <1>8 DEF Placed, Lists
<1>10. [l \in Lists |-> InGroups(heap, l)] = [l \in Lists |-> {}]
  BY <1>2, <1>7, ListsAre DEF ListsOf
<1>11. Sets!Init
  BY <1>4, <1>10 DEF Sets!Init, Sets!Bins, Lists
<1> QED BY <1>9, <1>11 DEF BinInv

\* Every step keeps the invariant and implements a step or a stutter of the sets.
LEMMA BinStep ==
  ASSUME BinInv, [BinNext]_binVars
  PROVE  BinInv' /\ [Sets!Next]_(Sets!vars)
<1>1. PICK at : Placed(at)
  BY DEF BinInv
<1>2. CASE Alloc
  BY <1>1, <1>2, AllocStep
<1>3. CASE RefillFromGlobal
  BY <1>1, <1>3, RefillGlobalStep
<1>4. CASE RefillFresh
  BY <1>1, <1>4, RefillFreshStep
<1>5. CASE AllocFails
  BY <1>1, <1>5, AllocFailsStep
<1>6. CASE Flush
  BY <1>1, <1>6, FlushStep
<1>7. CASE Drop
  BY <1>1, <1>7, DropStep
<1>8. CASE DropEnd
  BY <1>1, <1>8, DropEndStep
<1>9. ASSUME NEW b \in SuperBlocks, FreeLocal(b) PROVE BinInv' /\ Sets!Next
  <2>1. /\ "local" \in Lists /\ b \in Members(heap, "local") /\ heap.used[b] > 0
        /\ heap' = FreeCell(heap, "local", b)
        /\ pr' = (IF heap.used[b] = 1 THEN pr \cup {b} ELSE pr)
        /\ busy = "no" /\ busy' \in {"no", "alloc", "flush", "drop"}
    BY <1>9 DEF FreeLocal, Lists
  <2> QED BY <1>1, <2>1, FreeStep
<1>10. ASSUME NEW b \in SuperBlocks, FreeGlobal(b) PROVE BinInv' /\ Sets!Next
  <2>1. /\ "global" \in Lists /\ b \in Members(heap, "global") /\ heap.used[b] > 0
        /\ heap' = FreeCell(heap, "global", b)
        /\ pr' = (IF heap.used[b] = 1 THEN pr \cup {b} ELSE pr)
        /\ busy' = busy
    BY <1>10 DEF FreeGlobal, Lists
  <2>2. busy' \in {"no", "alloc", "flush", "drop"}
    BY <1>1, <2>1 DEF Placed
  <2> QED BY <1>1, <2>1, <2>2, FreeStep
<1>11. CASE UNCHANGED binVars
  BY <1>1, <1>11, StutterStep
<1> QED BY <1>2, <1>3, <1>4, <1>5, <1>6, <1>7, <1>8, <1>9, <1>10, <1>11 DEF BinNext
----------------------------------------------------------------------------
\* What the invariant says

\* Types, and accounts that are sums of naturals.
LEMMA PlacedTypes ==
  ASSUME NEW at, Placed(at)
  PROVE  BinTypeOK
<1>1. heap \in Heaps
  BY SoundTypes DEF Placed
<1>2. pr \subseteq SuperBlocks
  BY DEF Placed, Out
<1> QED BY <1>1, <1>2 DEF Heaps, Placed, BinTypeOK

\* Lists are linked both ways.
LEMMA PlacedLinked ==
  ASSUME NEW at, Placed(at)
  PROVE  WellLinked
<1>1. Sound(heap, at)
  BY DEF Placed
<1> SUFFICES ASSUME NEW l \in Lists, NEW g \in Groups
             PROVE  /\ heap.head[l][g] # NoBlock => heap.prev[heap.head[l][g]] = NoBlock
                    /\ \A b \in Walk(heap, l, g) :
                         heap.next[b] # NoBlock => heap.prev[heap.next[b]] = b
  BY DEF WellLinked
<1>2. Doubly(At(at, l, g), heap.head[l][g], heap.next, heap.prev, NoBlock)
  BY <1>1 DEF Sound, Shape, Chained
<1>3. NoBlock \notin At(at, l, g)
  BY Constants DEF At
<1>4. heap.head[l][g] \in At(at, l, g) \cup {NoBlock}
  BY <1>2, <1>3, ListedLinks DEF Doubly
<1>5. Walk(heap, l, g) = At(at, l, g)
  BY <1>1, WalkIs
<1> QED BY <1>2, <1>4, <1>5 DEF Doubly

\* Listed blocks are in the list of their group.
LEMMA PlacedGroups ==
  ASSUME NEW at, Placed(at)
  PROVE  GroupsAgree
<1>1. Sound(heap, at)
  BY DEF Placed
<1> SUFFICES ASSUME NEW l \in Lists, NEW g \in Groups, NEW b \in Walk(heap, l, g)
             PROVE  heap.group[b] = g /\ Group(heap, b) = g
  BY DEF GroupsAgree
<1>2. b \in SuperBlocks /\ at[b] = <<l, g>>
  BY <1>1, WalkIs DEF At
<1>3. at[b][2] = g
  BY <1>2
<1> QED BY <1>1, <1>2, <1>3 DEF Sound, Sorted

\* A place is one place.
LEMMA PlacedPartition ==
  ASSUME NEW at, Placed(at)
  PROVE  Partition
<1>1. Sound(heap, at) /\ pr = Out(at)
  BY DEF Placed
<1>2. at \in [SuperBlocks -> Places]
  BY <1>1, SoundTypes
<1>3. \A l \in Lists, g \in Groups : Walk(heap, l, g) = At(at, l, g)
  BY <1>1, WalkIs
<1> DEFINE walk == [q \in Lists \X Groups |-> Walk(heap, q[1], q[2])]
           Caches(b) == {l \in Lists : heap.cache[l] = b}
           Walks(b) == {q \in Lists \X Groups : b \in walk[q]}
<1>4. ASSUME NEW b \in SuperBlocks
      PROVE  Cardinality(Caches(b)) + Cardinality(Walks(b)) + Cardinality(pr \cap {b}) = 1
  <2>1. Caches(b) = {l \in Lists : at[b] = <<l, Taken>>}
    BY <1>1 DEF Sound, CacheSound
  <2>2. Walks(b) = {q \in Lists \X Groups : at[b] = q}
    <3>1. \A q \in Lists \X Groups : b \in walk[q] <=> at[b] = q
      BY <1>3 DEF At
    <3> HIDE DEF walk
    <3> QED BY <3>1
  <2>3. pr \cap {b} = IF at[b] = Outside THEN {b} ELSE {}
    BY <1>1 DEF Out
  <2>4. \A x : Cardinality({x}) = 1
    BY FS_Singleton
  <2>5. Cardinality({}) = 0
    BY FS_EmptySet
  <2> HIDE DEF Caches, Walks
  <2>6. CASE at[b] = Outside
    <3>1. Caches(b) = {} /\ Walks(b) = {} /\ pr \cap {b} = {b}
      BY <2>1, <2>2, <2>3, <2>6 DEF Outside, Lists
    <3>2. Cardinality(Caches(b)) = 0 /\ Cardinality(Walks(b)) = 0 /\ Cardinality(pr \cap {b}) = 1
      BY <3>1, <2>4, <2>5, Zenon
    <3> QED BY <3>2
  <2>7. ASSUME NEW l \in Lists, at[b] = <<l, Taken>>
        PROVE  Cardinality(Caches(b)) + Cardinality(Walks(b)) + Cardinality(pr \cap {b}) = 1
    <3>1. Caches(b) = {l}
      BY <2>1, <2>7
    <3>2. Walks(b) = {}
      BY <2>2, <2>7, NotTaken
    <3>3. pr \cap {b} = {}
      BY <2>3, <2>7 DEF Outside, Lists
    <3>4. Cardinality(Caches(b)) = 1 /\ Cardinality(Walks(b)) = 0 /\ Cardinality(pr \cap {b}) = 0
      BY <3>1, <3>2, <3>3, <2>4, <2>5, Zenon
    <3> QED BY <3>4
  <2>8. ASSUME NEW l \in Lists, NEW g \in Groups, at[b] = <<l, g>>
        PROVE  Cardinality(Caches(b)) + Cardinality(Walks(b)) + Cardinality(pr \cap {b}) = 1
    <3>1. Caches(b) = {}
      BY <2>1, <2>8, NotTaken
    <3>2. Walks(b) = {<<l, g>>}
      BY <2>2, <2>8
    <3>3. pr \cap {b} = {}
      BY <2>3, <2>8 DEF Outside, Lists
    <3>4. Cardinality(Caches(b)) = 0 /\ Cardinality(Walks(b)) = 1 /\ Cardinality(pr \cap {b}) = 0
      BY <3>1, <3>2, <3>3, <2>4, <2>5, Zenon
    <3> QED BY <3>4
  <2> QED BY <2>6, <2>7, <2>8, <1>2, PlaceKinds
<1> QED BY <1>4 DEF Partition

\* The accounts are exact.
LEMMA PlacedAccounts ==
  ASSUME NEW at, Placed(at)
  PROVE  AccountsExact
<1>1. Sound(heap, at)
  BY DEF Placed
<1> SUFFICES ASSUME NEW l \in Lists, ~(l = "local" /\ busy = "drop")
             PROVE  /\ heap.ub[l] = Total([b \in SuperBlocks |-> BytesOf(heap, b)], Members(heap, l))
                    /\ heap.tb[l] = DataBytes * Cardinality(Members(heap, l))
  BY DEF AccountsExact
<1>2. Exact(heap, at, l)
  BY DEF Placed, Lists
<1>3. Members(heap, l) = Held(at, l)
  BY <1>1, ListsAre, HeldMembers
<1> QED BY <1>2, <1>3 DEF Exact, Bytes

\* Links, groups, places and accounts of the block lists of a bin are right
\* after every call, for any number of blocks and any size class.
THEOREM ListsStaySound == BinSpec => []ListsSound
<1>1. BinInit => BinInv
  BY BinInitPlaced
<1>2. BinInv /\ [BinNext]_binVars => BinInv'
  BY BinStep
<1>3. BinInv => ListsSound
  <2> SUFFICES ASSUME BinInv PROVE ListsSound
    OBVIOUS
  <2>1. PICK at : Placed(at)
    BY DEF BinInv
  <2> QED BY <2>1, PlacedTypes, PlacedLinked, PlacedGroups, PlacedPartition, PlacedAccounts
          DEF ListsSound
<1> QED BY <1>1, <1>2, <1>3, PTL DEF BinSpec

\* The lists do what BlockSets promises module HoardPool of a bin: cells come
\* out of the cached or an emptiest block, and blocks move, as between sets.
THEOREM ListsImplementSets == BinSpec => ImplementsSets
<1>1. BinInit => BinInv /\ Sets!Init
  BY BinInitPlaced
<1>2. BinInv /\ [BinNext]_binVars => BinInv' /\ [Sets!Next]_(Sets!vars)
  BY BinStep
<1> QED BY <1>1, <1>2, PTL DEF BinSpec, ImplementsSets, Sets!Spec

----------------------------------------------------------------------------
\* The free-block stack of the page resource

\* What a thread between its loads and its exchange knows, before the first
\* ABA: the block an acquirer means to pop is still free and its link is the one
\* it read, unless another thread has popped it; the link a releaser means to
\* publish is written.
PopSound ==
  ~aba =>
    /\ held \subseteq 1..cursor
    /\ \A t \in Threads \ stale : pc[t] \in {"acqNext", "acqCas"} => blk[t] \in Free
    /\ \A t \in Threads \ stale : pc[t] = "acqCas" => nxt[t] = word[blk[t]]
    /\ \A t \in Threads : pc[t] = "relCas" => nxt[t] = word[blk[t]]

IInv == TypeOK /\ Exclusive /\ StackSound /\ PopSound

USE DEF PrivatePcs, PCs, Blocks, Links, None, Garbage, Goto, Return, Popped, history

----------------------------------------------------------------------------
\* An empty page resource satisfies the invariant.
LEMMA InitInv == Init => IInv
<1> SUFFICES ASSUME Init PROVE IInv
  OBVIOUS
<1>1. Free = {}
  BY NumBlocksAssumption DEF Init, Free
<1>2. TypeOK
  <2>1. \A t \in Threads :
          /\ pc[t] \in PrivatePcs \cup {"acqCas"} => blk[t] \in Blocks
          /\ pc[t] = "acqNext" => blk[t] # None
    BY DEF Init
  <2>2. cursor \in 0..NumBlocks /\ head \in Links /\ word \in [Blocks -> Links] /\ reserved \in Int
    BY NumBlocksAssumption DEF Init
  <2>3. held \subseteq Blocks /\ owner \in [Blocks -> Threads \cup {Nobody}]
    BY DEF Init
  <2>4. pc \in [Threads -> PCs] /\ blk \in [Threads -> Links] /\ nxt \in [Threads -> Links]
    BY DEF Init
  <2>5. stale \subseteq Threads /\ aba \in BOOLEAN
    BY DEF Init
  <2> QED BY <2>1, <2>2, <2>3, <2>4, <2>5 DEF TypeOK
<1>3. Exclusive
  BY DEF Init, Exclusive
<1>4. StackSound
  BY <1>1 DEF Init, StackSound
<1>5. PopSound
  BY <1>1 DEF Init, PopSound
<1> QED BY <1>2, <1>3, <1>4, <1>5 DEF IInv

\* A step that neither moves the cursor nor changes what is held, and moves
\* one thread between two points that are both private or both not, changes
\* no block's status.
LEMMA SameFree ==
  ASSUME TypeOK, NEW t \in Threads, NEW p \in PCs,
         cursor' = cursor, held' = held, pc' = [pc EXCEPT ![t] = p],
         \A s \in Threads \ {t} : blk'[s] = blk[s],
         \/ pc[t] \in PrivatePcs /\ p \in PrivatePcs /\ blk'[t] = blk[t]
         \/ pc[t] \notin PrivatePcs /\ p \notin PrivatePcs
  PROVE  /\ Free' = Free
         /\ \A s \in Threads, b \in Int : Private(s, b)' <=> Private(s, b)
<1>1. \A s \in Threads, b \in Int : Private(s, b)' <=> Private(s, b)
  BY DEF TypeOK, Private
<1>2. Free' = Free
  BY <1>1 DEF Free
<1> QED BY <1>1, <1>2

\* Free blocks are below the cursor.
LEMMA FreeInt == TypeOK => Free \subseteq 1..cursor /\ 1..cursor \subseteq Blocks
  BY NumBlocksAssumption DEF Free, TypeOK

\* A private block is not free.
LEMMA PrivateNotFree ==
  ASSUME TypeOK, NEW t \in Threads, pc[t] \in PrivatePcs
  PROVE  blk[t] \notin Free
  BY DEF TypeOK, Free, Private

----------------------------------------------------------------------------
\* Types hold in every state, before and after an ABA; once there was one,
\* there was one.
LEMMA NextTypes == TypeOK /\ [Next]_vars => TypeOK' /\ (aba => aba')
<1> SUFFICES ASSUME TypeOK, [Next]_vars PROVE TypeOK' /\ (aba => aba')
  OBVIOUS
<1>1. ASSUME NEW t \in Threads, AcqCall(t) PROVE TypeOK' /\ (aba => aba')
  BY NumBlocksAssumption, <1>1 DEF TypeOK, AcqCall
<1>2. ASSUME NEW t \in Threads, AcqLoad(t) PROVE TypeOK' /\ (aba => aba')
  BY NumBlocksAssumption, <1>2 DEF TypeOK, AcqLoad
<1>3. ASSUME NEW t \in Threads, AcqNext(t) PROVE TypeOK' /\ (aba => aba')
  BY NumBlocksAssumption, <1>3 DEF TypeOK, AcqNext
<1>4. ASSUME NEW t \in Threads, AcqCasOk(t) PROVE TypeOK' /\ (aba => aba')
  BY NumBlocksAssumption, <1>4 DEF TypeOK, AcqCasOk
<1>5. ASSUME NEW t \in Threads, AcqCasFail(t) PROVE TypeOK' /\ (aba => aba')
  BY NumBlocksAssumption, <1>5 DEF TypeOK, AcqCasFail
<1>6. ASSUME NEW t \in Threads, Carve(t) PROVE TypeOK' /\ (aba => aba')
  BY NumBlocksAssumption, <1>6 DEF TypeOK, Carve
<1>7. ASSUME NEW t \in Threads, Exhausted(t) PROVE TypeOK' /\ (aba => aba')
  BY NumBlocksAssumption, <1>7 DEF TypeOK, Exhausted
<1>8. ASSUME NEW t \in Threads, AcqSetNone(t) PROVE TypeOK' /\ (aba => aba')
  BY NumBlocksAssumption, <1>8 DEF TypeOK, AcqSetNone
<1>9. ASSUME NEW t \in Threads, AcqCount(t) PROVE TypeOK' /\ (aba => aba')
  BY NumBlocksAssumption, <1>9 DEF TypeOK, AcqCount
<1>10. ASSUME NEW t \in Threads, ClientInit(t) PROVE TypeOK' /\ (aba => aba')
  BY NumBlocksAssumption, <1>10 DEF TypeOK, ClientInit
<1>11. ASSUME NEW t \in Threads, ClientTake(t) PROVE TypeOK' /\ (aba => aba')
  BY NumBlocksAssumption, <1>11 DEF TypeOK, ClientTake
<1>12. ASSUME NEW t \in Threads, RelCall(t) PROVE TypeOK' /\ (aba => aba')
  BY NumBlocksAssumption, <1>12 DEF TypeOK, RelCall
<1>13. ASSUME NEW t \in Threads, RelLoad(t) PROVE TypeOK' /\ (aba => aba')
  BY NumBlocksAssumption, <1>13 DEF TypeOK, RelLoad
<1>14. ASSUME NEW t \in Threads, RelSetNext(t) PROVE TypeOK' /\ (aba => aba')
  BY NumBlocksAssumption, <1>14 DEF TypeOK, RelSetNext
<1>15. ASSUME NEW t \in Threads, RelCasOk(t) PROVE TypeOK' /\ (aba => aba')
  BY NumBlocksAssumption, <1>15 DEF TypeOK, RelCasOk
<1>16. ASSUME NEW t \in Threads, RelCasFail(t) PROVE TypeOK' /\ (aba => aba')
  BY NumBlocksAssumption, <1>16 DEF TypeOK, RelCasFail
<1>17. ASSUME NEW t \in Threads, RelCount(t) PROVE TypeOK' /\ (aba => aba')
  BY NumBlocksAssumption, <1>17 DEF TypeOK, RelCount
<1>18. CASE UNCHANGED vars
  BY <1>18 DEF vars, TypeOK
<1> QED BY <1>1, <1>2, <1>3, <1>4, <1>5, <1>6, <1>7, <1>8, <1>9, <1>10, <1>11, <1>12, <1>13, <1>14, <1>15, <1>16, <1>17, <1>18 DEF Next, Step

\* One step per action of Next; the actions that move a block into or out of
\* a thread's hands say first what becomes of Free.
LEMMA NextInv == IInv /\ [Next]_vars => IInv'
<1> SUFFICES ASSUME IInv, [Next]_vars, ~aba' PROVE IInv'
  BY NextTypes DEF IInv, Exclusive, StackSound, PopSound
<1>0. TypeOK /\ Exclusive /\ StackSound /\ PopSound /\ ~aba
  BY NextTypes DEF IInv

<1>1. ASSUME NEW t \in Threads, AcqCall(t) PROVE IInv'
  <2> USE <1>1 DEF AcqCall
  <2>1. Free' = Free /\ \A s \in Threads, b \in Int : Private(s, b)' <=> Private(s, b)
    BY <1>0, SameFree DEF TypeOK
  <2>2. TypeOK'
    BY NextTypes DEF IInv
  <2>3. Exclusive'
    BY <1>0, <2>1, FreeInt DEF TypeOK, Exclusive
  <2>4. StackSound'
    BY <1>0, <2>1, FreeInt DEF TypeOK, StackSound, PopSound
  <2>5. PopSound'
    BY <1>0, <2>1, FreeInt DEF TypeOK, StackSound, PopSound
  <2> QED BY <2>2, <2>3, <2>4, <2>5 DEF IInv

<1>2. ASSUME NEW t \in Threads, AcqLoad(t) PROVE IInv'
  <2> USE <1>2 DEF AcqLoad
  <2>1. Free' = Free /\ \A s \in Threads, b \in Int : Private(s, b)' <=> Private(s, b)
    BY <1>0, SameFree DEF TypeOK
  <2>2. TypeOK'
    BY NextTypes DEF IInv
  <2>3. Exclusive'
    BY <1>0, <2>1, FreeInt DEF TypeOK, Exclusive
  <2>4. StackSound'
    BY <1>0, <2>1, FreeInt DEF TypeOK, StackSound, PopSound
  <2>5. PopSound'
    BY <1>0, <2>1, FreeInt DEF TypeOK, StackSound, PopSound
  <2> QED BY <2>2, <2>3, <2>4, <2>5 DEF IInv

<1>3. ASSUME NEW t \in Threads, AcqNext(t) PROVE IInv'
  <2> USE <1>3 DEF AcqNext
  <2>1. Free' = Free /\ \A s \in Threads, b \in Int : Private(s, b)' <=> Private(s, b)
    BY <1>0, SameFree DEF TypeOK
  <2>2. TypeOK'
    BY NextTypes DEF IInv
  <2>3. Exclusive'
    BY <1>0, <2>1, FreeInt DEF TypeOK, Exclusive
  <2>4. StackSound'
    BY <1>0, <2>1, FreeInt DEF TypeOK, StackSound, PopSound
  <2>5. PopSound'
    BY <1>0, <2>1, FreeInt DEF TypeOK, StackSound, PopSound
  <2> QED BY <2>2, <2>3, <2>4, <2>5 DEF IInv

<1>4. ASSUME NEW t \in Threads, AcqCasOk(t) PROVE IInv'
  <2> USE <1>4 DEF AcqCasOk
  <2>1. t \notin stale /\ blk[t] \in Free /\ nxt[t] = word[blk[t]]
    BY <1>0 DEF PopSound
  <2>2. \A s \in Threads, b \in Int :
          Private(s, b)' <=> Private(s, b) \/ (s = t /\ b = blk[t])
    BY <1>0, <2>1 DEF TypeOK, Private
  <2>3. Free' = Free \ {blk[t]}
    BY <1>0, <2>2, FreeInt DEF TypeOK, Free
  <2>4. \A s \in Threads \ stale' : s # t =>
          /\ s \notin stale
          /\ pc[s] \in {"acqNext", "acqCas"} => blk[s] # blk[t]
    BY <1>0 DEF TypeOK
  <2>5. blk[t] \in 1..cursor /\ blk[t] \notin held /\ \A s \in Threads : ~Private(s, blk[t])
    BY <2>1 DEF Free
  <2>6. TypeOK'
    BY NextTypes DEF IInv
  <2>7. Exclusive'
    BY <1>0, <2>1, <2>2, <2>3, <2>5, FreeInt DEF TypeOK, Exclusive, Private
  <2>8. StackSound'
    BY <1>0, <2>1, <2>2, <2>3, <2>5, FreeInt DEF TypeOK, StackSound, PopSound
  <2>9. PopSound'
    BY <1>0, <2>1, <2>2, <2>3, <2>4, <2>5, FreeInt DEF TypeOK, StackSound, PopSound
  <2> QED BY <2>6, <2>7, <2>8, <2>9 DEF IInv

<1>5. ASSUME NEW t \in Threads, AcqCasFail(t) PROVE IInv'
  <2> USE <1>5 DEF AcqCasFail
  <2>1. Free' = Free /\ \A s \in Threads, b \in Int : Private(s, b)' <=> Private(s, b)
    BY <1>0, SameFree DEF TypeOK
  <2>2. TypeOK'
    BY NextTypes DEF IInv
  <2>3. Exclusive'
    BY <1>0, <2>1, FreeInt DEF TypeOK, Exclusive
  <2>4. StackSound'
    BY <1>0, <2>1, FreeInt DEF TypeOK, StackSound, PopSound
  <2>5. PopSound'
    BY <1>0, <2>1, FreeInt DEF TypeOK, StackSound, PopSound
  <2> QED BY <2>2, <2>3, <2>4, <2>5 DEF IInv

<1>6. ASSUME NEW t \in Threads, Carve(t) PROVE IInv'
  <2> USE <1>6 DEF Carve
  <2>1. cursor + 1 \in Blocks /\ cursor \in Nat /\ blk'[t] = cursor + 1
    BY <1>0, NumBlocksAssumption DEF TypeOK
  <2>2. \A s \in Threads : ~Private(s, cursor + 1)
    BY <1>0, <2>1 DEF TypeOK, Exclusive, Private
  <2>3. \A s \in Threads, b \in Int :
          Private(s, b)' <=> Private(s, b) \/ (s = t /\ b = cursor + 1)
    BY <1>0, <2>1 DEF TypeOK, Private
  <2>4. Free' = Free
    <3>1. 1..(cursor + 1) = (1..cursor) \cup {cursor + 1}
      BY <2>1
    <3> QED BY <1>0, <2>3, <3>1 DEF TypeOK, Free
  <2>5. TypeOK'
    BY NextTypes DEF IInv
  <2>6. Exclusive'
    <3>1. \A s \in Threads : pc[s] \in PrivatePcs =>
            blk[s] \in 1..cursor /\ blk[s] \notin held /\ \A r \in Threads \ {s} : ~Private(r, blk[s])
      BY <1>0 DEF Exclusive
    <3>2. cursor + 1 \notin held
      BY <1>0, <2>1 DEF PopSound
    <3>3. \A s \in Threads \ {t} : pc'[s] = pc[s] /\ blk'[s] = blk[s]
      BY <1>0 DEF TypeOK
    <3>4. held' = held /\ cursor' = cursor + 1
      OBVIOUS
    <3>5. \A s \in Threads : pc[s] \in PrivatePcs => blk[s] # cursor + 1 /\ blk[s] \in Int
      BY <2>1, <3>1
    <3>6. ASSUME NEW s \in Threads, pc'[s] \in PrivatePcs
          PROVE  /\ blk'[s] \in 1..cursor' /\ blk'[s] \notin held'
                 /\ \A r \in Threads \ {s} : ~(pc'[r] \in PrivatePcs /\ blk'[r] = blk'[s])
      <4>1. CASE s = t
        BY <2>1, <2>2, <3>2, <3>3, <3>4, <4>1 DEF Private
      <4>2. CASE s # t
        <5>1. pc[s] \in PrivatePcs /\ blk'[s] = blk[s]
          BY <3>3, <3>6, <4>2
        <5>2. \A r \in Threads \ {s} : ~(pc[r] \in PrivatePcs /\ blk[r] = blk[s])
          BY <3>1, <5>1 DEF Private
        <5>3. blk[s] \in 1..cursor /\ blk[s] \notin held /\ blk[s] # cursor + 1
          BY <3>1, <3>5, <5>1
        <5> QED BY <2>1, <3>3, <3>4, <5>1, <5>2, <5>3
      <4> QED BY <4>1, <4>2
    <3> QED BY <3>6 DEF Exclusive, Private
  <2>7. StackSound'
    BY <1>0, <2>1, <2>2, <2>3, <2>4, FreeInt DEF TypeOK, StackSound, PopSound
  <2>8. PopSound'
    BY <1>0, <2>1, <2>2, <2>3, <2>4, FreeInt DEF TypeOK, StackSound, PopSound
  <2> QED BY <2>5, <2>6, <2>7, <2>8 DEF IInv

<1>7. ASSUME NEW t \in Threads, Exhausted(t) PROVE IInv'
  <2> USE <1>7 DEF Exhausted
  <2>1. Free' = Free /\ \A s \in Threads, b \in Int : Private(s, b)' <=> Private(s, b)
    BY <1>0, SameFree DEF TypeOK
  <2>2. TypeOK'
    BY NextTypes DEF IInv
  <2>3. Exclusive'
    BY <1>0, <2>1, FreeInt DEF TypeOK, Exclusive
  <2>4. StackSound'
    BY <1>0, <2>1, FreeInt DEF TypeOK, StackSound, PopSound
  <2>5. PopSound'
    BY <1>0, <2>1, FreeInt DEF TypeOK, StackSound, PopSound
  <2> QED BY <2>2, <2>3, <2>4, <2>5 DEF IInv

<1>8. ASSUME NEW t \in Threads, AcqSetNone(t) PROVE IInv'
  <2> USE <1>8 DEF AcqSetNone
  <2>1. Free' = Free /\ \A s \in Threads, b \in Int : Private(s, b)' <=> Private(s, b)
    BY <1>0, SameFree DEF TypeOK
  <2>2. blk[t] \notin Free
    BY <1>0, PrivateNotFree
  <2>3. \A b \in Free : word'[b] = word[b]
    BY <1>0, <2>2, FreeInt DEF TypeOK
  <2>4. \A s \in Threads \ {t} : pc[s] = "relCas" => word'[blk[s]] = word[blk[s]]
    BY <1>0 DEF TypeOK, Exclusive, Private
  <2>5. TypeOK'
    BY NextTypes DEF IInv
  <2>6. Exclusive'
    BY <1>0, <2>1, <2>2, <2>3, <2>4, FreeInt DEF TypeOK, Exclusive
  <2>7. StackSound'
    BY <1>0, <2>1, <2>2, <2>3, <2>4, FreeInt DEF TypeOK, StackSound, PopSound
  <2>8. PopSound'
    BY <1>0, <2>1, <2>2, <2>3, <2>4, FreeInt DEF TypeOK, StackSound, PopSound
  <2> QED BY <2>5, <2>6, <2>7, <2>8 DEF IInv

<1>9. ASSUME NEW t \in Threads, AcqCount(t) PROVE IInv'
  <2> USE <1>9 DEF AcqCount
  <2>1. Free' = Free /\ \A s \in Threads, b \in Int : Private(s, b)' <=> Private(s, b)
    BY <1>0, SameFree DEF TypeOK
  <2>2. TypeOK'
    BY NextTypes DEF IInv
  <2>3. Exclusive'
    BY <1>0, <2>1, FreeInt DEF TypeOK, Exclusive
  <2>4. StackSound'
    BY <1>0, <2>1, FreeInt DEF TypeOK, StackSound, PopSound
  <2>5. PopSound'
    BY <1>0, <2>1, FreeInt DEF TypeOK, StackSound, PopSound
  <2> QED BY <2>2, <2>3, <2>4, <2>5 DEF IInv

<1>10. ASSUME NEW t \in Threads, ClientInit(t) PROVE IInv'
  <2> USE <1>10 DEF ClientInit
  <2>1. Free' = Free /\ \A s \in Threads, b \in Int : Private(s, b)' <=> Private(s, b)
    BY <1>0, SameFree DEF TypeOK
  <2>2. blk[t] \notin Free
    BY <1>0, PrivateNotFree
  <2>3. \A b \in Free : word'[b] = word[b]
    BY <1>0, <2>2, FreeInt DEF TypeOK
  <2>4. \A s \in Threads \ {t} : pc[s] = "relCas" => word'[blk[s]] = word[blk[s]]
    BY <1>0 DEF TypeOK, Exclusive, Private
  <2>5. TypeOK'
    BY NextTypes DEF IInv
  <2>6. Exclusive'
    BY <1>0, <2>1, <2>2, <2>3, <2>4, FreeInt DEF TypeOK, Exclusive
  <2>7. StackSound'
    BY <1>0, <2>1, <2>2, <2>3, <2>4, FreeInt DEF TypeOK, StackSound, PopSound
  <2>8. PopSound'
    BY <1>0, <2>1, <2>2, <2>3, <2>4, FreeInt DEF TypeOK, StackSound, PopSound
  <2> QED BY <2>5, <2>6, <2>7, <2>8 DEF IInv

<1>11. ASSUME NEW t \in Threads, ClientTake(t) PROVE IInv'
  <2> USE <1>11 DEF ClientTake
  <2>1. blk[t] \in 1..cursor /\ blk[t] \notin held
    BY <1>0 DEF Exclusive
  <2>2. \A s \in Threads, b \in Int : Private(s, b)' <=> Private(s, b) /\ s # t
    BY <1>0 DEF TypeOK, Private
  <2>3. Free' = Free
    BY <1>0, <2>1, <2>2 DEF TypeOK, Free, Private
  <2>4. \A s \in Threads \ {t} : ~Private(s, blk[t])
    BY <1>0 DEF Exclusive
  <2>5. TypeOK'
    BY NextTypes DEF IInv
  <2>6. Exclusive'
    BY <1>0, <2>1, <2>2, <2>3, <2>4, FreeInt DEF TypeOK, Exclusive, Private
  <2>7. StackSound'
    BY <1>0, <2>1, <2>2, <2>3, <2>4, FreeInt DEF TypeOK, StackSound, PopSound
  <2>8. PopSound'
    BY <1>0, <2>1, <2>2, <2>3, <2>4, FreeInt DEF TypeOK, StackSound, PopSound
  <2> QED BY <2>5, <2>6, <2>7, <2>8 DEF IInv

<1>12. ASSUME NEW t \in Threads, RelCall(t) PROVE IInv'
  <2> USE <1>12 DEF RelCall
  <2>1. PICK b \in held : blk' = [blk EXCEPT ![t] = b] /\ held' = held \ {b}
    OBVIOUS
  <2>2. b \in 1..cursor /\ b \in Blocks /\ \A s \in Threads : ~Private(s, b)
    BY <1>0, FreeInt DEF TypeOK, Exclusive, Private, PopSound
  <2>3. \A s \in Threads, c \in Int :
          Private(s, c)' <=> Private(s, c) \/ (s = t /\ c = b)
    BY <1>0, <2>1, <2>2 DEF TypeOK, Private
  <2>4. Free' = Free
    BY <1>0, <2>1, <2>2, <2>3 DEF TypeOK, Free
  <2>5. TypeOK'
    BY NextTypes DEF IInv
  <2>6. Exclusive'
    BY <1>0, <2>1, <2>2, <2>3, <2>4, FreeInt DEF TypeOK, Exclusive
  <2>7. StackSound'
    BY <1>0, <2>1, <2>2, <2>3, <2>4, FreeInt DEF TypeOK, StackSound, PopSound
  <2>8. PopSound'
    BY <1>0, <2>1, <2>2, <2>3, <2>4, FreeInt DEF TypeOK, StackSound, PopSound
  <2> QED BY <2>5, <2>6, <2>7, <2>8 DEF IInv

<1>13. ASSUME NEW t \in Threads, RelLoad(t) PROVE IInv'
  <2> USE <1>13 DEF RelLoad
  <2>1. Free' = Free /\ \A s \in Threads, b \in Int : Private(s, b)' <=> Private(s, b)
    BY <1>0, SameFree DEF TypeOK
  <2>2. TypeOK'
    BY NextTypes DEF IInv
  <2>3. Exclusive'
    BY <1>0, <2>1, FreeInt DEF TypeOK, Exclusive
  <2>4. StackSound'
    BY <1>0, <2>1, FreeInt DEF TypeOK, StackSound, PopSound
  <2>5. PopSound'
    BY <1>0, <2>1, FreeInt DEF TypeOK, StackSound, PopSound
  <2> QED BY <2>2, <2>3, <2>4, <2>5 DEF IInv

<1>14. ASSUME NEW t \in Threads, RelSetNext(t) PROVE IInv'
  <2> USE <1>14 DEF RelSetNext
  <2>1. Free' = Free /\ \A s \in Threads, b \in Int : Private(s, b)' <=> Private(s, b)
    BY <1>0, SameFree DEF TypeOK
  <2>2. blk[t] \notin Free
    BY <1>0, PrivateNotFree
  <2>3. \A b \in Free : word'[b] = word[b]
    BY <1>0, <2>2, FreeInt DEF TypeOK
  <2>4. \A s \in Threads \ {t} : pc[s] = "relCas" => word'[blk[s]] = word[blk[s]]
    BY <1>0 DEF TypeOK, Exclusive, Private
  <2>5. word'[blk[t]] = nxt[t]
    BY <1>0, FreeInt DEF TypeOK, Exclusive
  <2>6. TypeOK'
    BY NextTypes DEF IInv
  <2>7. Exclusive'
    BY <1>0, <2>1, <2>2, <2>3, <2>4, <2>5, FreeInt DEF TypeOK, Exclusive
  <2>8. StackSound'
    BY <1>0, <2>1, <2>2, <2>3, <2>4, <2>5, FreeInt DEF TypeOK, StackSound, PopSound
  <2>9. PopSound'
    BY <1>0, <2>1, <2>2, <2>3, <2>4, <2>5, FreeInt DEF TypeOK, StackSound, PopSound
  <2> QED BY <2>6, <2>7, <2>8, <2>9 DEF IInv

<1>15. ASSUME NEW t \in Threads, RelCasOk(t) PROVE IInv'
  <2> USE <1>15 DEF RelCasOk
  <2>1. blk[t] \in 1..cursor /\ blk[t] \in Blocks /\ blk[t] \notin held /\ blk[t] \notin Free
    BY <1>0, FreeInt, PrivateNotFree DEF Exclusive
  <2>2. \A s \in Threads, b \in Int : Private(s, b)' <=> Private(s, b) /\ s # t
    BY <1>0 DEF TypeOK, Private
  <2>3. \A s \in Threads \ {t} : ~Private(s, blk[t])
    BY <1>0 DEF Exclusive
  <2>4. Free' = Free \cup {blk[t]}
    BY <1>0, <2>1, <2>2, <2>3 DEF TypeOK, Free, Private
  <2>5. word[blk[t]] = head
    BY <1>0 DEF PopSound
  <2>7. TypeOK'
    BY NextTypes DEF IInv
  <2>8. Exclusive'
    BY <1>0, <2>1, <2>2, <2>3, <2>4, <2>5, FreeInt DEF TypeOK, Exclusive
  <2>9. StackSound'
    BY <1>0, <2>1, <2>2, <2>3, <2>4, <2>5, FreeInt DEF TypeOK, StackSound, PopSound
  <2>10. PopSound'
    BY <1>0, <2>1, <2>2, <2>3, <2>4, <2>5, FreeInt DEF TypeOK, StackSound, PopSound
  <2> QED BY <2>7, <2>8, <2>9, <2>10 DEF IInv

<1>16. ASSUME NEW t \in Threads, RelCasFail(t) PROVE IInv'
  <2> USE <1>16 DEF RelCasFail
  <2>1. Free' = Free /\ \A s \in Threads, b \in Int : Private(s, b)' <=> Private(s, b)
    BY <1>0, SameFree DEF TypeOK
  <2>2. TypeOK'
    BY NextTypes DEF IInv
  <2>3. Exclusive'
    BY <1>0, <2>1, FreeInt DEF TypeOK, Exclusive
  <2>4. StackSound'
    BY <1>0, <2>1, FreeInt DEF TypeOK, StackSound, PopSound
  <2>5. PopSound'
    BY <1>0, <2>1, FreeInt DEF TypeOK, StackSound, PopSound
  <2> QED BY <2>2, <2>3, <2>4, <2>5 DEF IInv

<1>17. ASSUME NEW t \in Threads, RelCount(t) PROVE IInv'
  <2> USE <1>17 DEF RelCount
  <2>1. Free' = Free /\ \A s \in Threads, b \in Int : Private(s, b)' <=> Private(s, b)
    BY <1>0, SameFree DEF TypeOK
  <2>2. TypeOK'
    BY NextTypes DEF IInv
  <2>3. Exclusive'
    BY <1>0, <2>1, FreeInt DEF TypeOK, Exclusive
  <2>4. StackSound'
    BY <1>0, <2>1, FreeInt DEF TypeOK, StackSound, PopSound
  <2>5. PopSound'
    BY <1>0, <2>1, FreeInt DEF TypeOK, StackSound, PopSound
  <2> QED BY <2>2, <2>3, <2>4, <2>5 DEF IInv

<1>18. CASE UNCHANGED vars
  BY <1>18 DEF vars, IInv, TypeOK, Exclusive, StackSound, PopSound, Free, Private
<1> QED BY <1>1, <1>2, <1>3, <1>4, <1>5, <1>6, <1>7, <1>8, <1>9, <1>10, <1>11, <1>12, <1>13, <1>14, <1>15, <1>16, <1>17,
        <1>18 DEF Next, Step

----------------------------------------------------------------------------
\* The inductive invariant holds in every reachable state.
THEOREM Safety == Spec => []IInv
<1>1. Init => IInv
  BY InitInv
<1>2. IInv /\ [Next]_vars => IInv'
  BY NextInv
<1> QED BY <1>1, <1>2, PTL DEF Spec

\* The variables keep their types.
THEOREM TypeCorrect == Spec => []TypeOK
<1>1. IInv => TypeOK
  BY DEF IInv
<1> QED BY <1>1, Safety, PTL

\* acquire_block hands no block out twice.
THEOREM ExclusiveHandOut == Spec => []Exclusive
<1>1. IInv => Exclusive
  BY DEF IInv
<1> QED BY <1>1, Safety, PTL

\* The stack stays a set of disjoint chains through free blocks.
THEOREM StackStaysSound == Spec => []StackSound
<1>1. IInv => StackSound
  BY DEF IInv
<1> QED BY <1>1, Safety, PTL

----------------------------------------------------------------------------
\* Until a first ABA, a thread that has set the owner of the block it acquired
\* still is the owner when HoardSpace::acquire_block asserts so: nothing but an
\* ABA fails that assertion.
THEOREM OwnerStaysKept == Spec => [](aba \/ OwnerKept)
<1>1. Init => aba \/ OwnerKept
  BY DEF Init, OwnerKept
<1>2. ASSUME IInv, aba \/ OwnerKept, [Next]_vars PROVE aba' \/ OwnerKept'
  <2> SUFFICES ASSUME ~aba', NEW t \in Threads, pc'[t] = "assertOwner"
               PROVE  owner'[blk'[t]] = t
    BY DEF OwnerKept
  <2>0. TypeOK /\ Exclusive /\ ~aba /\ OwnerKept
    BY <1>2, NextTypes DEF IInv
  <2>1. ASSUME NEW s \in Threads, ClientInit(s) PROVE owner'[blk'[t]] = t
    <3> USE <2>1 DEF ClientInit
    <3>1. CASE s = t
      <4>1. blk[t] \in Blocks
        BY <2>0, <3>1, FreeInt DEF TypeOK, Exclusive
      <4> QED BY <2>0, <3>1, <4>1 DEF TypeOK
    <3>2. CASE s # t
      <4>1. pc[t] = "assertOwner" /\ owner[blk[t]] = t
        BY <2>0, <3>2 DEF TypeOK, OwnerKept
      <4>2. blk[s] # blk[t]
        BY <2>0, <3>2, <4>1 DEF Exclusive, Private
      <4> QED BY <2>0, <4>1, <4>2 DEF TypeOK
    <3> QED BY <3>1, <3>2
  <2>2. ASSUME NEW s \in Threads,
               AcqCall(s) \/ RelCall(s) \/ (Step(s) /\ ~ClientInit(s))
        PROVE  owner'[blk'[t]] = t
    <3>1. owner' = owner /\ pc[t] = "assertOwner" /\ blk'[t] = blk[t]
      BY <2>0, <2>2 DEF TypeOK, Step, AcqCall, RelCall, AcqLoad, AcqNext, AcqCasOk,
           AcqCasFail, Carve, Exhausted, AcqSetNone, AcqCount, ClientTake, RelLoad,
           RelSetNext, RelCasOk, RelCasFail, RelCount
    <3> QED BY <2>0, <3>1 DEF OwnerKept
  <2>3. CASE UNCHANGED vars
    BY <2>0, <2>3 DEF vars, OwnerKept
  <2> QED BY <1>2, <2>1, <2>2, <2>3 DEF Next
<1> QED BY <1>1, <1>2, Safety, PTL DEF Spec

----------------------------------------------------------------------------
Counted == {t \in Threads : pc[t] \in CountedPcs}

\* reserved_bytes counts exactly the blocks in use or on the counted side of a
\* call; in particular its fetch_sub never wraps.
THEOREM ReservedStaysExact ==
  ASSUME IsFiniteSet(Threads) PROVE Spec => []ReservedExact
<1>1. Init => ReservedExact
  <2> SUFFICES ASSUME Init PROVE ReservedExact
    OBVIOUS
  <2>1. Counted = {} /\ held = {} /\ reserved = 0
    BY DEF Init, Counted, CountedPcs
  <2>2. Cardinality({}) = 0
    BY FS_EmptySet
  <2> QED BY <2>1, <2>2 DEF ReservedExact, Counted
<1>2. ASSUME IInv, ReservedExact, [Next]_vars, ~aba' PROVE ReservedExact'
  <2>0. TypeOK /\ Exclusive /\ ~aba
    BY <1>2, NextTypes DEF IInv
  <2>1. reserved = Cardinality(held) + Cardinality(Counted)
    BY <1>2, <2>0 DEF ReservedExact, Counted
  <2>2. IsFiniteSet(held) /\ Cardinality(held) \in Nat
    <3>1. IsFiniteSet(Blocks)
      BY NumBlocksAssumption, FS_Interval
    <3> QED BY <2>0, <3>1, FS_Subset, FS_CardinalityType DEF TypeOK
  <2>3. IsFiniteSet(Counted) /\ Cardinality(Counted) \in Nat
    BY FS_Subset, FS_CardinalityType DEF Counted
  <2> SUFFICES reserved' = Cardinality(held') + Cardinality(Counted')
    BY DEF ReservedExact, Counted
  <2>4. ASSUME NEW t \in Threads, AcqCount(t)
        PROVE  reserved' = Cardinality(held') + Cardinality(Counted')
    <3>1. t \notin Counted /\ Counted' = Counted \cup {t}
      BY <2>0, <2>4 DEF TypeOK, AcqCount, Counted, CountedPcs
    <3>2. Cardinality(Counted \cup {t}) = Cardinality(Counted) + 1
      BY <2>3, <3>1, FS_AddElement
    <3> QED BY <2>1, <2>2, <2>3, <2>4, <3>1, <3>2 DEF AcqCount
  <2>5. ASSUME NEW t \in Threads, ClientTake(t)
        PROVE  reserved' = Cardinality(held') + Cardinality(Counted')
    <3>1. t \in Counted /\ Counted' = Counted \ {t}
      BY <2>0, <2>5 DEF TypeOK, ClientTake, Counted, CountedPcs
    <3>2. blk[t] \notin held /\ held' = held \cup {blk[t]}
      BY <2>0, <2>5 DEF Exclusive, ClientTake
    <3>3. Cardinality(Counted \ {t}) = Cardinality(Counted) - 1
      BY <2>3, <3>1, FS_RemoveElement
    <3>4. Cardinality(held \cup {blk[t]}) = Cardinality(held) + 1
      BY <2>2, <3>2, FS_AddElement
    <3> QED BY <2>1, <2>2, <2>3, <2>5, <3>1, <3>2, <3>3, <3>4 DEF ClientTake
  <2>6. ASSUME NEW t \in Threads, RelCall(t)
        PROVE  reserved' = Cardinality(held') + Cardinality(Counted')
    <3>1. t \notin Counted /\ Counted' = Counted \cup {t}
      BY <2>0, <2>6 DEF TypeOK, RelCall, Counted, CountedPcs
    <3>2. PICK b \in held : held' = held \ {b}
      BY <2>6 DEF RelCall
    <3>3. Cardinality(Counted \cup {t}) = Cardinality(Counted) + 1
      BY <2>3, <3>1, FS_AddElement
    <3>4. Cardinality(held \ {b}) = Cardinality(held) - 1
      BY <2>2, FS_RemoveElement
    <3>5. reserved' = reserved
      BY <2>6 DEF RelCall
    <3>6. Cardinality(held') = Cardinality(held) - 1
      BY <3>2, <3>4
    <3>7. Cardinality(Counted') = Cardinality(Counted) + 1
      BY <3>1, <3>3
    <3> QED BY <2>1, <2>2, <2>3, <3>5, <3>6, <3>7
  <2>7. ASSUME NEW t \in Threads, RelCount(t)
        PROVE  reserved' = Cardinality(held') + Cardinality(Counted')
    <3>1. t \in Counted /\ Counted' = Counted \ {t}
      BY <2>0, <2>7 DEF TypeOK, RelCount, Counted, CountedPcs
    <3>2. Cardinality(Counted \ {t}) = Cardinality(Counted) - 1
      BY <2>3, <3>1, FS_RemoveElement
    <3> QED BY <2>1, <2>2, <2>3, <2>7, <3>1, <3>2 DEF RelCount
  <2>8. ASSUME NEW t \in Threads,
               \/ AcqCall(t)
               \/ Step(t) /\ ~(AcqCount(t) \/ ClientTake(t) \/ RelCount(t))
        PROVE  reserved' = Cardinality(held') + Cardinality(Counted')
    <3>1. reserved' = reserved /\ held' = held /\ Counted' = Counted
      BY <2>0, <2>8 DEF TypeOK, Counted, CountedPcs, Step, AcqCall, AcqLoad, AcqNext,
           AcqCasOk, AcqCasFail, Carve, Exhausted, AcqSetNone, ClientInit, RelLoad,
           RelSetNext, RelCasOk, RelCasFail
    <3> QED BY <2>1, <3>1
  <2>9. CASE UNCHANGED vars
    BY <2>1, <2>9 DEF vars, Counted
  <2> QED BY <1>2, <2>4, <2>5, <2>6, <2>7, <2>8, <2>9 DEF Next, Step
<1>3. ASSUME aba' PROVE ReservedExact'
  BY <1>3 DEF ReservedExact
<1> QED BY <1>1, <1>2, <1>3, Safety, PTL DEF Spec

----------------------------------------------------------------------------
\* The free blocks are one list from the head on.
Linked == ~aba => Listed(Free, head, word, None)

\* A successful exchange pops the head or pushes a block in front of it; no
\* other step changes what is free, the head or a link in a free block.
LEMMA NextLinked ==
  ASSUME IInv, Linked, [Next]_vars
  PROVE  Linked'
<1> SUFFICES ASSUME ~aba' PROVE Listed(Free, head, word, None)'
  BY DEF Linked
<1>0. /\ TypeOK /\ Exclusive /\ PopSound /\ None \notin Free
      /\ ~aba /\ Listed(Free, head, word, None)
  BY NextTypes, FreeInt DEF IInv, Linked
<1>1. ASSUME NEW t \in Threads, AcqCasOk(t) PROVE Listed(Free, head, word, None)'
  <2> USE <1>1 DEF AcqCasOk
  <2>1. blk[t] \in Free /\ nxt[t] = word[blk[t]]
    BY <1>0 DEF PopSound, TypeOK
  <2>2. \A s \in Threads, b \in Int :
          Private(s, b)' <=> Private(s, b) \/ (s = t /\ b = blk[t])
    BY <1>0, <2>1 DEF TypeOK, Private
  <2>3. Free' = Free \ {head}
    BY <1>0, <2>2, FreeInt DEF TypeOK, Free
  <2>4. Listed(Free \ {head}, word[head], word, None)
    BY <1>0, <2>1, ListedPop
  <2> QED BY <2>1, <2>3, <2>4
<1>2. ASSUME NEW t \in Threads, RelCasOk(t) PROVE Listed(Free, head, word, None)'
  <2> USE <1>2 DEF RelCasOk
  <2>1. blk[t] \in 1..cursor /\ blk[t] \notin held /\ blk[t] \notin Free
    BY <1>0, FreeInt, PrivateNotFree DEF Exclusive
  <2>2. \A s \in Threads, b \in Int : Private(s, b)' <=> Private(s, b) /\ s # t
    BY <1>0 DEF TypeOK, Private
  <2>3. \A s \in Threads \ {t} : ~Private(s, blk[t])
    BY <1>0 DEF Exclusive
  <2>4. Free' = Free \cup {blk[t]}
    BY <1>0, <2>1, <2>2, <2>3 DEF TypeOK, Free, Private
  <2>5. word[blk[t]] = head
    BY <1>0 DEF PopSound
  <2>6. Listed(Free \cup {blk[t]}, blk[t], word, None)
    BY <1>0, <2>1, <2>5, ListedPush
  <2> QED BY <2>4, <2>6
<1>3. ASSUME Free' = Free, head' = head, \A b \in Free : word'[b] = word[b] PROVE Listed(Free, head, word, None)'
  BY <1>0, <1>3, ListedSame
<1>4. ASSUME NEW t \in Threads,
             AcqSetNone(t) \/ ClientInit(t) \/ RelSetNext(t)
      PROVE  Listed(Free, head, word, None)'
  <2> USE <1>4 DEF AcqSetNone, ClientInit, RelSetNext
  <2>1. Free' = Free
    BY <1>0, SameFree DEF TypeOK
  <2>2. blk[t] \notin Free
    BY <1>0, PrivateNotFree
  <2>3. \A b \in Free : word'[b] = word[b]
    BY <1>0, <2>2, FreeInt DEF TypeOK
  <2> QED BY <1>3, <2>1, <2>3
<1>5. ASSUME NEW t \in Threads, Carve(t) PROVE Listed(Free, head, word, None)'
  <2> USE <1>5 DEF Carve
  <2>1. cursor + 1 \in Blocks /\ cursor \in Nat /\ blk'[t] = cursor + 1
    BY <1>0, NumBlocksAssumption DEF TypeOK
  <2>2. \A s \in Threads, b \in Int :
          Private(s, b)' <=> Private(s, b) \/ (s = t /\ b = cursor + 1)
    BY <1>0, <2>1 DEF TypeOK, Private
  <2>3. 1..(cursor + 1) = (1..cursor) \cup {cursor + 1}
    BY <2>1
  <2>4. Free' = Free
    BY <1>0, <2>2, <2>3 DEF TypeOK, Free
  <2> QED BY <1>3, <2>4
<1>6. ASSUME NEW t \in Threads, ClientTake(t) PROVE Listed(Free, head, word, None)'
  <2> USE <1>6 DEF ClientTake
  <2>1. blk[t] \in 1..cursor /\ blk[t] \notin held
    BY <1>0 DEF Exclusive
  <2>2. \A s \in Threads, b \in Int : Private(s, b)' <=> Private(s, b) /\ s # t
    BY <1>0 DEF TypeOK, Private
  <2>3. Free' = Free
    BY <1>0, <2>1, <2>2 DEF TypeOK, Free, Private
  <2> QED BY <1>3, <2>3
<1>7. ASSUME NEW t \in Threads, RelCall(t) PROVE Listed(Free, head, word, None)'
  <2> USE <1>7 DEF RelCall
  <2>1. PICK b \in held : blk' = [blk EXCEPT ![t] = b] /\ held' = held \ {b}
    OBVIOUS
  <2>2. b \in 1..cursor /\ b \in Blocks /\ \A s \in Threads : ~Private(s, b)
    BY <1>0, FreeInt DEF TypeOK, Exclusive, Private, PopSound
  <2>3. \A s \in Threads, c \in Int :
          Private(s, c)' <=> Private(s, c) \/ (s = t /\ c = b)
    BY <1>0, <2>1, <2>2 DEF TypeOK, Private
  <2>4. Free' = Free
    BY <1>0, <2>1, <2>2, <2>3 DEF TypeOK, Free
  <2> QED BY <1>3, <2>4
<1>8. ASSUME NEW t \in Threads,
             \/ AcqCall(t) \/ AcqLoad(t) \/ AcqNext(t) \/ AcqCasFail(t) \/ Exhausted(t)
             \/ AcqCount(t) \/ RelLoad(t) \/ RelCasFail(t) \/ RelCount(t)
      PROVE  Listed(Free, head, word, None)'
  <2> USE <1>8 DEF AcqCall, AcqLoad, AcqNext, AcqCasFail, Exhausted, AcqCount, RelLoad,
                   RelCasFail, RelCount
  <2>1. Free' = Free
    BY <1>0, SameFree DEF TypeOK
  <2> QED BY <1>3, <2>1
<1>9. CASE UNCHANGED vars
  BY <1>3, <1>9 DEF vars, Free, Private
<1> QED BY <1>1, <1>2, <1>4, <1>5, <1>6, <1>7, <1>8, <1>9 DEF Next, Step

\* No free block is lost: following the links from the head, as acquire_block
\* does, visits exactly the carved blocks nobody has.
THEOREM NoBlockStaysLost == Spec => []NoBlockLost
<1>1. Init => Linked
  <2> SUFFICES ASSUME Init PROVE Linked
    OBVIOUS
  <2>1. Free = {} /\ head = None
    BY NumBlocksAssumption DEF Init, Free
  <2> USE DEF Linked
  <2> QED BY <2>1, ListedNone DEF Linked
<1>2. IInv /\ Linked /\ [Next]_vars => Linked'
  BY NextLinked
<1>3. ASSUME IInv, Linked, ~aba PROVE NoBlockLost
  <2>1. /\ DOMAIN word = Blocks /\ Free \subseteq Blocks
        /\ None \notin Blocks /\ IsFiniteSet(Blocks)
    <3>1. IsFiniteSet(Blocks)
      BY NumBlocksAssumption, FS_Interval
    <3>2. DOMAIN word = Blocks /\ Free \subseteq Blocks
      BY <1>3, FreeInt DEF IInv, TypeOK
    <3> QED BY <3>1, <3>2, NumBlocksAssumption
  <2>2. ListCells(head, word, None) = Free
    <3>1. /\ Free \in SUBSET DOMAIN word /\ IsFiniteSet(DOMAIN word)
          /\ None \notin DOMAIN word /\ Listed(Free, head, word, None)
      BY <1>3, <2>1 DEF Linked
    <3> HIDE DEF None
    <3> QED BY <3>1, ListedFollowed
  <2> QED BY <2>2 DEF NoBlockLost, Stacked
<1>4. ASSUME aba PROVE NoBlockLost
  BY <1>4 DEF NoBlockLost
<1> QED BY <1>1, <1>2, <1>3, <1>4, Safety, PTL DEF Spec
=============================================================================
