------------------------- MODULE LargeObjects_proof -------------------------
(***************************************************************************)
(* Proofs about LargeObjects, for any number of threads, any size of the   *)
(* space and any sizes of objects.                                         *)
(*                                                                         *)
(* The invariant says where every run of the free list is: with the        *)
(* application, or in exactly one of the places where the calls keep them. *)
(* A place is a thread's list of one size, the list it is giving back, or  *)
(* the hands of its call.                                                  *)
(***************************************************************************)
EXTENDS LargeObjects, SharedLemmas

Busy == {"count", "setMeta", "getMeta", "unmap", "releaseCell"}
Making == {"count", "setMeta"}
Uncounted == {"count", "releaseCell"}
Pcs == {"idle", "acquire", "clear", "dead"} \cup Busy
Regs == [units : Requests \cup {0}, page : Links, next : Links,
         clearing : {"no", "crossed", "exit"}]

Chain == 0     \* the list clear_bins gives back
Hand == -1     \* the page of the call
Lists == Threads \X (Bins \cup {Chain})
Places == Threads \X (Bins \cup {Chain, Hand})
HeadOf(q) == IF q[2] = Chain THEN reg[q[1]].next ELSE bin[q[1]][q[2]]
InHands(t) == IF pc[t] \in Busy THEN {reg[t].page} ELSE {}
Pages(q) == IF q[2] = Hand THEN InHands(q[1]) ELSE Walk(HeadOf(q))
Holdings == [q \in Places |-> Pages(q)]

----------------------------------------------------------------------------
\* The invariant

Shapes ==
  /\ used \in SUBSET Runs /\ app \in SUBSET used
  /\ size \in [Units -> Requests \cup {0}]
  /\ sizes \in Nat /\ reserved \in Int
  /\ word \in [Units -> Links \cup {Garbage}]
  /\ bin \in [Threads -> [Bins -> Links]]
  /\ live \in [Threads -> Nat] /\ maxLive \in [Threads -> Nat]
  /\ cleared \in [Threads -> BOOLEAN]
  /\ pc \in [Threads -> Pcs]
  /\ reg \in [Threads -> Regs]

Separate == \A r, s \in used : r # s => Span(r) \cap Span(s) = {}

\* P says what pages are where: each is the first one of a run of u that is not
\* in a, which is in one place only, and every such run has its place.
Placed(P, u, a) ==
  /\ \A q \in Places : \A p \in P[q] :
       \E r \in u \ a : r[1] = p /\ (q[2] \in Bins => r[2] = q[2])
  /\ \A q1, q2 \in Places : q1 # q2 => P[q1] \cap P[q2] = {}
  /\ \A r \in u \ a : \E q \in Places : r[1] \in P[q]

Linked == \A q \in Lists : Listed(Pages(q), HeadOf(q), word, None)

\* The locals of a call, by where it is.
Locals(t) ==
  /\ pc[t] \notin Busy => reg[t].page = None
  /\ pc[t] \in Making \cup {"unmap", "releaseCell"} => <<reg[t].page, reg[t].units>> \in used
  /\ pc[t] \in {"idle", "clear", "dead", "getMeta"} => reg[t].units = 0
  /\ pc[t] = "acquire" => reg[t].units \in Requests
  /\ reg[t].clearing = "no" => reg[t].next = None
  /\ pc[t] \in Making \cup {"idle", "acquire", "dead"} => reg[t].clearing = "no"
  /\ pc[t] = "clear" => reg[t].clearing # "no"
  /\ pc[t] = "dead" => Filled(t) = {}

IInv ==
  /\ Shapes
  /\ Separate
  /\ Placed(Holdings, used, app)
  /\ Linked
  /\ \A t \in Threads : Locals(t)
  /\ SizesKnown
  /\ ReservedExact
  /\ LiveCovers

----------------------------------------------------------------------------
\* Numbers

LEMMA Numbers ==
  /\ 2^LogUnits \in Nat \ {0}
  /\ Requests \subseteq 1..2^LogUnits
  /\ Units \subseteq Nat /\ None \notin Units /\ Garbage \notin Units
  /\ Bins \subseteq Requests /\ Chain \notin Bins /\ Hand \notin Bins /\ Chain # Hand
  /\ IsFiniteSet(Units) /\ IsFiniteSet(Runs)
<1>1. 2^LogUnits \in Nat \ {0}
  BY SizesAssumption, PowerNat
<1>2. Requests \subseteq 1..2^LogUnits
  <2> SUFFICES ASSUME NEW n \in Requests PROVE n \in 1..2^LogUnits
    OBVIOUS
  <2>1. PICK k \in 0..LogUnits : n = 2^k
    BY SizesAssumption
  <2>2. 2^k \in Nat \ {0} /\ 2^k <= 2^LogUnits
    BY SizesAssumption, PowerNat, PowerGrows
  <2> QED BY <1>1, <2>1, <2>2
<1>3. Units \subseteq Nat /\ None \notin Units /\ Garbage \notin Units
  BY <1>1 DEF Units, None, Garbage
<1>4. Bins \subseteq Requests /\ Chain \notin Bins /\ Hand \notin Bins /\ Chain # Hand
  BY <1>1, <1>2 DEF Bins, Chain, Hand
<1>5. IsFiniteSet(Units)
  BY <1>1, FS_Interval DEF Units
<1>6. IsFiniteSet(Runs)
  <2>1. IsFiniteSet(1..2^LogUnits)
    BY <1>1, FS_Interval
  <2>2. IsFiniteSet(Units \X (1..2^LogUnits))
    BY <1>5, <2>1, FS_Product
  <2>3. Runs \in SUBSET (Units \X (1..2^LogUnits))
    BY <1>2 DEF Runs
  <2> QED BY <2>2, <2>3, FS_Subset
<1> QED BY <1>1, <1>2, <1>3, <1>4, <1>5, <1>6

LEMMA RunParts ==
  ASSUME NEW r \in Runs
  PROVE  /\ r = <<r[1], r[2]>> /\ r[1] \in Units /\ r[2] \in Requests /\ r[2] \in Nat \ {0}
         /\ r[1] \in Span(r) /\ Length[r] = r[2]
<1>1. r = <<r[1], r[2]>> /\ r[1] \in Units /\ r[2] \in Requests /\ Length[r] = r[2]
  BY DEF Runs, Length
<1>2. r[1] \in Nat /\ r[2] \in Nat \ {0}
  BY <1>1, Numbers
<1>3. r[1] \in Span(r)
  BY <1>2 DEF Span
<1> QED BY <1>1, <1>2, <1>3

\* A run is known by its first page.
LEMMA Starts ==
  ASSUME Shapes, Separate, NEW r \in used, NEW s \in used, r[1] = s[1]
  PROVE  r = s
<1>1. r[1] \in Span(r) /\ s[1] \in Span(s)
  BY RunParts DEF Shapes
<1> QED BY <1>1 DEF Separate

----------------------------------------------------------------------------
\* Places

LEMMA PlaceKinds ==
  /\ Lists \subseteq Places
  /\ \A q \in Places : /\ q[1] \in Threads /\ q[2] \in Bins \cup {Chain, Hand} /\ q = <<q[1], q[2]>>
                       /\ q \in Lists <=> q[2] # Hand
  /\ \A t \in Threads : /\ <<t, Hand>> \in Places /\ <<t, Chain>> \in Lists
                        /\ \A n \in Bins : <<t, n>> \in Lists
BY Numbers DEF Lists, Places

\* Pages that are somewhere are first pages.
LEMMA Held ==
  ASSUME IInv, NEW q \in Places
  PROVE  /\ Pages(q) \subseteq Units
         /\ \A p \in Pages(q) : \E r \in used \ app : r[1] = p /\ (q[2] \in Bins => r[2] = q[2])
         /\ \A z \in Places \ {q} : Pages(q) \cap Pages(z) = {}
         /\ Holdings[q] = Pages(q)
<1>1. Holdings[q] = Pages(q)
  BY DEF Holdings
<1>2. \A p \in Pages(q) : \E r \in used \ app : r[1] = p /\ (q[2] \in Bins => r[2] = q[2])
  BY <1>1 DEF IInv, Placed
<1>3. \A r \in used : r[1] \in Units
  BY RunParts DEF IInv, Shapes
<1>4. \A z \in Places \ {q} : Pages(q) \cap Pages(z) = {}
  BY DEF IInv, Placed, Holdings
<1> QED BY <1>1, <1>2, <1>3, <1>4

\* The run in the hands of a call.
LEMMA HandRun ==
  ASSUME IInv, NEW t \in Threads, pc[t] \in Busy
  PROVE  /\ reg[t].page \in Units
         /\ \E r \in used \ app : r[1] = reg[t].page
         /\ \A r \in used : r[1] = reg[t].page => r \notin app
         /\ \A s \in Threads \ {t} : pc[s] \in Busy => reg[s].page # reg[t].page
         /\ \A q \in Lists : reg[t].page \notin Pages(q)
         /\ pc[t] # "getMeta" => <<reg[t].page, reg[t].units>> \in used \ app
<1> DEFINE q == <<t, Hand>>
<1>1. q \in Places /\ q[1] = t /\ q[2] = Hand /\ \A s \in Threads \ {t} : <<s, Hand>> \in Places \ {q}
  BY PlaceKinds
<1>2. Pages(q) = {reg[t].page}
  BY <1>1 DEF Pages, InHands
<1>3. reg[t].page \in Units /\ \E r \in used \ app : r[1] = reg[t].page
  BY <1>1, <1>2, Held
<1>4. \A r \in used : r[1] = reg[t].page => r \notin app
  BY <1>3, Starts DEF IInv
<1>5. ASSUME NEW s \in Threads \ {t}, pc[s] \in Busy PROVE reg[s].page # reg[t].page
  <2>1. Pages(<<s, Hand>>) = {reg[s].page}
    BY <1>5 DEF Pages, InHands
  <2> QED BY <1>1, <1>2, <2>1, Held
<1>6. \A z \in Lists : reg[t].page \notin Pages(z)
  <2>1. \A z \in Lists : z \in Places \ {q}
    BY PlaceKinds
  <2> QED BY <1>1, <1>2, <2>1, Held
<1>7. pc[t] # "getMeta" => <<reg[t].page, reg[t].units>> \in used
  BY DEF IInv, Locals, Busy, Making
<1> QED BY <1>3, <1>4, <1>5, <1>6, <1>7
----------------------------------------------------------------------------
\* What changes hands

\* A page leaves its place: its run is given out, or back to the free list.
LEMMA PlacedLess ==
  ASSUME IInv, NEW q \in Places, NEW r \in used \ app, r[1] \in Pages(q),
         NEW u, NEW a, u \ a = (used \ app) \ {r}
  PROVE  Placed([Holdings EXCEPT ![q] = @ \ {r[1]}], u, a)
<1> DEFINE P == [Holdings EXCEPT ![q] = @ \ {r[1]}]
<1>1. /\ P[q] = Pages(q) \ {r[1]}
      /\ \A z \in Places \ {q} : P[z] = Pages(z)
  BY DEF Holdings
<1>2. \A z \in Places : P[z] \subseteq Pages(z) /\ r[1] \notin P[z]
  BY <1>1, Held
<1>3. ASSUME NEW z \in Places, NEW p \in P[z]
      PROVE  \E s \in u \ a : s[1] = p /\ (z[2] \in Bins => s[2] = z[2])
  <2>1. PICK s \in used \ app : s[1] = p /\ (z[2] \in Bins => s[2] = z[2])
    BY <1>2, <1>3, Held
  <2>2. s # r
    BY <1>2, <1>3, <2>1
  <2> QED BY <2>1, <2>2
<1>4. ASSUME NEW q1 \in Places, NEW q2 \in Places, q1 # q2 PROVE P[q1] \cap P[q2] = {}
  BY <1>2, <1>4, Held
<1>5. ASSUME NEW s \in u \ a PROVE \E z \in Places : s[1] \in P[z]
  <2>1. PICK z \in Places : s[1] \in Pages(z)
    BY DEF IInv, Placed, Holdings
  <2>2. s[1] # r[1]
    BY Starts DEF IInv
  <2> QED BY <1>1, <2>1, <2>2
<1> HIDE DEF P
<1>6. Placed(P, u, a)
  BY <1>3, <1>4, <1>5 DEF Placed
<1> QED BY <1>6 DEF P

\* A page comes to a place: the application's, or a new one.
LEMMA PlacedMore ==
  ASSUME IInv, NEW q \in Places, NEW r \in Runs, NEW u, NEW a,
         u \ a = (used \ app) \cup {r}, q[2] \in Bins => r[2] = q[2],
         \A s \in used \ app : s[1] # r[1]
  PROVE  Placed([Holdings EXCEPT ![q] = @ \cup {r[1]}], u, a)
<1> DEFINE P == [Holdings EXCEPT ![q] = @ \cup {r[1]}]
<1>1. /\ P[q] = Pages(q) \cup {r[1]}
      /\ \A z \in Places \ {q} : P[z] = Pages(z)
  BY DEF Holdings
<1>2. \A z \in Places : r[1] \notin Pages(z)
  BY Held
<1>3. ASSUME NEW z \in Places, NEW p \in P[z]
      PROVE  \E s \in u \ a : s[1] = p /\ (z[2] \in Bins => s[2] = z[2])
  <2>1. CASE p \in Pages(z)
    <3>1. PICK s \in used \ app : s[1] = p /\ (z[2] \in Bins => s[2] = z[2])
      BY <2>1, Held
    <3> QED BY <3>1
  <2>2. CASE p \notin Pages(z)
    BY <1>1, <1>3, <2>2
  <2> QED BY <2>1, <2>2
<1>4. ASSUME NEW q1 \in Places, NEW q2 \in Places, q1 # q2 PROVE P[q1] \cap P[q2] = {}
  <2>1. Pages(q1) \cap Pages(q2) = {}
    BY <1>4, Held
  <2> QED BY <1>1, <1>2, <1>4, <2>1
<1>5. ASSUME NEW s \in u \ a PROVE \E z \in Places : s[1] \in P[z]
  <2>1. CASE s = r
    BY <1>1, <2>1
  <2>2. CASE s # r
    <3>1. PICK z \in Places : s[1] \in Pages(z)
      BY <2>2 DEF IInv, Placed, Holdings
    <3> QED BY <1>1, <3>1
  <2> QED BY <2>1, <2>2
<1> HIDE DEF P
<1>6. Placed(P, u, a)
  BY <1>3, <1>4, <1>5 DEF Placed
<1> QED BY <1>6 DEF P

\* Pages move from one place to another that keeps any.
LEMMA PlacedMoved ==
  ASSUME IInv, NEW q \in Places, NEW z \in Places, q # z, z[2] \notin Bins,
         NEW M \in SUBSET Pages(q)
  PROVE  Placed([Holdings EXCEPT ![q] = @ \ M, ![z] = @ \cup M], used, app)
<1> DEFINE P == [Holdings EXCEPT ![q] = @ \ M, ![z] = @ \cup M]
<1>1. /\ P[q] = Pages(q) \ M /\ P[z] = Pages(z) \cup M
      /\ \A x \in Places \ {q, z} : P[x] = Pages(x)
  BY DEF Holdings
<1>2. ASSUME NEW x \in Places, NEW p \in P[x]
      PROVE  \E s \in used \ app : s[1] = p /\ (x[2] \in Bins => s[2] = x[2])
  <2>1. CASE p \in Pages(x)
    BY <2>1, Held
  <2>2. CASE p \notin Pages(x)
    <3>1. x = z /\ p \in Pages(q)
      BY <1>1, <1>2, <2>2
    <3> QED BY <3>1, Held
  <2> QED BY <2>1, <2>2
<1>3. ASSUME NEW q1 \in Places, NEW q2 \in Places, q1 # q2 PROVE P[q1] \cap P[q2] = {}
  <2>1. /\ Pages(q1) \cap Pages(q2) = {}
        /\ \A x \in Places \ {q} : Pages(x) \cap M = {}
    BY <1>3, Held
  <2> QED BY <1>1, <1>3, <2>1
<1>4. ASSUME NEW s \in used \ app PROVE \E x \in Places : s[1] \in P[x]
  <2>1. PICK x \in Places : s[1] \in Pages(x)
    BY DEF IInv, Placed, Holdings
  <2> QED BY <1>1, <2>1
<1> HIDE DEF P
<1>5. Placed(P, used, app)
  BY <1>2, <1>3, <1>4 DEF Placed
<1> QED BY <1>5 DEF P

----------------------------------------------------------------------------
\* After a step

\* If the lists are those of P, and the hands too, P is what the places hold.
LEMMA Rearranged ==
  ASSUME NEW P, Placed(P, used', app'), word' \in [Units -> Links \cup {Garbage}],
         \A q \in Lists : P[q] \in SUBSET Units /\ Listed(P[q], HeadOf(q)', word', None),
         \A t \in Threads : P[<<t, Hand>>] = InHands(t)'
  PROVE  Placed(Holdings, used, app)' /\ Linked'
<1>1. ASSUME NEW q \in Lists PROVE Walk(HeadOf(q))' = P[q]
  <2> DEFINE w == word'
             h == HeadOf(q)'
  <2>1. DOMAIN w = Units /\ IsFiniteSet(DOMAIN w) /\ None \notin DOMAIN w
    BY Numbers
  <2>2. P[q] \in SUBSET DOMAIN w /\ Listed(P[q], h, w, None)
    BY <2>1
  <2> HIDE DEF w, h
  <2>3. ListCells(h, w, None) = P[q]
    BY <2>1, <2>2, ListedFollowed
  <2> QED BY <2>3 DEF Walk, w, h
<1>2. ASSUME NEW q \in Places PROVE Pages(q)' = P[q]
  <2>1. CASE q[2] = Hand
    BY <2>1, PlaceKinds DEF Pages
  <2>2. CASE q[2] # Hand
    BY <1>1, <2>2, PlaceKinds DEF Pages
  <2> QED BY <2>1, <2>2
<1>3. Linked'
  <2>1. \A q \in Lists : Pages(q)' = P[q]
    BY <1>2, PlaceKinds
  <2> QED BY <2>1 DEF Linked
<1>4. Holdings' = [q \in Places |-> P[q]]
  BY <1>2 DEF Holdings
<1>5. Placed([q \in Places |-> P[q]], used', app')
  BY DEF Placed
<1> QED BY <1>3, <1>4, <1>5

\* The lists and hands stay as they are.
LEMMA Unmoved ==
  ASSUME IInv, used' \ app' = used \ app, word' \in [Units -> Links \cup {Garbage}],
         \A q \in Lists : HeadOf(q)' = HeadOf(q),
         \A q \in Lists : \A p \in Pages(q) : word'[p] = word[p],
         \A t \in Threads : InHands(t)' = InHands(t)
  PROVE  Placed(Holdings, used, app)' /\ Linked'
<1>1. Placed(Holdings, used', app')
  BY DEF IInv, Placed
<1>2. \A q \in Lists : Holdings[q] \in SUBSET Units /\ Holdings[q] = Pages(q)
  BY Held, PlaceKinds
<1>3. \A q \in Lists : Listed(Pages(q), HeadOf(q), word', None)
  BY ListedSame DEF IInv, Linked
<1>4. \A t \in Threads : Holdings[<<t, Hand>>] = InHands(t)'
  BY PlaceKinds DEF Holdings, Pages
<1>5. \A q \in Lists : Listed(Holdings[q], HeadOf(q)', word', None)
  BY <1>2, <1>3
<1> QED BY <1>1, <1>2, <1>4, <1>5, Rearranged

LEMMA LocalUnits ==
  ASSUME Shapes, NEW t \in Threads
  PROVE  reg[t].units \in Requests \cup {0} /\ reg[t].units \in Nat
<1>1. reg[t] \in Regs
  BY DEF Shapes
<1>2. reg[t].units \in Requests \cup {0}
  BY <1>1 DEF Regs
<1>3. \A n \in Requests \cup {0} : n \in Nat
  BY Numbers
<1> QED BY <1>2, <1>3

\* A step of t: nobody else moves.
Alone(t) ==
  \A s \in Threads \ {t} : /\ pc'[s] = pc[s] /\ reg'[s] = reg[s] /\ bin'[s] = bin[s]
                           /\ live'[s] = live[s]

\* The locals of the others hold when their runs stay with the free list.
LEMMA LocalsKept ==
  ASSUME IInv, NEW t \in Threads, Alone(t), NEW s \in Threads \ {t},
         pc[s] \in Busy /\ <<reg[s].page, reg[s].units>> \in used => <<reg[s].page, reg[s].units>> \in used'
  PROVE  Locals(s)'
BY DEF IInv, Locals, Alone, Filled, Busy, Making

\* The table is as right as before.
LEMMA SizesKept ==
  ASSUME IInv, NEW t \in Threads, Alone(t), size' = size, sizes' = sizes,
         pc[t] \in Making => pc'[t] \in Making /\ reg'[t].page = reg[t].page,
         \A r \in used' : r \in used \/ (pc'[t] \in Making /\ reg'[t].page = r[1])
  PROVE  SizesKnown'
<1> SUFFICES ASSUME NEW r \in used',
                    \A s \in Threads : ~(pc'[s] \in {"count", "setMeta"} /\ reg'[s].page = r[1])
             PROVE  size[r[1]] = r[2] /\ r[1] < sizes
  BY DEF SizesKnown
<1>1. r \in used
  BY DEF Making
<1>2. ASSUME NEW s \in Threads PROVE ~(pc[s] \in {"count", "setMeta"} /\ reg[s].page = r[1])
  BY DEF Alone, Making
<1> QED BY <1>1, <1>2 DEF IInv, SizesKnown

\* What is between counter and free list does not change.
LEMMA ReservedKept ==
  ASSUME IInv, NEW t \in Threads, Alone(t), reserved' = reserved, used' = used,
         pc[t] \notin Uncounted, pc'[t] \notin Uncounted
  PROVE  ReservedExact'
<1> DEFINE C == {s \in Threads : pc[s] \in {"count", "releaseCell"}}
           f == [s \in Threads |-> reg[s].units]
           g == [s \in Threads |-> reg'[s].units]
<1>1. {s \in Threads : pc'[s] \in {"count", "releaseCell"}} = C
  BY DEF Alone, Uncounted
<1>2. IsFiniteSet(C) /\ C \subseteq Threads /\ t \notin C
  BY ThreadsAssumption, FS_Subset DEF Uncounted
<1>3. \A s \in C : f[s] \in Nat /\ g[s] = f[s]
  <2> SUFFICES ASSUME NEW s \in C PROVE f[s] \in Nat /\ g[s] = f[s]
    OBVIOUS
  <2>1. s \in Threads /\ reg'[s] = reg[s]
    BY <1>2 DEF Alone
  <2>2. reg[s].units \in Nat
    BY <2>1, LocalUnits DEF IInv
  <2> QED BY <2>1, <2>2
<1> HIDE DEF C, f, g
<1>4. Total(g, C) = Total(f, C)
  BY <1>2, <1>3, TotalSame
<1>5. reserved = Total(Length, used) - Total(f, C)
  BY DEF IInv, ReservedExact, f, C
<1> QED BY <1>1, <1>4, <1>5 DEF ReservedExact, g

\* The live counts and what they cover do not change.
LEMMA LiveKept ==
  ASSUME IInv, app' = app, live' = live
  PROVE  LiveCovers'
BY DEF IInv, LiveCovers
\* What is between the counter and the free list.
Between == Total([t \in Threads |-> reg[t].units], {t \in Threads : pc[t] \in {"count", "releaseCell"}})

LEMMA CountedIn ==
  ASSUME IInv, NEW t \in Threads, Alone(t), pc[t] \notin Uncounted, pc'[t] \in Uncounted,
         NEW n \in Nat, n = reg'[t].units
  PROVE  Between' = Between + n /\ Between \in Nat
<1> DEFINE C == {s \in Threads : pc[s] \in {"count", "releaseCell"}}
           f == [s \in Threads |-> reg[s].units]
           g == [s \in Threads |-> reg'[s].units]
<1>1. {s \in Threads : pc'[s] \in {"count", "releaseCell"}} = C \cup {t}
  BY DEF Alone, Uncounted
<1>2. IsFiniteSet(C) /\ C \subseteq Threads /\ t \notin C
  BY ThreadsAssumption, FS_Subset DEF Uncounted
<1>3. \A s \in C : f[s] \in Nat /\ g[s] = f[s]
  <2> SUFFICES ASSUME NEW s \in C PROVE f[s] \in Nat /\ g[s] = f[s]
    OBVIOUS
  <2>1. s \in Threads /\ reg'[s] = reg[s]
    BY <1>2 DEF Alone
  <2> QED BY <2>1, LocalUnits DEF IInv
<1>4. g[t] = n /\ Between = Total(f, C) /\ Between' = Total(g, C \cup {t})
  BY <1>1 DEF Between
<1> HIDE DEF C, f, g
<1>5. Total(g, C \cup {t}) = Total(g, C) + g[t]
  BY <1>2, <1>3, <1>4, TotalAdd
<1>6. Total(g, C) = Total(f, C) /\ Total(f, C) \in Nat
  BY <1>2, <1>3, TotalSame, TotalNat
<1> QED BY <1>4, <1>5, <1>6

LEMMA CountedOut ==
  ASSUME IInv, NEW t \in Threads, Alone(t), pc[t] \in Uncounted, pc'[t] \notin Uncounted
  PROVE  Between' = Between - reg[t].units /\ Between \in Nat
<1> DEFINE C == {s \in Threads : pc[s] \in {"count", "releaseCell"}}
           f == [s \in Threads |-> reg[s].units]
           g == [s \in Threads |-> reg'[s].units]
<1>1. {s \in Threads : pc'[s] \in {"count", "releaseCell"}} = C \ {t}
  BY DEF Alone, Uncounted
<1>2. IsFiniteSet(C) /\ C \subseteq Threads /\ t \in C /\ IsFiniteSet(C \ {t})
  BY ThreadsAssumption, FS_Subset, FS_RemoveElement DEF Uncounted
<1>3. \A s \in C : f[s] \in Nat
  BY LocalUnits DEF IInv
<1>4. \A s \in C \ {t} : g[s] = f[s]
  BY DEF Alone
<1>5. f[t] = reg[t].units /\ Between = Total(f, C) /\ Between' = Total(g, C \ {t})
  BY <1>1 DEF Between
<1> HIDE DEF C, f, g
<1>6. Total(f, C \ {t}) = Total(f, C) - f[t]
  BY <1>2, <1>3, TotalRemove
<1>7. Total(g, C \ {t}) = Total(f, C \ {t}) /\ Total(f, C) \in Nat
  BY <1>2, <1>3, <1>4, TotalSame, TotalNat
<1> QED BY <1>5, <1>6, <1>7

LEMMA LengthsNat ==
  ASSUME NEW S \in SUBSET Runs
  PROVE  /\ IsFiniteSet(S) /\ \A r \in S : Length[r] \in Nat
         /\ Total(Length, S) \in Nat
<1>1. IsFiniteSet(S) /\ \A r \in S : Length[r] \in Nat
  BY Numbers, FS_Subset, RunParts
<1> QED BY <1>1, TotalNat

----------------------------------------------------------------------------
\* Objects handed out and taken back

LEMMA HandedOut ==
  ASSUME IInv, NEW t \in Threads, NEW page, NEW n, <<page, n>> \in used \ app, HandOut(t, page, n)
  PROVE  /\ app' = app \cup {<<page, n>>} /\ app' \in SUBSET used
         /\ word' = [word EXCEPT ![page] = Garbage] /\ word' \in [Units -> Links \cup {Garbage}]
         /\ live' \in [Threads -> Nat] /\ maxLive' \in [Threads -> Nat]
         /\ cleared' \in [Threads -> BOOLEAN]
         /\ \A s \in Threads \ {t} : live'[s] = live[s]
         /\ LiveCovers'
<1> DEFINE x == <<page, n>>
           A == {r \in app : r[2] \in Bins}
<1>1. /\ app' = app \cup {x} /\ app' \in SUBSET used /\ used \in SUBSET Runs /\ app \in SUBSET Runs
      /\ word' = [word EXCEPT ![page] = Garbage] /\ word' \in [Units -> Links \cup {Garbage}]
      /\ live \in [Threads -> Nat] /\ maxLive \in [Threads -> Nat] /\ cleared \in [Threads -> BOOLEAN]
  BY DEF HandOut, IInv, Shapes
<1>2. x \in Runs /\ n \in Nat /\ Length[x] = n
  BY <1>1, RunParts
<1>3. IF n \in Bins
      THEN /\ live' = [live EXCEPT ![t] = @ + n]
           /\ maxLive' = [maxLive EXCEPT ![t] = IF live[t] + n >= @ THEN live[t] + n ELSE @]
           /\ cleared' = [cleared EXCEPT ![t] = @ /\ live[t] + n < maxLive[t]]
      ELSE live' = live /\ maxLive' = maxLive /\ cleared' = cleared
  BY DEF HandOut, counters
<1>4. /\ live' \in [Threads -> Nat] /\ maxLive' \in [Threads -> Nat]
      /\ \A s \in Threads \ {t} : live'[s] = live[s]
      /\ live'[t] = IF n \in Bins THEN live[t] + n ELSE live[t]
  BY <1>1, <1>2, <1>3
<1>5. cleared' \in [Threads -> BOOLEAN]
  <2>1. CASE n \in Bins
    <3>1. (cleared[t] /\ live[t] + n < maxLive[t]) \in BOOLEAN
      BY <1>1
    <3> QED BY <1>1, <1>3, <2>1, <3>1
  <2>2. CASE n \notin Bins
    BY <1>1, <1>3, <2>2
  <2> QED BY <2>1, <2>2
<1>6. LiveCovers'
  <2>1. /\ A \in SUBSET Runs /\ x \notin A /\ IsFiniteSet(A) /\ Total(Length, A) \in Nat
        /\ \A r \in A : Length[r] \in Nat
    BY <1>1, LengthsNat
  <2>2. /\ Total(live', Threads) = Total(live, Threads) + live'[t] - live[t]
        /\ Total(live, Threads) \in Nat
    BY <1>1, <1>4, ThreadsAssumption, TotalChange, TotalNat
  <2>3. Total(Length, A) <= Total(live, Threads)
    BY DEF IInv, LiveCovers
  <2>4. {r \in app' : r[2] \in Bins} = IF n \in Bins THEN A \cup {x} ELSE A
    BY <1>1
  <2> HIDE DEF A
  <2>5. Total(Length, A \cup {x}) = Total(Length, A) + n
    BY <1>2, <2>1, TotalAdd
  <2>6. live[t] \in Nat
    BY <1>1
  <2>7. Total(Length, {r \in app' : r[2] \in Bins}) <= Total(live', Threads)
    <3>1. CASE n \in Bins
      <4>1. Total(Length, {r \in app' : r[2] \in Bins}) = Total(Length, A) + n
        BY <2>4, <2>5, <3>1
      <4>2. Total(live', Threads) = Total(live, Threads) + n
        BY <1>2, <1>4, <2>2, <2>6, <3>1
      <4> QED BY <1>2, <2>1, <2>2, <2>3, <4>1, <4>2
    <3>2. CASE n \notin Bins
      <4>1. Total(live', Threads) = Total(live, Threads)
        BY <1>4, <2>2, <2>6, <3>2
      <4> QED BY <2>3, <2>4, <3>2, <4>1
    <3> QED BY <3>1, <3>2
  <2> QED BY <2>7 DEF LiveCovers
<1> QED BY <1>1, <1>4, <1>5, <1>6

\* dealloc finds the size of the application's object in the table.
LEMMA SizeFound ==
  ASSUME IInv, NEW r \in app
  PROVE  /\ r \in used /\ r \in Runs /\ size[r[1]] = r[2] /\ r = <<r[1], r[2]>>
         /\ r[1] \in Units /\ r[2] \in Requests /\ r[2] \in Nat \ {0}
         /\ \A q \in Places : r[1] \notin Pages(q)
         /\ \A s \in used \ app : s[1] # r[1]
<1>1. r \in used /\ r \in Runs
  BY DEF IInv, Shapes
<1>2. \A s \in used \ app : s[1] # r[1]
  BY <1>1, Starts DEF IInv
<1>3. \A q \in Places : r[1] \notin Pages(q)
  BY <1>2, Held
<1>4. ASSUME NEW t \in Threads, pc[t] \in {"count", "setMeta"}, reg[t].page = r[1] PROVE FALSE
  BY <1>1, <1>4, HandRun DEF Busy
<1>5. size[r[1]] = r[2]
  BY <1>1, <1>4 DEF IInv, SizesKnown
<1> QED BY <1>1, <1>2, <1>3, <1>5, RunParts

\* The first page of a list that is not empty.
LEMMA FirstOf ==
  ASSUME IInv, NEW q \in Lists, HeadOf(q) # None
  PROVE  /\ HeadOf(q) \in Pages(q) /\ HeadOf(q) \in Units /\ word[HeadOf(q)] \in Links
         /\ Listed(Pages(q) \ {HeadOf(q)}, word[HeadOf(q)], word, None)
         /\ \E r \in used \ app : r[1] = HeadOf(q) /\ (q[2] \in Bins => r[2] = q[2])
<1> DEFINE L == Pages(q)
           h == HeadOf(q)
<1>1. q \in Places
  BY PlaceKinds
<1>2. L \subseteq Units /\ None \notin L
  BY <1>1, Held, Numbers
<1>3. Listed(L, h, word, None)
  BY DEF IInv, Linked
<1> HIDE DEF L, h
<1>4. h \in L \cup {None} /\ \A a \in L : word[a] \in L \cup {None}
  BY <1>2, <1>3, ListedLinks
<1>5. h \in L
  BY <1>4 DEF h
<1>6. Listed(L \ {h}, word[h], word, None)
  BY <1>3, <1>5, ListedPop
<1>7. \E r \in used \ app : r[1] = h /\ (q[2] \in Bins => r[2] = q[2])
  BY <1>1, <1>5, Held DEF L
<1>8. word[h] \in Links
  BY <1>2, <1>4, <1>5 DEF Links
<1> QED BY <1>2, <1>5, <1>6, <1>7, <1>8 DEF L, h
----------------------------------------------------------------------------
\* Every step keeps the invariant

LEMMA AllocCachedKeeps == ASSUME IInv, NEW t \in Threads, AllocCached(t) PROVE IInv'
<1>1. PICK n \in Bins :
        /\ bin[t][n] \in Units
        /\ bin' = [bin EXCEPT ![t][n] = word[bin[t][n]]]
        /\ HandOut(t, bin[t][n], n)
  BY DEF AllocCached
<1>2. /\ pc[t] = "idle" /\ pc' = pc /\ reg' = reg /\ used' = used /\ size' = size
      /\ sizes' = sizes /\ reserved' = reserved
  BY DEF AllocCached, Goto, pageResource, IInv, Shapes
<1> DEFINE q == <<t, n>>
           h == bin[t][n]
           P == [Holdings EXCEPT ![q] = @ \ {h}]
<1>3. q \in Lists /\ q \in Places /\ HeadOf(q) = h /\ h # None
  BY <1>1, PlaceKinds, Numbers DEF HeadOf
<1>4. /\ h \in Pages(q) /\ h \in Units /\ word[h] \in Links
      /\ Listed(Pages(q) \ {h}, word[h], word, None)
      /\ <<h, n>> \in used \ app
  <2>1. PICK r \in used \ app : r[1] = h /\ (q[2] \in Bins => r[2] = q[2])
    BY <1>3, FirstOf
  <2>2. r = <<h, n>>
    BY <2>1, RunParts DEF IInv, Shapes
  <2> QED BY <1>3, <2>1, <2>2, FirstOf
<1>5. /\ app' = app \cup {<<h, n>>} /\ app' \in SUBSET used
      /\ word' = [word EXCEPT ![h] = Garbage] /\ word' \in [Units -> Links \cup {Garbage}]
      /\ live' \in [Threads -> Nat] /\ maxLive' \in [Threads -> Nat]
      /\ cleared' \in [Threads -> BOOLEAN]
      /\ \A s \in Threads \ {t} : live'[s] = live[s]
      /\ LiveCovers'
  BY <1>1, <1>4, HandedOut
<1>6. /\ bin' \in [Threads -> [Bins -> Links]]
      /\ HeadOf(q)' = word[h] /\ \A z \in Lists \ {q} : HeadOf(z)' = HeadOf(z)
      /\ \A s \in Threads \ {t} : bin'[s] = bin[s]
  <2>1. bin \in [Threads -> [Bins -> Links]]
    BY DEF IInv, Shapes
  <2>2. /\ bin' \in [Threads -> [Bins -> Links]] /\ bin'[t][n] = word[h]
        /\ \A s \in Threads, m \in Bins : <<s, m>> # q => bin'[s][m] = bin[s][m]
        /\ \A s \in Threads \ {t} : bin'[s] = bin[s]
    BY <1>1, <1>4, <2>1
  <2>3. \A z \in Lists \ {q} : z[2] # Chain => HeadOf(z)' = HeadOf(z)
    BY <2>2, PlaceKinds, Numbers DEF HeadOf, Lists
  <2> QED BY <1>2, <1>3, <2>2, <2>3, Numbers DEF HeadOf
<1>7. Shapes' /\ Separate'
  BY <1>2, <1>5, <1>6 DEF IInv, Shapes, Separate
<1>8. Alone(t)
  BY <1>2, <1>5, <1>6 DEF Alone
<1>9. Placed(Holdings, used, app)' /\ Linked'
  <2>1. Placed(P, used', app')
    <3>1. used' \ app' = (used \ app) \ {<<h, n>>} /\ <<h, n>>[1] = h
      BY <1>2, <1>5
    <3> QED BY <1>3, <1>4, <3>1, PlacedLess
  <2>2. P[q] = Pages(q) \ {h} /\ \A z \in Places \ {q} : P[z] = Pages(z)
    BY <1>3 DEF Holdings
  <2>3. ASSUME NEW z \in Lists PROVE P[z] \in SUBSET Units /\ Listed(P[z], HeadOf(z)', word', None)
    <3>1. z \in Places /\ P[z] \subseteq Pages(z) /\ h \notin P[z]
      BY <1>3, <1>4, <2>2, Held, PlaceKinds
    <3>2. P[z] \in SUBSET Units
      BY <3>1, Held
    <3>3. Listed(P[z], HeadOf(z)', word, None)
      <4>1. CASE z = q
        BY <1>4, <1>6, <2>2, <4>1
      <4>2. CASE z # q
        BY <1>6, <2>2, <3>1, <4>2 DEF IInv, Linked
      <4> QED BY <4>1, <4>2
    <3>4. \A a \in P[z] : word'[a] = word[a]
      BY <1>5, <3>1, <3>2 DEF IInv, Shapes
    <3> QED BY <3>2, <3>3, <3>4, ListedSame
  <2>4. ASSUME NEW s \in Threads PROVE P[<<s, Hand>>] = InHands(s)'
    <3>1. <<s, Hand>> \in Places \ {q} /\ Pages(<<s, Hand>>) = InHands(s)
      BY PlaceKinds, Numbers DEF Pages
    <3> QED BY <1>2, <2>2, <3>1 DEF InHands
  <2> HIDE DEF P
  <2> QED BY <1>5, <2>1, <2>3, <2>4, Rearranged
<1>10. \A s \in Threads : Locals(s)'
  <2>1. Locals(t)'
    BY <1>2 DEF IInv, Locals, Making
  <2>2. \A s \in Threads \ {t} : Locals(s)'
    BY <1>2, <1>8, LocalsKept
  <2> QED BY <2>1, <2>2
<1>11. SizesKnown'
  BY <1>2, <1>8, SizesKept DEF Making
<1>12. ReservedExact'
  BY <1>2, <1>8, ReservedKept DEF Uncounted
<1> QED BY <1>5, <1>7, <1>9, <1>10, <1>11, <1>12 DEF IInv

\* Steps that only change the locals of a call, or the table of sizes.
LEMMA QuietKeeps ==
  ASSUME IInv, NEW t \in Threads, Shapes', Alone(t), Locals(t)', ReservedExact', SizesKnown',
         used' = used, app' = app, bin' = bin, live' = live,
         reg'[t].next = reg[t].next, InHands(t)' = InHands(t),
         \A q \in Lists : \A p \in Pages(q) : word'[p] = word[p]
  PROVE  IInv'
<1>1. Separate'
  BY DEF IInv, Separate
<1>2. Placed(Holdings, used, app)' /\ Linked'
  <2>1. \A q \in Lists : HeadOf(q)' = HeadOf(q)
    BY PlaceKinds DEF HeadOf, Alone
  <2>2. \A s \in Threads : InHands(s)' = InHands(s)
    BY DEF InHands, Alone
  <2>3. word' \in [Units -> Links \cup {Garbage}]
    BY DEF Shapes
  <2> QED BY <2>1, <2>2, <2>3, Unmoved
<1>3. \A s \in Threads : Locals(s)'
  BY LocalsKept
<1>4. LiveCovers'
  BY LiveKept
<1> QED BY <1>1, <1>2, <1>3, <1>4 DEF IInv

LEMMA AllocCallKeeps == ASSUME IInv, NEW t \in Threads, AllocCall(t) PROVE IInv'
<1>1. PICK n \in Requests : reg' = [reg EXCEPT ![t].units = n]
  BY DEF AllocCall
<1>2. /\ pc[t] = "idle" /\ pc' = [pc EXCEPT ![t] = "acquire"] /\ used' = used /\ size' = size
      /\ sizes' = sizes /\ reserved' = reserved /\ word' = word /\ bin' = bin /\ live' = live
      /\ maxLive' = maxLive /\ cleared' = cleared /\ app' = app
  BY DEF AllocCall, Goto, pageResource, counters
<1>3. /\ Shapes /\ Locals(t) /\ reg \in [Threads -> Regs] /\ pc \in [Threads -> Pcs]
  BY DEF IInv, Shapes
<1>4. /\ reg' \in [Threads -> Regs] /\ reg'[t] = [reg[t] EXCEPT !.units = n]
      /\ \A s \in Threads \ {t} : reg'[s] = reg[s]
  BY <1>1, <1>3 DEF Regs
<1>5. pc' \in [Threads -> Pcs] /\ pc'[t] = "acquire" /\ \A s \in Threads \ {t} : pc'[s] = pc[s]
  BY <1>2, <1>3 DEF Pcs
<1>6. /\ reg'[t].units = n /\ reg'[t].page = reg[t].page /\ reg'[t].next = reg[t].next
      /\ reg'[t].clearing = reg[t].clearing
  BY <1>3, <1>4 DEF Regs
<1>7. Shapes' /\ Alone(t)
  BY <1>2, <1>3, <1>4, <1>5 DEF Shapes, Alone
<1>8. Locals(t)'
  BY <1>2, <1>3, <1>5, <1>6 DEF Locals, Busy, Making
<1>9. SizesKnown' /\ ReservedExact'
  BY <1>2, <1>5, <1>7, SizesKept, ReservedKept DEF Making, Uncounted
<1>10. InHands(t)' = InHands(t)
  BY <1>2, <1>5 DEF InHands, Busy
<1> QED BY <1>2, <1>6, <1>7, <1>8, <1>9, <1>10, QuietKeeps

LEMMA AcquireFailsKeeps == ASSUME IInv, NEW t \in Threads, AcquireFails(t) PROVE IInv'
<1>2. /\ pc[t] = "acquire" /\ pc' = [pc EXCEPT ![t] = "idle"] /\ used' = used /\ size' = size
      /\ sizes' = sizes /\ reserved' = reserved /\ word' = word /\ bin' = bin /\ live' = live
      /\ maxLive' = maxLive /\ cleared' = cleared /\ app' = app
      /\ reg' = [reg EXCEPT ![t] = NoLocals]
  BY DEF AcquireFails, Goto, pageResource, counters
<1>3. /\ Shapes /\ Locals(t) /\ reg \in [Threads -> Regs] /\ pc \in [Threads -> Pcs]
  BY DEF IInv, Shapes
<1>4. /\ reg' \in [Threads -> Regs] /\ reg'[t] = NoLocals
      /\ \A s \in Threads \ {t} : reg'[s] = reg[s]
  BY <1>2, <1>3 DEF Regs, NoLocals, Links
<1>5. pc' \in [Threads -> Pcs] /\ pc'[t] = "idle" /\ \A s \in Threads \ {t} : pc'[s] = pc[s]
  BY <1>2, <1>3 DEF Pcs
<1>6. /\ reg'[t].units = 0 /\ reg'[t].page = None /\ reg'[t].next = None
      /\ reg'[t].clearing = "no" /\ reg[t].next = None
  BY <1>2, <1>3, <1>4 DEF NoLocals, Locals, Making
<1>7. Shapes' /\ Alone(t)
  BY <1>2, <1>3, <1>4, <1>5 DEF Shapes, Alone
<1>8. Locals(t)'
  BY <1>5, <1>6 DEF Locals, Busy, Making
<1>9. SizesKnown' /\ ReservedExact'
  BY <1>2, <1>5, <1>7, SizesKept, ReservedKept DEF Making, Uncounted
<1>10. InHands(t)' = InHands(t)
  BY <1>2, <1>5 DEF InHands, Busy
<1> QED BY <1>2, <1>6, <1>7, <1>8, <1>9, <1>10, QuietKeeps
LEMMA AcquireKeeps == ASSUME IInv, NEW t \in Threads, Acquire(t) PROVE IInv'
<1>1. PICK r \in Runs : /\ r[2] = reg[t].units
                        /\ \A s \in used : Span(r) \cap Span(s) = {}
                        /\ used' = used \cup {r}
                        /\ reg' = [reg EXCEPT ![t].page = r[1]]
  BY DEF Acquire
<1>2. /\ pc[t] = "acquire" /\ pc' = [pc EXCEPT ![t] = "count"] /\ size' = size
      /\ sizes' = sizes /\ reserved' = reserved /\ word' = word /\ bin' = bin /\ live' = live
      /\ maxLive' = maxLive /\ cleared' = cleared /\ app' = app
  BY DEF Acquire, Goto, counters
<1>3. /\ Shapes /\ Locals(t) /\ reg \in [Threads -> Regs] /\ pc \in [Threads -> Pcs]
      /\ used \in SUBSET Runs /\ app \in SUBSET used
  BY DEF IInv, Shapes
<1>4. /\ r = <<r[1], r[2]>> /\ r[1] \in Units /\ r[1] \in Links /\ r[2] \in Nat /\ Length[r] = r[2]
      /\ r \notin used /\ \A s \in used : s[1] # r[1]
  BY <1>1, <1>3, RunParts DEF Links
<1>5. /\ reg' \in [Threads -> Regs] /\ reg'[t] = [reg[t] EXCEPT !.page = r[1]]
      /\ \A s \in Threads \ {t} : reg'[s] = reg[s]
  BY <1>1, <1>3, <1>4 DEF Regs
<1>6. pc' \in [Threads -> Pcs] /\ pc'[t] = "count" /\ \A s \in Threads \ {t} : pc'[s] = pc[s]
  BY <1>2, <1>3 DEF Pcs, Busy
<1>7. /\ reg'[t].units = r[2] /\ reg'[t].page = r[1] /\ reg'[t].next = reg[t].next
      /\ reg'[t].clearing = reg[t].clearing
  BY <1>1, <1>3, <1>5 DEF Regs
<1>8. Shapes'
  <2>1. used' \in SUBSET Runs /\ app' \in SUBSET used'
    BY <1>1, <1>2, <1>3
  <2> QED BY <1>2, <1>3, <1>5, <1>6, <2>1 DEF Shapes
<1>9. Alone(t)
  BY <1>2, <1>5, <1>6 DEF Alone
<1>10. Separate'
  <2> SUFFICES ASSUME NEW a \in used', NEW b \in used', a # b PROVE Span(a) \cap Span(b) = {}
    BY DEF Separate, Span
  <2>1. CASE a \in used /\ b \in used
    BY <2>1 DEF IInv, Separate
  <2>2. CASE a = r \/ b = r
    BY <1>1, <2>2
  <2> QED BY <1>1, <2>1, <2>2
<1>11. Placed(Holdings, used, app)' /\ Linked'
  <2> DEFINE q == <<t, Hand>>
             P == [Holdings EXCEPT ![q] = @ \cup {r[1]}]
  <2>1. q \in Places /\ q[2] \notin Bins /\ Pages(q) = InHands(t)
    BY PlaceKinds, Numbers DEF Pages
  <2>2. Placed(P, used', app')
    <3>1. used' \ app' = (used \ app) \cup {r}
      BY <1>1, <1>2, <1>3, <1>4
    <3>2. \A s \in used \ app : s[1] # r[1]
      BY <1>4
    <3> QED BY <2>1, <3>1, <3>2, PlacedMore
  <2>3. P[q] = Pages(q) \cup {r[1]} /\ \A z \in Places \ {q} : P[z] = Pages(z)
    BY <2>1 DEF Holdings
  <2>4. ASSUME NEW z \in Lists PROVE P[z] \in SUBSET Units /\ Listed(P[z], HeadOf(z)', word', None)
    <3>1. z \in Places \ {q} /\ HeadOf(z)' = HeadOf(z)
      BY <1>2, <1>7, <1>9, PlaceKinds DEF HeadOf, Alone
    <3> QED BY <1>2, <2>3, <3>1, Held DEF IInv, Linked
  <2>5. ASSUME NEW s \in Threads PROVE P[<<s, Hand>>] = InHands(s)'
    <3>1. CASE s = t
      BY <1>2, <1>6, <1>7, <2>1, <2>3, <3>1 DEF InHands, Busy
    <3>2. CASE s # t
      <4>1. <<s, Hand>> \in Places \ {q} /\ Pages(<<s, Hand>>) = InHands(s)
        BY <3>2, PlaceKinds DEF Pages
      <4>2. InHands(s)' = InHands(s)
        BY <1>9, <3>2 DEF InHands, Alone
      <4> QED BY <2>3, <4>1, <4>2
    <3> QED BY <3>1, <3>2
  <2>6. word' \in [Units -> Links \cup {Garbage}]
    BY <1>2, <1>3 DEF Shapes
  <2> HIDE DEF P
  <2> QED BY <2>2, <2>4, <2>5, <2>6, Rearranged
<1>12. \A s \in Threads : Locals(s)'
  <2>1. Locals(t)'
    <3>1. <<reg'[t].page, reg'[t].units>> \in used'
      BY <1>1, <1>4, <1>7
    <3> QED BY <1>2, <1>3, <1>6, <1>7, <3>1 DEF Locals, Busy, Making
  <2>2. \A s \in Threads \ {t} : Locals(s)'
    BY <1>1, <1>9, LocalsKept
  <2> QED BY <2>1, <2>2
<1>13. SizesKnown'
  BY <1>1, <1>2, <1>6, <1>7, <1>9, SizesKept DEF Making
<1>14. ReservedExact'
  <2>1. Between' = Between + r[2] /\ Between \in Nat
    BY <1>2, <1>4, <1>6, <1>7, <1>9, CountedIn DEF Uncounted
  <2>2. /\ Total(Length, used \cup {r}) = Total(Length, used) + r[2]
        /\ Total(Length, used) \in Nat
    BY <1>3, <1>4, LengthsNat, TotalAdd
  <2>3. reserved = Total(Length, used) - Between
    BY DEF IInv, ReservedExact, Between
  <2>4. reserved' = Total(Length, used') - Between'
    BY <1>1, <1>2, <1>4, <2>1, <2>2, <2>3
  <2> QED BY <2>4 DEF ReservedExact, Between
<1>15. LiveCovers'
  BY <1>2, LiveKept
<1> QED BY <1>8, <1>10, <1>11, <1>12, <1>13, <1>14, <1>15 DEF IInv

LEMMA CountKeeps == ASSUME IInv, NEW t \in Threads, Count(t) PROVE IInv'
<1>1. reserved' = reserved + reg[t].units
  BY DEF Count
<1>2. /\ pc[t] = "count" /\ pc' = [pc EXCEPT ![t] = "setMeta"] /\ used' = used /\ size' = size
      /\ sizes' = sizes /\ word' = word /\ bin' = bin /\ live' = live
      /\ maxLive' = maxLive /\ cleared' = cleared /\ app' = app /\ reg' = reg
  BY DEF Count, Goto, counters
<1>3. /\ Shapes /\ Locals(t) /\ pc \in [Threads -> Pcs] /\ reserved \in Int
      /\ reg[t].units \in Nat
  BY LocalUnits DEF IInv, Shapes
<1>4. pc' \in [Threads -> Pcs] /\ pc'[t] = "setMeta" /\ \A s \in Threads \ {t} : pc'[s] = pc[s]
  BY <1>2, <1>3 DEF Pcs, Busy
<1>5. reserved' \in Int
  BY <1>1, <1>3
<1>6. Shapes' /\ Alone(t)
  BY <1>2, <1>3, <1>4, <1>5 DEF Shapes, Alone
<1>7. Locals(t)'
  BY <1>2, <1>3, <1>4 DEF Locals, Busy, Making
<1>8. SizesKnown'
  BY <1>2, <1>4, <1>6, SizesKept DEF Making
<1>9. ReservedExact'
  <2>1. Between' = Between - reg[t].units /\ Between \in Nat
    BY <1>2, <1>4, <1>6, CountedOut DEF Uncounted
  <2>2. reserved = Total(Length, used) - Between /\ Total(Length, used) \in Nat
    BY LengthsNat DEF IInv, Shapes, ReservedExact, Between
  <2>3. reserved' = Total(Length, used') - Between'
    BY <1>1, <1>2, <1>3, <2>1, <2>2
  <2> QED BY <2>3 DEF ReservedExact, Between
<1>10. InHands(t)' = InHands(t)
  BY <1>2, <1>4 DEF InHands, Busy
<1> QED BY <1>2, <1>6, <1>7, <1>8, <1>9, <1>10, QuietKeeps

\* set_meta grows the table beyond the page.
LEMMA TableGrows ==
  ASSUME NEW p \in Units, NEW n \in Nat, p >= n
  PROVE  2 * NextPowerOfTwo(IF p > n THEN p ELSE n) \in Nat /\ p < 2 * NextPowerOfTwo(IF p > n THEN p ELSE n)
<1> DEFINE S == {2^k : k \in 0..(LogUnits + 1)} \cap {m \in 0..2^(LogUnits + 1) : m >= p}
<1>1. p \in Nat /\ p < 2^LogUnits /\ 2^LogUnits \in Nat /\ LogUnits \in Nat
  BY Numbers, SizesAssumption DEF Units
<1>2. 2^(LogUnits + 1) \in Nat /\ 2^LogUnits <= 2^(LogUnits + 1)
  BY <1>1, PowerNat, PowerGrows
<1>3. \A m \in S : m \in Nat \ {0} /\ m >= p
  BY <1>1, PowerNat
<1>4. 2^LogUnits \in S
  BY <1>1, <1>2
<1>5. (IF p > n THEN p ELSE n) = p
  BY <1>1
<1>6. NextPowerOfTwo(p) = Min(S)
  BY DEF NextPowerOfTwo
<1> HIDE DEF S
<1>7. Min(S) \in S
  <2>1. S \in SUBSET Nat /\ S # {}
    BY <1>3, <1>4
  <2>2. \E m \in S : \A k \in S : m <= k
    BY <2>1, NatMin
  <2> QED BY <2>2 DEF Min
<1>8. Min(S) \in Nat \ {0} /\ Min(S) >= p
  BY <1>3, <1>7
<1>9. 2 * Min(S) \in Nat /\ p < 2 * Min(S)
  BY <1>1, <1>8
<1> QED BY <1>5, <1>6, <1>9

LEMMA SetMetaKeeps == ASSUME IInv, NEW t \in Threads, SetMeta(t) PROVE IInv'
<1> DEFINE p == reg[t].page
           n == reg[t].units
           q == <<t, Hand>>
           P == [Holdings EXCEPT ![q] = @ \ {p}]
<1>1. /\ size' = [size EXCEPT ![p] = n]
      /\ sizes' = IF p < sizes THEN sizes ELSE 2 * NextPowerOfTwo(IF p > sizes THEN p ELSE sizes)
      /\ HandOut(t, p, n)
  BY DEF SetMeta
<1>2. /\ pc[t] = "setMeta" /\ pc' = [pc EXCEPT ![t] = "idle"] /\ used' = used
      /\ reserved' = reserved /\ bin' = bin /\ reg' = [reg EXCEPT ![t] = NoLocals]
  BY DEF SetMeta, Goto
<1>3. /\ Shapes /\ Locals(t) /\ reg \in [Threads -> Regs] /\ pc \in [Threads -> Pcs]
      /\ size \in [Units -> Requests \cup {0}] /\ sizes \in Nat
  BY DEF IInv, Shapes
<1>4. /\ p \in Units /\ <<p, n>> \in used \ app /\ \A z \in Lists : p \notin Pages(z)
      /\ \A s \in Threads \ {t} : pc[s] \in Busy => reg[s].page # p
  BY <1>2, HandRun DEF Busy
<1>5. /\ app' = app \cup {<<p, n>>} /\ app' \in SUBSET used
      /\ word' = [word EXCEPT ![p] = Garbage] /\ word' \in [Units -> Links \cup {Garbage}]
      /\ live' \in [Threads -> Nat] /\ maxLive' \in [Threads -> Nat]
      /\ cleared' \in [Threads -> BOOLEAN]
      /\ \A s \in Threads \ {t} : live'[s] = live[s]
      /\ LiveCovers'
  BY <1>1, <1>4, HandedOut
<1>6. /\ reg' \in [Threads -> Regs] /\ reg'[t] = NoLocals
      /\ \A s \in Threads \ {t} : reg'[s] = reg[s]
  BY <1>2, <1>3 DEF Regs, NoLocals, Links
<1>7. pc' \in [Threads -> Pcs] /\ pc'[t] = "idle" /\ \A s \in Threads \ {t} : pc'[s] = pc[s]
  BY <1>2, <1>3 DEF Pcs
<1>8. /\ reg'[t].units = 0 /\ reg'[t].page = None /\ reg'[t].next = None
      /\ reg'[t].clearing = "no" /\ reg[t].next = None
  BY <1>2, <1>3, <1>6 DEF NoLocals, Locals, Making
<1>9. n \in Requests /\ \A r \in used : r[1] = p => r[2] = n
  <2>1. <<p, n>> \in Runs
    BY <1>4 DEF IInv, Shapes
  <2> QED BY <1>4, <2>1, RunParts, Starts DEF IInv
<1>10. sizes' \in Nat /\ p < sizes' /\ sizes <= sizes'
  <2>1. CASE p < sizes
    BY <1>1, <1>3, <2>1
  <2>2. CASE ~(p < sizes)
    <3>0. p \in Nat
      BY <1>4, Numbers
    <3>1. p >= sizes /\ p \in Nat
      BY <1>3, <2>2, <3>0
    <3> DEFINE m == 2 * NextPowerOfTwo(IF p > sizes THEN p ELSE sizes)
    <3>2. m \in Nat /\ p < m
      BY <1>3, <1>4, <3>1, TableGrows
    <3>3. sizes' = m
      BY <1>1, <2>2
    <3> HIDE DEF m
    <3> QED BY <1>3, <3>1, <3>2, <3>3
  <2> QED BY <2>1, <2>2
<1>11. Shapes'
  <2>1. size' \in [Units -> Requests \cup {0}]
    BY <1>1, <1>3, <1>4, <1>9
  <2> QED BY <1>2, <1>3, <1>5, <1>6, <1>7, <1>10, <2>1 DEF Shapes
<1>12. Alone(t)
  BY <1>2, <1>5, <1>6, <1>7 DEF Alone
<1>13. Separate'
  BY <1>2 DEF IInv, Separate
<1>14. Placed(Holdings, used, app)' /\ Linked'
  <2>1. q \in Places /\ Pages(q) = {p}
    BY <1>2, PlaceKinds DEF Pages, InHands, Busy
  <2>2. Placed(P, used', app')
    <3>1. used' \ app' = (used \ app) \ {<<p, n>>} /\ <<p, n>>[1] = p
      BY <1>2, <1>5
    <3> QED BY <1>4, <2>1, <3>1, PlacedLess
  <2>3. P[q] = {} /\ \A z \in Places \ {q} : P[z] = Pages(z)
    BY <2>1 DEF Holdings
  <2>4. ASSUME NEW z \in Lists PROVE P[z] \in SUBSET Units /\ Listed(P[z], HeadOf(z)', word', None)
    <3>1. z \in Places \ {q} /\ HeadOf(z)' = HeadOf(z)
      BY <1>2, <1>8, <1>12, PlaceKinds DEF HeadOf, Alone
    <3>2. P[z] = Pages(z) /\ P[z] \in SUBSET Units /\ Listed(P[z], HeadOf(z)', word, None)
      BY <2>3, <3>1, Held DEF IInv, Linked
    <3>3. \A a \in P[z] : word'[a] = word[a]
      BY <1>4, <1>5, <3>2 DEF IInv, Shapes
    <3> QED BY <3>2, <3>3, ListedSame
  <2>5. ASSUME NEW s \in Threads PROVE P[<<s, Hand>>] = InHands(s)'
    <3>1. CASE s = t
      BY <1>7, <2>3, <3>1 DEF InHands, Busy
    <3>2. CASE s # t
      <4>1. <<s, Hand>> \in Places \ {q} /\ Pages(<<s, Hand>>) = InHands(s)
        BY <3>2, PlaceKinds DEF Pages
      <4>2. InHands(s)' = InHands(s)
        BY <1>12, <3>2 DEF InHands, Alone
      <4> QED BY <2>3, <4>1, <4>2
    <3> QED BY <3>1, <3>2
  <2> HIDE DEF P
  <2> QED BY <1>5, <2>2, <2>4, <2>5, Rearranged
<1>15. \A s \in Threads : Locals(s)'
  <2>1. Locals(t)'
    BY <1>7, <1>8 DEF Locals, Busy, Making
  <2>2. \A s \in Threads \ {t} : Locals(s)'
    BY <1>2, <1>12, LocalsKept
  <2> QED BY <2>1, <2>2
<1>16. SizesKnown'
  <2> SUFFICES ASSUME NEW r \in used,
                      \A s \in Threads : ~(pc'[s] \in {"count", "setMeta"} /\ reg'[s].page = r[1])
               PROVE  size'[r[1]] = r[2] /\ r[1] < sizes'
    BY <1>2 DEF SizesKnown
  <2>1. r[1] \in Units /\ r[1] \in Nat
    BY RunParts, Numbers DEF IInv, Shapes
  <2>2. CASE r[1] = p
    BY <1>1, <1>3, <1>4, <1>9, <1>10, <2>2
  <2>3. CASE r[1] # p
    <3>1. ASSUME NEW s \in Threads PROVE ~(pc[s] \in {"count", "setMeta"} /\ reg[s].page = r[1])
      BY <1>12, <2>3 DEF Alone
    <3>2. size[r[1]] = r[2] /\ r[1] < sizes
      BY <3>1 DEF IInv, SizesKnown
    <3>3. size'[r[1]] = size[r[1]]
      BY <1>1, <1>3, <2>1, <2>3
    <3> QED BY <1>3, <1>10, <2>1, <3>2, <3>3
  <2> QED BY <2>2, <2>3
<1>17. ReservedExact'
  BY <1>2, <1>7, <1>12, ReservedKept DEF Uncounted
<1> QED BY <1>5, <1>11, <1>13, <1>14, <1>15, <1>16, <1>17 DEF IInv
LEMMA GetMetaKeeps == ASSUME IInv, NEW t \in Threads, GetMeta(t) PROVE IInv'
<1> DEFINE p == reg[t].page
<1>1. reg' = [reg EXCEPT ![t].units = size[p]]
  BY DEF GetMeta
<1>2. /\ pc[t] = "getMeta" /\ pc' = [pc EXCEPT ![t] = "unmap"] /\ used' = used /\ size' = size
      /\ sizes' = sizes /\ reserved' = reserved /\ word' = word /\ bin' = bin /\ live' = live
      /\ maxLive' = maxLive /\ cleared' = cleared /\ app' = app
  BY DEF GetMeta, Goto, pageResource, counters
<1>3. /\ Shapes /\ Locals(t) /\ reg \in [Threads -> Regs] /\ pc \in [Threads -> Pcs]
  BY DEF IInv, Shapes
<1>4. <<p, size[p]>> \in used /\ size[p] \in Requests
  <2>1. PICK r \in used \ app : r[1] = p
    BY <1>2, HandRun DEF Busy
  <2>2. ASSUME NEW s \in Threads PROVE ~(pc[s] \in {"count", "setMeta"} /\ reg[s].page = r[1])
    <3>1. CASE s = t
      BY <1>2, <3>1
    <3>2. CASE s # t
      BY <1>2, <2>1, <3>2, HandRun DEF Busy
    <3> QED BY <3>1, <3>2
  <2>3. size[p] = r[2]
    BY <2>1, <2>2 DEF IInv, SizesKnown
  <2>4. r = <<r[1], r[2]>> /\ r[2] \in Requests
    BY <1>3, RunParts DEF Shapes
  <2> QED BY <2>1, <2>3, <2>4
<1>5. /\ reg' \in [Threads -> Regs] /\ reg'[t] = [reg[t] EXCEPT !.units = size[p]]
      /\ \A s \in Threads \ {t} : reg'[s] = reg[s]
  BY <1>1, <1>3, <1>4 DEF Regs
<1>6. pc' \in [Threads -> Pcs] /\ pc'[t] = "unmap" /\ \A s \in Threads \ {t} : pc'[s] = pc[s]
  BY <1>2, <1>3 DEF Pcs, Busy
<1>7. /\ reg'[t].units = size[p] /\ reg'[t].page = p /\ reg'[t].next = reg[t].next
      /\ reg'[t].clearing = reg[t].clearing
  BY <1>3, <1>5 DEF Regs
<1>8. Shapes' /\ Alone(t)
  BY <1>2, <1>3, <1>5, <1>6 DEF Shapes, Alone
<1>9. Locals(t)'
  BY <1>2, <1>3, <1>4, <1>6, <1>7 DEF Locals, Busy, Making
<1>10. SizesKnown' /\ ReservedExact'
  BY <1>2, <1>6, <1>8, SizesKept, ReservedKept DEF Making, Uncounted
<1>11. InHands(t)' = InHands(t)
  BY <1>2, <1>6, <1>7 DEF InHands, Busy
<1> QED BY <1>2, <1>7, <1>8, <1>9, <1>10, <1>11, QuietKeeps

LEMMA UnmapKeeps == ASSUME IInv, NEW t \in Threads, Unmap(t) PROVE IInv'
<1> DEFINE p == reg[t].page
<1>1. reserved' = reserved - reg[t].units /\ word' = [word EXCEPT ![p] = Garbage]
  BY DEF Unmap
<1>2. /\ pc[t] = "unmap" /\ pc' = [pc EXCEPT ![t] = "releaseCell"] /\ used' = used /\ size' = size
      /\ sizes' = sizes /\ bin' = bin /\ live' = live
      /\ maxLive' = maxLive /\ cleared' = cleared /\ app' = app /\ reg' = reg
  BY DEF Unmap, Goto, counters
<1>3. /\ Shapes /\ Locals(t) /\ pc \in [Threads -> Pcs] /\ reserved \in Int
      /\ reg[t].units \in Nat /\ word \in [Units -> Links \cup {Garbage}]
  BY LocalUnits DEF IInv, Shapes
<1>4. p \in Units /\ \A z \in Lists : p \notin Pages(z)
  BY <1>2, HandRun DEF Busy
<1>5. pc' \in [Threads -> Pcs] /\ pc'[t] = "releaseCell" /\ \A s \in Threads \ {t} : pc'[s] = pc[s]
  BY <1>2, <1>3 DEF Pcs, Busy
<1>6. reserved' \in Int /\ word' \in [Units -> Links \cup {Garbage}]
  <2>1. word' \in [Units -> Links \cup {Garbage}]
    BY <1>1, <1>3
  <2>2. reserved' \in Int
    BY <1>1, <1>3
  <2> QED BY <2>1, <2>2
<1>7. Shapes' /\ Alone(t)
  BY <1>2, <1>3, <1>5, <1>6 DEF Shapes, Alone
<1>8. Locals(t)'
  BY <1>2, <1>3, <1>5 DEF Locals, Busy, Making
<1>9. SizesKnown'
  BY <1>2, <1>5, <1>7, SizesKept DEF Making
<1>10. ReservedExact'
  <2>1. Between' = Between + reg[t].units /\ Between \in Nat
    BY <1>2, <1>3, <1>5, <1>7, CountedIn DEF Uncounted
  <2>2. reserved = Total(Length, used) - Between /\ Total(Length, used) \in Nat
    BY LengthsNat DEF IInv, Shapes, ReservedExact, Between
  <2>3. reserved' = Total(Length, used') - Between'
    BY <1>1, <1>2, <1>3, <2>1, <2>2
  <2> QED BY <2>3 DEF ReservedExact, Between
<1>11. InHands(t)' = InHands(t)
  BY <1>2, <1>5 DEF InHands, Busy
<1>12. \A q \in Lists : \A a \in Pages(q) : word'[a] = word[a]
  <2> SUFFICES ASSUME NEW q \in Lists, NEW a \in Pages(q) PROVE word'[a] = word[a]
    OBVIOUS
  <2>1. a \in Units /\ a # p
    BY <1>4, Held, PlaceKinds
  <2> QED BY <1>1, <1>3, <2>1
<1> QED BY <1>2, <1>7, <1>8, <1>9, <1>10, <1>11, <1>12, QuietKeeps

LEMMA ReleaseCellKeeps == ASSUME IInv, NEW t \in Threads, ReleaseCell(t) PROVE IInv'
<1> DEFINE p == reg[t].page
           n == reg[t].units
           r == <<p, n>>
           q == <<t, Hand>>
           P == [Holdings EXCEPT ![q] = @ \ {p}]
<1>1. used' = used \ {r} /\ reg' = [reg EXCEPT ![t].page = None, ![t].units = 0]
  BY DEF ReleaseCell
<1>2. /\ pc[t] = "releaseCell"
      /\ pc' = [pc EXCEPT ![t] = IF reg[t].clearing = "no" THEN "idle" ELSE "clear"]
      /\ size' = size /\ sizes' = sizes /\ reserved' = reserved /\ word' = word /\ bin' = bin
      /\ live' = live /\ maxLive' = maxLive /\ cleared' = cleared /\ app' = app
  BY DEF ReleaseCell, Goto, counters
<1>3. /\ Shapes /\ Locals(t) /\ reg \in [Threads -> Regs] /\ pc \in [Threads -> Pcs]
      /\ used \in SUBSET Runs /\ app \in SUBSET used
  BY DEF IInv, Shapes
<1>4. /\ p \in Units /\ r \in used \ app /\ n \in Nat /\ Length[r] = n
      /\ \A s \in Threads \ {t} : pc[s] \in Busy => reg[s].page # p
  <2>1. p \in Units /\ r \in used \ app /\ \A s \in Threads \ {t} : pc[s] \in Busy => reg[s].page # p
    BY <1>2, HandRun DEF Busy
  <2> QED BY <1>3, <2>1, RunParts
<1>5. /\ reg' \in [Threads -> Regs] /\ reg'[t] = [reg[t] EXCEPT !.page = None, !.units = 0]
      /\ \A s \in Threads \ {t} : reg'[s] = reg[s]
  BY <1>1, <1>3 DEF Regs, Links
<1>6. /\ pc' \in [Threads -> Pcs] /\ pc'[t] = IF reg[t].clearing = "no" THEN "idle" ELSE "clear"
      /\ \A s \in Threads \ {t} : pc'[s] = pc[s]
  BY <1>2, <1>3 DEF Pcs
<1>7. /\ reg'[t].units = 0 /\ reg'[t].page = None /\ reg'[t].next = reg[t].next
      /\ reg'[t].clearing = reg[t].clearing
  BY <1>3, <1>5 DEF Regs
<1>8. Shapes'
  <2>1. used' \in SUBSET Runs /\ app' \in SUBSET used'
    BY <1>1, <1>2, <1>3, <1>4
  <2> QED BY <1>2, <1>3, <1>5, <1>6, <2>1 DEF Shapes
<1>9. Alone(t)
  BY <1>2, <1>5, <1>6 DEF Alone
<1>10. Separate'
  BY <1>1 DEF IInv, Separate
<1>11. Placed(Holdings, used, app)' /\ Linked'
  <2>1. q \in Places /\ Pages(q) = {p}
    BY <1>2, PlaceKinds DEF Pages, InHands, Busy
  <2>2. Placed(P, used', app')
    <3>1. used' \ app' = (used \ app) \ {r} /\ r[1] = p
      BY <1>1, <1>2
    <3> QED BY <1>4, <2>1, <3>1, PlacedLess
  <2>3. P[q] = {} /\ \A z \in Places \ {q} : P[z] = Pages(z)
    BY <2>1 DEF Holdings
  <2>4. ASSUME NEW z \in Lists PROVE P[z] \in SUBSET Units /\ Listed(P[z], HeadOf(z)', word', None)
    <3>1. z \in Places \ {q} /\ HeadOf(z)' = HeadOf(z)
      BY <1>2, <1>7, <1>9, PlaceKinds DEF HeadOf, Alone
    <3> QED BY <1>2, <2>3, <3>1, Held DEF IInv, Linked
  <2>5. ASSUME NEW s \in Threads PROVE P[<<s, Hand>>] = InHands(s)'
    <3>1. CASE s = t
      BY <1>6, <2>3, <3>1 DEF InHands, Busy
    <3>2. CASE s # t
      <4>1. <<s, Hand>> \in Places \ {q} /\ Pages(<<s, Hand>>) = InHands(s)
        BY <3>2, PlaceKinds DEF Pages
      <4>2. InHands(s)' = InHands(s)
        BY <1>9, <3>2 DEF InHands, Alone
      <4> QED BY <2>3, <4>1, <4>2
    <3> QED BY <3>1, <3>2
  <2>6. word' \in [Units -> Links \cup {Garbage}]
    BY <1>2, <1>3 DEF Shapes
  <2> HIDE DEF P
  <2> QED BY <2>2, <2>4, <2>5, <2>6, Rearranged
<1>12. \A s \in Threads : Locals(s)'
  <2>1. Locals(t)'
    BY <1>2, <1>3, <1>6, <1>7 DEF Locals, Busy, Making
  <2>2. ASSUME NEW s \in Threads \ {t} PROVE Locals(s)'
    <3>1. pc[s] \in Busy => <<reg[s].page, reg[s].units>> # r
      BY <1>4
    <3> QED BY <1>1, <1>9, <3>1, LocalsKept
  <2> QED BY <2>1, <2>2
<1>13. SizesKnown'
  BY <1>1, <1>2, <1>6, <1>9, SizesKept DEF Making
<1>14. ReservedExact'
  <2>1. Between' = Between - n /\ Between \in Nat
    BY <1>2, <1>6, <1>9, CountedOut DEF Uncounted
  <2>2. /\ Total(Length, used \ {r}) = Total(Length, used) - n
        /\ Total(Length, used) \in Nat
    <3>1. IsFiniteSet(used) /\ (\A x \in used : Length[x] \in Nat) /\ Total(Length, used) \in Nat
      BY <1>3, LengthsNat
    <3>2. r \in used /\ Length[r] = n
      BY <1>4
    <3> HIDE DEF r
    <3>3. Total(Length, used \ {r}) = Total(Length, used) - Length[r]
      BY <3>1, <3>2, TotalRemove
    <3> QED BY <3>1, <3>2, <3>3
  <2>3. reserved = Total(Length, used) - Between
    BY DEF IInv, ReservedExact, Between
  <2>4. reserved' = Total(Length, used') - Between'
    BY <1>1, <1>2, <1>4, <2>1, <2>2, <2>3
  <2> QED BY <2>4 DEF ReservedExact, Between
<1>15. LiveCovers'
  BY <1>2, LiveKept
<1> QED BY <1>8, <1>10, <1>11, <1>12, <1>13, <1>14, <1>15 DEF IInv

LEMMA ExitCallKeeps == ASSUME IInv, NEW t \in Threads, ExitCall(t) PROVE IInv'
<1>1. reg' = [reg EXCEPT ![t].clearing = "exit"]
  BY DEF ExitCall
<1>2. /\ pc[t] = "idle" /\ pc' = [pc EXCEPT ![t] = "clear"] /\ used' = used /\ size' = size
      /\ sizes' = sizes /\ reserved' = reserved /\ word' = word /\ bin' = bin /\ live' = live
      /\ maxLive' = maxLive /\ cleared' = cleared /\ app' = app
  BY DEF ExitCall, Goto, pageResource, counters
<1>3. /\ Shapes /\ Locals(t) /\ reg \in [Threads -> Regs] /\ pc \in [Threads -> Pcs]
  BY DEF IInv, Shapes
<1>4. /\ reg' \in [Threads -> Regs] /\ reg'[t] = [reg[t] EXCEPT !.clearing = "exit"]
      /\ \A s \in Threads \ {t} : reg'[s] = reg[s]
  BY <1>1, <1>3 DEF Regs
<1>5. pc' \in [Threads -> Pcs] /\ pc'[t] = "clear" /\ \A s \in Threads \ {t} : pc'[s] = pc[s]
  BY <1>2, <1>3 DEF Pcs
<1>6. /\ reg'[t].units = reg[t].units /\ reg'[t].page = reg[t].page /\ reg'[t].next = reg[t].next
      /\ reg'[t].clearing = "exit"
  BY <1>3, <1>4 DEF Regs
<1>7. Shapes' /\ Alone(t)
  BY <1>2, <1>3, <1>4, <1>5 DEF Shapes, Alone
<1>8. Locals(t)'
  BY <1>2, <1>3, <1>5, <1>6 DEF Locals, Busy, Making
<1>9. SizesKnown' /\ ReservedExact'
  BY <1>2, <1>5, <1>7, SizesKept, ReservedKept DEF Making, Uncounted
<1>10. InHands(t)' = InHands(t)
  BY <1>2, <1>5 DEF InHands, Busy
<1> QED BY <1>2, <1>6, <1>7, <1>8, <1>9, <1>10, QuietKeeps

LEMMA ClearDoneKeeps == ASSUME IInv, NEW t \in Threads, ClearDone(t) PROVE IInv'
<1>1. reg' = [reg EXCEPT ![t] = NoLocals] /\ reg[t].next = None /\ Filled(t) = {}
  BY DEF ClearDone
<1>2. /\ pc[t] = "clear" /\ pc' = [pc EXCEPT ![t] = IF reg[t].clearing = "exit" THEN "dead" ELSE "idle"]
      /\ used' = used /\ size' = size
      /\ sizes' = sizes /\ reserved' = reserved /\ word' = word /\ bin' = bin /\ live' = live
      /\ app' = app
  BY DEF ClearDone, Goto, pageResource, counters
<1>3. /\ Shapes /\ Locals(t) /\ reg \in [Threads -> Regs] /\ pc \in [Threads -> Pcs]
      /\ live \in [Threads -> Nat] /\ maxLive \in [Threads -> Nat]
      /\ cleared \in [Threads -> BOOLEAN]
  BY DEF IInv, Shapes
<1>4. maxLive' \in [Threads -> Nat] /\ cleared' \in [Threads -> BOOLEAN]
  <2>1. \/ maxLive' = maxLive /\ cleared' = cleared
        \/ maxLive' = [maxLive EXCEPT ![t] = live[t]] /\ cleared' = [cleared EXCEPT ![t] = TRUE]
    BY DEF ClearDone, counters
  <2> QED BY <1>3, <2>1
<1>5. /\ reg' \in [Threads -> Regs] /\ reg'[t] = NoLocals
      /\ \A s \in Threads \ {t} : reg'[s] = reg[s]
  BY <1>1, <1>3 DEF Regs, NoLocals, Links
<1>6. /\ pc' \in [Threads -> Pcs] /\ pc'[t] \in {"idle", "dead"}
      /\ \A s \in Threads \ {t} : pc'[s] = pc[s]
  BY <1>2, <1>3 DEF Pcs
<1>7. /\ reg'[t].units = 0 /\ reg'[t].page = None /\ reg'[t].next = None
      /\ reg'[t].clearing = "no" /\ reg[t].next = None
  BY <1>1, <1>5 DEF NoLocals
<1>8. Shapes' /\ Alone(t)
  BY <1>2, <1>3, <1>4, <1>5, <1>6 DEF Shapes, Alone
<1>9. Locals(t)'
  <2>1. Filled(t)' = {}
    BY <1>1, <1>2 DEF Filled
  <2> QED BY <1>6, <1>7, <2>1 DEF Locals, Busy, Making
<1>10. SizesKnown' /\ ReservedExact'
  BY <1>2, <1>6, <1>8, SizesKept, ReservedKept DEF Making, Uncounted
<1>11. InHands(t)' = InHands(t)
  BY <1>2, <1>6 DEF InHands, Busy
<1> QED BY <1>2, <1>7, <1>8, <1>9, <1>10, <1>11, QuietKeeps
LEMMA FreeCachedKeeps == ASSUME IInv, NEW t \in Threads, FreeCached(t) PROVE IInv'
<1>1. PICK r \in app :
        LET n == size[r[1]]
            l == Minus(live[t], n)
        IN  /\ n \in Bins
            /\ app' = app \ {r}
            /\ word' = [word EXCEPT ![r[1]] = bin[t][n]]
            /\ bin' = [bin EXCEPT ![t][n] = r[1]]
            /\ live' = [live EXCEPT ![t] = l]
            /\ Goto(t, "idle", IF Crossed(t, l) THEN "clear" ELSE "idle")
            /\ reg' = [reg EXCEPT ![t].clearing = IF Crossed(t, l) THEN "crossed" ELSE "no"]
            /\ UNCHANGED <<pageResource, maxLive, cleared>>
  BY DEF FreeCached
<1> DEFINE p == r[1]
           n == r[2]
           l == Minus(live[t], n)
           q == <<t, n>>
           P == [Holdings EXCEPT ![q] = @ \cup {p}]
<1>2. /\ r \in used /\ r \in Runs /\ size[p] = n /\ r = <<p, n>> /\ p \in Units
      /\ n \in Nat \ {0} /\ \A z \in Places : p \notin Pages(z)
      /\ \A s \in used \ app : s[1] # p
  BY SizeFound
<1>3. /\ n \in Bins /\ app' = app \ {r} /\ word' = [word EXCEPT ![p] = bin[t][n]]
      /\ bin' = [bin EXCEPT ![t][n] = p] /\ live' = [live EXCEPT ![t] = l]
      /\ pc[t] = "idle" /\ used' = used /\ size' = size /\ sizes' = sizes /\ reserved' = reserved
      /\ maxLive' = maxLive /\ cleared' = cleared
      /\ \/ /\ pc' = [pc EXCEPT ![t] = "clear"] /\ reg' = [reg EXCEPT ![t].clearing = "crossed"]
         \/ /\ pc' = [pc EXCEPT ![t] = "idle"] /\ reg' = [reg EXCEPT ![t].clearing = "no"]
  BY <1>1, <1>2 DEF Goto, pageResource
<1>4. /\ Shapes /\ Locals(t) /\ reg \in [Threads -> Regs] /\ pc \in [Threads -> Pcs]
      /\ bin \in [Threads -> [Bins -> Links]] /\ live \in [Threads -> Nat]
      /\ word \in [Units -> Links \cup {Garbage}]
  BY DEF IInv, Shapes
<1>5. /\ reg' \in [Threads -> Regs] /\ pc' \in [Threads -> Pcs]
      /\ \A s \in Threads \ {t} : reg'[s] = reg[s] /\ pc'[s] = pc[s]
      /\ reg'[t].units = reg[t].units /\ reg'[t].page = reg[t].page /\ reg'[t].next = reg[t].next
      /\ \/ pc'[t] = "clear" /\ reg'[t].clearing = "crossed"
         \/ pc'[t] = "idle" /\ reg'[t].clearing = "no"
  <2>1. CASE pc' = [pc EXCEPT ![t] = "clear"] /\ reg' = [reg EXCEPT ![t].clearing = "crossed"]
    BY <1>4, <2>1 DEF Regs, Pcs
  <2>2. CASE pc' = [pc EXCEPT ![t] = "idle"] /\ reg' = [reg EXCEPT ![t].clearing = "no"]
    BY <1>4, <2>2 DEF Regs, Pcs
  <2> QED BY <1>3, <2>1, <2>2
<1>6. /\ l \in Nat /\ l + n >= live[t] /\ live' \in [Threads -> Nat] /\ live'[t] = l
      /\ \A s \in Threads \ {t} : live'[s] = live[s]
  BY <1>2, <1>3, <1>4 DEF Minus
<1>7. /\ bin' \in [Threads -> [Bins -> Links]] /\ bin'[t][n] = p
      /\ \A s \in Threads, m \in Bins : <<s, m>> # q => bin'[s][m] = bin[s][m]
      /\ \A s \in Threads \ {t} : bin'[s] = bin[s]
  BY <1>2, <1>3, <1>4 DEF Links
<1>8. /\ word' \in [Units -> Links \cup {Garbage}] /\ word'[p] = bin[t][n]
      /\ \A a \in Units \ {p} : word'[a] = word[a]
  <2>1. bin[t][n] \in Links
    BY <1>3, <1>4
  <2> QED BY <1>2, <1>3, <1>4, <2>1
<1>9. Shapes'
  <2>1. app' \in SUBSET used'
    BY <1>3, <1>4 DEF Shapes
  <2> QED BY <1>3, <1>4, <1>5, <1>6, <1>7, <1>8, <2>1 DEF Shapes
<1>10. Alone(t)
  BY <1>5, <1>6, <1>7 DEF Alone
<1>11. Separate'
  BY <1>3 DEF IInv, Separate
<1>12. q \in Lists /\ q \in Places /\ q[2] = n /\ HeadOf(q) = bin[t][n] /\ HeadOf(q)' = p
  BY <1>3, <1>7, PlaceKinds, Numbers DEF HeadOf
<1>13. Placed(Holdings, used, app)' /\ Linked'
  <2>1. Placed(P, used', app')
    <3>1. used' \ app' = (used \ app) \cup {r}
      BY <1>2, <1>3
    <3> QED BY <1>2, <1>12, <3>1, PlacedMore
  <2>2. P[q] = Pages(q) \cup {p} /\ \A z \in Places \ {q} : P[z] = Pages(z)
    BY <1>12 DEF Holdings
  <2>3. ASSUME NEW z \in Lists PROVE P[z] \in SUBSET Units /\ Listed(P[z], HeadOf(z)', word', None)
    <3>1. /\ z \in Places /\ Pages(z) \subseteq Units /\ p \notin Pages(z)
          /\ Listed(Pages(z), HeadOf(z), word, None)
      BY <1>2, PlaceKinds, Held DEF IInv, Linked
    <3>2. \A a \in Pages(z) : word'[a] = word[a]
      BY <1>8, <3>1
    <3>3. CASE z = q
      <4>1. None \notin Pages(z)
        BY <3>1, Numbers
      <4>2. word'[p] = HeadOf(z)
        BY <1>8, <1>12, <3>3
      <4>3. Listed(Pages(z) \cup {p}, p, word', None)
        BY <3>1, <3>2, <4>1, <4>2, ListedPush
      <4>4. P[z] = Pages(z) \cup {p} /\ HeadOf(z)' = p
        BY <1>12, <2>2, <3>3
      <4> HIDE DEF P
      <4> QED BY <1>2, <3>1, <4>3, <4>4
    <3>4. CASE z # q
      <4>1. HeadOf(z)' = HeadOf(z)
        BY <1>5, <1>7, <1>10, <3>4, PlaceKinds DEF HeadOf, Lists, Alone
      <4>2. Listed(Pages(z), HeadOf(z), word', None)
        BY <3>1, <3>2, ListedSame
      <4> QED BY <2>2, <3>1, <3>4, <4>1, <4>2
    <3> QED BY <3>3, <3>4
  <2>4. ASSUME NEW s \in Threads PROVE P[<<s, Hand>>] = InHands(s)'
    <3>1. <<s, Hand>> \in Places \ {q} /\ Pages(<<s, Hand>>) = InHands(s)
      BY <1>3, PlaceKinds, Numbers DEF Pages
    <3>2. InHands(s)' = InHands(s)
      BY <1>3, <1>5, <1>10 DEF InHands, Alone, Busy
    <3> QED BY <2>2, <3>1, <3>2
  <2> HIDE DEF P
  <2> QED BY <1>8, <2>1, <2>3, <2>4, Rearranged
<1>14. \A s \in Threads : Locals(s)'
  <2>1. Locals(t)'
    BY <1>3, <1>4, <1>5 DEF Locals, Busy, Making
  <2>2. \A s \in Threads \ {t} : Locals(s)'
    BY <1>3, <1>10, LocalsKept
  <2> QED BY <2>1, <2>2
<1>15. SizesKnown'
  BY <1>3, <1>10, SizesKept DEF Making
<1>16. ReservedExact'
  BY <1>3, <1>5, <1>10, ReservedKept DEF Uncounted
<1>17. LiveCovers'
  <2> DEFINE A == {x \in app : x[2] \in Bins}
  <2>1. /\ r \in A /\ IsFiniteSet(A) /\ Total(Length, A) \in Nat
        /\ (\A x \in A : Length[x] \in Nat) /\ Length[r] = n
    <3>1. A \in SUBSET Runs
      BY <1>4 DEF Shapes
    <3> QED BY <1>2, <1>3, <3>1, LengthsNat, RunParts
  <2>2. {x \in app' : x[2] \in Bins} = A \ {r}
    BY <1>3
  <2>3. Total(Length, A) <= Total(live, Threads)
    BY DEF IInv, LiveCovers
  <2> HIDE DEF A
  <2>4. Total(Length, A \ {r}) = Total(Length, A) - n
    BY <2>1, TotalRemove
  <2>6. live[t] \in Nat /\ live'[t] = l
    BY <1>4, <1>6
  <2>8. /\ \A s \in Threads : live[s] \in Nat /\ live'[s] \in Nat
        /\ \A s \in Threads \ {t} : live'[s] = live[s]
    BY <1>4, <1>6
  <2> HIDE DEF l, n
  <2>5. /\ Total(live', Threads) = Total(live, Threads) + live'[t] - live[t]
        /\ Total(live, Threads) \in Nat
    <3>1. IsFiniteSet(Threads)
      BY ThreadsAssumption
    <3> DEFINE f == live
               g == live'
    <3>2. \A s \in Threads : f[s] \in Nat /\ g[s] \in Nat
      BY <2>8
    <3>3. \A s \in Threads \ {t} : g[s] = f[s]
      BY <2>8
    <3> HIDE DEF f, g
    <3>4. Total(g, Threads) = Total(f, Threads) + g[t] - f[t]
      BY <3>1, <3>2, <3>3, TotalChange
    <3>5. Total(f, Threads) \in Nat
      BY <3>1, <3>2, TotalNat
    <3> QED BY <3>4, <3>5 DEF f, g
  <2>7. Total(Length, A \ {r}) <= Total(live', Threads)
    BY <1>2, <1>6, <2>1, <2>3, <2>4, <2>5, <2>6
  <2> QED BY <2>2, <2>7 DEF LiveCovers
<1> QED BY <1>9, <1>11, <1>13, <1>14, <1>15, <1>16, <1>17 DEF IInv

LEMMA FreeDirectKeeps == ASSUME IInv, NEW t \in Threads, FreeDirect(t) PROVE IInv'
<1>1. PICK r \in app : /\ size[r[1]] \notin Bins
                       /\ app' = app \ {r}
                       /\ reg' = [reg EXCEPT ![t].page = r[1]]
  BY DEF FreeDirect
<1>2. /\ pc[t] = "idle" /\ pc' = [pc EXCEPT ![t] = "getMeta"] /\ used' = used /\ size' = size
      /\ sizes' = sizes /\ reserved' = reserved /\ word' = word /\ bin' = bin /\ live' = live
      /\ maxLive' = maxLive /\ cleared' = cleared
  BY DEF FreeDirect, Goto, pageResource, counters
<1> DEFINE p == r[1]
           q == <<t, Hand>>
           P == [Holdings EXCEPT ![q] = @ \cup {p}]
<1>3. /\ r \in used /\ r \in Runs /\ size[p] = r[2] /\ p \in Units /\ p \in Links
      /\ \A s \in used \ app : s[1] # p
  BY SizeFound DEF Links
<1>4. /\ Shapes /\ Locals(t) /\ reg \in [Threads -> Regs] /\ pc \in [Threads -> Pcs]
  BY DEF IInv, Shapes
<1>5. /\ reg' \in [Threads -> Regs] /\ reg'[t] = [reg[t] EXCEPT !.page = p]
      /\ \A s \in Threads \ {t} : reg'[s] = reg[s]
  BY <1>1, <1>3, <1>4 DEF Regs
<1>6. pc' \in [Threads -> Pcs] /\ pc'[t] = "getMeta" /\ \A s \in Threads \ {t} : pc'[s] = pc[s]
  BY <1>2, <1>4 DEF Pcs, Busy
<1>7. /\ reg'[t].units = reg[t].units /\ reg'[t].page = p /\ reg'[t].next = reg[t].next
      /\ reg'[t].clearing = reg[t].clearing
  BY <1>4, <1>5 DEF Regs
<1>8. Shapes'
  <2>1. app' \in SUBSET used'
    BY <1>1, <1>2, <1>4 DEF Shapes
  <2> QED BY <1>2, <1>4, <1>5, <1>6, <2>1 DEF Shapes
<1>9. Alone(t)
  BY <1>2, <1>5, <1>6 DEF Alone
<1>10. Separate'
  BY <1>2 DEF IInv, Separate
<1>11. Placed(Holdings, used, app)' /\ Linked'
  <2>1. q \in Places /\ q[2] \notin Bins /\ Pages(q) = {}
    BY <1>2, PlaceKinds, Numbers DEF Pages, InHands, Busy
  <2>2. Placed(P, used', app')
    <3>1. used' \ app' = (used \ app) \cup {r}
      BY <1>1, <1>2, <1>3
    <3> QED BY <1>3, <2>1, <3>1, PlacedMore
  <2>3. P[q] = {p} /\ \A z \in Places \ {q} : P[z] = Pages(z)
    BY <2>1 DEF Holdings
  <2>4. ASSUME NEW z \in Lists PROVE P[z] \in SUBSET Units /\ Listed(P[z], HeadOf(z)', word', None)
    <3>1. z \in Places \ {q} /\ HeadOf(z)' = HeadOf(z)
      BY <1>2, <1>7, <1>9, PlaceKinds DEF HeadOf, Alone
    <3> QED BY <1>2, <2>3, <3>1, Held DEF IInv, Linked
  <2>5. ASSUME NEW s \in Threads PROVE P[<<s, Hand>>] = InHands(s)'
    <3>1. CASE s = t
      BY <1>6, <1>7, <2>3, <3>1 DEF InHands, Busy
    <3>2. CASE s # t
      <4>1. <<s, Hand>> \in Places \ {q} /\ Pages(<<s, Hand>>) = InHands(s)
        BY <3>2, PlaceKinds DEF Pages
      <4>2. InHands(s)' = InHands(s)
        BY <1>9, <3>2 DEF InHands, Alone
      <4> QED BY <2>3, <4>1, <4>2
    <3> QED BY <3>1, <3>2
  <2>6. word' \in [Units -> Links \cup {Garbage}]
    BY <1>2, <1>4 DEF Shapes
  <2> HIDE DEF P
  <2> QED BY <2>2, <2>4, <2>5, <2>6, Rearranged
<1>12. \A s \in Threads : Locals(s)'
  <2>1. Locals(t)'
    BY <1>2, <1>4, <1>6, <1>7 DEF Locals, Busy, Making
  <2>2. \A s \in Threads \ {t} : Locals(s)'
    BY <1>2, <1>9, LocalsKept
  <2> QED BY <2>1, <2>2
<1>13. SizesKnown' /\ ReservedExact'
  BY <1>2, <1>6, <1>9, SizesKept, ReservedKept DEF Making, Uncounted
<1>14. LiveCovers'
  <2> DEFINE A == {x \in app : x[2] \in Bins}
  <2>1. {x \in app' : x[2] \in Bins} = A
    BY <1>1, <1>3
  <2> QED BY <1>2, <2>1 DEF IInv, LiveCovers
<1> QED BY <1>8, <1>10, <1>11, <1>12, <1>13, <1>14 DEF IInv

LEMMA ClearBinKeeps == ASSUME IInv, NEW t \in Threads, ClearBin(t) PROVE IInv'
<1>4. PICK n \in Bins : /\ n = Min(Filled(t)) /\ n \in Filled(t)
  <2>1. Filled(t) \in SUBSET Nat
    <3>1. \A m \in Bins : m \in Nat
      BY Numbers
    <3> QED BY <3>1 DEF Filled
  <2>2. Filled(t) # {}
    BY DEF ClearBin
  <2>3. \E m \in Filled(t) : \A k \in Filled(t) : m <= k
    BY <2>1, <2>2, NatMin
  <2>4. Min(Filled(t)) \in Filled(t)
    BY <2>3 DEF Min
  <2> QED BY <2>4 DEF Filled
<1> DEFINE h == bin[t][n]
           q == <<t, n>>
           z == <<t, Chain>>
           P == [Holdings EXCEPT ![q] = @ \ Pages(q), ![z] = @ \cup Pages(q)]
<1>1. /\ pc[t] = "clear" /\ reg[t].next = None
      /\ bin' = [bin EXCEPT ![t][n] = None] /\ reg' = [reg EXCEPT ![t].next = h]
  BY <1>4 DEF ClearBin
<1>2. /\ pc' = pc /\ used' = used /\ size' = size
      /\ sizes' = sizes /\ reserved' = reserved /\ word' = word /\ live' = live
      /\ maxLive' = maxLive /\ cleared' = cleared /\ app' = app
  BY DEF ClearBin, pageResource, counters
<1>3. /\ Shapes /\ Locals(t) /\ reg \in [Threads -> Regs] /\ pc \in [Threads -> Pcs]
      /\ bin \in [Threads -> [Bins -> Links]] /\ h \in Links
  BY DEF IInv, Shapes
<1>5. /\ reg' \in [Threads -> Regs] /\ reg'[t] = [reg[t] EXCEPT !.next = h]
      /\ \A s \in Threads \ {t} : reg'[s] = reg[s]
  BY <1>1, <1>3, <1>4 DEF Regs
<1>6. /\ reg'[t].units = reg[t].units /\ reg'[t].page = reg[t].page /\ reg'[t].next = h
      /\ reg'[t].clearing = reg[t].clearing
  BY <1>3, <1>5 DEF Regs
<1>7. /\ bin' \in [Threads -> [Bins -> Links]] /\ bin'[t][n] = None
      /\ \A s \in Threads, m \in Bins : <<s, m>> # q => bin'[s][m] = bin[s][m]
      /\ \A s \in Threads \ {t} : bin'[s] = bin[s]
  BY <1>1, <1>3, <1>4 DEF Links
<1>8. Shapes' /\ Alone(t)
  BY <1>2, <1>3, <1>5, <1>7 DEF Shapes, Alone
<1>9. Separate'
  BY <1>2 DEF IInv, Separate
<1>10. /\ q \in Lists /\ q \in Places /\ z \in Lists /\ z \in Places /\ q # z /\ z[2] \notin Bins
       /\ HeadOf(q) = h /\ HeadOf(q)' = None /\ HeadOf(z) = None /\ HeadOf(z)' = h
  <2>1. /\ q \in Lists /\ q \in Places /\ z \in Lists /\ z \in Places /\ q # z /\ z[2] \notin Bins
    BY <1>4, PlaceKinds, Numbers
  <2>2. q[1] = t /\ q[2] = n /\ z[1] = t /\ z[2] = Chain /\ n # Chain
    BY <1>4, Numbers
  <2>3. HeadOf(q) = h /\ HeadOf(q)' = None
    BY <1>7, <2>2 DEF HeadOf
  <2>4. HeadOf(z) = None /\ HeadOf(z)' = h
    BY <1>1, <1>6, <2>2 DEF HeadOf
  <2> QED BY <2>1, <2>3, <2>4
<1>11. Pages(z) = {} /\ Listed(Pages(q), h, word, None)
  <2>1. Listed(Pages(z), None, word, None) /\ None \notin Pages(z)
    BY <1>10, Held, Numbers DEF IInv, Linked
  <2>2. Pages(z) = {}
    BY <2>1, ListedLinks
  <2> QED BY <1>10, <2>2 DEF IInv, Linked
<1>12. Placed(Holdings, used, app)' /\ Linked'
  <2>1. Placed(P, used', app')
    BY <1>2, <1>10, PlacedMoved
  <2>2. P[q] = {} /\ P[z] = Pages(q) /\ \A x \in Places \ {q, z} : P[x] = Pages(x)
    BY <1>10, <1>11 DEF Holdings
  <2>3. ASSUME NEW x \in Lists PROVE P[x] \in SUBSET Units /\ Listed(P[x], HeadOf(x)', word', None)
    <3>1. CASE x = q
      <4>1. P[x] = {} /\ HeadOf(x)' = None
        BY <1>10, <2>2, <3>1
      <4> HIDE DEF P
      <4> QED BY <4>1, ListedNone
    <3>2. CASE x = z
      <4>1. P[x] = Pages(q) /\ HeadOf(x)' = h
        BY <1>10, <2>2, <3>2
      <4>2. Pages(q) \subseteq Units
        BY <1>10, Held
      <4>3. Listed(Pages(q), h, word', None)
        BY <1>2, <1>11
      <4> HIDE DEF P, h
      <4> QED BY <4>1, <4>2, <4>3
    <3>3. CASE x # q /\ x # z
      <4>1. HeadOf(x)' = HeadOf(x)
        BY <1>7, <1>8, <3>3, PlaceKinds DEF HeadOf, Lists, Alone
      <4>2. x \in Places /\ P[x] = Pages(x)
        BY <2>2, <3>3, PlaceKinds
      <4> QED BY <1>2, <4>1, <4>2, Held DEF IInv, Linked
    <3> QED BY <3>1, <3>2, <3>3
  <2>4. ASSUME NEW s \in Threads PROVE P[<<s, Hand>>] = InHands(s)'
    <3>1. <<s, Hand>> \in Places \ {q, z} /\ Pages(<<s, Hand>>) = InHands(s)
      BY <1>4, PlaceKinds, Numbers DEF Pages
    <3>2. InHands(s)' = InHands(s)
      BY <1>2, <1>6, <1>8 DEF InHands, Alone
    <3> QED BY <2>2, <3>1, <3>2
  <2>5. word' \in [Units -> Links \cup {Garbage}]
    BY <1>2, <1>3 DEF Shapes
  <2> HIDE DEF P
  <2> QED BY <2>1, <2>3, <2>4, <2>5, Rearranged
<1>13. \A s \in Threads : Locals(s)'
  <2>1. Locals(t)'
    BY <1>1, <1>2, <1>3, <1>6 DEF Locals, Busy, Making
  <2>2. \A s \in Threads \ {t} : Locals(s)'
    BY <1>2, <1>8, LocalsKept
  <2> QED BY <2>1, <2>2
<1>14. SizesKnown' /\ ReservedExact'
  BY <1>1, <1>2, <1>8, SizesKept, ReservedKept DEF Making, Uncounted
<1>15. LiveCovers'
  BY <1>2, LiveKept
<1> QED BY <1>8, <1>9, <1>12, <1>13, <1>14, <1>15 DEF IInv

LEMMA ClearPageKeeps == ASSUME IInv, NEW t \in Threads, ClearPage(t) PROVE IInv'
<1> DEFINE h == reg[t].next
           q == <<t, Chain>>
           z == <<t, Hand>>
           P == [Holdings EXCEPT ![q] = @ \ {h}, ![z] = @ \cup {h}]
<1>1. h \in Units /\ reg' = [reg EXCEPT ![t].page = h, ![t].next = word[h]]
  BY DEF ClearPage
<1>2. /\ pc[t] = "clear" /\ pc' = [pc EXCEPT ![t] = "getMeta"] /\ used' = used /\ size' = size
      /\ sizes' = sizes /\ reserved' = reserved /\ word' = word /\ bin' = bin /\ live' = live
      /\ maxLive' = maxLive /\ cleared' = cleared /\ app' = app
  BY DEF ClearPage, Goto, pageResource, counters
<1>3. /\ Shapes /\ Locals(t) /\ reg \in [Threads -> Regs] /\ pc \in [Threads -> Pcs]
  BY DEF IInv, Shapes
<1>4. /\ q \in Lists /\ q \in Places /\ z \in Places /\ z \notin Lists /\ q # z /\ z[2] \notin Bins
      /\ HeadOf(q) = h /\ h # None
  BY <1>1, PlaceKinds, Numbers DEF HeadOf
<1>5. h \in Pages(q) /\ word[h] \in Links /\ Listed(Pages(q) \ {h}, word[h], word, None)
  BY <1>4, FirstOf
<1>6. /\ reg' \in [Threads -> Regs] /\ reg'[t] = [reg[t] EXCEPT !.page = h, !.next = word[h]]
      /\ \A s \in Threads \ {t} : reg'[s] = reg[s]
  <2>1. h \in Links
    BY <1>1 DEF Links
  <2> QED BY <1>1, <1>3, <1>5, <2>1 DEF Regs
<1>7. pc' \in [Threads -> Pcs] /\ pc'[t] = "getMeta" /\ \A s \in Threads \ {t} : pc'[s] = pc[s]
  BY <1>2, <1>3 DEF Pcs, Busy
<1>8. /\ reg'[t].units = reg[t].units /\ reg'[t].page = h /\ reg'[t].next = word[h]
      /\ reg'[t].clearing = reg[t].clearing
  BY <1>3, <1>6 DEF Regs
<1>9. Shapes' /\ Alone(t)
  BY <1>2, <1>3, <1>6, <1>7 DEF Shapes, Alone
<1>10. Separate'
  BY <1>2 DEF IInv, Separate
<1>11. Placed(Holdings, used, app)' /\ Linked'
  <2>1. Placed(P, used', app')
    BY <1>2, <1>4, <1>5, PlacedMoved
  <2>2. Pages(z) = {}
    BY <1>2, <1>4 DEF Pages, InHands, Busy
  <2>3. P[q] = Pages(q) \ {h} /\ P[z] = {h} /\ \A x \in Places \ {q, z} : P[x] = Pages(x)
    BY <1>4, <2>2 DEF Holdings
  <2>4. ASSUME NEW x \in Lists PROVE P[x] \in SUBSET Units /\ Listed(P[x], HeadOf(x)', word', None)
    <3>1. CASE x = q
      <4>1. HeadOf(q)' = word[h]
        BY <1>8 DEF HeadOf
      <4>2. P[x] = Pages(q) \ {h} /\ Pages(q) \subseteq Units
        BY <1>4, <2>3, <3>1, Held
      <4>3. Listed(Pages(q) \ {h}, word[h], word', None)
        BY <1>2, <1>5
      <4> HIDE DEF P
      <4> QED BY <3>1, <4>1, <4>2, <4>3
    <3>2. CASE x # q
      <4>1. HeadOf(x)' = HeadOf(x)
        BY <1>2, <1>9, <3>2, PlaceKinds DEF HeadOf, Alone
      <4>2. x \in Places /\ P[x] = Pages(x)
        BY <1>4, <2>3, <3>2, PlaceKinds
      <4> QED BY <1>2, <4>1, <4>2, Held DEF IInv, Linked
    <3> QED BY <3>1, <3>2
  <2>5. ASSUME NEW s \in Threads PROVE P[<<s, Hand>>] = InHands(s)'
    <3>1. CASE s = t
      BY <1>7, <1>8, <2>3, <3>1 DEF InHands, Busy
    <3>2. CASE s # t
      <4>1. <<s, Hand>> \in Places \ {q, z} /\ Pages(<<s, Hand>>) = InHands(s)
        BY <3>2, PlaceKinds, Numbers DEF Pages
      <4>2. InHands(s)' = InHands(s)
        BY <1>9, <3>2 DEF InHands, Alone
      <4> QED BY <2>3, <4>1, <4>2
    <3> QED BY <3>1, <3>2
  <2>6. word' \in [Units -> Links \cup {Garbage}]
    BY <1>2, <1>3 DEF Shapes
  <2> HIDE DEF P
  <2> QED BY <2>1, <2>4, <2>5, <2>6, Rearranged
<1>12. \A s \in Threads : Locals(s)'
  <2>1. Locals(t)'
    BY <1>2, <1>3, <1>7, <1>8 DEF Locals, Busy, Making
  <2>2. \A s \in Threads \ {t} : Locals(s)'
    BY <1>2, <1>9, LocalsKept
  <2> QED BY <2>1, <2>2
<1>13. SizesKnown' /\ ReservedExact'
  BY <1>2, <1>7, <1>9, SizesKept, ReservedKept DEF Making, Uncounted
<1>14. LiveCovers'
  BY <1>2, LiveKept
<1> QED BY <1>9, <1>10, <1>11, <1>12, <1>13, <1>14 DEF IInv----------------------------------------------------------------------------
\* The invariant

LEMMA InitIInv == Init => IInv
<1> SUFFICES ASSUME Init PROVE IInv
  OBVIOUS
<1>1. /\ used = {} /\ app = {} /\ reserved = 0 /\ sizes = MetaLen
      /\ size = [u \in Units |-> 0] /\ word = [u \in Units |-> Garbage]
      /\ bin = [t \in Threads |-> [n \in Bins |-> None]]
      /\ live = [t \in Threads |-> 0] /\ maxLive = [t \in Threads |-> 0]
      /\ cleared = [t \in Threads |-> FALSE]
      /\ pc = [t \in Threads |-> "idle"] /\ reg = [t \in Threads |-> NoLocals]
  BY DEF Init
<1>2. /\ NoLocals \in Regs /\ NoLocals.units = 0 /\ NoLocals.page = None /\ NoLocals.next = None
      /\ NoLocals.clearing = "no"
  BY DEF NoLocals, Regs, Links
<1>3. Shapes
  <2>1. reg \in [Threads -> Regs] /\ pc \in [Threads -> Pcs]
    BY <1>1, <1>2 DEF Pcs
  <2>2. bin \in [Threads -> [Bins -> Links]]
    BY <1>1 DEF Links
  <2>3. sizes \in Nat /\ reserved \in Int
    BY <1>1, SizesAssumption
  <2> QED BY <1>1, <2>1, <2>2, <2>3 DEF Shapes
<1>4. \A q \in Lists : HeadOf(q) = None
  BY <1>1, <1>2, PlaceKinds DEF HeadOf, Lists
<1>5. DOMAIN word = Units /\ IsFiniteSet(DOMAIN word) /\ None \notin DOMAIN word
  BY <1>1, Numbers
<1>6. Walk(None) = {}
  <2>1. Listed({}, None, word, None)
    BY ListedNone
  <2> QED BY <1>5, <2>1, ListedFollowed DEF Walk
<1>7. \A q \in Places : Pages(q) = {}
  BY <1>1, <1>4, <1>6, PlaceKinds DEF Pages, InHands, Busy
<1>8. Placed(Holdings, used, app)
  BY <1>1, <1>7 DEF Placed, Holdings
<1>9. Linked
  BY <1>4, <1>7, ListedNone, PlaceKinds DEF Linked
<1>10. \A t \in Threads : Locals(t)
  BY <1>1, <1>2 DEF Locals, Busy, Making
<1>11. Separate /\ SizesKnown
  BY <1>1 DEF Separate, SizesKnown
<1>12. ReservedExact
  <2>1. {t \in Threads : pc[t] \in {"count", "releaseCell"}} = {}
    BY <1>1
  <2> QED BY <1>1, <2>1, TotalNone DEF ReservedExact
<1>13. LiveCovers
  <2>1. {r \in app : r[2] \in Bins} = {}
    BY <1>1
  <2>2. Total(live, Threads) \in Nat
    BY <1>1, ThreadsAssumption, TotalNat
  <2> QED BY <2>1, <2>2, TotalNone DEF LiveCovers
<1> QED BY <1>3, <1>8, <1>9, <1>10, <1>11, <1>12, <1>13 DEF IInv

LEMMA NextIInv == IInv /\ [Next]_vars => IInv'
<1> SUFFICES ASSUME IInv, [Next]_vars PROVE IInv'
  OBVIOUS
<1>1. CASE UNCHANGED vars
  <2> USE <1>1 DEF vars
  <2>1. Shapes' /\ Separate' /\ SizesKnown' /\ ReservedExact' /\ LiveCovers'
    BY DEF IInv, Shapes, Separate, SizesKnown, ReservedExact, LiveCovers
  <2>2. Placed(Holdings, used, app)' /\ Linked'
    <3>1. \A q \in Lists : HeadOf(q)' = HeadOf(q)
      BY DEF HeadOf
    <3>2. \A t \in Threads : InHands(t)' = InHands(t)
      BY DEF InHands
    <3> QED BY <2>1, <3>1, <3>2, Unmoved DEF Shapes
  <2>3. \A t \in Threads : Locals(t)'
    BY DEF IInv, Locals, Filled
  <2> QED BY <2>1, <2>2, <2>3 DEF IInv
<1>2. ASSUME NEW t \in Threads,
             AllocCached(t) \/ AllocCall(t) \/ FreeCached(t) \/ FreeDirect(t) \/ ExitCall(t)
      PROVE  IInv'
  BY <1>2, AllocCachedKeeps, AllocCallKeeps, FreeCachedKeeps, FreeDirectKeeps, ExitCallKeeps
<1>3. ASSUME NEW t \in Threads, Step(t) PROVE IInv'
  BY <1>3, AcquireKeeps, AcquireFailsKeeps, CountKeeps, SetMetaKeeps, GetMetaKeeps, UnmapKeeps,
     ReleaseCellKeeps, ClearBinKeeps, ClearPageKeeps, ClearDoneKeeps DEF Step
<1> QED BY <1>1, <1>2, <1>3 DEF Next

\* Every reachable state of the allocators and the page resource satisfies the
\* invariant: each run handed out by the free list is in one place.
THEOREM IInvInvariant == Spec => []IInv
BY InitIInv, NextIInv, PTL DEF Spec

----------------------------------------------------------------------------
\* What the runs check

\* The lists end, and are what their places hold.
LEMMA ListsEnd ==
  ASSUME IInv, NEW q \in Lists
  PROVE  Walk(HeadOf(q)) = Pages(q) /\ Ends(HeadOf(q))
<1>1. q \in Places /\ Pages(q) = Walk(HeadOf(q)) /\ Pages(q) \subseteq Units
  BY PlaceKinds, Held DEF Pages
<1>2. DOMAIN word = Units /\ IsFiniteSet(DOMAIN word) /\ None \notin DOMAIN word
  BY Numbers DEF IInv, Shapes
<1> DEFINE L == Pages(q)
<1>3. Listed(L, HeadOf(q), word, None) /\ L \in SUBSET DOMAIN word
  BY <1>1, <1>2 DEF IInv, Linked
<1> HIDE DEF L
<1>4. ListEnds(HeadOf(q), word, None)
  BY <1>2, <1>3, ListedFollowed
<1> QED BY <1>1, <1>4 DEF Ends

\* Where the runs of RunsConserved are found among the places.
LEMMA WhereFound ==
  ASSUME IInv, NEW r \in used
  PROVE  /\ \A q \in Threads \X Bins : /\ q \in Places /\ q[2] \notin {Chain, Hand}
                                       /\ Walk(bin[q[1]][q[2]]) = Pages(q)
         /\ \A t \in Threads : InHand(t, r) <=>
              r[1] \in Pages(<<t, Hand>>) \/ r[1] \in Pages(<<t, Chain>>)
<1>1. ASSUME NEW q \in Threads \X Bins
      PROVE  q \in Places /\ q[2] \notin {Chain, Hand} /\ Walk(bin[q[1]][q[2]]) = Pages(q)
  <2>1. q \in Lists /\ q \in Places /\ q[2] \notin {Chain, Hand}
    BY Numbers DEF Lists, Places
  <2> QED BY <2>1 DEF Pages, HeadOf
<1>2. ASSUME NEW t \in Threads
      PROVE  InHand(t, r) <=> r[1] \in Pages(<<t, Hand>>) \/ r[1] \in Pages(<<t, Chain>>)
  <2>1. Pages(<<t, Hand>>) = InHands(t) /\ Pages(<<t, Chain>>) = Walk(reg[t].next)
    BY Numbers DEF Pages, HeadOf
  <2>2. r \in Runs
    BY DEF IInv, Shapes
  <2> QED BY <2>1, <2>2 DEF InHand, InHands, Busy
<1> QED BY <1>1, <1>2

LEMMA Conserved == IInv => RunsConserved
<1> SUFFICES ASSUME IInv PROVE RunsConserved
  OBVIOUS
<1>1. app \subseteq used
  BY DEF IInv, Shapes
<1>2. ASSUME NEW r \in used
      PROVE  (IF r \in app THEN 1 ELSE 0)
             + Cardinality({q \in Threads \X Bins : r[1] \in Walk(bin[q[1]][q[2]])})
             + Cardinality({t \in Threads : InHand(t, r)}) = 1
  <2> DEFINE B == {q \in Threads \X Bins : r[1] \in Walk(bin[q[1]][q[2]])}
             C == {t \in Threads : InHand(t, r)}
  <2>1. /\ \A q \in B : q \in Places /\ q[2] \in Bins /\ r[1] \in Pages(q)
        /\ \A q \in Places : q[2] \in Bins /\ r[1] \in Pages(q) => q \in B
    BY WhereFound, PlaceKinds
  <2>2. \A t \in C : \/ <<t, Hand>> \in Places /\ r[1] \in Pages(<<t, Hand>>)
                     \/ <<t, Chain>> \in Places /\ r[1] \in Pages(<<t, Chain>>)
    BY WhereFound, PlaceKinds
  <2>3. \A q \in Places : q[2] \notin Bins /\ r[1] \in Pages(q) => q[1] \in C
    BY WhereFound, PlaceKinds
  <2> HIDE DEF B, C
  <2>4. CASE r \in app
    <3>1. \A q \in Places : r[1] \notin Pages(q)
      BY <2>4, SizeFound
    <3>2. B = {} /\ C = {}
      BY <2>1, <2>2, <3>1
    <3>3. Cardinality(B) = 0 /\ Cardinality(C) = 0
      BY <3>2, FS_EmptySet
    <3> QED BY <2>4, <3>3 DEF B, C
  <2>5. CASE r \notin app
    <3>1. PICK z \in Places : r[1] \in Pages(z)
      BY <2>5 DEF IInv, Placed, Holdings
    <3>2. \A q \in Places : r[1] \in Pages(q) => q = z
      BY <3>1, Held
    <3>5. \A t \in C : z = <<t, Hand>> \/ z = <<t, Chain>>
      BY <2>2, <3>2
    <3>6. \A t \in C : z[1] = t /\ z[2] \notin Bins
      BY <3>5, Numbers
    <3>3. CASE z[2] \in Bins
      <4>1. B = {z}
        BY <2>1, <3>1, <3>2, <3>3
      <4>2. C = {}
        BY <3>3, <3>6
      <4>3. Cardinality(B) = 1 /\ Cardinality(C) = 0
        BY <4>1, <4>2, FS_EmptySet, FS_Singleton
      <4> QED BY <2>5, <4>3 DEF B, C
    <3>4. CASE z[2] \notin Bins
      <4>1. B = {}
        BY <2>1, <3>2, <3>4
      <4>2. C = {z[1]}
        <5>1. z[1] \in C
          BY <2>3, <3>1, <3>4
        <5>2. \A t \in C : t = z[1]
          BY <3>6
        <5> QED BY <5>1, <5>2
      <4>3. Cardinality(B) = 0 /\ Cardinality(C) = 1
        BY <4>1, <4>2, FS_EmptySet, FS_Singleton
      <4> QED BY <2>5, <4>3 DEF B, C
    <3> QED BY <3>3, <3>4
  <2> QED BY <2>4, <2>5
<1>3. ASSUME NEW t \in Threads, NEW n \in Bins
      PROVE  Ends(bin[t][n]) /\ \A p \in Walk(bin[t][n]) : <<p, n>> \in used
  <2> DEFINE q == <<t, n>>
  <2>1. q \in Lists /\ q \in Places /\ HeadOf(q) = bin[t][n] /\ q[2] = n
    BY PlaceKinds, Numbers DEF HeadOf
  <2>2. Walk(bin[t][n]) = Pages(q) /\ Ends(bin[t][n])
    BY <2>1, ListsEnd
  <2>3. ASSUME NEW p \in Pages(q) PROVE <<p, n>> \in used
    <3>1. PICK r \in used : r[1] = p /\ r[2] = n
      BY <2>1, <2>3, Held
    <3>2. r = <<p, n>>
      BY <3>1, RunParts DEF IInv, Shapes
    <3> QED BY <3>2
  <2> QED BY <2>2, <2>3
<1>4. ASSUME NEW t \in Threads
      PROVE  Ends(reg[t].next) /\ Walk(reg[t].next) \subseteq {r[1] : r \in used}
  <2> DEFINE q == <<t, Chain>>
  <2>1. q \in Lists /\ q \in Places /\ HeadOf(q) = reg[t].next
    BY PlaceKinds DEF HeadOf
  <2>2. Walk(reg[t].next) = Pages(q) /\ Ends(reg[t].next)
    BY <2>1, ListsEnd
  <2>3. \A p \in Pages(q) : \E r \in used : r[1] = p
    BY <2>1, Held
  <2> QED BY <2>2, <2>3
<1> QED BY <1>1, <1>2, <1>3, <1>4 DEF RunsConserved

\* The calls between the counter and the free list hold different runs of it,
\* so that the counter is never below zero.
LEMMA NotBelowZero == IInv => reserved \in Nat
<1> SUFFICES ASSUME IInv PROVE reserved \in Nat
  OBVIOUS
<1> DEFINE C == {t \in Threads : pc[t] \in {"count", "releaseCell"}}
           f == [t \in Threads |-> reg[t].units]
           h == [t \in C |-> <<reg[t].page, reg[t].units>>]
<1>1. C \in SUBSET Threads /\ IsFiniteSet(C)
  BY ThreadsAssumption, FS_Subset
<1>2. \A t \in C : h[t] = <<reg[t].page, reg[t].units>> /\ h[t] \in used
  BY HandRun DEF Busy
<1>3. h \in [C -> used]
  BY <1>2
<1>4. \A s, t \in C : h[s] = h[t] => s = t
  <2> SUFFICES ASSUME NEW s \in C, NEW t \in C, s # t PROVE h[s] # h[t]
    OBVIOUS
  <2>1. reg[s].page # reg[t].page
    BY <1>1, HandRun DEF Busy
  <2> QED BY <1>2, <2>1
<1>5. \A t \in C : f[t] \in Nat /\ Length[h[t]] = f[t]
  <2> SUFFICES ASSUME NEW t \in C PROVE f[t] \in Nat /\ Length[h[t]] = f[t]
    OBVIOUS
  <2>1. h[t] \in Runs /\ h[t][2] = f[t]
    BY <1>1, <1>2 DEF IInv, Shapes
  <2> QED BY <1>1, <2>1, RunParts
<1>6. /\ IsFiniteSet(used) /\ Total(Length, used) \in Nat /\ \A r \in used : Length[r] \in Nat
  BY LengthsNat DEF IInv, Shapes
<1>7. reserved = Total(Length, used) - Total(f, C)
  BY DEF IInv, ReservedExact
<1> HIDE DEF C, f, h
<1>8. h \in Injection(C, used)
  BY <1>3, <1>4 DEF Injection, IsInjective
<1>9. \A t \in C : f[t] \in Nat /\ f[t] <= Length[h[t]]
  BY <1>5
<1>10. Total(f, C) <= Total(Length, used)
  BY <1>1, <1>6, <1>8, <1>9, TotalAtMost
<1>11. Total(f, C) \in Nat
  BY <1>1, <1>9, TotalNat
<1> QED BY <1>6, <1>7, <1>10, <1>11

\* Free list, caches and table of sizes agree in every reachable state.
THEOREM ObjectsSoundHolds == Spec => []ObjectsSound
<1>1. IInv => ObjectsSound
  <2> SUFFICES ASSUME IInv PROVE ObjectsSound
    OBVIOUS
  <2>1. TypeOK
    <3>1. app \subseteq Runs
      BY DEF IInv, Shapes
    <3> QED BY <3>1, NotBelowZero DEF TypeOK, IInv, Shapes, Regs
  <2>2. NothingLeftBehind
    BY DEF IInv, Locals, NothingLeftBehind
  <2>3. RunsConserved /\ SizesKnown
    BY Conserved DEF IInv
  <2> QED BY <2>1, <2>2, <2>3 DEF ObjectsSound
<1> QED BY <1>1, IInvInvariant, PTL

\* The counter of reserved pages and the threads' live counts stay what they
\* count, but for the calls in between.
THEOREM CountersSoundHolds == Spec => []CountersSound
<1>1. IInv => CountersSound
  BY DEF IInv, CountersSound
<1> QED BY <1>1, IInvInvariant, PTL

----------------------------------------------------------------------------
\* The abstract allocator of runs

LEMMA GivenOut ==
  ASSUME IInv, NEW r \in used \ app, app' = app \cup {r}
  PROVE  Ranges!Next
<1>1. r \in Ranges!Runs
  BY DEF IInv, Shapes, Runs, Units, Ranges!Runs
<1>2. \A s \in app : Ranges!Span(r) \cap Ranges!Span(s) = {}
  BY DEF IInv, Shapes, Separate, Span, Ranges!Span
<1> QED BY <1>1, <1>2 DEF Ranges!Next, Ranges!Allocate

LEMMA TakenBack ==
  ASSUME IInv, NEW r \in app, app' = app \ {r}
  PROVE  Ranges!Next
<1>1. r \in Ranges!Runs
  BY DEF IInv, Shapes, Runs, Units, Ranges!Runs
<1> QED BY <1>1 DEF Ranges!Next, Ranges!Release

\* To the application, the caches of all threads and the page resource are one
\* allocator of runs: a run is handed out only while no object overlaps it.
THEOREM LargeObjectsImplementRanges == Spec => ImplementsRanges
<1>1. Init => Ranges!Init
  BY DEF Init, Ranges!Init
<1>2. IInv /\ [Next]_vars => [Ranges!Next]_app
  <2> SUFFICES ASSUME IInv, [Next]_vars PROVE [Ranges!Next]_app
    OBVIOUS
  <2>1. CASE UNCHANGED vars
    BY <2>1 DEF vars
  <2>2. ASSUME NEW t \in Threads, AllocCached(t) PROVE Ranges!Next
    <3>1. PICK n \in Bins : bin[t][n] \in Units /\ app' = app \cup {<<bin[t][n], n>>}
      BY <2>2 DEF AllocCached, HandOut
    <3> DEFINE q == <<t, n>>
    <3>2. q \in Lists /\ HeadOf(q) = bin[t][n] /\ HeadOf(q) # None /\ q[2] = n
      BY <3>1, PlaceKinds, Numbers DEF HeadOf
    <3>3. PICK r \in used \ app : r[1] = bin[t][n] /\ r[2] = n
      BY <3>2, FirstOf
    <3>4. r = <<bin[t][n], n>>
      BY <3>3, RunParts DEF IInv, Shapes
    <3> QED BY <3>1, <3>4, GivenOut
  <2>3. ASSUME NEW t \in Threads, SetMeta(t) PROVE Ranges!Next
    <3>1. pc[t] = "setMeta" /\ app' = app \cup {<<reg[t].page, reg[t].units>>}
      BY <2>3 DEF SetMeta, HandOut, Goto
    <3>2. <<reg[t].page, reg[t].units>> \in used \ app
      BY <3>1, HandRun DEF Busy
    <3> QED BY <3>1, <3>2, GivenOut
  <2>4. ASSUME NEW t \in Threads, FreeCached(t) \/ FreeDirect(t) PROVE Ranges!Next
    <3>1. PICK r \in app : app' = app \ {r}
      BY <2>4 DEF FreeCached, FreeDirect
    <3> QED BY <3>1, TakenBack
  <2>5. ASSUME NEW t \in Threads, ~SetMeta(t), AllocCall(t) \/ ExitCall(t) \/ Step(t)
        PROVE  UNCHANGED app
    BY <2>5 DEF AllocCall, ExitCall, Step, Acquire, AcquireFails, Count, GetMeta, Unmap, ReleaseCell,
       ClearBin, ClearPage, ClearDone
  <2> QED BY <2>1, <2>2, <2>3, <2>4, <2>5 DEF Next
<1> QED BY <1>1, <1>2, IInvInvariant, PTL DEF Spec, ImplementsRanges, Ranges!Spec
=============================================================================
