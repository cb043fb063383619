------------------------ MODULE MatchingEngineProofs ------------------------
(***************************************************************************)
(* Proofs about MatchingEngine and the MatchingBook it uses, for all       *)
(* prices, quantities and pool sizes and any number of ticks and calls:    *)
(* the pool, the maps and the sides agree, no side crosses the other       *)
(* after matching, and trades follow price and time.                       *)
(***************************************************************************)
EXTENDS MatchingEngine, FiniteSetTheorems, TLAPS

-----------------------------------------------------------------------------
(***************************************************************************)
(* Sequences                                                               *)
(***************************************************************************)

LEMMA SeqElement ==
  ASSUME NEW S, NEW s \in Seq(S), NEW i \in DOMAIN s
  PROVE  s[i] \in S
OBVIOUS

\* Parts of a sequence.
LEMMA Prefix ==
  ASSUME NEW S, NEW s \in Seq(S), NEW n \in 0 .. Len(s)
  PROVE  /\ SubSeq(s, 1, n) \in Seq(S) /\ Len(SubSeq(s, 1, n)) = n
         /\ \A i \in 1 .. n : SubSeq(s, 1, n)[i] = s[i]
OBVIOUS

LEMMA Suffix ==
  ASSUME NEW S, NEW s \in Seq(S), NEW n \in 0 .. Len(s)
  PROVE  /\ SubSeq(s, n + 1, Len(s)) \in Seq(S) /\ Len(SubSeq(s, n + 1, Len(s))) = Len(s) - n
         /\ \A i \in 1 .. Len(s) - n : SubSeq(s, n + 1, Len(s))[i] = s[n + i]
OBVIOUS

LEMMA ConcatFacts ==
  ASSUME NEW S, NEW a \in Seq(S), NEW c \in Seq(S)
  PROVE  /\ a \o c \in Seq(S) /\ Len(a \o c) = Len(a) + Len(c)
         /\ \A i \in 1 .. Len(a) : (a \o c)[i] = a[i]
         /\ \A i \in 1 .. Len(c) : (a \o c)[Len(a) + i] = c[i]
OBVIOUS

LEMMA PutBetween ==
  ASSUME NEW S, NEW a \in Seq(S), NEW e \in S, NEW c \in Seq(S)
  PROVE  /\ a \o <<e>> \o c \in Seq(S) /\ Len(a \o <<e>> \o c) = Len(a) + 1 + Len(c)
         /\ \A i \in 1 .. Len(a) : (a \o <<e>> \o c)[i] = a[i]
         /\ (a \o <<e>> \o c)[Len(a) + 1] = e
         /\ \A i \in 1 .. Len(c) : (a \o <<e>> \o c)[Len(a) + 1 + i] = c[i]
OBVIOUS

\* A sequence t that is s with e put behind its first n elements.
Inserted(t, s, n, e) ==
  /\ DOMAIN t = 1 .. Len(s) + 1 /\ t[n + 1] = e
  /\ \A i \in 1 .. n : t[i] = s[i]
  /\ \A i \in n + 2 .. Len(s) + 1 : t[i] = s[i - 1]

LEMMA InsertedAt ==
  ASSUME NEW S, NEW s \in Seq(S), NEW n \in 0 .. Len(s), NEW e \in S
  PROVE  LET t == SubSeq(s, 1, n) \o <<e>> \o SubSeq(s, n + 1, Len(s))
         IN  t \in Seq(S) /\ Inserted(t, s, n, e)
<1> DEFINE a == SubSeq(s, 1, n)
           c == SubSeq(s, n + 1, Len(s))
           t == a \o <<e>> \o c
<1>1. a \in Seq(S) /\ Len(a) = n /\ \A i \in 1 .. n : a[i] = s[i]
  BY Prefix
<1>2. c \in Seq(S) /\ Len(c) = Len(s) - n /\ \A i \in 1 .. Len(s) - n : c[i] = s[n + i]
  BY Suffix
<1> HIDE DEF a, c
<1>3. /\ t \in Seq(S) /\ Len(t) = Len(a) + 1 + Len(c)
      /\ \A i \in 1 .. Len(a) : t[i] = a[i]
      /\ t[Len(a) + 1] = e
      /\ \A i \in 1 .. Len(c) : t[Len(a) + 1 + i] = c[i]
  <2>1. \A x, y \in Seq(S) :
          /\ x \o <<e>> \o y \in Seq(S) /\ Len(x \o <<e>> \o y) = Len(x) + 1 + Len(y)
          /\ \A i \in 1 .. Len(x) : (x \o <<e>> \o y)[i] = x[i]
          /\ (x \o <<e>> \o y)[Len(x) + 1] = e
          /\ \A i \in 1 .. Len(y) : (x \o <<e>> \o y)[Len(x) + 1 + i] = y[i]
    BY PutBetween
  <2>2. a \in Seq(S) /\ c \in Seq(S)
    BY <1>1, <1>2
  <2> QED BY <2>1, <2>2, Zenon
<1> HIDE DEF t
<1>4. ASSUME NEW i \in n + 2 .. Len(s) + 1
      PROVE  t[i] = s[i - 1]
  <2>1. /\ i - n - 1 \in 1 .. Len(s) - n /\ i = n + 1 + (i - n - 1)
        /\ n + (i - n - 1) = i - 1
    OBVIOUS
  <2>2. t[n + 1 + (i - n - 1)] = c[i - n - 1]
    BY <2>1, <1>1, <1>2, <1>3
  <2>3. c[i - n - 1] = s[n + (i - n - 1)]
    BY <2>1, <1>2
  <2> QED BY <2>1, <2>2, <2>3
<1>5. t \in Seq(S) /\ Inserted(t, s, n, e)
  BY <1>1, <1>2, <1>3, <1>4 DEF Inserted
<1> QED BY <1>5 DEF t, a, c

\* A sequence t that is s without its k-th element; s itself if k is behind
\* its end.
Removed(t, s, k) ==
  /\ DOMAIN t = IF k \in DOMAIN s THEN 1 .. Len(s) - 1 ELSE DOMAIN s
  /\ \A i \in DOMAIN t : t[i] = IF i < k THEN s[i] ELSE s[i + 1]

LEMMA RemovedAt ==
  ASSUME NEW S, NEW s \in Seq(S), NEW k \in 1 .. Len(s)
  PROVE  LET t == SubSeq(s, 1, k - 1) \o SubSeq(s, k + 1, Len(s))
         IN  t \in Seq(S) /\ Removed(t, s, k)
<1> DEFINE a == SubSeq(s, 1, k - 1)
           c == SubSeq(s, k + 1, Len(s))
           t == a \o c
<1>0. k \in 0 .. Len(s) /\ k - 1 \in 0 .. Len(s)
  OBVIOUS
<1>1. a \in Seq(S) /\ Len(a) = k - 1 /\ \A i \in 1 .. k - 1 : a[i] = s[i]
  BY <1>0, Prefix
<1>2. c \in Seq(S) /\ Len(c) = Len(s) - k /\ \A i \in 1 .. Len(s) - k : c[i] = s[k + i]
  BY <1>0, Suffix
<1> HIDE DEF a, c
<1>3. /\ t \in Seq(S) /\ Len(t) = Len(a) + Len(c)
      /\ \A i \in 1 .. Len(a) : t[i] = a[i]
      /\ \A i \in 1 .. Len(c) : t[Len(a) + i] = c[i]
  <2>1. a \in Seq(S) /\ c \in Seq(S)
    BY <1>1, <1>2
  <2> QED BY ONLY <2>1, ConcatFacts
<1> HIDE DEF t
<1>4. ASSUME NEW i \in k .. Len(s) - 1
      PROVE  t[i] = s[i + 1]
  <2>1. i - k + 1 \in 1 .. Len(s) - k /\ i = k - 1 + (i - k + 1) /\ k + (i - k + 1) = i + 1
    OBVIOUS
  <2>2. t[k - 1 + (i - k + 1)] = c[i - k + 1]
    BY <2>1, <1>1, <1>2, <1>3
  <2>3. c[i - k + 1] = s[k + (i - k + 1)]
    BY <2>1, <1>2
  <2> QED BY <2>1, <2>2, <2>3
<1>5. Len(s) \in Nat /\ DOMAIN s = 1 .. Len(s) /\ DOMAIN t = 1 .. Len(s) - 1
  BY <1>1, <1>2, <1>3
<1>6. \A i \in DOMAIN t : t[i] = IF i < k THEN s[i] ELSE s[i + 1]
  BY <1>1, <1>3, <1>4, <1>5
<1>7. t \in Seq(S) /\ Removed(t, s, k)
  BY <1>3, <1>5, <1>6 DEF Removed
<1> QED BY <1>7 DEF t, a, c

LEMMA TailRemoves ==
  ASSUME NEW S, NEW s \in Seq(S), s # <<>>
  PROVE  /\ Head(s) = s[1] /\ 1 \in DOMAIN s /\ Head(s) \in S
         /\ Tail(s) \in Seq(S) /\ Removed(Tail(s), s, 1)
BY DEF Removed

LEMMA NothingRemoved ==
  ASSUME NEW S, NEW s \in Seq(S)
  PROVE  Removed(s, s, Len(s) + 1)
BY DEF Removed

-----------------------------------------------------------------------------
(***************************************************************************)
(* The pool                                                                *)
(***************************************************************************)

\* Each block is on the free list f once, or in O.
Pool(f, O) ==
  /\ f \in Seq(Blocks)
  /\ \A i, j \in DOMAIN f : f[i] = f[j] => i = j
  /\ \A i \in DOMAIN f : f[i] \notin O
  /\ Blocks = O \cup {f[i] : i \in DOMAIN f}

\* What Release puts in front of the free list: each of the blocks, once.
IsOrdering(s, R) ==
  /\ s \in Seq(R)
  /\ \A i, j \in DOMAIN s : s[i] = s[j] => i = j
  /\ R = {s[i] : i \in DOMAIN s}

LEMMA OrderingFacts ==
  ASSUME NEW R, IsFiniteSet(R)
  PROVE  IsOrdering(CHOOSE s \in Orderings(R) : TRUE, R)
<1> DEFINE n == Cardinality(R)
           s == CHOOSE s \in Orderings(R) : TRUE
<1>1. n \in Nat /\ ExistsBijection(1 .. n, R)
  BY FS_CardinalityType
<1> HIDE DEF n
<1>2. PICK f \in Bijection(1 .. n, R) : TRUE
  BY <1>1 DEF ExistsBijection
<1>3. f \in Orderings(R)
  BY <1>2 DEF Orderings, Bijection, Injection, IsInjective, n
<1>4. s \in Orderings(R)
  BY <1>3
<1> HIDE DEF s
<1>5. s \in [1 .. n -> R] /\ \A i, j \in DOMAIN s : s[i] = s[j] => i = j
  BY <1>4 DEF Orderings, n
<1>6. s \in Injection(1 .. n, R)
  BY <1>5 DEF Injection, IsInjective
<1>7. Cardinality(1 .. n) = n
  BY <1>1, FS_Interval
<1>8. s \in Surjection(1 .. n, R)
  BY <1>6, <1>7, FS_Injection DEF n
<1>9. R = {s[i] : i \in DOMAIN s}
  BY <1>5, <1>8 DEF Surjection
<1>10. s \in Seq(R)
  BY <1>1, <1>5
<1>11. IsOrdering(s, R)
  BY <1>5, <1>9, <1>10 DEF IsOrdering
<1> QED BY <1>11 DEF s

\* Giving blocks back to a pool.
LEMMA ReleaseKeepsPool ==
  ASSUME Pool(free, Owned), Owned' \subseteq Owned, Release
  PROVE  Pool(free', Owned')
<1> DEFINE R == Owned \ Owned'
           s == CHOOSE s \in Orderings(R) : TRUE
<1>1. R \subseteq Blocks /\ IsFiniteSet(R)
  <2>1. R \in SUBSET Blocks
    BY DEF Pool
  <2>2. IsFiniteSet(Blocks)
    BY PoolAssumption, FS_Interval DEF Blocks
  <2> QED BY <2>1, <2>2, FS_Subset
<1>2. free' = s \o free
  BY DEF Release
<1>3. /\ s \in Seq(R) /\ R = {s[i] : i \in DOMAIN s}
      /\ \A i, j \in DOMAIN s : s[i] = s[j] => i = j
  <2> HIDE DEF R
  <2>1. IsOrdering(CHOOSE t \in Orderings(R) : TRUE, R)
    BY <1>1, OrderingFacts
  <2>2. IsOrdering(s, R)
    BY <2>1
  <2> QED BY <2>2 DEF IsOrdering
<1> HIDE DEF s
<1>4. s \in Seq(Blocks) /\ \A i \in DOMAIN s : s[i] \in R
  BY <1>1, <1>3
<1>5. /\ free' \in Seq(Blocks) /\ Len(free') = Len(s) + Len(free)
      /\ \A i \in 1 .. Len(s) : free'[i] = s[i]
      /\ \A i \in 1 .. Len(free) : free'[Len(s) + i] = free[i]
  BY <1>2, <1>4, ConcatFacts DEF Pool
<1>6. /\ Len(s) \in Nat /\ Len(free) \in Nat
      /\ DOMAIN s = 1 .. Len(s) /\ DOMAIN free = 1 .. Len(free)
      /\ DOMAIN free' = 1 .. Len(s) + Len(free)
  BY <1>4, <1>5 DEF Pool
<1>7. ASSUME NEW i \in DOMAIN free'
      PROVE  \/ i \in DOMAIN s /\ free'[i] = s[i] /\ free'[i] \in R
             \/ /\ i - Len(s) \in DOMAIN free /\ free'[i] = free[i - Len(s)]
                /\ free'[i] \notin Owned /\ i \in Int
  <2>1. CASE i \in 1 .. Len(s)
    BY <2>1, <1>4, <1>5, <1>6
  <2>2. CASE i - Len(s) \in 1 .. Len(free)
    <3>1. i = Len(s) + (i - Len(s)) /\ i \in Int
      BY <1>6
    <3>2. free'[Len(s) + (i - Len(s))] = free[i - Len(s)]
      BY <2>2, <1>5
    <3>3. free[i - Len(s)] \notin Owned
      BY <2>2, <1>6 DEF Pool
    <3> QED BY <2>2, <3>1, <3>2, <3>3, <1>6
  <2> QED BY <2>1, <2>2, <1>6
<1>8. \A i, j \in DOMAIN free' : free'[i] = free'[j] => i = j
  BY <1>3, <1>6, <1>7 DEF Pool
<1>9. \A i \in DOMAIN free' : free'[i] \notin Owned'
  BY <1>7
<1>10. ASSUME NEW b \in Blocks, b \notin Owned'
       PROVE  \E i \in DOMAIN free' : free'[i] = b
  <2>1. CASE b \in R
    BY <2>1, <1>3, <1>5, <1>6
  <2>2. CASE b \notin R
    <3>1. PICK i \in DOMAIN free : free[i] = b
      BY <1>10, <2>2 DEF Pool
    <3>2. Len(s) + i \in DOMAIN free' /\ free'[Len(s) + i] = b
      BY <3>1, <1>5, <1>6
    <3> QED BY <3>2
  <2> QED BY <2>1, <2>2
<1>11. Blocks = Owned' \cup {free'[i] : i \in DOMAIN free'}
  <2>1. Owned' \subseteq Blocks
    BY DEF Pool
  <2>2. \A i \in DOMAIN free' : free'[i] \in Blocks
    BY <1>5
  <2> QED BY <2>1, <2>2, <1>10
<1> QED BY <1>5, <1>8, <1>9, <1>11 DEF Pool

\* Taking the head of the free list.
LEMMA TakeKeepsPool ==
  ASSUME NEW f, NEW O, Pool(f, O), f # <<>>
  PROVE  /\ Pool(Tail(f), O \cup {Head(f)})
         /\ Head(f) \in Blocks /\ Head(f) \notin O
<1> DEFINE t == Tail(f)
           h == Head(f)
<1>1. /\ h = f[1] /\ 1 \in DOMAIN f /\ h \in Blocks /\ t \in Seq(Blocks) /\ Len(f) \in Nat
      /\ DOMAIN f = 1 .. Len(f) /\ DOMAIN t = 1 .. Len(f) - 1
      /\ \A i \in DOMAIN t : i + 1 \in DOMAIN f /\ t[i] = f[i + 1]
  BY DEF Pool
<1> HIDE DEF t, h
<1>2. \A i, j \in DOMAIN t : t[i] = t[j] => i = j
  <2> SUFFICES ASSUME NEW i \in DOMAIN t, NEW j \in DOMAIN t, t[i] = t[j] PROVE i = j
    OBVIOUS
  <2>1. i + 1 = j + 1
    BY <1>1 DEF Pool
  <2> QED BY <1>1, <2>1
<1>3. \A i \in DOMAIN t : t[i] \notin O /\ t[i] # h
  <2> SUFFICES ASSUME NEW i \in DOMAIN t PROVE t[i] \notin O /\ t[i] # h
    OBVIOUS
  <2>1. i + 1 # 1
    BY <1>1
  <2> QED BY <1>1, <2>1 DEF Pool
<1>4. ASSUME NEW b \in Blocks, b \notin O, b # h
      PROVE  \E i \in DOMAIN t : t[i] = b
  <2>1. PICK j \in DOMAIN f : f[j] = b
    BY <1>4 DEF Pool
  <2>2. j # 1
    BY <1>1, <1>4, <2>1
  <2>3. j - 1 \in DOMAIN t /\ (j - 1) + 1 = j
    BY <1>1, <2>2
  <2> QED BY <1>1, <2>1, <2>3
<1>5. h \notin O
  BY <1>1 DEF Pool
<1>6. Pool(t, O \cup {h})
  BY <1>1, <1>2, <1>3, <1>4, <1>5 DEF Pool
<1> QED BY <1>1, <1>5, <1>6 DEF t, h

-----------------------------------------------------------------------------
(***************************************************************************)
(* The invariant, in two parts: the book with its manager, and the threads *)
(***************************************************************************)

BookTypes ==
  /\ free \in Seq(Blocks)
  /\ mem \in [Blocks -> [id : Nat, price : Prices \cup {0}, quantity : Nat, isBuy : BOOLEAN]]
  /\ side \in [BOOLEAN -> Seq([price : Prices, block : Blocks])]
  /\ DOMAIN byId \subseteq Ids /\ \A id \in DOMAIN byId : byId[id] \in Blocks
  /\ DOMAIN orders \subseteq DOMAIN states /\ \A id \in DOMAIN orders : orders[id] \in Blocks
  /\ DOMAIN states \subseteq Ids /\ \A id \in DOMAIN states : states[id] \in OrderStates
  /\ nextId \in Nat \ {0}
  /\ traded \subseteq Ids

ThreadTypes ==
  /\ main \in {"start", "sleep", "join", "return", "exited"} /\ running \in BOOLEAN
  /\ pc \in {"none", "loop", "buy", "sell", "match", "quote", "done"}
  /\ tick \in Ticks
  /\ ticks \in 0 .. MaxTicks /\ calls \in 0 .. MaxCalls

\* PriceTimePriority is inductive with the rest: an id that has traded and is
\* still on its side is at the head, and stays ahead of what comes later.
BookInv == BookTypes /\ PoolInv /\ PointersInv /\ SortedInv /\ PriceTimePriority

\* Every bid is below every ask.
SidesApart ==
  \A i \in DOMAIN side[TRUE], j \in DOMAIN side[FALSE] :
    side[TRUE][i].price < side[FALSE][j].price

\* NotCrossed holds when the feed starts because nothing has been added.
ThreadInv ==
  /\ ThreadTypes
  /\ main = "start" => pc = "none"
  /\ pc = "none" => \A x \in BOOLEAN : side[x] = <<>>
  /\ NotCrossed

LEMMA InvImplies == BookInv /\ ThreadInv => EngineInv
BY DEF BookInv, ThreadInv, EngineInv, TypeOK, BookTypes, ThreadTypes

-----------------------------------------------------------------------------
(***************************************************************************)
(* The sides                                                               *)
(***************************************************************************)

\* The blocks of the two maps; no side has others.
Mapped == {byId[id] : id \in DOMAIN byId} \cup {orders[id] : id \in DOMAIN orders}

OwnersAreMapped == Owned = Mapped

LEMMA OwnedIsMapped == BookTypes /\ PointersInv => OwnersAreMapped
<1> SUFFICES ASSUME BookTypes, PointersInv PROVE Owned = Mapped
  BY DEF OwnersAreMapped
<1>1. \A x \in BOOLEAN : Resting(x) \subseteq {byId[id] : id \in DOMAIN byId}
  BY DEF PointersInv, Resting
<1> QED BY <1>1 DEF Owned, Mapped

LEMMA OwnedIsMappedNext == BookTypes' /\ PointersInv' => OwnersAreMapped'
BY OwnedIsMapped, PTL

LEMMA PoolIsPool == free \in Seq(Blocks) => (PoolInv <=> Pool(free, Owned))
BY DEF PoolInv, Pool

\* What the invariants say of an entry of a side.
LEMMA EntryFacts ==
  ASSUME BookTypes, PointersInv, NEW x \in BOOLEAN, NEW i \in DOMAIN side[x]
  PROVE  /\ side[x][i] \in [price : Prices, block : Blocks]
         /\ mem[side[x][i].block].id \in DOMAIN byId
         /\ mem[side[x][i].block].id \in Ids
         /\ byId[mem[side[x][i].block].id] = side[x][i].block
         /\ mem[side[x][i].block].isBuy = x
         /\ mem[side[x][i].block].price = side[x][i].price
         /\ mem[side[x][i].block].quantity > 0
<1>1. side[x] \in Seq([price : Prices, block : Blocks])
  BY DEF BookTypes
<1>2. side[x][i] \in [price : Prices, block : Blocks]
  BY <1>1, SeqElement
<1> QED BY <1>2 DEF BookTypes, PointersInv

\* No order is on a side twice.
LEMMA EntriesDiffer ==
  ASSUME BookTypes, PointersInv, SortedInv, NEW x \in BOOLEAN,
         NEW i \in DOMAIN side[x], NEW j \in DOMAIN side[x],
         mem[side[x][i].block].id = mem[side[x][j].block].id
  PROVE  i = j
<1>1. /\ side[x][i].block = side[x][j].block /\ side[x][i].price = side[x][j].price
      /\ side[x][i].price \in Int /\ mem[side[x][i].block].id \in Int
  <2>1. /\ byId[mem[side[x][i].block].id] = side[x][i].block
        /\ mem[side[x][i].block].price = side[x][i].price
        /\ side[x][i] \in [price : Prices, block : Blocks] /\ mem[side[x][i].block].id \in Ids
    BY EntryFacts
  <2>2. /\ byId[mem[side[x][j].block].id] = side[x][j].block
        /\ mem[side[x][j].block].price = side[x][j].price
    BY EntryFacts
  <2>3. side[x][i].block = side[x][j].block /\ side[x][i].price = side[x][j].price
    <3>1. mem[side[x][i].block].id = mem[side[x][j].block].id
      OBVIOUS
    <3> QED BY ONLY <2>1, <2>2, <3>1
  <2>4. side[x][i].price \in Int
    BY <2>1, PoolAssumption
  <2>5. mem[side[x][i].block].id \in Int
    BY <2>1 DEF Ids
  <2> QED BY <2>3, <2>4, <2>5
<1>2. i \in Int /\ j \in Int
  BY DEF BookTypes
<1>3. ~(i < j)
  <2>1. SUFFICES ASSUME i < j PROVE FALSE
    OBVIOUS
  <2>2. \/ Ahead(x, side[x][i].price, side[x][j].price)
        \/ mem[side[x][i].block].id < mem[side[x][j].block].id
    BY <2>1 DEF SortedInv
  <2> QED BY <1>1, <2>2 DEF Ahead
<1>4. ~(j < i)
  <2>1. SUFFICES ASSUME j < i PROVE FALSE
    OBVIOUS
  <2>2. \/ Ahead(x, side[x][j].price, side[x][i].price)
        \/ mem[side[x][j].block].id < mem[side[x][i].block].id
    BY <2>1 DEF SortedInv
  <2> QED BY <1>1, <2>2 DEF Ahead
<1> QED BY ONLY <1>2, <1>3, <1>4

\* No order is on both sides either.
LEMMA OrdersDiffer ==
  ASSUME BookTypes, PointersInv, SortedInv, NEW x \in BOOLEAN, NEW y \in BOOLEAN,
         NEW i \in DOMAIN side[x], NEW j \in DOMAIN side[y],
         mem[side[x][i].block].id = mem[side[y][j].block].id
  PROVE  x = y /\ i = j
<1>1. mem[side[x][i].block].isBuy = x /\ byId[mem[side[x][i].block].id] = side[x][i].block
  BY EntryFacts
<1>2. mem[side[y][j].block].isBuy = y /\ byId[mem[side[y][j].block].id] = side[y][j].block
  BY EntryFacts
<1>3. x = y
  BY <1>1, <1>2
<1> QED BY <1>3, EntriesDiffer

\* Where an element was before the removal.
Old(i, k) == IF i < k THEN i ELSE i + 1

LEMMA RemovedFacts ==
  ASSUME NEW S, NEW s \in Seq(S), NEW k \in 1 .. Len(s) + 1, NEW t, Removed(t, s, k)
  PROVE  /\ \A i \in DOMAIN t : /\ t[i] = s[Old(i, k)] /\ Old(i, k) \in DOMAIN s
                               /\ Old(i, k) # k /\ Old(i, k) >= i
         /\ \A i, j \in DOMAIN t : i < j => Old(i, k) < Old(j, k)
         /\ DOMAIN t \subseteq Nat \ {0}
<1>1. Len(s) \in Nat /\ DOMAIN s = 1 .. Len(s) /\ k \in Nat /\ k >= 1 /\ k <= Len(s) + 1
  OBVIOUS
<1>2. DOMAIN t = IF k \in DOMAIN s THEN 1 .. Len(s) - 1 ELSE 1 .. Len(s)
  BY <1>1 DEF Removed
<1>3. \A i \in DOMAIN t : t[i] = IF i < k THEN s[i] ELSE s[i + 1]
  BY DEF Removed
<1>4. \A i \in DOMAIN t : t[i] = s[Old(i, k)]
  BY <1>3 DEF Old
<1>5. \A i \in DOMAIN t : Old(i, k) \in DOMAIN s /\ Old(i, k) # k /\ Old(i, k) >= i
  BY <1>1, <1>2 DEF Old
<1>6. \A i, j \in DOMAIN t : i < j => Old(i, k) < Old(j, k)
  BY <1>1, <1>2 DEF Old
<1>7. DOMAIN t \subseteq Nat \ {0}
  BY <1>1, <1>2
<1> QED BY <1>4, <1>5, <1>6, <1>7

\* Each side loses at most one entry, the order of which is of no matter.
SidesShrink ==
  \E k \in [BOOLEAN -> Nat] : \A x \in BOOLEAN :
    k[x] \in 1 .. Len(side[x]) + 1 /\ Removed(side'[x], side[x], k[x])

IdsStay == \A b \in Blocks : mem'[b].id = mem[b].id

\* Then what is left is in order as before.
LEMMA ShrunkStaysSorted ==
  ASSUME BookTypes, SidesShrink, IdsStay
  PROVE  /\ SortedInv => SortedInv'
         /\ PriceTimePriority /\ traded' = traded => PriceTimePriority'
         /\ SidesApart => SidesApart'
<1>1. PICK k \in [BOOLEAN -> Nat] : \A x \in BOOLEAN :
        k[x] \in 1 .. Len(side[x]) + 1 /\ Removed(side'[x], side[x], k[x])
  BY DEF SidesShrink
<1> DEFINE old(x, i) == Old(i, k[x])
<1>2. ASSUME NEW x \in BOOLEAN
      PROVE  /\ \A i \in DOMAIN side'[x] : /\ side'[x][i] = side[x][old(x, i)]
                                          /\ old(x, i) \in DOMAIN side[x]
             /\ \A i, j \in DOMAIN side'[x] : i < j => old(x, i) < old(x, j)
  <2>1. side[x] \in Seq([price : Prices, block : Blocks])
    BY DEF BookTypes
  <2> QED BY <1>1, <2>1, RemovedFacts
<1>3. ASSUME NEW x \in BOOLEAN, NEW i \in DOMAIN side'[x]
      PROVE  mem'[side'[x][i].block].id = mem[side[x][old(x, i)].block].id
  <2>1. side[x] \in Seq([price : Prices, block : Blocks])
    BY DEF BookTypes
  <2>2. side[x][old(x, i)].block \in Blocks
    <3>1. old(x, i) \in DOMAIN side[x]
      BY <1>2
    <3> HIDE DEF old
    <3>2. side[x][old(x, i)] \in [price : Prices, block : Blocks]
      BY <2>1, <3>1, SeqElement
    <3> QED BY <3>2
  <2> QED BY <2>2, <1>2 DEF IdsStay
<1> HIDE DEF old
<1>4. SortedInv => SortedInv'
  BY <1>2, <1>3 DEF SortedInv
<1>5. PriceTimePriority /\ traded' = traded => PriceTimePriority'
  BY <1>2, <1>3 DEF PriceTimePriority
<1>6. SidesApart => SidesApart'
  BY <1>2 DEF SidesApart
<1> QED BY <1>4, <1>5, <1>6

-----------------------------------------------------------------------------
(***************************************************************************)
(* addOrder                                                                *)
(***************************************************************************)

\* Where an element was before the insertion.
Before(i, n) == IF i <= n THEN i ELSE i - 1

LEMMA InsertedFacts ==
  ASSUME NEW S, NEW s \in Seq(S), NEW n \in 0 .. Len(s), NEW e, NEW t, Inserted(t, s, n, e)
  PROVE  /\ \A i \in DOMAIN t :
              \/ i = n + 1 /\ t[i] = e
              \/ /\ i # n + 1 /\ Before(i, n) \in DOMAIN s /\ t[i] = s[Before(i, n)]
                 /\ i < n + 1 => Before(i, n) \in 1 .. n
                 /\ i > n + 1 => Before(i, n) \in n + 1 .. Len(s)
         /\ \A i, j \in DOMAIN t :
              i < j /\ i # n + 1 /\ j # n + 1 => Before(i, n) < Before(j, n)
<1>1. Len(s) \in Nat /\ DOMAIN s = 1 .. Len(s) /\ n \in Nat /\ n <= Len(s)
  OBVIOUS
<1>2. /\ DOMAIN t = 1 .. Len(s) + 1 /\ t[n + 1] = e
      /\ \A i \in 1 .. n : t[i] = s[i]
      /\ \A i \in n + 2 .. Len(s) + 1 : t[i] = s[i - 1]
  BY DEF Inserted
<1>3. ASSUME NEW i \in DOMAIN t, i # n + 1
      PROVE  /\ Before(i, n) \in DOMAIN s /\ t[i] = s[Before(i, n)]
             /\ i < n + 1 => Before(i, n) \in 1 .. n
             /\ i > n + 1 => Before(i, n) \in n + 1 .. Len(s)
  <2>1. CASE i <= n
    BY <2>1, <1>1, <1>2, <1>3 DEF Before
  <2>2. CASE i > n
    <3>1. i \in n + 2 .. Len(s) + 1 /\ Before(i, n) = i - 1
      BY <2>2, <1>1, <1>2, <1>3 DEF Before
    <3> QED BY <3>1, <1>1, <1>2
  <2> QED BY <2>1, <2>2, <1>1, <1>2
<1>4. \A i, j \in DOMAIN t : i < j /\ i # n + 1 /\ j # n + 1 => Before(i, n) < Before(j, n)
  BY <1>1, <1>2 DEF Before
<1> QED BY <1>2, <1>3, <1>4

\* What a successful addOrder does: block b leaves the pool, is entered under
\* the new id, and put behind the first n entries of its side.
Adds(price, quantity, x, b, n) ==
  /\ b \in Blocks /\ b \notin Owned
  /\ Pool(free', Owned \cup {b})
  /\ mem' \in [Blocks -> [id : Nat, price : Prices \cup {0}, quantity : Nat, isBuy : BOOLEAN]]
  /\ mem'[b] = Order(nextId, price, quantity, x)
  /\ \A c \in Blocks : c # b => mem'[c] = mem[c]
  /\ DOMAIN byId' = DOMAIN byId \cup {nextId} /\ byId'[nextId] = b
  /\ \A id \in DOMAIN byId : id # nextId /\ byId'[id] = byId[id]
  /\ side' \in [BOOLEAN -> Seq([price : Prices, block : Blocks])]
  /\ \A y \in BOOLEAN : y # x => side'[y] = side[y]
  /\ n \in 0 .. Len(side[x])
  /\ Inserted(side'[x], side[x], n, [price |-> price, block |-> b])
  /\ \A i \in 1 .. n : ~Ahead(x, price, side[x][i].price)
  /\ \A i \in n + 1 .. Len(side[x]) : Ahead(x, price, side[x][i].price)

LEMMA AddFacts ==
  ASSUME BookInv, NEW price \in Prices, NEW q \in Nat, NEW x \in BOOLEAN,
         CanAdd(nextId), AddOrder(nextId, price, q, x)
  PROVE  \E n \in 0 .. Len(side[x]) : Adds(price, q, x, Head(free), n)
<1> DEFINE b == Head(free)
           e == [price |-> price, block |-> b]
<1>1. /\ nextId \notin DOMAIN byId /\ free # <<>>
      /\ free' = Tail(free)
      /\ mem' = [mem EXCEPT ![b] = Order(nextId, price, q, x)]
      /\ byId' = With(byId, nextId, b)
      /\ Emplace(x, price, b)
  BY DEF CanAdd, AddOrder
<1>2. b \in Blocks /\ b \notin Owned /\ Pool(free', Owned \cup {b})
  <2>1. Pool(free, Owned)
    BY PoolIsPool DEF BookInv, BookTypes
  <2> QED BY <2>1, <1>1, TakeKeepsPool
<1> HIDE DEF b
<1>3. /\ mem' \in [Blocks -> [id : Nat, price : Prices \cup {0}, quantity : Nat, isBuy : BOOLEAN]]
      /\ mem'[b] = Order(nextId, price, q, x)
      /\ \A c \in Blocks : c # b => mem'[c] = mem[c]
  BY <1>1, <1>2 DEF BookInv, BookTypes, Order
<1>4. /\ DOMAIN byId' = DOMAIN byId \cup {nextId} /\ byId'[nextId] = b
      /\ \A id \in DOMAIN byId : id # nextId /\ byId'[id] = byId[id]
  BY <1>1 DEF With
<1>5. PICK n \in 0 .. Len(side[x]) :
        /\ \A i \in 1 .. n : ~Ahead(x, price, side[x][i].price)
        /\ \A i \in n + 1 .. Len(side[x]) : Ahead(x, price, side[x][i].price)
        /\ side' = [side EXCEPT ![x] = SubSeq(side[x], 1, n) \o <<e>>
                                         \o SubSeq(side[x], n + 1, Len(side[x]))]
  BY <1>1 DEF Emplace
<1> DEFINE t == SubSeq(side[x], 1, n) \o <<e>> \o SubSeq(side[x], n + 1, Len(side[x]))
<1>6. side[x] \in Seq([price : Prices, block : Blocks]) /\ e \in [price : Prices, block : Blocks]
  BY <1>2 DEF BookInv, BookTypes
<1>7. t \in Seq([price : Prices, block : Blocks]) /\ Inserted(t, side[x], n, e)
  <2> HIDE DEF e
  <2> QED BY <1>6, InsertedAt
<1> HIDE DEF t
<1>8. /\ side' \in [BOOLEAN -> Seq([price : Prices, block : Blocks])]
      /\ side'[x] = t
      /\ \A y \in BOOLEAN : y # x => side'[y] = side[y]
  <2>1. side' = [side EXCEPT ![x] = t]
    BY <1>5 DEF t
  <2> QED BY <2>1, <1>7 DEF BookInv, BookTypes
<1>9. Adds(price, q, x, b, n)
  BY <1>2, <1>3, <1>4, <1>5, <1>7, <1>8 DEF Adds
<1> QED BY <1>9 DEF b

\* An addOrder of a new id keeps the sides and the pointers.
LEMMA AddKeepsSides ==
  ASSUME BookInv, NEW price \in Prices, NEW q \in Nat \ {0}, NEW x \in BOOLEAN,
         NEW b, NEW n, Adds(price, q, x, b, n), nextId' = nextId + 1, traded' = traded
  PROVE  /\ SortedInv' /\ PriceTimePriority'
         /\ \A y \in BOOLEAN : \A i \in DOMAIN side'[y] :
              LET f == side'[y][i]
              IN  /\ mem'[f.block].id \in DOMAIN byId' /\ byId'[mem'[f.block].id] = f.block
                  /\ mem'[f.block].isBuy = y /\ mem'[f.block].price = f.price
                  /\ mem'[f.block].quantity > 0
<1> DEFINE e == [price |-> price, block |-> b]
<1> USE DEF BookInv
<1>1. /\ b \in Blocks /\ b \notin Owned /\ n \in 0 .. Len(side[x])
      /\ mem'[b].id = nextId /\ mem'[b].price = price /\ mem'[b].quantity = q /\ mem'[b].isBuy = x
      /\ \A c \in Blocks : c # b => mem'[c] = mem[c]
      /\ DOMAIN byId' = DOMAIN byId \cup {nextId} /\ byId'[nextId] = b
      /\ \A id \in DOMAIN byId : id # nextId /\ byId'[id] = byId[id]
      /\ \A y \in BOOLEAN : y # x => side'[y] = side[y]
      /\ \A i \in 1 .. n : ~Ahead(x, price, side[x][i].price)
      /\ \A i \in n + 1 .. Len(side[x]) : Ahead(x, price, side[x][i].price)
  BY DEF Adds, Order
<1>2. /\ \A i \in DOMAIN side'[x] :
           \/ i = n + 1 /\ side'[x][i] = e
           \/ /\ i # n + 1 /\ Before(i, n) \in DOMAIN side[x] /\ side'[x][i] = side[x][Before(i, n)]
              /\ i < n + 1 => Before(i, n) \in 1 .. n
              /\ i > n + 1 => Before(i, n) \in n + 1 .. Len(side[x])
      /\ \A i, j \in DOMAIN side'[x] :
           i < j /\ i # n + 1 /\ j # n + 1 => Before(i, n) < Before(j, n)
  <2>1. side[x] \in Seq([price : Prices, block : Blocks]) /\ Inserted(side'[x], side[x], n, e)
    BY DEF BookTypes, Adds
  <2> HIDE DEF e
  <2> QED BY <1>1, <2>1, InsertedFacts
<1>3. /\ DOMAIN side'[x] \subseteq Int /\ n \in Int
      /\ \A y \in BOOLEAN : DOMAIN side[y] = 1 .. Len(side[y]) /\ Len(side[y]) \in Nat
  BY <1>1 DEF Adds, BookTypes, Inserted
\* The entries there were have other blocks and smaller ids.
<1>4. ASSUME NEW y \in BOOLEAN, NEW i \in DOMAIN side[y]
      PROVE  /\ side[y][i].block \in Blocks /\ side[y][i].block # b
             /\ side[y][i].price \in Int
             /\ mem'[side[y][i].block] = mem[side[y][i].block]
             /\ mem[side[y][i].block].id \in Int /\ mem[side[y][i].block].id < nextId
  <2>1. /\ side[y][i] \in [price : Prices, block : Blocks]
        /\ mem[side[y][i].block].id \in Ids
    BY EntryFacts
  <2>2. side[y][i].block \in Owned
    BY DEF Owned, Resting
  <2>3. mem[side[y][i].block].id \in Int /\ mem[side[y][i].block].id < nextId
    BY <2>1 DEF Ids, BookTypes
  <2>4. side[y][i].block \in Blocks /\ side[y][i].price \in Int
    BY <2>1, PoolAssumption
  <2>5. side[y][i].block # b /\ mem'[side[y][i].block] = mem[side[y][i].block]
    BY <2>2, <2>4, <1>1
  <2> QED BY <2>3, <2>4, <2>5
<1>5. price \in Int /\ nextId \in Int /\ nextId \notin traded
  BY PoolAssumption DEF BookTypes, Ids
<1> DEFINE Pos(y, i) == y = x /\ i = n + 1
           old(y, i) == IF y = x THEN Before(i, n) ELSE i
<1>6. ASSUME NEW y \in BOOLEAN, NEW i \in DOMAIN side'[y]
      PROVE  \/ Pos(y, i) /\ side'[y][i].price = price /\ side'[y][i].block = b
             \/ /\ ~Pos(y, i) /\ old(y, i) \in DOMAIN side[y]
                /\ side'[y][i] = side[y][old(y, i)]
  BY <1>1, <1>2
<1>7. ASSUME NEW y \in BOOLEAN, NEW i \in DOMAIN side'[y]
      PROVE  LET f == side'[y][i]
              IN  /\ mem'[f.block].id \in DOMAIN byId' /\ byId'[mem'[f.block].id] = f.block
                  /\ mem'[f.block].isBuy = y /\ mem'[f.block].price = f.price
                  /\ mem'[f.block].quantity > 0
  <2>1. CASE Pos(y, i)
    <3>1. side'[y][i].price = price /\ side'[y][i].block = b /\ y = x
      BY <2>1, <1>6
    <3> QED BY <1>1, <3>1
  <2>2. CASE ~Pos(y, i)
    <3> DEFINE k == old(y, i)
    <3>1. k \in DOMAIN side[y] /\ side'[y][i] = side[y][k]
      BY <2>2, <1>6
    <3> HIDE DEF k
    <3>2. /\ mem[side[y][k].block].id \in DOMAIN byId
          /\ byId[mem[side[y][k].block].id] = side[y][k].block
          /\ mem[side[y][k].block].isBuy = y
          /\ mem[side[y][k].block].price = side[y][k].price
          /\ mem[side[y][k].block].quantity > 0
      BY <3>1, EntryFacts
    <3>3. mem'[side[y][k].block] = mem[side[y][k].block]
      BY <3>1, <1>4
    <3>4. byId'[mem[side[y][k].block].id] = byId[mem[side[y][k].block].id]
          /\ mem[side[y][k].block].id \in DOMAIN byId'
      BY <3>2, <1>1
    <3>5. PICK here : here = side[y][k]
      OBVIOUS
    <3> QED BY ONLY <3>1, <3>2, <3>3, <3>4, <3>5
  <2> QED BY <2>1, <2>2
\* Two entries: both were there, or one is new.
<1>8. ASSUME NEW y \in BOOLEAN, NEW i \in DOMAIN side'[y], NEW j \in DOMAIN side'[y], i < j
      PROVE  \/ \E k, l \in DOMAIN side[y] :
                  k < l /\ side'[y][i] = side[y][k] /\ side'[y][j] = side[y][l]
             \/ /\ y = x /\ side'[y][i].price = price /\ side'[y][i].block = b
                /\ \E l \in DOMAIN side[x] : side'[y][j] = side[x][l] /\ Ahead(x, price, side[x][l].price)
             \/ /\ y = x /\ side'[y][j].price = price /\ side'[y][j].block = b
                /\ \E k \in DOMAIN side[x] : side'[y][i] = side[x][k] /\ ~Ahead(x, price, side[x][k].price)
  <2>1. CASE ~Pos(y, i) /\ ~Pos(y, j)
    <3>1. old(y, i) < old(y, j)
      BY <2>1, <1>2, <1>8
    <3> QED BY <2>1, <3>1, <1>6
  <2>2. CASE Pos(y, i)
    <3>1. j # n + 1 /\ j > n + 1
      BY <2>2, <1>3, <1>8
    <3>2. Before(j, n) \in n + 1 .. Len(side[x]) /\ side'[y][j] = side[x][Before(j, n)]
          /\ Before(j, n) \in DOMAIN side[x]
      BY <2>2, <3>1, <1>2
    <3> QED BY <2>2, <3>2, <1>1, <1>6
  <2>3. CASE Pos(y, j)
    <3>1. i # n + 1 /\ i < n + 1
      BY <2>3, <1>3, <1>8
    <3>2. Before(i, n) \in 1 .. n /\ side'[y][i] = side[x][Before(i, n)]
          /\ Before(i, n) \in DOMAIN side[x]
      BY <2>3, <3>1, <1>2
    <3> QED BY <2>3, <3>2, <1>1, <1>6
  <2> QED BY <2>1, <2>2, <2>3
<1> HIDE DEF Pos, old
<1> DEFINE InOrder(y, i, j) ==
             /\ \/ Ahead(y, side'[y][i].price, side'[y][j].price)
                \/ /\ side'[y][i].price = side'[y][j].price
                   /\ mem'[side'[y][i].block].id < mem'[side'[y][j].block].id
             /\ mem'[side'[y][j].block].id \in traded =>
                  /\ mem'[side'[y][i].block].id > mem'[side'[y][j].block].id
                  /\ Ahead(y, side'[y][i].price, side'[y][j].price)
<1>9. ASSUME NEW y \in BOOLEAN, NEW i \in DOMAIN side'[y], NEW j \in DOMAIN side'[y], i < j
      PROVE  InOrder(y, i, j)
  <2>1. ASSUME NEW k \in DOMAIN side[y], NEW l \in DOMAIN side[y], k < l,
               side'[y][i] = side[y][k], side'[y][j] = side[y][l]
        PROVE  InOrder(y, i, j)
    <3>1. /\ mem'[side[y][k].block] = mem[side[y][k].block]
          /\ mem'[side[y][l].block] = mem[side[y][l].block]
      BY <1>4
    <3>2. \/ Ahead(y, side[y][k].price, side[y][l].price)
          \/ /\ side[y][k].price = side[y][l].price
             /\ mem[side[y][k].block].id < mem[side[y][l].block].id
      BY <2>1 DEF SortedInv
    <3>3. mem[side[y][l].block].id \in traded =>
            /\ mem[side[y][k].block].id > mem[side[y][l].block].id
            /\ Ahead(y, side[y][k].price, side[y][l].price)
      BY <2>1 DEF PriceTimePriority
    <3> QED BY ONLY <2>1, <3>1, <3>2, <3>3
  <2>2. ASSUME y = x, side'[y][i].price = price, side'[y][i].block = b,
               NEW l \in DOMAIN side[x], side'[y][j] = side[x][l],
               Ahead(x, price, side[x][l].price)
        PROVE  InOrder(y, i, j)
    <3>1. /\ mem'[side'[y][i].block].id = nextId
          /\ mem'[side'[y][j].block].id < nextId /\ mem'[side'[y][j].block].id \in Int
      <4>1. mem'[b].id = nextId
        BY <1>1
      <4>2. /\ mem'[side[x][l].block].id < nextId /\ mem'[side[x][l].block].id \in Int
        BY <1>4
      <4> QED BY ONLY <2>2, <4>1, <4>2
    <3> QED BY <2>2, <3>1, <1>5
  <2>3. ASSUME y = x, side'[y][j].price = price, side'[y][j].block = b,
               NEW k \in DOMAIN side[x], side'[y][i] = side[x][k],
               ~Ahead(x, price, side[x][k].price)
        PROVE  InOrder(y, i, j)
    <3>1. /\ mem'[side'[y][j].block].id = nextId /\ mem'[side'[y][i].block].id < nextId
          /\ side'[y][i].price \in Int
      <4>1. mem'[b].id = nextId
        BY <1>1
      <4>2. mem'[side[x][k].block].id < nextId /\ side[x][k].price \in Int
        BY <1>4
      <4> QED BY ONLY <2>3, <4>1, <4>2
    <3> QED BY <2>3, <3>1, <1>5 DEF Ahead
  <2> HIDE DEF InOrder
  <2> QED BY <1>8, <1>9, <2>1, <2>2, <2>3
<1>10. SortedInv' /\ PriceTimePriority'
  BY <1>9 DEF SortedInv, PriceTimePriority
<1> QED BY <1>7, <1>10

\* A bid below every ask keeps the sides apart.
LEMMA AddKeepsApart ==
  ASSUME BookInv, SidesApart, NEW price \in Prices, NEW q \in Nat, NEW b, NEW n,
         Adds(price, q, TRUE, b, n),
         \A j \in DOMAIN side[FALSE] : price < side[FALSE][j].price
  PROVE  SidesApart'
<1> DEFINE e == [price |-> price, block |-> b]
<1>1. side'[FALSE] = side[FALSE]
  BY DEF Adds
<1> DEFINE s == side[TRUE]
           t == side'[TRUE]
<1>2. s \in Seq([price : Prices, block : Blocks]) /\ n \in 0 .. Len(s) /\ Inserted(t, s, n, e)
  BY DEF BookInv, BookTypes, Adds
<1>3. e.price = price
  OBVIOUS
<1>4. \A i \in DOMAIN s, j \in DOMAIN side[FALSE] : s[i].price < side[FALSE][j].price
  BY DEF SidesApart
<1>5. SidesApart' <=> \A i \in DOMAIN t, j \in DOMAIN side[FALSE] :
                        t[i].price < side[FALSE][j].price
  BY <1>1 DEF SidesApart
<1> HIDE DEF e, s, t
<1>6. \A i \in DOMAIN t :
        \/ i = n + 1 /\ t[i] = e
        \/ /\ i # n + 1 /\ Before(i, n) \in DOMAIN s /\ t[i] = s[Before(i, n)]
           /\ i < n + 1 => Before(i, n) \in 1 .. n
           /\ i > n + 1 => Before(i, n) \in n + 1 .. Len(s)
  BY <1>2, InsertedFacts
<1> QED BY <1>3, <1>4, <1>5, <1>6

\* addOrder of a new id keeps the invariant, whether the order is given to
\* the manager or not.
LEMMA AddKeepsBook ==
  ASSUME BookInv, NEW price \in Prices, NEW q \in Nat \ {0}, NEW x \in BOOLEAN,
         AddOrder(nextId, price, q, x), nextId' = nextId + 1, traded' = traded,
         \/ UNCHANGED managerVars
         \/ /\ CanAdd(nextId)
            /\ orders' = With(orders, nextId, Head(free))
            /\ states' = With(states, nextId, "New")
  PROVE  BookInv'
<1>1. nextId' \in Nat \ {0} /\ Ids' = Ids \cup {nextId} /\ nextId \notin Ids
  BY DEF BookInv, BookTypes, Ids
<1>2. CASE ~CanAdd(nextId)
  <2>1. UNCHANGED <<bookVars, managerVars>>
    BY <1>2 DEF AddOrder
  <2>2. BookTypes'
    <3>1. /\ free' = free /\ mem' = mem /\ side' = side /\ byId' = byId
          /\ orders' = orders /\ states' = states
      BY <2>1 DEF bookVars, managerVars
    <3>2. DOMAIN byId' \subseteq Ids' /\ DOMAIN states' \subseteq Ids' /\ traded' \subseteq Ids'
      BY <3>1, <1>1 DEF BookInv, BookTypes
    <3> QED BY <3>1, <3>2, <1>1 DEF BookInv, BookTypes, OrderStates
  <2>3. PoolInv'
    <3>1. Owned' = Owned /\ free' = free
      BY <2>1 DEF Owned, Resting, bookVars, managerVars
    <3> QED BY <3>1 DEF BookInv, PoolInv
  <2>4. PointersInv'
    <3>1. PointersInv
      BY DEF BookInv
    <3> QED BY ONLY <2>1, <3>1 DEF PointersInv, bookVars, managerVars
  <2>5. SortedInv'
    BY <2>1 DEF BookInv, SortedInv, bookVars
  <2>6. PriceTimePriority'
    BY <2>1 DEF BookInv, PriceTimePriority, bookVars
  <2> QED BY <2>2, <2>3, <2>4, <2>5, <2>6 DEF BookInv
<1>3. CASE CanAdd(nextId)
  <2> DEFINE b == Head(free)
  <2>1. PICK n : Adds(price, q, x, b, n)
    BY <1>3, AddFacts
  <2> HIDE DEF b
  <2>2. SortedInv' /\ PriceTimePriority'
    BY <2>1, AddKeepsSides
  <2>3. /\ b \in Blocks /\ b \notin Owned /\ Pool(free', Owned \cup {b})
        /\ mem'[b].id = nextId
        /\ \A c \in Blocks : c # b => mem'[c] = mem[c]
        /\ DOMAIN byId' = DOMAIN byId \cup {nextId} /\ byId'[nextId] = b
        /\ \A id \in DOMAIN byId : id # nextId /\ byId'[id] = byId[id]
    BY <2>1 DEF Adds, Order
  <2>4. /\ DOMAIN orders \subseteq DOMAIN orders' /\ DOMAIN orders' \subseteq DOMAIN orders \cup {nextId}
        /\ DOMAIN orders' \subseteq DOMAIN states' /\ DOMAIN states' \subseteq DOMAIN states \cup {nextId}
        /\ \A id \in DOMAIN orders : id # nextId /\ orders'[id] = orders[id]
        /\ nextId \in DOMAIN orders' => orders'[nextId] = b
        /\ \A id \in DOMAIN states' : states'[id] \in OrderStates
    <3>1. CASE UNCHANGED managerVars
      BY <3>1, <1>1 DEF managerVars, BookInv, BookTypes
    <3>2. CASE orders' = With(orders, nextId, b) /\ states' = With(states, nextId, "New")
      BY <3>2, <1>1 DEF With, BookInv, BookTypes, OrderStates
    <3> QED BY <3>1, <3>2 DEF b
  <2>5. BookTypes'
    <3>1. /\ free' \in Seq(Blocks)
          /\ mem' \in [Blocks -> [id : Nat, price : Prices \cup {0}, quantity : Nat, isBuy : BOOLEAN]]
          /\ side' \in [BOOLEAN -> Seq([price : Prices, block : Blocks])]
      BY <2>1 DEF Adds, Pool
    <3>2. DOMAIN byId' \subseteq Ids' /\ \A id \in DOMAIN byId' : byId'[id] \in Blocks
      BY <1>1, <2>3 DEF BookInv, BookTypes
    <3>3. /\ DOMAIN orders' \subseteq DOMAIN states' /\ \A id \in DOMAIN orders' : orders'[id] \in Blocks
          /\ DOMAIN states' \subseteq Ids' /\ \A id \in DOMAIN states' : states'[id] \in OrderStates
      BY <1>1, <2>3, <2>4 DEF BookInv, BookTypes
    <3>4. traded' \subseteq Ids'
      BY <1>1 DEF BookInv, BookTypes
    <3> QED BY <1>1, <3>1, <3>2, <3>3, <3>4 DEF BookTypes, OrderStates
  <2>6. PointersInv'
    <3>1. \A c \in Owned : c \in Blocks => mem'[c] = mem[c]
      BY <2>3
    <3>2. \A id \in DOMAIN byId : byId[id] \in Owned /\ byId[id] \in Blocks /\ mem[byId[id]].id = id
      BY DEF BookInv, BookTypes, PointersInv, Owned
    <3>3. \A id \in DOMAIN orders :
            orders[id] \in Owned /\ orders[id] \in Blocks /\ mem[orders[id]].id = id
      BY DEF BookInv, BookTypes, PointersInv, Owned
    <3>4. \A id \in DOMAIN byId' : mem'[byId'[id]].id = id
      BY <2>3, <3>1, <3>2
    <3>5. \A id \in DOMAIN orders' : mem'[orders'[id]].id = id
      BY <2>3, <2>4, <3>1, <3>3
    <3>6. \A y \in BOOLEAN : \A i \in DOMAIN side'[y] :
            LET f == side'[y][i]
            IN  /\ mem'[f.block].id \in DOMAIN byId' /\ byId'[mem'[f.block].id] = f.block
                /\ mem'[f.block].isBuy = y /\ mem'[f.block].price = f.price
                /\ mem'[f.block].quantity > 0
      BY <2>1, AddKeepsSides
    <3> QED BY <3>4, <3>5, <3>6 DEF PointersInv
  <2>7. PoolInv'
    <3>1. Owned = Mapped
      BY OwnedIsMapped DEF BookInv, OwnersAreMapped
    <3>2. Owned' = Mapped'
      BY <2>5, <2>6, OwnedIsMappedNext DEF OwnersAreMapped
    <3>3. Mapped' = Mapped \cup {b}
      BY <2>3, <2>4 DEF Mapped
    <3>4. Pool(free', Owned')
      BY <2>3, <3>1, <3>2, <3>3
    <3>5. free' \in Seq(Blocks)
      BY <2>5 DEF BookTypes
    <3> QED BY <3>4 DEF PoolInv, Pool
  <2> QED BY <2>2, <2>5, <2>6, <2>7 DEF BookInv
<1> QED BY <1>2, <1>3

-----------------------------------------------------------------------------
(***************************************************************************)
(* matchOrders                                                             *)
(***************************************************************************)

\* The two orders that trade are different, and each is at the head of its
\* side; what they trade is no more than either has.
TradeOf(buy, sell, quantity) ==
  /\ side[TRUE] # <<>> /\ side[FALSE] # <<>>
  /\ buy = side[TRUE][1].block /\ sell = side[FALSE][1].block /\ buy # sell
  /\ quantity <= mem[buy].quantity /\ quantity <= mem[sell].quantity
  /\ mem' = [mem EXCEPT ![buy].quantity = @ - quantity, ![sell].quantity = @ - quantity]
  /\ side' = [x \in BOOLEAN |-> IF mem'[side[x][1].block].quantity <= 0
                                THEN Tail(side[x]) ELSE side[x]]
  /\ traded' = traded \cup {mem[buy].id, mem[sell].id}

LEMMA TradeFacts ==
  ASSUME BookInv, Trade
  PROVE  \E buy, sell \in Blocks, quantity \in Nat : TradeOf(buy, sell, quantity)
<1> DEFINE buy  == Best(TRUE).block
           sell == Best(FALSE).block
           quantity == IF mem[buy].quantity <= mem[sell].quantity
                       THEN mem[buy].quantity ELSE mem[sell].quantity
<1>1. /\ side[TRUE] # <<>> /\ side[FALSE] # <<>>
      /\ mem' = [mem EXCEPT ![buy].quantity = @ - quantity,
                            ![sell].quantity = @ - quantity]
      /\ side' = [x \in BOOLEAN |-> IF mem'[Best(x).block].quantity <= 0
                                    THEN Tail(side[x]) ELSE side[x]]
      /\ traded' = traded \cup {mem[buy].id, mem[sell].id}
  BY DEF Trade, Crosses, BothSides
<1>2. buy = side[TRUE][1].block /\ sell = side[FALSE][1].block
  BY DEF Best
<1> HIDE DEF buy, sell
<1>3. 1 \in DOMAIN side[TRUE] /\ 1 \in DOMAIN side[FALSE]
  <2>1. \A x \in BOOLEAN : side[x] \in Seq([price : Prices, block : Blocks])
    BY DEF BookInv, BookTypes
  <2>2. \A t \in Seq([price : Prices, block : Blocks]) : t # <<>> => 1 \in DOMAIN t
    OBVIOUS
  <2>3. side[TRUE] # <<>> /\ side[FALSE] # <<>>
    BY <1>1
  <2> QED BY ONLY <2>1, <2>2, <2>3
<1>4. /\ buy \in Blocks /\ mem[buy].isBuy = TRUE
      /\ sell \in Blocks /\ mem[sell].isBuy = FALSE
  <2>1. side[TRUE][1] \in [price : Prices, block : Blocks] /\ mem[side[TRUE][1].block].isBuy = TRUE
    BY <1>3, EntryFacts DEF BookInv
  <2>2. side[FALSE][1] \in [price : Prices, block : Blocks] /\ mem[side[FALSE][1].block].isBuy = FALSE
    BY <1>3, EntryFacts DEF BookInv
  <2> QED BY <2>1, <2>2, <1>2
<1>5. buy # sell
  BY <1>4
<1>6. /\ quantity \in Nat /\ quantity <= mem[buy].quantity /\ quantity <= mem[sell].quantity
  <2>1. mem[buy].quantity \in Nat /\ mem[sell].quantity \in Nat
    BY <1>4 DEF BookInv, BookTypes
  <2> QED BY <2>1
<1> HIDE DEF quantity
<1>7. side' = [x \in BOOLEAN |-> IF mem'[side[x][1].block].quantity <= 0
                                 THEN Tail(side[x]) ELSE side[x]]
  BY <1>1 DEF Best
<1>8. TradeOf(buy, sell, quantity)
  BY <1>1, <1>2, <1>5, <1>6, <1>7 DEF TradeOf
<1> QED BY <1>4, <1>6, <1>8, Zenon

\* A trade changes the quantities of its two orders and nothing else of any.
LEMMA TradeMem ==
  ASSUME BookInv, NEW buy \in Blocks, NEW sell \in Blocks, buy # sell, NEW quantity \in Nat,
         quantity <= mem[buy].quantity, quantity <= mem[sell].quantity,
         mem' = [mem EXCEPT ![buy].quantity = @ - quantity, ![sell].quantity = @ - quantity]
  PROVE  /\ mem' \in [Blocks -> [id : Nat, price : Prices \cup {0}, quantity : Nat, isBuy : BOOLEAN]]
         /\ \A c \in Blocks : /\ mem'[c].id = mem[c].id /\ mem'[c].price = mem[c].price
                              /\ mem'[c].isBuy = mem[c].isBuy
                              /\ c # buy /\ c # sell => mem'[c] = mem[c]
<1> DEFINE T == [id : Nat, price : Prices \cup {0}, quantity : Nat, isBuy : BOOLEAN]
<1>1. mem \in [Blocks -> T]
  BY DEF BookInv, BookTypes
<1>2. \A c \in Blocks : c # buy /\ c # sell => mem'[c] = mem[c]
  BY <1>1
<1>3. /\ mem'[buy] = [mem[buy] EXCEPT !.quantity = @ - quantity]
      /\ mem'[sell] = [mem[sell] EXCEPT !.quantity = @ - quantity]
  BY <1>1
<1>4. mem[buy] \in T /\ mem[sell] \in T
  BY <1>1
<1>5. mem[buy].quantity - quantity \in Nat /\ mem[sell].quantity - quantity \in Nat
  BY <1>4
<1>6. /\ mem'[buy] \in T /\ mem'[buy].id = mem[buy].id /\ mem'[buy].price = mem[buy].price
      /\ mem'[buy].isBuy = mem[buy].isBuy
  BY <1>3, <1>4, <1>5
<1>7. /\ mem'[sell] \in T /\ mem'[sell].id = mem[sell].id /\ mem'[sell].price = mem[sell].price
      /\ mem'[sell].isBuy = mem[sell].isBuy
  BY <1>3, <1>4, <1>5
<1>8. mem' \in [Blocks -> T]
  <2>1. mem' = [c \in Blocks |-> mem'[c]]
    BY <1>1
  <2>2. \A c \in Blocks : mem'[c] \in T
    BY <1>1, <1>2, <1>6, <1>7
  <2> QED BY <2>1, <2>2
<1> QED BY <1>2, <1>6, <1>7, <1>8

\* One pass of the matching loop keeps the invariant: the filled order leaves
\* its side, stays in the map, and no block is released.
LEMMA TradeKeepsBook ==
  ASSUME BookInv, Trade, nextId' = nextId
  PROVE  BookInv'
<1>0. PICK buy \in Blocks, sell \in Blocks, quantity \in Nat : TradeOf(buy, sell, quantity)
  BY TradeFacts
<1>1. /\ side[TRUE] # <<>> /\ side[FALSE] # <<>>
      /\ buy = side[TRUE][1].block /\ sell = side[FALSE][1].block /\ buy # sell
      /\ quantity <= mem[buy].quantity /\ quantity <= mem[sell].quantity
      /\ mem' = [mem EXCEPT ![buy].quantity = @ - quantity, ![sell].quantity = @ - quantity]
      /\ side' = [x \in BOOLEAN |-> IF mem'[side[x][1].block].quantity <= 0
                                    THEN Tail(side[x]) ELSE side[x]]
      /\ traded' = traded \cup {mem[buy].id, mem[sell].id}
  BY <1>0 DEF TradeOf
<1>2. /\ mem' \in [Blocks -> [id : Nat, price : Prices \cup {0}, quantity : Nat, isBuy : BOOLEAN]]
      /\ \A c \in Blocks : /\ mem'[c].id = mem[c].id /\ mem'[c].price = mem[c].price
                           /\ mem'[c].isBuy = mem[c].isBuy
                           /\ c # buy /\ c # sell => mem'[c] = mem[c]
  <2>1. buy # sell /\ quantity <= mem[buy].quantity /\ quantity <= mem[sell].quantity
    BY <1>1
  <2>2. mem' = [mem EXCEPT ![buy].quantity = @ - quantity, ![sell].quantity = @ - quantity]
    BY <1>1
  <2> QED BY <2>1, <2>2, TradeMem
<1>3. byId' = byId /\ orders' = orders /\ states' = states /\ Release
  BY DEF Trade, managerVars
<1>4. ASSUME NEW x \in BOOLEAN
      PROVE  /\ side[x] \in Seq([price : Prices, block : Blocks]) /\ side[x] # <<>>
             /\ 1 \in DOMAIN side[x] /\ Len(side[x]) \in Nat
  <2>1. side[x] \in Seq([price : Prices, block : Blocks]) /\ side[x] # <<>>
    BY <1>1 DEF BookInv, BookTypes
  <2> QED BY <2>1
<1> DEFINE filled(x) == mem'[side[x][1].block].quantity <= 0
           k == [x \in BOOLEAN |-> IF filled(x) THEN 1 ELSE Len(side[x]) + 1]
<1>5. ASSUME NEW x \in BOOLEAN
      PROVE  /\ side'[x] \in Seq([price : Prices, block : Blocks])
             /\ k[x] \in 1 .. Len(side[x]) + 1 /\ Removed(side'[x], side[x], k[x])
  <2> DEFINE s == side[x]
  <2>0. s \in Seq([price : Prices, block : Blocks]) /\ s # <<>> /\ Len(s) \in Nat
    BY <1>4, Zenon
  <2>1. CASE filled(x)
    <3>1. side'[x] = Tail(s) /\ k[x] = 1
      BY <2>1, <1>1
    <3> HIDE DEF s, k, filled
    <3>2. Tail(s) \in Seq([price : Prices, block : Blocks]) /\ Removed(Tail(s), s, 1)
      BY <2>0, TailRemoves
    <3>3. k[x] \in 1 .. Len(s) + 1 /\ Removed(side'[x], s, k[x])
      BY <3>1, <3>2, <2>0
    <3> QED BY <3>1, <3>2, <3>3 DEF s
  <2>2. CASE ~filled(x)
    <3>1. side'[x] = s /\ k[x] = Len(s) + 1
      BY <2>2, <1>1
    <3> HIDE DEF s, k, filled
    <3>2. Removed(s, s, Len(s) + 1)
      BY <2>0, NothingRemoved
    <3>3. k[x] \in 1 .. Len(s) + 1 /\ Removed(side'[x], s, k[x])
      BY <3>1, <3>2, <2>0
    <3> QED BY <3>1, <3>3, <2>0 DEF s
  <2> QED BY <2>1, <2>2
<1>6. SidesShrink /\ IdsStay
  <2>1. k \in [BOOLEAN -> Nat]
    BY <1>4
  <2> HIDE DEF k
  <2> QED BY <2>1, <1>2, <1>5 DEF SidesShrink, IdsStay
<1>7. SortedInv'
  BY <1>6, ShrunkStaysSorted DEF BookInv
\* An entry that is left was there; at the head it is not filled, elsewhere
\* it has not traded now.
<1>8. ASSUME NEW x \in BOOLEAN, NEW i \in DOMAIN side'[x]
      PROVE  /\ Old(i, k[x]) \in DOMAIN side[x] /\ side'[x][i] = side[x][Old(i, k[x])]
             /\ Old(i, k[x]) >= i /\ i \in Nat \ {0} /\ Old(i, k[x]) \in Nat
             /\ filled(x) => Old(i, k[x]) # 1
             /\ \A j \in DOMAIN side'[x] : i < j => Old(i, k[x]) < Old(j, k[x])
  <2>1. Removed(side'[x], side[x], k[x]) /\ k[x] \in 1 .. Len(side[x]) + 1
    BY <1>5
  <2>2. filled(x) => k[x] = 1
    OBVIOUS
  <2> HIDE DEF k, filled
  <2>3. /\ \A m \in DOMAIN side'[x] : /\ side'[x][m] = side[x][Old(m, k[x])]
                                     /\ Old(m, k[x]) \in DOMAIN side[x]
                                     /\ Old(m, k[x]) # k[x] /\ Old(m, k[x]) >= m
        /\ \A m, j \in DOMAIN side'[x] : m < j => Old(m, k[x]) < Old(j, k[x])
        /\ DOMAIN side'[x] \subseteq Nat \ {0}
    BY <2>1, <1>4, RemovedFacts
  <2>4. DOMAIN side[x] \subseteq Nat
    BY <1>4
  <2> QED BY <2>2, <2>3, <2>4
<1>9. ASSUME NEW x \in BOOLEAN, NEW j \in DOMAIN side[x], j # 1
      PROVE  /\ mem[side[x][j].block].id # mem[buy].id /\ mem[side[x][j].block].id # mem[sell].id
             /\ side[x][j].block # buy /\ side[x][j].block # sell
  <2>1. ASSUME NEW y \in BOOLEAN
        PROVE  mem[side[x][j].block].id # mem[side[y][1].block].id
    <3>1. 1 \in DOMAIN side[y]
      BY <1>4
    <3> QED BY <3>1, <1>9, OrdersDiffer DEF BookInv
  <2> QED BY <2>1, <1>1
<1> HIDE DEF k
<1>10. ASSUME NEW x \in BOOLEAN, NEW i \in DOMAIN side'[x]
       PROVE  LET f == side'[x][i]
              IN  /\ mem'[f.block].id \in DOMAIN byId' /\ byId'[mem'[f.block].id] = f.block
                  /\ mem'[f.block].isBuy = x /\ mem'[f.block].price = f.price
                  /\ mem'[f.block].quantity > 0
  <2> DEFINE o == Old(i, k[x])
  <2>1. o \in DOMAIN side[x] /\ side'[x][i] = side[x][o] /\ (filled(x) => o # 1)
    BY <1>8
  <2> HIDE DEF o
  <2>2. /\ side[x][o] \in [price : Prices, block : Blocks]
        /\ mem[side[x][o].block].id \in DOMAIN byId
        /\ byId[mem[side[x][o].block].id] = side[x][o].block
        /\ mem[side[x][o].block].isBuy = x
        /\ mem[side[x][o].block].price = side[x][o].price
        /\ mem[side[x][o].block].quantity > 0
    BY <2>1, EntryFacts DEF BookInv
  <2>3. mem'[side[x][o].block].quantity > 0
    <3>1. CASE o = 1
      <4>1. mem'[side[x][1].block].quantity \in Nat
        BY <3>1, <2>2, <1>2
      <4> QED BY <3>1, <4>1, <2>1
    <3>2. CASE o # 1
      BY <3>2, <2>1, <2>2, <1>2, <1>9
    <3> QED BY <3>1, <3>2
  <2> QED BY <2>1, <2>2, <2>3, <1>2, <1>3
<1>11. PointersInv'
  <2>1. \A id \in DOMAIN byId' : mem'[byId'[id]].id = id
    BY <1>2, <1>3 DEF BookInv, BookTypes, PointersInv
  <2>2. \A id \in DOMAIN orders' : mem'[orders'[id]].id = id
    BY <1>2, <1>3 DEF BookInv, BookTypes, PointersInv
  <2> QED BY <2>1, <2>2, <1>10 DEF PointersInv
<1>12. PriceTimePriority'
  <2>1. ASSUME NEW x \in BOOLEAN, NEW i \in DOMAIN side'[x], NEW j \in DOMAIN side'[x], i < j,
               mem'[side'[x][j].block].id \in traded'
        PROVE  /\ mem'[side'[x][i].block].id > mem'[side'[x][j].block].id
               /\ Ahead(x, side'[x][i].price, side'[x][j].price)
    <3> DEFINE oi == Old(i, k[x])
               oj == Old(j, k[x])
    <3>1. /\ oi \in DOMAIN side[x] /\ side'[x][i] = side[x][oi]
          /\ oj \in DOMAIN side[x] /\ side'[x][j] = side[x][oj]
          /\ oi < oj /\ oi >= i /\ i \in Nat \ {0} /\ oi \in Nat /\ oj \in Nat
      BY <1>8, <2>1
    <3> HIDE DEF oi, oj
    <3>2. oj # 1
      BY <3>1
    <3>3. /\ side[x][oi] \in [price : Prices, block : Blocks]
          /\ side[x][oj] \in [price : Prices, block : Blocks]
      BY <3>1, EntryFacts DEF BookInv
    <3>4. /\ mem'[side[x][oi].block].id = mem[side[x][oi].block].id
          /\ mem'[side[x][oj].block].id = mem[side[x][oj].block].id
      <4>1. side[x][oi].block \in Blocks /\ side[x][oj].block \in Blocks
        BY <3>3
      <4> QED BY <4>1, <1>2
    <3>5. mem[side[x][oj].block].id \in traded
      <4>1. mem[side[x][oj].block].id \in traded'
        BY <2>1, <3>1, <3>4
      <4>2. mem[side[x][oj].block].id # mem[buy].id /\ mem[side[x][oj].block].id # mem[sell].id
        BY <3>1, <3>2, <1>9
      <4> QED BY <4>1, <4>2, <1>1
    <3> QED BY <3>1, <3>4, <3>5 DEF BookInv, PriceTimePriority
  <2> QED BY <2>1 DEF PriceTimePriority
<1>13. Owned' \subseteq Owned
  <2>1. ASSUME NEW x \in BOOLEAN
        PROVE  Resting(x)' \subseteq Resting(x)
    BY <1>8 DEF Resting
  <2> QED BY <2>1, <1>3 DEF Owned
<1>14. Pool(free', Owned')
  <2>1. Pool(free, Owned)
    BY PoolIsPool DEF BookInv, BookTypes
  <2> QED BY <2>1, <1>3, <1>13, ReleaseKeepsPool
<1>15. PoolInv' /\ free' \in Seq(Blocks)
  BY <1>14 DEF Pool, PoolInv
<1>16. BookTypes'
  <2>1. Ids' = Ids
    BY DEF Ids
  <2>2. side' \in [BOOLEAN -> Seq([price : Prices, block : Blocks])]
    <3>1. side' = [x \in BOOLEAN |-> side'[x]]
      BY <1>1
    <3> HIDE DEF k
    <3> QED BY <3>1, <1>5
  <2>3. mem[buy].id \in Ids /\ mem[sell].id \in Ids
    BY <1>1, <1>4, EntryFacts DEF BookInv
  <2>4. traded' \subseteq Ids
    BY <2>3, <1>1 DEF BookInv, BookTypes
  <2> QED BY <2>1, <2>2, <2>4, <1>2, <1>3, <1>15 DEF BookInv, BookTypes, OrderStates
<1> QED BY <1>7, <1>11, <1>12, <1>15, <1>16 DEF BookInv

-----------------------------------------------------------------------------
(***************************************************************************)
(* What a listener may call, and the end                                   *)
(***************************************************************************)

LEMMA SameSides == BookTypes /\ UNCHANGED side => SidesShrink
<1> SUFFICES ASSUME BookTypes, side' = side PROVE SidesShrink
  OBVIOUS
<1> DEFINE k == [x \in BOOLEAN |-> Len(side[x]) + 1]
<1>1. ASSUME NEW x \in BOOLEAN
      PROVE  k[x] \in Nat /\ k[x] \in 1 .. Len(side[x]) + 1 /\ Removed(side'[x], side[x], k[x])
  <2>1. side[x] \in Seq([price : Prices, block : Blocks]) /\ side'[x] = side[x]
    BY DEF BookTypes
  <2>2. Len(side[x]) \in Nat /\ k[x] = Len(side[x]) + 1
    BY <2>1
  <2>3. Removed(side[x], side[x], Len(side[x]) + 1)
    BY <2>1, NothingRemoved
  <2> HIDE DEF k
  <2> QED BY <2>1, <2>2, <2>3
<1>2. k \in [BOOLEAN -> Nat]
  BY <1>1
<1> HIDE DEF k
<1> QED BY <1>1, <1>2 DEF SidesShrink

\* Entries and pointers go and quantities change; nothing comes.
Shrinks ==
  /\ SidesShrink /\ IdsStay
  /\ side' \in [BOOLEAN -> Seq([price : Prices, block : Blocks])]
  /\ mem' \in [Blocks -> [id : Nat, price : Prices \cup {0}, quantity : Nat, isBuy : BOOLEAN]]
  /\ \A c \in Blocks : mem'[c].price = mem[c].price /\ mem'[c].isBuy = mem[c].isBuy
  /\ DOMAIN byId' \subseteq DOMAIN byId /\ \A id \in DOMAIN byId' : byId'[id] = byId[id]
  /\ DOMAIN orders' \subseteq DOMAIN orders /\ \A id \in DOMAIN orders' : orders'[id] = orders[id]
  /\ DOMAIN states' = DOMAIN states /\ \A id \in DOMAIN states' : states'[id] \in OrderStates
  /\ \A x \in BOOLEAN : \A i \in DOMAIN side'[x] :
       /\ mem'[side'[x][i].block].quantity > 0
       /\ mem[side'[x][i].block].id \in DOMAIN byId'
  /\ nextId' = nextId /\ traded' = traded
  /\ Release \/ UNCHANGED <<free, side, byId, orders>>

LEMMA ShrinkKeepsBook ==
  ASSUME BookInv, Shrinks
  PROVE  BookInv' /\ (SidesApart => SidesApart')
<1>1. SortedInv' /\ PriceTimePriority' /\ (SidesApart => SidesApart')
  BY ShrunkStaysSorted DEF BookInv, Shrinks
<1>2. /\ DOMAIN byId' \subseteq DOMAIN byId /\ \A id \in DOMAIN byId' : byId'[id] = byId[id]
      /\ DOMAIN orders' \subseteq DOMAIN orders /\ \A id \in DOMAIN orders' : orders'[id] = orders[id]
      /\ \A c \in Blocks : /\ mem'[c].id = mem[c].id /\ mem'[c].price = mem[c].price
                           /\ mem'[c].isBuy = mem[c].isBuy
  BY DEF Shrinks, IdsStay
\* An entry that is left was there.
<1>3. ASSUME NEW x \in BOOLEAN, NEW i \in DOMAIN side'[x]
      PROVE  \E j \in DOMAIN side[x] : side'[x][i] = side[x][j]
  <2>1. PICK k \in [BOOLEAN -> Nat] : \A y \in BOOLEAN :
          k[y] \in 1 .. Len(side[y]) + 1 /\ Removed(side'[y], side[y], k[y])
    BY DEF Shrinks, SidesShrink
  <2>2. side[x] \in Seq([price : Prices, block : Blocks])
    BY DEF BookInv, BookTypes
  <2>3. k[x] \in 1 .. Len(side[x]) + 1 /\ Removed(side'[x], side[x], k[x])
    BY <2>1
  <2>4. \A m \in DOMAIN side'[x] : side'[x][m] = side[x][Old(m, k[x])] /\ Old(m, k[x]) \in DOMAIN side[x]
    BY <2>2, <2>3, RemovedFacts
  <2> QED BY <2>4
<1>4. PointersInv'
  <2>1. \A id \in DOMAIN byId' : mem'[byId'[id]].id = id
    BY <1>2 DEF BookInv, BookTypes, PointersInv
  <2>2. \A id \in DOMAIN orders' : mem'[orders'[id]].id = id
    BY <1>2 DEF BookInv, BookTypes, PointersInv
  <2>3. ASSUME NEW x \in BOOLEAN, NEW i \in DOMAIN side'[x]
        PROVE  LET f == side'[x][i]
               IN  /\ mem'[f.block].id \in DOMAIN byId' /\ byId'[mem'[f.block].id] = f.block
                   /\ mem'[f.block].isBuy = x /\ mem'[f.block].price = f.price
                   /\ mem'[f.block].quantity > 0
    <3>1. PICK j \in DOMAIN side[x] : side'[x][i] = side[x][j]
      BY <1>3
    <3>2. /\ side[x][j] \in [price : Prices, block : Blocks]
          /\ byId[mem[side[x][j].block].id] = side[x][j].block
          /\ mem[side[x][j].block].isBuy = x
          /\ mem[side[x][j].block].price = side[x][j].price
      BY EntryFacts DEF BookInv
    <3>3. side[x][j].block \in Blocks
      BY <3>2
    <3>4. /\ mem'[side[x][j].block].quantity > 0
          /\ mem[side[x][j].block].id \in DOMAIN byId'
      BY <3>1 DEF Shrinks
    <3>5. PICK e : e = side[x][j]
      OBVIOUS
    <3>6. /\ mem'[e.block].id = mem[e.block].id /\ mem'[e.block].price = mem[e.block].price
          /\ mem'[e.block].isBuy = mem[e.block].isBuy
      BY <3>3, <3>5, <1>2
    <3>7. byId'[mem[e.block].id] = byId[mem[e.block].id]
      BY <3>4, <3>5, <1>2
    <3>8. side'[x][i] = e
      BY <3>1, <3>5
    <3>9. /\ byId[mem[e.block].id] = e.block /\ mem[e.block].isBuy = x
          /\ mem[e.block].price = e.price
          /\ mem'[e.block].quantity > 0 /\ mem[e.block].id \in DOMAIN byId'
      BY <3>2, <3>4, <3>5
    <3> QED BY ONLY <3>6, <3>7, <3>8, <3>9
  <2> QED BY <2>1, <2>2, <2>3 DEF PointersInv
<1>5. Mapped' \subseteq Mapped
  BY <1>2 DEF Mapped
<1>6. free' \in Seq(Blocks) => BookTypes'
  <2>1. Ids' = Ids
    BY DEF Ids, Shrinks
  <2>2. DOMAIN byId' \subseteq Ids' /\ \A id \in DOMAIN byId' : byId'[id] \in Blocks
    BY <1>2, <2>1 DEF BookInv, BookTypes
  <2>3. /\ DOMAIN states' = DOMAIN states /\ \A id \in DOMAIN states' : states'[id] \in OrderStates
        /\ side' \in [BOOLEAN -> Seq([price : Prices, block : Blocks])]
        /\ mem' \in [Blocks -> [id : Nat, price : Prices \cup {0}, quantity : Nat, isBuy : BOOLEAN]]
        /\ nextId' = nextId /\ traded' = traded
    BY DEF Shrinks
  <2>4. /\ DOMAIN orders' \subseteq DOMAIN states' /\ \A id \in DOMAIN orders' : orders'[id] \in Blocks
        /\ DOMAIN states' \subseteq Ids' /\ traded' \subseteq Ids' /\ nextId' \in Nat \ {0}
    BY <1>2, <2>1, <2>3 DEF BookInv, BookTypes
  <2> QED BY <2>2, <2>3, <2>4 DEF BookTypes, OrderStates
<1>7. Pool(free, Owned) /\ Owned = Mapped
  BY PoolIsPool, OwnedIsMapped DEF BookInv, BookTypes, OwnersAreMapped
\* What is owned is what the maps have, before and after.
<1>8. Owned' \subseteq Owned
  <2>1. ASSUME NEW x \in BOOLEAN
        PROVE  Resting(x)' \subseteq Resting(x)
    BY <1>3 DEF Resting
  <2> QED BY <2>1, <1>2 DEF Owned
<1>9. Pool(free', Owned')
  <2>1. CASE Release
    BY <2>1, <1>7, <1>8, ReleaseKeepsPool
  <2>2. CASE UNCHANGED <<free, side, byId, orders>>
    <3>1. Owned' = Owned /\ free' = free
      BY <2>2 DEF Owned, Resting
    <3> QED BY <3>1, <1>7
  <2> QED BY <2>1, <2>2 DEF Shrinks
<1>10. PoolInv' /\ BookTypes'
  BY <1>6, <1>9 DEF Pool, PoolInv
<1> QED BY <1>1, <1>4, <1>10 DEF BookInv

\* The entry for a block goes; there is no other for it.
LEMMA WithoutBlockRemoves ==
  ASSUME NEW S, NEW s \in Seq(S), NEW b,
         \A i, j \in DOMAIN s : s[i].block = b /\ s[j].block = b => i = j
  PROVE  /\ WithoutBlock(s, b) \in Seq(S)
         /\ \E k \in 1 .. Len(s) + 1 :
              /\ Removed(WithoutBlock(s, b), s, k)
              /\ \A i \in DOMAIN s : i # k => s[i].block # b
<1>0. Len(s) \in Nat /\ DOMAIN s = 1 .. Len(s)
  OBVIOUS
<1>1. CASE \E i \in DOMAIN s : s[i].block = b
  <2> DEFINE k == CHOOSE i \in DOMAIN s : s[i].block = b
             t == SubSeq(s, 1, k - 1) \o SubSeq(s, k + 1, Len(s))
  <2>1. k \in DOMAIN s /\ s[k].block = b
    BY <1>1
  <2>2. WithoutBlock(s, b) = t
    BY <1>1 DEF WithoutBlock
  <2> HIDE DEF k
  <2>3. k \in 1 .. Len(s)
    BY <2>1, <1>0
  <2>4. t \in Seq(S) /\ Removed(t, s, k)
    BY <2>3, RemovedAt
  <2> HIDE DEF t
  <2>5. \A i \in DOMAIN s : i # k => s[i].block # b
    BY <2>1
  <2>6. k \in 1 .. Len(s) + 1
    BY <2>3, <1>0
  <2> QED BY <2>2, <2>4, <2>5, <2>6, Zenon
<1>2. CASE ~\E i \in DOMAIN s : s[i].block = b
  <2>1. WithoutBlock(s, b) = s
    BY <1>2 DEF WithoutBlock
  <2>2. Len(s) + 1 \in 1 .. Len(s) + 1
    BY <1>0
  <2>3. Removed(s, s, Len(s) + 1)
    BY NothingRemoved
  <2> QED BY <1>2, <2>1, <2>2, <2>3, Zenon
<1> QED BY <1>1, <1>2

LEMMA DeleteShrinks ==
  ASSUME BookInv, NEW id, DeleteOrder(id), nextId' = nextId, traded' = traded
  PROVE  Shrinks
<1> USE DEF BookInv
<1> DEFINE b == byId[id]
           z == mem[b].isBuy
<1>1. /\ id \in DOMAIN byId /\ byId' = Without(byId, id)
      /\ side' = [side EXCEPT ![z] = WithoutBlock(side[z], b)]
      /\ mem' = mem /\ orders' = orders /\ states' = states /\ Release
  BY DEF DeleteOrder, managerVars
<1>2. DOMAIN byId' = DOMAIN byId \ {id} /\ \A i \in DOMAIN byId' : byId'[i] = byId[i]
  BY <1>1 DEF Without
<1>3. b \in Blocks /\ z \in BOOLEAN /\ mem[b].id = id
  BY <1>1 DEF BookTypes, PointersInv
<1> HIDE DEF b, z
\* The entries for the block are the one for the order.
<1>4. ASSUME NEW x \in BOOLEAN, NEW i \in DOMAIN side[x]
      PROVE  mem[side[x][i].block].id = id <=> x = z /\ side[x][i].block = b
  <2>1. /\ byId[mem[side[x][i].block].id] = side[x][i].block
        /\ mem[side[x][i].block].isBuy = x
    BY EntryFacts
  <2> QED BY <2>1, <1>3 DEF b, z
<1> DEFINE s == side[z]
           T == [price : Prices, block : Blocks]
<1>5. /\ WithoutBlock(s, b) \in Seq(T)
      /\ \E k \in 1 .. Len(s) + 1 :
           /\ Removed(WithoutBlock(s, b), s, k)
           /\ \A i \in DOMAIN s : i # k => s[i].block # b
  <2>1. s \in Seq(T)
    BY <1>3 DEF BookTypes
  <2>2. \A i, j \in DOMAIN s : s[i].block = b /\ s[j].block = b => i = j
    <3> SUFFICES ASSUME NEW i \in DOMAIN s, NEW j \in DOMAIN s, s[i].block = b, s[j].block = b
                 PROVE  i = j
      OBVIOUS
    <3>1. mem[side[z][i].block].id = mem[side[z][j].block].id
      OBVIOUS
    <3> QED BY <3>1, <1>3, EntriesDiffer
  <2> HIDE DEF s, T
  <2> QED BY <2>1, <2>2, WithoutBlockRemoves
<1>6. PICK m \in 1 .. Len(s) + 1 : /\ Removed(WithoutBlock(s, b), s, m)
                                   /\ \A i \in DOMAIN s : i # m => s[i].block # b
  BY <1>5
<1>7. /\ side'[z] = WithoutBlock(s, b) /\ \A x \in BOOLEAN : x # z => side'[x] = side[x]
      /\ side' \in [BOOLEAN -> Seq(T)]
  BY <1>1, <1>3, <1>5 DEF BookTypes
<1> DEFINE k == [x \in BOOLEAN |-> IF x = z THEN m ELSE Len(side[x]) + 1]
<1>8. ASSUME NEW x \in BOOLEAN
      PROVE  /\ side[x] \in Seq(T) /\ Len(side[x]) \in Nat
             /\ k[x] \in 1 .. Len(side[x]) + 1 /\ Removed(side'[x], side[x], k[x])
  <2>1. side[x] \in Seq(T)
    BY DEF BookTypes
  <2>2. Len(side[x]) \in Nat
    BY <2>1
  <2>3. CASE x = z
    <3>1. k[x] = m
      BY <2>3
    <3> HIDE DEF k
    <3> QED BY <2>1, <2>2, <2>3, <3>1, <1>6, <1>7
  <2>4. CASE x # z
    <3>1. k[x] = Len(side[x]) + 1 /\ side'[x] = side[x]
      BY <2>4, <1>7
    <3>2. Removed(side[x], side[x], Len(side[x]) + 1)
      BY <2>1, NothingRemoved
    <3> HIDE DEF k, T
    <3> QED BY <2>1, <2>2, <3>1, <3>2
  <2> QED BY <2>3, <2>4
<1>9. SidesShrink
  <2>1. k \in [BOOLEAN -> Nat]
    BY <1>6, <1>8
  <2> HIDE DEF k
  <2> QED BY <2>1, <1>8 DEF SidesShrink
\* What is left is for other orders.
<1>10. ASSUME NEW x \in BOOLEAN, NEW i \in DOMAIN side'[x]
       PROVE  /\ mem'[side'[x][i].block].quantity > 0
              /\ mem[side'[x][i].block].id \in DOMAIN byId'
  <2> DEFINE o == Old(i, k[x])
  <2>1. o \in DOMAIN side[x] /\ side'[x][i] = side[x][o] /\ o # k[x]
    <3>1. /\ side[x] \in Seq(T) /\ k[x] \in 1 .. Len(side[x]) + 1
          /\ Removed(side'[x], side[x], k[x])
      BY <1>8
    <3> HIDE DEF k, T
    <3>2. \A j \in DOMAIN side'[x] : /\ side'[x][j] = side[x][Old(j, k[x])]
                                     /\ Old(j, k[x]) \in DOMAIN side[x] /\ Old(j, k[x]) # k[x]
      BY <3>1, RemovedFacts
    <3> QED BY <3>2
  <2>2. ~(x = z /\ side[x][o].block = b)
    <3>1. x = z => k[x] = m
      OBVIOUS
    <3> HIDE DEF k, o
    <3> QED BY <2>1, <3>1, <1>6
  <2> HIDE DEF o, k
  <2>3. mem[side[x][o].block].id \in DOMAIN byId /\ mem[side[x][o].block].quantity > 0
    BY <2>1, EntryFacts
  <2>4. mem[side[x][o].block].id # id
    BY <2>1, <2>2, <1>4
  <2> QED BY <2>1, <2>3, <2>4, <1>1, <1>2
<1> HIDE DEF k
<1>11. DOMAIN states' = DOMAIN states /\ \A i \in DOMAIN states' : states'[i] \in OrderStates
  BY <1>1 DEF BookTypes
<1> QED BY <1>1, <1>2, <1>7, <1>9, <1>10, <1>11 DEF Shrinks, IdsStay, BookTypes

\* A positive quantity keeps an entry an entry.
LEMMA UpdateQuantityShrinks ==
  ASSUME BookInv, NEW id, NEW q \in Int, UpdateQuantity(id, q), nextId' = nextId, traded' = traded
  PROVE  Shrinks
<1> USE DEF BookInv
<1> DEFINE T == [id : Nat, price : Prices \cup {0}, quantity : Nat, isBuy : BOOLEAN]
           b == byId[id]
<1>1. /\ id \in DOMAIN byId /\ q \in Nat /\ q > 0
      /\ mem' = [mem EXCEPT ![b].quantity = q]
      /\ UNCHANGED <<free, side, byId, orders, states>>
  BY DEF UpdateQuantity, managerVars
<1>2. b \in Blocks /\ mem \in [Blocks -> T]
  BY <1>1 DEF BookTypes
<1> HIDE DEF b
<1>3. mem'[b] = [mem[b] EXCEPT !.quantity = q] /\ \A c \in Blocks : c # b => mem'[c] = mem[c]
  BY <1>1, <1>2
<1>4. /\ mem'[b] \in T /\ mem'[b].id = mem[b].id /\ mem'[b].price = mem[b].price
      /\ mem'[b].isBuy = mem[b].isBuy /\ mem'[b].quantity = q
  <2>1. mem[b] \in T
    BY <1>2
  <2> QED BY <2>1, <1>1, <1>3
<1>5. mem' \in [Blocks -> T]
  <2>1. mem' = [c \in Blocks |-> mem'[c]]
    BY <1>1, <1>2
  <2>2. \A c \in Blocks : mem'[c] \in T
    BY <1>2, <1>3, <1>4
  <2> QED BY <2>1, <2>2
<1>6. IdsStay /\ \A c \in Blocks : mem'[c].price = mem[c].price /\ mem'[c].isBuy = mem[c].isBuy
  BY <1>3, <1>4 DEF IdsStay
<1>7. SidesShrink
  BY <1>1, SameSides
<1>8. ASSUME NEW x \in BOOLEAN, NEW i \in DOMAIN side'[x]
      PROVE  /\ mem'[side'[x][i].block].quantity > 0
             /\ mem[side'[x][i].block].id \in DOMAIN byId'
  <2>1. side' = side /\ byId' = byId
    BY <1>1
  <2>2. /\ side[x][i] \in [price : Prices, block : Blocks]
        /\ mem[side[x][i].block].id \in DOMAIN byId /\ mem[side[x][i].block].quantity > 0
    BY <2>1, EntryFacts
  <2>3. side[x][i].block \in Blocks
    BY <2>2
  <2> QED BY <2>1, <2>2, <2>3, <1>1, <1>3, <1>4
<1>9. /\ side' \in [BOOLEAN -> Seq([price : Prices, block : Blocks])]
      /\ DOMAIN states' = DOMAIN states /\ \A i \in DOMAIN states' : states'[i] \in OrderStates
  BY <1>1 DEF BookTypes
<1> QED BY <1>1, <1>5, <1>6, <1>7, <1>8, <1>9 DEF Shrinks

\* What the manager forgets or notes does not touch the sides.
ManagerShrinks ==
  /\ UNCHANGED <<mem, side, byId>> /\ Release
  /\ DOMAIN orders' \subseteq DOMAIN orders /\ \A id \in DOMAIN orders' : orders'[id] = orders[id]
  /\ DOMAIN states' = DOMAIN states /\ \A id \in DOMAIN states' : states'[id] \in OrderStates

LEMMA ManagerStepShrinks ==
  ASSUME BookInv, ManagerShrinks, nextId' = nextId, traded' = traded
  PROVE  Shrinks
<1>1. mem' = mem /\ side' = side /\ byId' = byId /\ Release
  BY DEF ManagerShrinks
<1>2. SidesShrink
  BY <1>1, SameSides DEF BookInv
<1>3. ASSUME NEW x \in BOOLEAN, NEW i \in DOMAIN side'[x]
      PROVE  /\ mem'[side'[x][i].block].quantity > 0
             /\ mem[side'[x][i].block].id \in DOMAIN byId'
  BY <1>1, EntryFacts DEF BookInv
<1>4. /\ side' \in [BOOLEAN -> Seq([price : Prices, block : Blocks])]
      /\ mem' \in [Blocks -> [id : Nat, price : Prices \cup {0}, quantity : Nat, isBuy : BOOLEAN]]
      /\ IdsStay /\ \A c \in Blocks : mem'[c].price = mem[c].price /\ mem'[c].isBuy = mem[c].isBuy
  BY <1>1 DEF BookInv, BookTypes, IdsStay
<1> QED BY <1>1, <1>2, <1>3, <1>4 DEF Shrinks, ManagerShrinks

LEMMA CancelShrinks ==
  ASSUME BookInv, NEW id, CancelOrder(id) PROVE ManagerShrinks
<1>1. /\ id \in DOMAIN orders /\ id \in DOMAIN states
      /\ orders' = Without(orders, id) /\ states' = [states EXCEPT ![id] = "Cancelled"]
      /\ UNCHANGED <<mem, side, byId>> /\ Release
  BY DEF CancelOrder, BookInv, BookTypes
<1>2. DOMAIN states' = DOMAIN states /\ \A i \in DOMAIN states' : states'[i] \in OrderStates
  BY <1>1 DEF BookInv, BookTypes, OrderStates
<1> QED BY <1>1, <1>2 DEF ManagerShrinks, Without

LEMMA FillShrinks ==
  ASSUME BookInv, NEW id, NEW q, UpdateOrderFill(id, q) PROVE ManagerShrinks
<1>1. /\ id \in DOMAIN orders
      /\ orders' = Without(orders, id) \/ orders' = orders
      /\ \/ states' = [states EXCEPT ![id] = "Filled"]
         \/ states' = [states EXCEPT ![id] = "PartiallyFilled"]
         \/ states' = states
      /\ UNCHANGED <<mem, side, byId>> /\ Release
  BY DEF UpdateOrderFill
<1>2. DOMAIN states' = DOMAIN states /\ \A i \in DOMAIN states' : states'[i] \in OrderStates
  BY <1>1 DEF BookInv, BookTypes, OrderStates
<1> QED BY <1>1, <1>2 DEF ManagerShrinks, Without

LEMMA ListenerKeepsBook ==
  ASSUME BookInv, ListenerCalls
  PROVE  BookInv' /\ (SidesApart => SidesApart')
<1>1. nextId' = nextId /\ traded' = traded
  BY DEF ListenerCalls
<1>2. PICK id \in 1 .. nextId - 1 :
        \/ DeleteOrder(id)
        \/ CancelOrder(id)
        \/ \E q \in Quantities : UpdateQuantity(id, q) \/ UpdateOrderFill(id, q)
  BY DEF ListenerCalls
<1>3. ASSUME NEW q \in Quantities, UpdateQuantity(id, q)
      PROVE  Shrinks
  <2>1. q \in Int
    BY EngineAssumption
  <2> QED BY <2>1, <1>1, <1>3, UpdateQuantityShrinks
<1>4. ASSUME CancelOrder(id) PROVE Shrinks
  BY <1>1, <1>4, CancelShrinks, ManagerStepShrinks
<1>5. ASSUME NEW q \in Quantities, UpdateOrderFill(id, q) PROVE Shrinks
  BY <1>1, <1>5, FillShrinks, ManagerStepShrinks
<1>6. ASSUME DeleteOrder(id) PROVE Shrinks
  BY <1>1, <1>6, DeleteShrinks
<1>7. Shrinks
  BY <1>2, <1>3, <1>4, <1>5, <1>6
<1> QED BY <1>7, ShrinkKeepsBook

\* At the exit every block goes back.
LEMMA DestroyKeepsBook ==
  ASSUME BookInv, Destroy, nextId' = nextId, traded' = traded
  PROVE  BookInv' /\ SidesApart'
<1>1. /\ orders' = NoEntries /\ states' = NoEntries /\ byId' = NoEntries
      /\ side' = [x \in BOOLEAN |-> <<>>] /\ mem' = mem /\ Release
  BY DEF Destroy
<1>2. Ids' = Ids /\ traded' \subseteq Ids'
  BY DEF Ids, BookInv, BookTypes
<1>3. /\ DOMAIN orders' = {} /\ DOMAIN states' = {} /\ DOMAIN byId' = {}
      /\ \A x \in BOOLEAN : side'[x] = <<>> /\ DOMAIN side'[x] = {}
  BY <1>1 DEF NoEntries
<1>4. Owned' = {}
  BY <1>3 DEF Owned, Resting
<1>5. Pool(free', Owned')
  <2>1. Pool(free, Owned)
    BY PoolIsPool DEF BookInv, BookTypes
  <2> QED BY <2>1, <1>1, <1>4, ReleaseKeepsPool
<1>6. PoolInv' /\ free' \in Seq(Blocks)
  BY <1>5 DEF Pool, PoolInv
<1>7. side' \in [BOOLEAN -> Seq([price : Prices, block : Blocks])]
  BY <1>1
<1>8. BookTypes'
  BY <1>1, <1>2, <1>3, <1>6, <1>7 DEF BookInv, BookTypes
<1>9. PointersInv' /\ SortedInv' /\ PriceTimePriority' /\ SidesApart'
  BY <1>3 DEF PointersInv, SortedInv, PriceTimePriority, SidesApart
<1> QED BY <1>6, <1>8, <1>9 DEF BookInv

LEMMA SameBook ==
  ASSUME BookInv, UNCHANGED <<bookVars, managerVars, nextId, traded>>
  PROVE  BookInv' /\ (SidesApart => SidesApart')
<1>1. /\ free' = free /\ mem' = mem /\ side' = side /\ byId' = byId
      /\ orders' = orders /\ states' = states /\ nextId' = nextId /\ traded' = traded
  BY DEF bookVars, managerVars
<1>2. BookTypes'
  <2>1. BookTypes
    BY DEF BookInv
  <2> QED BY ONLY <1>1, <2>1 DEF BookTypes, Ids, OrderStates
<1>3. PoolInv'
  <2>1. Owned' = Owned
    BY <1>1 DEF Owned, Resting
  <2> QED BY <2>1, <1>1 DEF BookInv, PoolInv
<1>4. PointersInv'
  <2>1. PointersInv
    BY DEF BookInv
  <2> QED BY ONLY <1>1, <2>1 DEF PointersInv
<1>5. SortedInv' /\ PriceTimePriority' /\ (SidesApart => SidesApart')
  BY <1>1, SameSides, ShrunkStaysSorted DEF BookInv, IdsStay
<1> QED BY <1>2, <1>3, <1>4, <1>5 DEF BookInv

-----------------------------------------------------------------------------
(***************************************************************************)
(* The threads                                                             *)
(***************************************************************************)

\* When the matching loop ends, the sides are apart: the best prices are.
LEMMA DoneMatching ==
  ASSUME BookInv, ~Crosses PROVE SidesApart
<1> SUFFICES ASSUME NEW i \in DOMAIN side[TRUE], NEW j \in DOMAIN side[FALSE]
             PROVE  side[TRUE][i].price < side[FALSE][j].price
  BY DEF SidesApart
\* Nothing on a side is better than what is at its head.
<1>1. ASSUME NEW x \in BOOLEAN, NEW k \in DOMAIN side[x]
      PROVE  /\ side[x] # <<>> /\ side[x][k].price \in Int /\ side[x][1].price \in Int
             /\ ~Ahead(x, side[x][k].price, side[x][1].price)
  <2> DEFINE s == side[x]
  <2>1. s \in Seq([price : Prices, block : Blocks]) /\ k \in DOMAIN s
    BY DEF BookInv, BookTypes
  <2>2. \A l \in DOMAIN s : s[l].price \in Int
    <3>1. \A l \in DOMAIN s : s[l] \in [price : Prices, block : Blocks]
      BY <2>1, SeqElement
    <3> QED BY <3>1, PoolAssumption
  <2>3. \A l, m \in DOMAIN s : l < m => \/ Ahead(x, s[l].price, s[m].price)
                                        \/ s[l].price = s[m].price
    BY DEF BookInv, SortedInv
  <2> HIDE DEF s
  <2>4. s # <<>> /\ 1 \in DOMAIN s /\ (1 = k \/ 1 < k)
    <3>1. DOMAIN s = 1 .. Len(s) /\ Len(s) \in Nat
      BY <2>1
    <3>2. s # <<>>
      BY <2>1
    <3> QED BY <2>1, <3>1, <3>2
  <2>5. ~Ahead(x, s[k].price, s[1].price)
    <3>1. Ahead(x, s[1].price, s[k].price) \/ s[1].price = s[k].price
      BY <2>1, <2>3, <2>4, Zenon
    <3>2. \A a, c \in Int : Ahead(x, a, c) \/ a = c => ~Ahead(x, c, a)
      BY DEF Ahead
    <3> QED BY <2>1, <2>2, <2>4, <3>1, <3>2, Zenon
  <2> QED BY <2>2, <2>4, <2>5 DEF s
<1> DEFINE bid == Best(TRUE).price
           ask == Best(FALSE).price
           p == side[TRUE][i].price
           q == side[FALSE][j].price
<1>2. /\ side[TRUE] # <<>> /\ p \in Int /\ bid \in Int /\ ~Ahead(TRUE, p, bid)
  BY <1>1 DEF Best
<1>3. /\ side[FALSE] # <<>> /\ q \in Int /\ ask \in Int /\ ~Ahead(FALSE, q, ask)
  BY <1>1 DEF Best
<1>4. ~(bid >= ask)
  BY <1>2, <1>3, Zenon DEF Crosses, BothSides
<1> HIDE DEF bid, ask, p, q
<1>5. ~(p > bid) /\ ~(q < ask)
  BY <1>2, <1>3, Zenon DEF Ahead
<1>6. p < q
  BY <1>2, <1>3, <1>4, <1>5
<1> QED BY <1>6 DEF p, q

LEMMA InitHolds == Init => BookInv /\ ThreadInv
<1> SUFFICES ASSUME Init PROVE BookInv /\ ThreadInv
  OBVIOUS
<1>1. /\ free = [i \in Blocks |-> i] /\ mem = [b \in Blocks |-> Order(0, 0, 0, TRUE)]
      /\ side = [x \in BOOLEAN |-> <<>>]
      /\ byId = NoEntries /\ orders = NoEntries /\ states = NoEntries
      /\ nextId = 1 /\ traded = {}
  BY DEF Init, BookInit
<1>2. /\ DOMAIN orders = {} /\ DOMAIN states = {} /\ DOMAIN byId = {}
      /\ \A x \in BOOLEAN : side[x] = <<>> /\ DOMAIN side[x] = {}
  BY <1>1 DEF NoEntries
<1>3. free \in Seq(Blocks) /\ DOMAIN free = Blocks
  BY <1>1, PoolAssumption DEF Blocks
<1>4. mem \in [Blocks -> [id : Nat, price : Prices \cup {0}, quantity : Nat, isBuy : BOOLEAN]]
  BY <1>1 DEF Order
<1>5. side \in [BOOLEAN -> Seq([price : Prices, block : Blocks])]
  BY <1>1
<1>6. BookTypes
  <2>1. nextId \in Nat \ {0} /\ traded \subseteq Ids
    BY <1>1
  <2>2. /\ DOMAIN byId \subseteq Ids /\ \A id \in DOMAIN byId : byId[id] \in Blocks
        /\ DOMAIN orders \subseteq DOMAIN states /\ \A id \in DOMAIN orders : orders[id] \in Blocks
        /\ DOMAIN states \subseteq Ids /\ \A id \in DOMAIN states : states[id] \in OrderStates
    BY <1>2, Zenon
  <2> QED BY <2>1, <2>2, <1>3, <1>4, <1>5 DEF BookTypes
<1>7. PoolInv
  <2>1. Owned = {}
    BY <1>2 DEF Owned, Resting
  <2> QED BY <2>1, <1>1, <1>3 DEF PoolInv
<1>8. PointersInv /\ SortedInv /\ PriceTimePriority
  BY <1>2 DEF PointersInv, SortedInv, PriceTimePriority
<1>9. ThreadInv
  <2>1. ThreadTypes
    <3>1. main = "start" /\ running = FALSE /\ pc = "none" /\ tick \in Ticks /\ ticks = 0 /\ calls = 0
      BY DEF Init
    <3>2. ticks \in 0 .. MaxTicks /\ calls \in 0 .. MaxCalls
      BY <3>1, EngineAssumption
    <3> QED BY <3>1, <3>2 DEF ThreadTypes
  <2>2. pc = "none"
    BY DEF Init
  <2> QED BY <2>1, <2>2, <1>2 DEF ThreadInv, NotCrossed
<1> QED BY <1>6, <1>7, <1>8, <1>9 DEF BookInv

\* Every price on a side and every price of a tick is a price.
LEMMA PricesOfSteps ==
  ASSUME BookInv, ThreadInv
  PROVE  /\ tick.bid \in Prices /\ tick.ask \in Prices
         /\ side[TRUE] # <<>> => Best(TRUE).price \in Prices
<1>1. tick \in [bid : Prices, ask : Prices]
  BY DEF ThreadInv, ThreadTypes, Ticks
<1>2. ASSUME side[TRUE] # <<>> PROVE Best(TRUE).price \in Prices
  <2>1. side[TRUE] \in Seq([price : Prices, block : Blocks])
    BY DEF BookInv, BookTypes
  <2>2. \A s \in Seq([price : Prices, block : Blocks]) :
          s # <<>> => s[1] \in [price : Prices, block : Blocks]
    BY TailRemoves, SeqElement
  <2>3. side[TRUE][1] \in [price : Prices, block : Blocks]
    BY <2>1, <2>2, <1>2, Zenon
  <2> QED BY <2>3 DEF Best
<1> QED BY <1>1, <1>2

\* BuyCheap tells the manager of an order it did not know.
LEMMA BuyCheapKeeps ==
  ASSUME BookInv, ThreadInv, BuyCheap
  PROVE  BookInv' /\ SidesApart'
<1>1. SidesApart /\ traded' = traded
  BY DEF BuyCheap, Goto, ThreadInv, NotCrossed, SidesApart
<1>2. ASSUME BothSides, AddOrder(nextId, Best(TRUE).price, 1, TRUE), nextId' = nextId + 1,
             IF CanAdd(nextId) THEN Track(nextId, Head(free)) ELSE UNCHANGED managerVars
      PROVE  BookInv' /\ SidesApart'
  <2> DEFINE p == Best(TRUE).price
  <2>1. p \in Prices
    BY <1>2, PricesOfSteps DEF BothSides
  <2>2. nextId \notin DOMAIN orders /\ nextId \notin DOMAIN states
    BY DEF BookInv, BookTypes, Ids
  <2>3. \/ UNCHANGED managerVars
        \/ /\ CanAdd(nextId)
           /\ orders' = With(orders, nextId, Head(free))
           /\ states' = With(states, nextId, "New")
    BY <1>2, <2>2 DEF Track
  <2>4. \A j \in DOMAIN side[FALSE] : p < side[FALSE][j].price
    <3>1. 1 \in DOMAIN side[TRUE]
      <4>1. side[TRUE] \in Seq([price : Prices, block : Blocks])
        BY DEF BookInv, BookTypes
      <4>2. \A s \in Seq([price : Prices, block : Blocks]) : s # <<>> => 1 \in DOMAIN s
        OBVIOUS
      <4> QED BY <4>1, <4>2, <1>2, Zenon DEF BothSides
    <3> QED BY <3>1, <1>1 DEF SidesApart, Best
  <2> HIDE DEF p
  <2>5. AddOrder(nextId, p, 1, TRUE)
    BY <1>2 DEF p
  <2>6. BookInv'
    <3>1. 1 \in Nat \ {0} /\ TRUE \in BOOLEAN
      OBVIOUS
    <3> QED BY <3>1, <2>1, <2>3, <2>5, <1>1, <1>2, AddKeepsBook
  <2>7. CASE CanAdd(nextId)
    <3>1. PICK n \in 0 .. Len(side[TRUE]) : Adds(p, 1, TRUE, Head(free), n)
      BY <2>1, <2>5, <2>7, AddFacts
    <3>2. SidesApart'
      BY <1>1, <2>1, <2>4, <3>1, AddKeepsApart
    <3> QED BY <2>6, <3>2
  <2>8. CASE ~CanAdd(nextId)
    <3>1. side' = side
      BY <2>5, <2>8 DEF AddOrder, bookVars
    <3> QED BY <2>6, <3>1, <1>1 DEF SidesApart
  <2> QED BY <2>7, <2>8
<1>3. ASSUME UNCHANGED <<bookVars, managerVars, nextId>>
      PROVE  BookInv' /\ SidesApart'
  BY <1>1, <1>3, SameBook
<1> QED BY <1>2, <1>3 DEF BuyCheap

LEMMA NextKeepsBook ==
  ASSUME BookInv, ThreadInv, [Next]_vars
  PROVE  BookInv'
<1>1. CASE AddBuy
  <2>1. tick.bid \in Prices /\ DefaultQuantity \in Nat \ {0} /\ TRUE \in BOOLEAN
    BY PricesOfSteps, EngineAssumption
  <2>2. /\ AddOrder(nextId, tick.bid, DefaultQuantity, TRUE) /\ nextId' = nextId + 1
        /\ traded' = traded /\ UNCHANGED managerVars
    BY <1>1 DEF AddBuy
  <2> QED BY <2>1, <2>2, AddKeepsBook
<1>2. CASE AddSell
  <2>1. tick.ask \in Prices /\ DefaultQuantity \in Nat \ {0} /\ FALSE \in BOOLEAN
    BY PricesOfSteps, EngineAssumption
  <2>2. /\ AddOrder(nextId, tick.ask, DefaultQuantity, FALSE) /\ nextId' = nextId + 1
        /\ traded' = traded /\ UNCHANGED managerVars
    BY <1>2 DEF AddSell
  <2> QED BY <2>1, <2>2, AddKeepsBook
<1>3. CASE MatchOrders
  <2>1. Trade \/ UNCHANGED <<bookVars, managerVars, traded>>
    BY <1>3 DEF MatchOrders
  <2>2. nextId' = nextId
    BY <1>3 DEF MatchOrders
  <2> QED BY <2>1, <2>2, TradeKeepsBook, SameBook
<1>4. CASE BuyCheap
  BY <1>4, BuyCheapKeeps
<1>5. CASE NextTick \/ FeedEnds \/ Start \/ Stop \/ Join \/ Exited \/ UNCHANGED vars
  BY <1>5, SameBook DEF NextTick, FeedEnds, Start, Stop, Join, Exited, Others, vars
<1>6. CASE ListenerCalls
  BY <1>6, ListenerKeepsBook
<1>7. CASE Exit
  BY <1>7, DestroyKeepsBook DEF Exit
<1> QED BY <1>1, <1>2, <1>3, <1>4, <1>5, <1>6, <1>7 DEF Next, Feed, Main

LEMMA NextKeepsThreads ==
  ASSUME BookInv, ThreadInv, [Next]_vars
  PROVE  ThreadInv'
<1> USE DEF Goto
<1>1. ThreadTypes'
  <2>1. CASE ListenerCalls
    BY <2>1, EngineAssumption DEF ThreadInv, ThreadTypes, ListenerCalls, threadVars
  <2>2. CASE NextTick
    BY <2>2, EngineAssumption DEF ThreadInv, ThreadTypes, NextTick
  <2>3. CASE AddBuy \/ AddSell \/ MatchOrders \/ BuyCheap \/ FeedEnds
    BY <2>3 DEF ThreadInv, ThreadTypes, AddBuy, AddSell, MatchOrders, BuyCheap, FeedEnds
  <2>4. CASE Start \/ Stop \/ Join \/ Exit \/ Exited \/ UNCHANGED vars
    BY <2>4 DEF ThreadInv, ThreadTypes, Start, Stop, Join, Exit, Exited, Others, vars, threadVars
  <2> QED BY <2>1, <2>2, <2>3, <2>4 DEF Next, Feed, Main
<1>2. (main = "start" => pc = "none")'
  BY DEF ThreadInv, Next, Feed, AddBuy, AddSell, MatchOrders, BuyCheap, NextTick, FeedEnds,
     ListenerCalls, Main, Start, Stop, Join, Exit, Exited, vars, threadVars
\* Before the feed starts there is nothing, and when it has, it never is again.
<1>3. (pc = "none" => \A x \in BOOLEAN : side[x] = <<>>)'
  <2>1. CASE Exit
    BY <2>1 DEF Exit, Destroy
  <2>2. CASE Stop \/ Join \/ Exited \/ UNCHANGED vars
    BY <2>2 DEF ThreadInv, Stop, Join, Exited, Others, vars, threadVars, bookVars
  <2>3. CASE Feed \/ ListenerCalls \/ Start
    BY <2>3 DEF Feed, AddBuy, AddSell, MatchOrders, BuyCheap, NextTick, FeedEnds, ListenerCalls,
       Start, threadVars
  <2> QED BY <2>1, <2>2, <2>3 DEF Next, Main
<1>4. pc' \in {"quote", "loop", "done"} => SidesApart'
  <2>1. pc \in {"quote", "loop", "done"} => SidesApart
    BY DEF ThreadInv, NotCrossed, SidesApart
  <2>2. CASE AddBuy \/ AddSell \/ NextTick
    BY <2>2 DEF AddBuy, AddSell, NextTick
  <2>3. CASE MatchOrders
    <3>1. pc' = "match" \/ (pc' = "quote" /\ ~Crosses /\ UNCHANGED side)
      BY <2>3 DEF MatchOrders, bookVars
    <3>2. ASSUME ~Crosses, UNCHANGED side PROVE SidesApart'
      BY <3>2, DoneMatching DEF SidesApart
    <3> QED BY <3>1, <3>2
  <2>4. CASE BuyCheap
    BY <2>4, BuyCheapKeeps
  <2>5. CASE FeedEnds
    BY <2>5, <2>1 DEF FeedEnds, bookVars, SidesApart
  <2>6. CASE ListenerCalls
    BY <2>6, <2>1, ListenerKeepsBook DEF ListenerCalls
  <2>7. CASE Start
    <3>1. \A x \in BOOLEAN : side'[x] = <<>>
      BY <2>7 DEF Start, Others, bookVars, ThreadInv
    <3>2. DOMAIN side'[TRUE] = {}
      <4>1. side'[TRUE] = <<>>
        BY <3>1, Zenon
      <4>2. DOMAIN <<>> = {}
        OBVIOUS
      <4> QED BY <4>1, <4>2, Zenon
    <3> QED BY <3>2, Zenon DEF SidesApart
  <2>8. CASE Exit
    BY <2>8, DestroyKeepsBook DEF Exit
  <2>9. CASE Stop \/ Join \/ Exited \/ UNCHANGED vars
    BY <2>9, <2>1 DEF Stop, Join, Exited, Others, vars, threadVars, bookVars, SidesApart
  <2> QED BY <2>2, <2>3, <2>4, <2>5, <2>6, <2>7, <2>8, <2>9 DEF Next, Feed, Main
<1> QED BY <1>1, <1>2, <1>3, <1>4 DEF ThreadInv, NotCrossed, SidesApart

-----------------------------------------------------------------------------
(***************************************************************************)
(* Theorems                                                                *)
(***************************************************************************)

LEMMA InvHolds == Spec => [](BookInv /\ ThreadInv)
<1>1. Init => BookInv /\ ThreadInv
  BY InitHolds
<1>2. BookInv /\ ThreadInv /\ [Next]_vars => (BookInv /\ ThreadInv)'
  BY NextKeepsBook, NextKeepsThreads
<1> QED BY <1>1, <1>2, PTL DEF Spec

\* Whatever ticks come and calls are made, no block of the memory pool is
\* freed twice, freed while pointed to, or lost, and the maps, the sides and
\* the manager agree, down to the exit.
THEOREM EngineCorrect == Spec => []EngineInv
BY InvHolds, InvImplies, PTL

\* matchOrders leaves no order that could trade, and neither the engine nor a
\* listener makes one before the next tick.
THEOREM NeverCrossed == Spec => []NotCrossed
<1>1. BookInv /\ ThreadInv => NotCrossed
  BY DEF ThreadInv
<1> QED BY <1>1, InvHolds, PTL

\* matchOrders trades by price, then by time of arrival.
THEOREM PriorityKept == Spec => []PriceTimePriority
<1>1. BookInv /\ ThreadInv => PriceTimePriority
  BY DEF BookInv
<1> QED BY <1>1, InvHolds, PTL
=============================================================================
