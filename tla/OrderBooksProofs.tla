-------------------------- MODULE OrderBooksProofs --------------------------
(***************************************************************************)
(* Proofs about week 5, for all ids, prices and quantities, every pool     *)
(* capacity and all hashes: the invariant of OptimizedOrderBook, that it   *)
(* implements OrderMap, and that the books given the same calls agree;     *)
(* that the order on top of OrderPriorityQueue's heap is the best; and     *)
(* that RobinHoodHashTable's table is a map.                               *)
(***************************************************************************)
EXTENDS OrderBooks, OrderPriorityQueue, RobinHoodHashTable, FiniteSums

-----------------------------------------------------------------------------
(***************************************************************************)
(* The levels                                                              *)
(***************************************************************************)

\* No level of a book is empty.
NoEmptyLevel(l) == \A q \in DOMAIN l : DOMAIN l[q] # {}

\* Inserting an order adds it to its level and keeps all others.
LEMMA InsertFacts ==
  ASSUME NEW l, NEW p, NEW id, NEW v
  PROVE  /\ DOMAIN Insert(l, p, id, v) = DOMAIN l \cup {p}
         /\ \A q, j : At(Insert(l, p, id, v), q, j) <=> (q = p /\ j = id) \/ At(l, q, j)
         /\ Insert(l, p, id, v)[p][id] = v
         /\ \A q, j : At(l, q, j) /\ ~(q = p /\ j = id) =>
              Insert(l, p, id, v)[q][j] = l[q][j]
         /\ NoEmptyLevel(l) => NoEmptyLevel(Insert(l, p, id, v))
<1> DEFINE new == With(Level(l, p), id, v)
           ins == Insert(l, p, id, v)
<1>1. /\ DOMAIN ins = DOMAIN l \cup {p} /\ ins[p] = new
      /\ \A q \in DOMAIN l : q # p => ins[q] = l[q]
  BY DEF Insert, With
<1>2. /\ DOMAIN new = DOMAIN Level(l, p) \cup {id} /\ new[id] = v
      /\ \A j \in DOMAIN Level(l, p) : j # id => new[j] = Level(l, p)[j]
  BY DEF With
<1>3. /\ \A j : j \in DOMAIN Level(l, p) <=> At(l, p, j)
      /\ \A j : At(l, p, j) => Level(l, p)[j] = l[p][j]
  BY DEF Level, At, NoEntries
<1>4. \A q, j : At(ins, q, j) <=> (q = p /\ j = id) \/ At(l, q, j)
  <2> SUFFICES ASSUME NEW q, NEW j
               PROVE  At(ins, q, j) <=> (q = p /\ j = id) \/ At(l, q, j)
    OBVIOUS
  <2>1. CASE q = p
    BY <2>1, <1>1, <1>2, <1>3 DEF At
  <2>2. CASE q # p
    BY <2>2, <1>1 DEF At
  <2> QED BY <2>1, <2>2
<1>5. \A q, j : At(l, q, j) /\ ~(q = p /\ j = id) => ins[q][j] = l[q][j]
  <2> SUFFICES ASSUME NEW q, NEW j, At(l, q, j), ~(q = p /\ j = id)
               PROVE  ins[q][j] = l[q][j]
    OBVIOUS
  <2>1. CASE q = p
    BY <2>1, <1>1, <1>2, <1>3
  <2>2. CASE q # p
    BY <2>2, <1>1 DEF At
  <2> QED BY <2>1, <2>2
<1>6. NoEmptyLevel(l) => NoEmptyLevel(ins)
  BY <1>1, <1>2 DEF NoEmptyLevel
<1> QED BY <1>1, <1>2, <1>4, <1>5, <1>6

\* Erasing an order takes it out of its level, and keeps all others.
LEMMA EraseFacts ==
  ASSUME NEW l, NEW p, NEW id
  PROVE  /\ DOMAIN Erase(l, p, id) \subseteq DOMAIN l
         /\ \A q, j : At(Erase(l, p, id), q, j) <=> At(l, q, j) /\ ~(q = p /\ j = id)
         /\ \A q, j : At(l, q, j) /\ ~(q = p /\ j = id) =>
              Erase(l, p, id)[q][j] = l[q][j]
         /\ NoEmptyLevel(l) => NoEmptyLevel(Erase(l, p, id))
<1> DEFINE era == Erase(l, p, id)
<1>1. CASE DOMAIN Level(l, p) \subseteq {id}
  <2>1. /\ DOMAIN era = DOMAIN l \ {p}
        /\ \A q \in DOMAIN l : q # p => era[q] = l[q]
    BY <1>1 DEF Erase, Without
  <2>2. \A j : At(l, p, j) => j = id
    BY <1>1 DEF At, Level
  <2>3. \A q, j : At(era, q, j) <=> At(l, q, j) /\ ~(q = p /\ j = id)
    BY <2>1, <2>2 DEF At
  <2>4. \A q, j : At(l, q, j) /\ ~(q = p /\ j = id) => era[q][j] = l[q][j]
    BY <2>1, <2>2 DEF At
  <2>5. NoEmptyLevel(l) => NoEmptyLevel(era)
    BY <2>1 DEF NoEmptyLevel
  <2> QED BY <2>1, <2>3, <2>4, <2>5
<1>2. CASE ~(DOMAIN Level(l, p) \subseteq {id})
  <2> DEFINE rest == Without(l[p], id)
  <2>1. p \in DOMAIN l /\ Level(l, p) = l[p]
    BY <1>2 DEF Level, NoEntries
  <2>2. /\ DOMAIN era = DOMAIN l /\ era[p] = rest
        /\ \A q \in DOMAIN l : q # p => era[q] = l[q]
    BY <1>2, <2>1 DEF Erase, With
  <2>3. /\ DOMAIN rest = DOMAIN l[p] \ {id}
        /\ \A j \in DOMAIN l[p] : j # id => rest[j] = l[p][j]
    BY DEF Without
  <2>4. DOMAIN rest # {}
    BY <1>2, <2>1, <2>3
  <2>5. \A q, j : At(era, q, j) <=> At(l, q, j) /\ ~(q = p /\ j = id)
    BY <2>2, <2>3 DEF At
  <2>6. \A q, j : At(l, q, j) /\ ~(q = p /\ j = id) => era[q][j] = l[q][j]
    BY <2>2, <2>3 DEF At
  <2>7. NoEmptyLevel(l) => NoEmptyLevel(era)
    BY <2>2, <2>4 DEF NoEmptyLevel
  <2> QED BY <2>2, <2>5, <2>6, <2>7
<1> QED BY <1>1, <1>2

-----------------------------------------------------------------------------
(***************************************************************************)
(* The invariant                                                           *)
(***************************************************************************)

\* The free list after an allocation: the head has left it.
LEMMA TailFacts ==
  ASSUME NEW seq \in Seq(Slots), seq # <<>>
  PROVE  /\ Head(seq) = seq[1] /\ 1 \in DOMAIN seq /\ Head(seq) \in Slots
         /\ Tail(seq) \in Seq(Slots) /\ Len(Tail(seq)) = Len(seq) - 1
         /\ \A i \in DOMAIN Tail(seq) : i + 1 \in DOMAIN seq /\ i + 1 # 1 /\ Tail(seq)[i] = seq[i + 1]
OBVIOUS

\* The free list after a deallocation: the slot is its last element.
LEMMA AppendFacts ==
  ASSUME NEW seq \in Seq(Slots), NEW s \in Slots
  PROVE  /\ Append(seq, s) \in Seq(Slots) /\ Len(Append(seq, s)) = Len(seq) + 1
         /\ \A i \in DOMAIN Append(seq, s) :
              \/ i \in DOMAIN seq /\ Append(seq, s)[i] = seq[i]
              \/ i = Len(seq) + 1 /\ Append(seq, s)[i] = s
OBVIOUS

\* The invariant holds of an empty book with all slots free.
LEMMA InitBook == Init => BookInv
<1> SUFFICES ASSUME Init PROVE BookInv
  OBVIOUS
<1> USE BookAssumption
<1>1. DOMAIN lookup = {} /\ DOMAIN levels = {}
  BY DEF Init, NoEntries
<1>2. free \in Seq(Slots) /\ Len(free) = PoolCapacity /\ DOMAIN free = 1 .. PoolCapacity
  BY DEF Init, Slots
<1>3. TypeOK
  BY <1>1, <1>2, FS_EmptySet DEF Init, TypeOK, OrderOpt
<1>4. PoolInv
  BY <1>1, <1>2, FS_EmptySet DEF Init, PoolInv
<1>5. IndexInv
  BY <1>1 DEF IndexInv
<1> QED BY <1>3, <1>4, <1>5 DEF BookInv

\* A valid addOrder preserves the invariant.
LEMMA AddBook ==
  ASSUME BookInv, NEW id \in Ids, NEW p \in Prices, NEW q \in Quantities, NEW b \in BOOLEAN,
         CanAdd(id, p, q), AddOrder(id, p, q, b)
  PROVE  BookInv'
<1> DEFINE s == Head(free)
<1> USE BookAssumption
<1>1. /\ id \notin DOMAIN lookup /\ free # <<>>
      /\ pool' = [pool EXCEPT ![s] = OrderOpt(id, p, q, b)]
      /\ free' = Tail(free) /\ used' = used + 1 /\ count' = count + 1
      /\ levels' = Insert(levels, p, id, s) /\ lookup' = With(lookup, id, s)
  BY DEF AddOrder, CanAdd, Allocate
<1>2. /\ s = free[1] /\ 1 \in DOMAIN free /\ s \in Slots
      /\ free' \in Seq(Slots) /\ Len(free') = Len(free) - 1
      /\ \A i \in DOMAIN free' : i + 1 \in DOMAIN free /\ i + 1 # 1 /\ free'[i] = free[i + 1]
  BY <1>1, TailFacts DEF BookInv, TypeOK
<1>3. /\ DOMAIN lookup' = DOMAIN lookup \cup {id} /\ lookup'[id] = s
      /\ \A k \in DOMAIN lookup : k # id /\ lookup'[k] = lookup[k] /\ lookup[k] # s
  BY <1>1, <1>2 DEF With, BookInv, PoolInv
<1>4. /\ pool'[s] = OrderOpt(id, p, q, b)
      /\ \A t \in Slots : t # s => pool'[t] = pool[t]
  BY <1>1, <1>2 DEF BookInv, TypeOK
<1>5. /\ IsFiniteSet(DOMAIN lookup') /\ Cardinality(DOMAIN lookup') = Cardinality(DOMAIN lookup) + 1
  BY <1>1, <1>3, FS_AddElement DEF BookInv, TypeOK
<1>6. /\ DOMAIN levels' = DOMAIN levels \cup {p}
      /\ \A r, j : At(levels', r, j) <=> (r = p /\ j = id) \/ At(levels, r, j)
      /\ levels'[p][id] = s
      /\ \A r, j : At(levels, r, j) /\ ~(r = p /\ j = id) => levels'[r][j] = levels[r][j]
      /\ NoEmptyLevel(levels) => NoEmptyLevel(levels')
  <2> DEFINE ins == Insert(levels, p, id, s)
  <2>1. /\ DOMAIN ins = DOMAIN levels \cup {p}
        /\ \A r, j : At(ins, r, j) <=> (r = p /\ j = id) \/ At(levels, r, j)
        /\ ins[p][id] = s
        /\ \A r, j : At(levels, r, j) /\ ~(r = p /\ j = id) => ins[r][j] = levels[r][j]
        /\ NoEmptyLevel(levels) => NoEmptyLevel(ins)
    BY InsertFacts
  <2>2. levels' = ins
    BY <1>1
  <2> HIDE DEF ins
  <2> QED BY <2>1, <2>2
<1>7. TypeOK'
  <2>1. pool' \in [Slots -> [id : Ids \cup {NoId}, price : Prices \cup {0},
                            quantity : Quantities \cup {0}, isBuy : BOOLEAN]]
    BY <1>1 DEF BookInv, TypeOK, OrderOpt
  <2>2. DOMAIN lookup' \subseteq Ids /\ \A k \in DOMAIN lookup' : lookup'[k] \in Slots
    BY <1>2, <1>3 DEF BookInv, TypeOK
  <2>3. used' \in Int /\ count' \in Int /\ DOMAIN levels' \subseteq Prices
    BY <1>1, <1>6 DEF BookInv, TypeOK
  <2> QED BY <2>1, <2>2, <2>3, <1>2, <1>5 DEF TypeOK
<1>8. PoolInv'
  <2>1. \A i, j \in DOMAIN free' : free'[i] = free'[j] => i = j
    <3> SUFFICES ASSUME NEW i \in DOMAIN free', NEW j \in DOMAIN free', free'[i] = free'[j]
                 PROVE  i = j
      OBVIOUS
    <3>1. i + 1 = j + 1
      BY <1>2 DEF BookInv, PoolInv
    <3>2. i \in Int /\ j \in Int
      BY <1>2
    <3> QED BY <3>1, <3>2
  <2>2. \A k \in DOMAIN lookup', i \in DOMAIN free' : lookup'[k] # free'[i]
    BY <1>2, <1>3 DEF BookInv, PoolInv
  <2>3. \A k1, k2 \in DOMAIN lookup' : lookup'[k1] = lookup'[k2] => k1 = k2
    BY <1>3 DEF BookInv, PoolInv
  <2>4. used' = count' /\ used' = Cardinality(DOMAIN lookup')
    BY <1>1, <1>5 DEF BookInv, PoolInv
  <2>5. used' + Len(free') = PoolCapacity
    <3>1. Len(free) \in Nat /\ used \in Int /\ used + Len(free) = PoolCapacity
      BY DEF BookInv, PoolInv, TypeOK
    <3> QED BY <3>1, <1>1, <1>2
  <2> QED BY <2>1, <2>2, <2>3, <2>4, <2>5 DEF PoolInv
<1>9. IndexInv'
  <2>1. ASSUME NEW k \in DOMAIN lookup'
        PROVE  /\ pool'[lookup'[k]].id = k
               /\ At(levels', pool'[lookup'[k]].price, k)
               /\ levels'[pool'[lookup'[k]].price][k] = lookup'[k]
    <3>1. CASE k = id
      BY <3>1, <1>3, <1>4, <1>6 DEF OrderOpt
    <3>2. CASE k # id
      <4>1. k \in DOMAIN lookup /\ lookup'[k] = lookup[k] /\ pool'[lookup[k]] = pool[lookup[k]]
        BY <3>2, <1>3, <1>4 DEF BookInv, TypeOK
      <4> QED BY <4>1, <3>2, <1>6 DEF BookInv, IndexInv
    <3> QED BY <3>1, <3>2
  <2>2. NoEmptyLevel(levels')
    BY <1>6 DEF BookInv, IndexInv, NoEmptyLevel
  <2>3. ASSUME NEW r, NEW k, At(levels', r, k)
        PROVE  k \in DOMAIN lookup' /\ pool'[lookup'[k]].price = r
    <3>1. CASE r = p /\ k = id
      BY <3>1, <1>3, <1>4 DEF OrderOpt
    <3>2. CASE At(levels, r, k)
      BY <3>2, <1>3, <1>4 DEF BookInv, IndexInv, TypeOK, At
    <3> QED BY <2>3, <3>1, <3>2, <1>6
  <2> QED BY <2>1, <2>2, <2>3 DEF IndexInv, NoEmptyLevel, At
<1> QED BY <1>7, <1>8, <1>9 DEF BookInv

\* A valid modifyOrder preserves the invariant: the order keeps its slot.
LEMMA ModifyBook ==
  ASSUME BookInv, NEW id \in Ids, NEW p \in Prices, NEW q \in Quantities,
         ValidInput(p, q) /\ id \in DOMAIN lookup, ModifyOrder(id, p, q)
  PROVE  BookInv'
<1> DEFINE s   == lookup[id]
           old == pool[s].price
<1>1. /\ id \in DOMAIN lookup /\ lookup' = lookup /\ free' = free /\ used' = used /\ count' = count
      /\ pool' = [pool EXCEPT ![s].price = p, ![s].quantity = q]
      /\ levels' = IF old = p THEN levels ELSE Insert(Erase(levels, old, id), p, id, s)
  BY DEF ModifyOrder
<1>2. s \in Slots /\ pool[s].id = id /\ At(levels, old, id) /\ levels[old][id] = s
  BY <1>1 DEF BookInv, TypeOK, IndexInv
<1>3. /\ pool' \in [Slots -> [id : Ids \cup {NoId}, price : Prices \cup {0},
                              quantity : Quantities \cup {0}, isBuy : BOOLEAN]]
      /\ pool'[s].id = id /\ pool'[s].price = p
      /\ \A t \in Slots : t # s => pool'[t] = pool[t]
  <2>1. pool \in [Slots -> [id : Ids \cup {NoId}, price : Prices \cup {0},
                           quantity : Quantities \cup {0}, isBuy : BOOLEAN]]
    BY DEF BookInv, TypeOK
  <2>2. s \in Slots /\ pool[s].id = id
    BY <1>2
  <2>3. pool' = [pool EXCEPT ![s].price = p, ![s].quantity = q]
    BY <1>1
  <2>4. PICK t \in Slots : t = s
    BY <2>2
  <2> HIDE DEF s
  <2>5. pool'[t] = [pool[t] EXCEPT !.price = p, !.quantity = q]
    BY ONLY <2>1, <2>3, <2>4
  <2>6. /\ pool'[t].id = pool[t].id /\ pool'[t].price = p
        /\ pool'[t] \in [id : Ids \cup {NoId}, price : Prices \cup {0},
                         quantity : Quantities \cup {0}, isBuy : BOOLEAN]
    BY ONLY <2>1, <2>5, p \in Prices, q \in Quantities
  <2>7. DOMAIN pool' = Slots /\ pool' = [v \in Slots |-> pool'[v]]
        /\ \A v \in Slots : v # t => pool'[v] = pool[v]
    BY ONLY <2>1, <2>3, <2>4
  <2> QED BY ONLY <2>1, <2>2, <2>4, <2>6, <2>7
<1>4. \A k \in DOMAIN lookup : k # id => lookup[k] \in Slots /\ lookup[k] # s
  <2>1. \A k \in DOMAIN lookup : lookup[k] \in Slots
    BY DEF BookInv, TypeOK
  <2>2. \A j, k \in DOMAIN lookup : j # k => lookup[j] # lookup[k]
    BY DEF BookInv, PoolInv
  <2> QED BY <1>1, <2>1, <2>2
<1>5. NoEmptyLevel(levels) /\ DOMAIN levels \subseteq Prices
  BY DEF BookInv, IndexInv, NoEmptyLevel, TypeOK
<1>6. /\ DOMAIN levels' \subseteq Prices /\ NoEmptyLevel(levels')
      /\ \A r, j : At(levels', r, j) <=> (r = p /\ j = id) \/ (At(levels, r, j) /\ j # id)
      /\ levels'[p][id] = s
      /\ \A r, j : At(levels, r, j) /\ j # id => levels'[r][j] = levels[r][j]
  <2>0. \A r : At(levels, r, id) => r = old
    BY DEF BookInv, IndexInv, At
  <2>1. CASE old = p
    BY <2>0, <2>1, <1>1, <1>2, <1>5
  <2>2. CASE old # p
    <3> DEFINE era == Erase(levels, old, id)
               ins == Insert(era, p, id, s)
    <3>1. /\ DOMAIN era \subseteq DOMAIN levels
          /\ \A r, j : At(era, r, j) <=> At(levels, r, j) /\ ~(r = old /\ j = id)
          /\ \A r, j : At(levels, r, j) /\ ~(r = old /\ j = id) => era[r][j] = levels[r][j]
          /\ NoEmptyLevel(era)
      BY <1>5, EraseFacts
    <3>2. /\ DOMAIN ins = DOMAIN era \cup {p}
          /\ \A r, j : At(ins, r, j) <=> (r = p /\ j = id) \/ At(era, r, j)
          /\ ins[p][id] = s
          /\ \A r, j : At(era, r, j) /\ ~(r = p /\ j = id) => ins[r][j] = era[r][j]
          /\ NoEmptyLevel(era) => NoEmptyLevel(ins)
      BY InsertFacts
    <3>3. levels' = ins
      BY <2>2, <1>1
    <3> HIDE DEF era, ins
    <3>4. DOMAIN levels' \subseteq Prices /\ NoEmptyLevel(levels') /\ levels'[p][id] = s
      BY <3>1, <3>2, <3>3, <1>5
    <3>5. \A r, j : At(ins, r, j) <=> (r = p /\ j = id) \/ (At(levels, r, j) /\ j # id)
      BY <2>0, <3>1, <3>2
    <3>6. \A r, j : At(levels, r, j) /\ j # id => ins[r][j] = levels[r][j]
      BY <3>1, <3>2
    <3> QED BY <3>3, <3>4, <3>5, <3>6
  <2> QED BY <2>1, <2>2
<1>7. TypeOK'
  BY <1>1, <1>3, <1>6 DEF BookInv, TypeOK
<1>8. PoolInv'
  <2>1. PoolInv /\ lookup' = lookup /\ free' = free /\ used' = used /\ count' = count
    BY <1>1 DEF BookInv
  <2> QED BY ONLY <2>1 DEF PoolInv
<1>9. IndexInv'
  <2>1. ASSUME NEW k \in DOMAIN lookup'
        PROVE  /\ pool'[lookup'[k]].id = k
               /\ At(levels', pool'[lookup'[k]].price, k)
               /\ levels'[pool'[lookup'[k]].price][k] = lookup'[k]
    <3>1. CASE k = id
      BY <3>1, <1>1, <1>3, <1>6
    <3>2. CASE k # id
      <4>1. k \in DOMAIN lookup /\ lookup'[k] = lookup[k] /\ pool'[lookup[k]] = pool[lookup[k]]
        BY <3>2, <1>1, <1>3, <1>4
      <4> QED BY <4>1, <3>2, <1>6 DEF BookInv, IndexInv
    <3> QED BY <3>1, <3>2
  <2>2. ASSUME NEW r, NEW k, At(levels', r, k)
        PROVE  k \in DOMAIN lookup' /\ pool'[lookup'[k]].price = r
    <3>1. CASE r = p /\ k = id
      BY <3>1, <1>1, <1>3
    <3>2. CASE At(levels, r, k) /\ k # id
      BY <3>2, <1>1, <1>3, <1>4 DEF BookInv, IndexInv, At
    <3> QED BY <2>2, <3>1, <3>2, <1>6
  <2> QED BY <2>1, <2>2, <1>6 DEF IndexInv, NoEmptyLevel, At
<1> QED BY <1>7, <1>8, <1>9 DEF BookInv

\* deleteOrder of an order preserves the invariant: its slot is free again.
LEMMA DeleteBook ==
  ASSUME BookInv, NEW id \in DOMAIN lookup, DeleteOrder(id)
  PROVE  BookInv'
<1> DEFINE s   == lookup[id]
           old == pool[s].price
<1> USE BookAssumption
<1>1. /\ pool' = pool /\ free' = Append(free, s) /\ used' = used - 1 /\ count' = count - 1
      /\ lookup' = Without(lookup, id) /\ levels' = Erase(levels, old, id)
  BY DEF DeleteOrder, Deallocate
<1>2. /\ s \in Slots /\ DOMAIN free = 1 .. Len(free) /\ Len(free) \in Nat
      /\ free' \in Seq(Slots) /\ Len(free') = Len(free) + 1
      /\ \A i \in DOMAIN free' :
           \/ i \in DOMAIN free /\ free'[i] = free[i]
           \/ i = Len(free) + 1 /\ free'[i] = s
  BY <1>1, AppendFacts DEF BookInv, TypeOK
<1>3. /\ DOMAIN lookup' = DOMAIN lookup \ {id}
      /\ \A k \in DOMAIN lookup' : lookup'[k] = lookup[k] /\ lookup[k] # s
  BY <1>1 DEF Without, BookInv, PoolInv
<1>4. IsFiniteSet(DOMAIN lookup') /\ Cardinality(DOMAIN lookup') = Cardinality(DOMAIN lookup) - 1
  BY <1>3, FS_RemoveElement DEF BookInv, TypeOK
<1>5. \A r : At(levels, r, id) => r = old
  BY DEF BookInv, IndexInv, At
<1>6. /\ DOMAIN levels' \subseteq DOMAIN levels /\ NoEmptyLevel(levels')
      /\ \A r, j : At(levels', r, j) <=> At(levels, r, j) /\ j # id
      /\ \A r, j : At(levels, r, j) /\ j # id => levels'[r][j] = levels[r][j]
  <2> DEFINE era == Erase(levels, old, id)
  <2>1. NoEmptyLevel(levels)
    BY DEF BookInv, IndexInv, NoEmptyLevel
  <2>2. /\ DOMAIN era \subseteq DOMAIN levels
        /\ \A r, j : At(era, r, j) <=> At(levels, r, j) /\ ~(r = old /\ j = id)
        /\ \A r, j : At(levels, r, j) /\ ~(r = old /\ j = id) => era[r][j] = levels[r][j]
        /\ NoEmptyLevel(era)
    BY <2>1, EraseFacts
  <2>3. levels' = era
    BY <1>1
  <2> HIDE DEF era
  <2>4. \A r, j : At(era, r, j) <=> At(levels, r, j) /\ j # id
    BY <2>2, <1>5
  <2> QED BY <2>2, <2>3, <2>4
<1>7. TypeOK'
  BY <1>1, <1>2, <1>3, <1>4, <1>6 DEF BookInv, TypeOK
<1>8. PoolInv'
  <2>1. \A i, j \in DOMAIN free' : free'[i] = free'[j] => i = j
    BY <1>2 DEF BookInv, PoolInv
  <2>2. \A k \in DOMAIN lookup', i \in DOMAIN free' : lookup'[k] # free'[i]
    BY <1>2, <1>3 DEF BookInv, PoolInv
  <2>3. \A k1, k2 \in DOMAIN lookup' : lookup'[k1] = lookup'[k2] => k1 = k2
    BY <1>3 DEF BookInv, PoolInv
  <2>4. used' = count' /\ used' = Cardinality(DOMAIN lookup')
    BY <1>1, <1>4 DEF BookInv, PoolInv
  <2>5. used' + Len(free') = PoolCapacity
    <3>1. used \in Int /\ used + Len(free) = PoolCapacity
      BY DEF BookInv, PoolInv, TypeOK
    <3> QED BY <3>1, <1>1, <1>2
  <2> QED BY <2>1, <2>2, <2>3, <2>4, <2>5 DEF PoolInv
<1>9. IndexInv'
  <2>1. ASSUME NEW k \in DOMAIN lookup'
        PROVE  /\ pool'[lookup'[k]].id = k
               /\ At(levels', pool'[lookup'[k]].price, k)
               /\ levels'[pool'[lookup'[k]].price][k] = lookup'[k]
    BY <1>1, <1>3, <1>6 DEF BookInv, IndexInv
  <2>2. ASSUME NEW r, NEW k, At(levels', r, k)
        PROVE  k \in DOMAIN lookup' /\ pool'[lookup'[k]].price = r
    BY <2>2, <1>1, <1>3, <1>6 DEF BookInv, IndexInv, At
  <2> QED BY <2>1, <2>2, <1>6 DEF IndexInv, NoEmptyLevel, At
<1> QED BY <1>7, <1>8, <1>9 DEF BookInv

\* Every call preserves the invariant.
LEMMA NextBook == BookInv /\ [Next]_vars => BookInv'
<1> SUFFICES ASSUME BookInv, [Next]_vars PROVE BookInv'
  OBVIOUS
<1>1. CASE UNCHANGED vars
  <2> USE <1>1 DEF vars
  <2>1. TypeOK'
    BY DEF BookInv, TypeOK
  <2>2. PoolInv'
    BY DEF BookInv, PoolInv
  <2>3. IndexInv'
    BY DEF BookInv, IndexInv
  <2> QED BY <2>1, <2>2, <2>3 DEF BookInv
<1>2. ASSUME NEW id \in Ids, NEW p \in Prices, NEW q \in Quantities, NEW b \in BOOLEAN,
             AddOrder(id, p, q, b)
      PROVE  BookInv'
  <2>1. CASE CanAdd(id, p, q)
    BY <2>1, <1>2, AddBook
  <2>2. CASE ~CanAdd(id, p, q)
    BY <2>2, <1>2, <1>1 DEF AddOrder
  <2> QED BY <2>1, <2>2
<1>3. ASSUME NEW id \in Ids, NEW p \in Prices, NEW q \in Quantities, ModifyOrder(id, p, q)
      PROVE  BookInv'
  <2>1. CASE ValidInput(p, q) /\ id \in DOMAIN lookup
    BY <2>1, <1>3, ModifyBook
  <2>2. CASE ~(ValidInput(p, q) /\ id \in DOMAIN lookup)
    BY <2>2, <1>3, <1>1 DEF ModifyOrder
  <2> QED BY <2>1, <2>2
<1>4. ASSUME NEW id \in Ids, DeleteOrder(id)
      PROVE  BookInv'
  <2>1. CASE id \in DOMAIN lookup
    BY <2>1, <1>4, DeleteBook
  <2>2. CASE id \notin DOMAIN lookup
    BY <2>2, <1>4, <1>1 DEF DeleteOrder
  <2> QED BY <2>1, <2>2
<1> QED BY <1>1, <1>2, <1>3, <1>4 DEF Next

\* The pooled book of phase_5 and hw_5 keeps its two indexes, the slots of
\* its pool and its counters in agreement, whatever calls are made.
THEOREM BookCorrect == Spec => []BookInv
BY InitBook, NextBook, PTL DEF Spec

-----------------------------------------------------------------------------
(***************************************************************************)
(* The refinement                                                          *)
(***************************************************************************)

\* A valid addOrder adds an order to the map.
LEMMA AddMaps ==
  ASSUME BookInv, NEW id \in Ids, NEW p \in Prices, NEW q \in Quantities, NEW b \in BOOLEAN,
         CanAdd(id, p, q), AddOrder(id, p, q, b)
  PROVE  \E o \in Map!Order : Map!Add(id, o)
<1> DEFINE s == Head(free)
           o == [price |-> p, quantity |-> q, isBuy |-> b]
<1> USE BookAssumption
<1>1. /\ id \notin DOMAIN lookup /\ free # <<>>
      /\ pool' = [pool EXCEPT ![s] = OrderOpt(id, p, q, b)]
      /\ lookup' = With(lookup, id, s)
  BY DEF AddOrder, CanAdd, Allocate
<1>2. s \in Slots /\ Len(free) \in Nat /\ Len(free) > 0
  BY <1>1 DEF BookInv, TypeOK
<1>3. /\ DOMAIN lookup' = DOMAIN lookup \cup {id} /\ lookup'[id] = s
      /\ \A k \in DOMAIN lookup : k # id /\ lookup'[k] = lookup[k] /\ lookup[k] # s
  <2>1. s = free[1] /\ 1 \in DOMAIN free
    BY <1>1, TailFacts DEF BookInv, TypeOK
  <2> QED BY <2>1, <1>1 DEF With, BookInv, PoolInv
<1>4. /\ pool'[s] = OrderOpt(id, p, q, b)
      /\ \A k \in DOMAIN lookup : pool'[lookup[k]] = pool[lookup[k]]
  BY <1>1, <1>2, <1>3 DEF BookInv, TypeOK
<1>5. DOMAIN Orders = DOMAIN lookup /\ DOMAIN Orders' = DOMAIN lookup'
  BY DEF Orders
<1>6. Map!Cardinality(DOMAIN Orders) < PoolCapacity
  <2>1. Cardinality(DOMAIN lookup) < PoolCapacity
    BY <1>2 DEF BookInv, TypeOK, PoolInv
  <2>2. \A S : Map!Cardinality(S) = Cardinality(S)
    BY Zenon DEF Map!Cardinality, Cardinality
  <2> QED BY <1>5, <2>1, <2>2
<1>7. Orders' = Map!With(Orders, id, o)
  BY <1>3, <1>4 DEF Orders, Map!With, OrderOpt
<1>8. o \in Map!Order
  BY DEF Map!Order
<1> QED BY <1>1, <1>5, <1>6, <1>7, <1>8 DEF Map!Add

\* A valid modifyOrder changes the order's entry, and no other.
LEMMA ModifyMaps ==
  ASSUME BookInv, NEW id \in Ids, NEW p \in Prices, NEW q \in Quantities,
         ValidInput(p, q) /\ id \in DOMAIN lookup, ModifyOrder(id, p, q)
  PROVE  Map!Modify(id, p, q)
<1> DEFINE s == lookup[id]
<1>1. lookup' = lookup /\ pool' = [pool EXCEPT ![s].price = p, ![s].quantity = q]
  BY DEF ModifyOrder
<1>2. /\ pool'[s].price = p /\ pool'[s].quantity = q /\ pool'[s].isBuy = pool[s].isBuy
      /\ \A k \in DOMAIN lookup : k # id => pool'[lookup[k]] = pool[lookup[k]]
  BY <1>1 DEF BookInv, TypeOK, PoolInv
<1>3. id \in DOMAIN Orders
  BY DEF Orders
<1>4. Orders' = Map!With(Orders, id, [Orders[id] EXCEPT !.price = p, !.quantity = q])
  BY <1>1, <1>2 DEF Orders, Map!With
<1> QED BY <1>3, <1>4 DEF Map!Modify

\* deleteOrder removes the order's entry, and no other.
LEMMA DeleteMaps ==
  ASSUME BookInv, NEW id \in DOMAIN lookup, DeleteOrder(id)
  PROVE  Map!Delete(id)
<1>1. pool' = pool /\ lookup' = Without(lookup, id)
  BY DEF DeleteOrder, Deallocate
<1>2. Orders' = Map!Without(Orders, id)
  BY <1>1 DEF Orders, Without, Map!Without
<1> QED BY <1>2 DEF Map!Delete, Orders

\* Every step of the book is a step of the map, or changes nothing in it.
LEMMA NextMaps == BookInv /\ [Next]_vars => [Map!Next]_Orders
<1> SUFFICES ASSUME BookInv, [Next]_vars PROVE Map!Next \/ Orders' = Orders
  OBVIOUS
<1>1. CASE UNCHANGED vars
  BY <1>1 DEF vars, Orders
<1>2. ASSUME NEW id \in Ids, NEW p \in Prices, NEW q \in Quantities, NEW b \in BOOLEAN,
             AddOrder(id, p, q, b)
      PROVE  Map!Next \/ Orders' = Orders
  <2>1. CASE CanAdd(id, p, q)
    BY <2>1, <1>2, AddMaps DEF Map!Next
  <2>2. CASE ~CanAdd(id, p, q)
    BY <2>2, <1>2, <1>1 DEF AddOrder
  <2> QED BY <2>1, <2>2
<1>3. ASSUME NEW id \in Ids, NEW p \in Prices, NEW q \in Quantities, ModifyOrder(id, p, q)
      PROVE  Map!Next \/ Orders' = Orders
  <2>1. CASE ValidInput(p, q) /\ id \in DOMAIN lookup
    BY <2>1, <1>3, ModifyMaps DEF Map!Next
  <2>2. CASE ~(ValidInput(p, q) /\ id \in DOMAIN lookup)
    BY <2>2, <1>3, <1>1 DEF ModifyOrder
  <2> QED BY <2>1, <2>2
<1>4. ASSUME NEW id \in Ids, DeleteOrder(id)
      PROVE  Map!Next \/ Orders' = Orders
  <2>1. CASE id \in DOMAIN lookup
    BY <2>1, <1>4, DeleteMaps DEF Map!Next
  <2>2. CASE id \notin DOMAIN lookup
    BY <2>2, <1>4, <1>1 DEF DeleteOrder
  <2> QED BY <2>1, <2>2
<1> QED BY <1>1, <1>2, <1>3, <1>4 DEF Next

\* The pooled book implements a map of at most PoolCapacity orders: a slot
\* that is given back and reused never mixes up two orders.
THEOREM BookIsOrderMap == Spec => IsOrderMap
<1>1. Init => Map!Init
  BY DEF Init, Map!Init, Orders, NoEntries, Map!NoEntries
<1>2. Spec => []BookInv
  BY BookCorrect
<1> QED BY <1>1, <1>2, NextMaps, PTL DEF Spec, IsOrderMap, Map!Spec

-----------------------------------------------------------------------------
(***************************************************************************)
(* The three books, given the same calls                                   *)
(***************************************************************************)

\* A call on the three books is a call on the pooled one.
LEMMA BooksSteps == [BooksNext]_booksVars => [Next]_vars
BY DEF BooksNext, booksVars, Next, vars, Add, Modify, Delete

\* The other books' operators on maps and levels are the pooled book's.
LEMMA PlainOperators ==
  /\ \A m, k, v : Plain!With(m, k, v) = With(m, k, v)
  /\ \A m, k : Plain!Without(m, k) = Without(m, k)
  /\ \A l, p, id, v : Plain!Insert(l, p, id, v) = Insert(l, p, id, v)
  /\ \A l, p, id : Plain!Erase(l, p, id) = Erase(l, p, id)
  /\ \A l, p, id : Plain!At(l, p, id) <=> At(l, p, id)
  /\ \A p, q : Plain!ValidInput(p, q) <=> ValidInput(p, q)
  /\ Plain!NoEntries = NoEntries
BY DEF Plain!With, With, Plain!Without, Without, Plain!Insert, Insert, Plain!Erase, Erase,
       Plain!Level, Level, Plain!NoEntries, NoEntries, Plain!At, At, Plain!ValidInput, ValidInput

LEMMA UnoptOperators ==
  /\ \A m, k, v : Unopt!With(m, k, v) = With(m, k, v)
  /\ \A m, k : Unopt!Without(m, k) = Without(m, k)
  /\ \A l, p, id, v : Unopt!Insert(l, p, id, v) = Insert(l, p, id, v)
  /\ \A l, p, id : Unopt!Erase(l, p, id) = Erase(l, p, id)
  /\ \A p, q : Unopt!ValidInput(p, q) <=> ValidInput(p, q)
  /\ Unopt!NoEntries = NoEntries
BY DEF Unopt!With, With, Unopt!Without, Without, Unopt!Insert, Insert, Unopt!Erase, Erase,
       Unopt!Level, Level, Unopt!NoEntries, NoEntries, Unopt!ValidInput, ValidInput

\* What LookupIsAtLevel says of the plain book, in these operators.
LEMMA PlainLookup ==
  LookupIsAtLevel <=>
    \A id \in DOMAIN plainLookup :
      /\ At(plainLevels, plainLookup[id].price, id)
      /\ plainLevels[plainLookup[id].price][id] = plainLookup[id]
BY PlainOperators DEF LookupIsAtLevel, Plain!LookupIsAtLevel

\* An order put into the lookup and its level is there; the others stay.
LEMMA PlainPut ==
  ASSUME NEW lv, NEW lk, NEW id, NEW p, NEW r, NEW lv2, NEW lk2, r.price = p,
         \A k \in DOMAIN lk : k # id => /\ At(lv, lk[k].price, k)
                                       /\ lv[lk[k].price][k] = lk[k],
         lv2 = Insert(lv, p, id, r), lk2 = With(lk, id, r)
  PROVE  \A k \in DOMAIN lk2 : /\ At(lv2, lk2[k].price, k)
                               /\ lv2[lk2[k].price][k] = lk2[k]
<1>1. /\ \A q, j : At(lv2, q, j) <=> (q = p /\ j = id) \/ At(lv, q, j)
      /\ lv2[p][id] = r
      /\ \A q, j : At(lv, q, j) /\ ~(q = p /\ j = id) => lv2[q][j] = lv[q][j]
  <2> DEFINE ins == Insert(lv, p, id, r)
  <2>1. /\ DOMAIN ins = DOMAIN lv \cup {p}
        /\ \A q, j : At(ins, q, j) <=> (q = p /\ j = id) \/ At(lv, q, j)
        /\ ins[p][id] = r
        /\ \A q, j : At(lv, q, j) /\ ~(q = p /\ j = id) => ins[q][j] = lv[q][j]
        /\ NoEmptyLevel(lv) => NoEmptyLevel(ins)
    BY ONLY InsertFacts
  <2>2. lv2 = ins
    OBVIOUS
  <2> HIDE DEF ins
  <2> QED BY <2>1, <2>2
<1>2. /\ DOMAIN lk2 = DOMAIN lk \cup {id} /\ lk2[id] = r
      /\ \A k \in DOMAIN lk : k # id => lk2[k] = lk[k]
  BY DEF With
<1> SUFFICES ASSUME NEW k \in DOMAIN lk2
             PROVE  At(lv2, lk2[k].price, k) /\ lv2[lk2[k].price][k] = lk2[k]
  OBVIOUS
<1>3. CASE k = id
  BY <1>3, <1>1, <1>2
<1>4. CASE k # id
  BY <1>4, <1>1, <1>2
<1> QED BY <1>3, <1>4

\* Each call keeps the plain book's lookup and levels in agreement, also
\* addOrder of an id that is in the book.
LEMMA PlainNext == LookupIsAtLevel /\ [BooksNext]_booksVars => LookupIsAtLevel'
<1> DEFINE Agrees(lv, lk) == \A k \in DOMAIN lk : /\ At(lv, lk[k].price, k)
                                                 /\ lv[lk[k].price][k] = lk[k]
<1> SUFFICES ASSUME Agrees(plainLevels, plainLookup), [BooksNext]_booksVars
             PROVE  Agrees(plainLevels', plainLookup')
  <2>1. LookupIsAtLevel <=> Agrees(plainLevels, plainLookup)
    BY PlainLookup
  <2>2. LookupIsAtLevel' <=> Agrees(plainLevels', plainLookup')
    BY PlainOperators DEF LookupIsAtLevel, Plain!LookupIsAtLevel
  <2> QED BY <2>1, <2>2
<1>1. CASE UNCHANGED <<plainLevels, plainLookup>>
  BY <1>1
<1>2. ASSUME NEW id \in Ids, NEW p \in Prices, NEW q \in Quantities, NEW b \in BOOLEAN,
             Plain!AddOrder(id, p, q, b)
      PROVE  Agrees(plainLevels', plainLookup')
  <2>1. CASE ValidInput(p, q)
    <3> DEFINE r == Plain!Order(p, q, b)
    <3>1. plainLevels' = Insert(plainLevels, p, id, r) /\ plainLookup' = With(plainLookup, id, r)
      BY <1>2, <2>1, PlainOperators DEF Plain!AddOrder
    <3>2. r.price = p
      BY DEF Plain!Order
    <3> HIDE DEF r
    <3> QED BY <3>1, <3>2, PlainPut
  <2>2. CASE ~ValidInput(p, q)
    BY <1>2, <2>2, <1>1, PlainOperators DEF Plain!AddOrder
  <2> QED BY <2>1, <2>2
<1>3. ASSUME NEW id \in Ids, NEW p \in Prices, NEW q \in Quantities, Plain!ModifyOrder(id, p, q)
      PROVE  Agrees(plainLevels', plainLookup')
  <2>1. CASE ValidInput(p, q) /\ id \in DOMAIN plainLookup
    <3> DEFINE r   == Plain!Order(p, q, plainLookup[id].isBuy)
               era == Erase(plainLevels, plainLookup[id].price, id)
    <3>1. plainLevels' = Insert(era, p, id, r) /\ plainLookup' = With(plainLookup, id, r)
      BY <1>3, <2>1, PlainOperators DEF Plain!ModifyOrder
    <3>2. r.price = p
      BY DEF Plain!Order
    <3>3. \A k \in DOMAIN plainLookup : k # id => /\ At(era, plainLookup[k].price, k)
                                                 /\ era[plainLookup[k].price][k] = plainLookup[k]
      BY EraseFacts
    <3> HIDE DEF r, era
    <3> QED BY <3>1, <3>2, <3>3, PlainPut
  <2>2. CASE ~(ValidInput(p, q) /\ id \in DOMAIN plainLookup)
    BY <1>3, <2>2, <1>1, PlainOperators DEF Plain!ModifyOrder
  <2> QED BY <2>1, <2>2
<1>4. ASSUME NEW id \in Ids, Plain!DeleteOrder(id)
      PROVE  Agrees(plainLevels', plainLookup')
  <2>1. CASE id \in DOMAIN plainLookup
    <3> DEFINE era == Erase(plainLevels, plainLookup[id].price, id)
    <3>1. plainLevels' = era /\ plainLookup' = Without(plainLookup, id)
      BY <1>4, <2>1, PlainOperators DEF Plain!DeleteOrder
    <3>2. \A k \in DOMAIN plainLookup : k # id => /\ At(era, plainLookup[k].price, k)
                                                 /\ era[plainLookup[k].price][k] = plainLookup[k]
      BY EraseFacts
    <3> HIDE DEF era
    <3>3. /\ DOMAIN plainLookup' = DOMAIN plainLookup \ {id}
          /\ \A k \in DOMAIN plainLookup' : plainLookup'[k] = plainLookup[k]
      BY <3>1 DEF Without
    <3> QED BY <3>1, <3>2, <3>3
  <2>2. CASE id \notin DOMAIN plainLookup
    BY <1>4, <2>2, <1>1 DEF Plain!DeleteOrder
  <2> QED BY <2>1, <2>2
<1> HIDE DEF Agrees
<1> QED BY <1>1, <1>2, <1>3, <1>4 DEF BooksNext, booksVars, Add, Modify, Delete

\* phase_5's plain book: getOrder always finds an order as its level has it,
\* so modifyOrder and deleteOrder never report an inconsistent state, even
\* when ids have been added twice.
THEOREM PlainLookupIsAtLevel == BooksSpec => []LookupIsAtLevel
<1>1. BooksInit => LookupIsAtLevel
  BY PlainLookup, PlainOperators DEF BooksInit, Plain!Init, NoEntries
<1> QED BY <1>1, PlainNext, PTL DEF BooksSpec

\* The levels that hold the orders of a map, each at its price.
AtPrice(o, p) == {id \in DOMAIN o : o[id].price = p}
ByPrice(o) == [p \in {o[id].price : id \in DOMAIN o} |-> [id \in AtPrice(o, p) |-> o[id]]]

\* Inserting a new order is putting it into the map.
LEMMA InsertByPrice ==
  ASSUME NEW o, NEW id, NEW p, NEW r, r.price = p, id \notin DOMAIN o
  PROVE  Insert(ByPrice(o), p, id, r) = ByPrice(With(o, id, r))
<1> DEFINE m == With(o, id, r)
           Level2(q) == [j \in AtPrice(m, q) |-> m[j]]
<1>1. /\ DOMAIN m = DOMAIN o \cup {id} /\ m[id] = r
      /\ \A j \in DOMAIN o : j # id /\ m[j] = o[j]
  BY DEF With
<1> HIDE DEF m
<1>2. AtPrice(m, p) = AtPrice(o, p) \cup {id} /\ \A q : q # p => AtPrice(m, q) = AtPrice(o, q)
  BY <1>1 DEF AtPrice
<1>3. {m[j].price : j \in DOMAIN m} = {o[j].price : j \in DOMAIN o} \cup {p}
  BY <1>1
<1>4. Level(ByPrice(o), p) = [j \in AtPrice(o, p) |-> o[j]]
  <2>1. CASE p \in {o[j].price : j \in DOMAIN o}
    BY <2>1 DEF Level, ByPrice
  <2>2. CASE p \notin {o[j].price : j \in DOMAIN o}
    <3>1. AtPrice(o, p) = {}
      BY <2>2 DEF AtPrice
    <3> QED BY <2>2, <3>1 DEF Level, ByPrice, NoEntries
  <2> QED BY <2>1, <2>2
<1>5. With(Level(ByPrice(o), p), id, r) = Level2(p)
  BY <1>1, <1>2, <1>4 DEF With, AtPrice
<1>6. \A q \in DOMAIN ByPrice(o) : q # p => ByPrice(o)[q] = Level2(q)
  BY <1>1, <1>2 DEF ByPrice, AtPrice
<1>7. Insert(ByPrice(o), p, id, r) = [q \in DOMAIN ByPrice(o) \cup {p} |-> Level2(q)]
  BY <1>5, <1>6 DEF Insert, With
<1>8. DOMAIN ByPrice(o) = {o[j].price : j \in DOMAIN o}
  BY DEF ByPrice
<1>9. ByPrice(m) = [q \in {m[j].price : j \in DOMAIN m} |-> Level2(q)]
  BY DEF ByPrice
<1> QED BY <1>3, <1>7, <1>8, <1>9 DEF m

\* Erasing an order is taking it out of the map.
LEMMA EraseByPrice ==
  ASSUME NEW o, NEW id \in DOMAIN o
  PROVE  Erase(ByPrice(o), o[id].price, id) = ByPrice(Without(o, id))
<1> DEFINE m == Without(o, id)
           p == o[id].price
           Level2(q) == [j \in AtPrice(m, q) |-> m[j]]
<1>1. DOMAIN m = DOMAIN o \ {id} /\ \A j \in DOMAIN m : m[j] = o[j]
  BY DEF Without
<1> HIDE DEF m
<1>2. AtPrice(m, p) = AtPrice(o, p) \ {id} /\ \A q : q # p => AtPrice(m, q) = AtPrice(o, q)
  BY <1>1 DEF AtPrice
<1>3. p \in DOMAIN ByPrice(o) /\ ByPrice(o)[p] = [j \in AtPrice(o, p) |-> o[j]]
  BY DEF ByPrice
<1>4. Level(ByPrice(o), p) = [j \in AtPrice(o, p) |-> o[j]]
  BY <1>3 DEF Level
<1>5. \A q \in DOMAIN ByPrice(o) : q # p => ByPrice(o)[q] = Level2(q)
  BY <1>1, <1>2 DEF ByPrice, AtPrice
<1>6. DOMAIN ByPrice(o) = {o[j].price : j \in DOMAIN o}
  BY DEF ByPrice
<1>7. ByPrice(m) = [q \in {m[j].price : j \in DOMAIN m} |-> Level2(q)]
  BY DEF ByPrice
<1>8. CASE AtPrice(o, p) \subseteq {id}
  <2>1. Erase(ByPrice(o), p, id) = [q \in DOMAIN ByPrice(o) \ {p} |-> Level2(q)]
    BY <1>4, <1>5, <1>8 DEF Erase, Without
  <2>2. {m[j].price : j \in DOMAIN m} = {o[j].price : j \in DOMAIN o} \ {p}
    BY <1>1, <1>8 DEF AtPrice
  <2> QED BY <2>1, <2>2, <1>6, <1>7 DEF m
<1>9. CASE ~(AtPrice(o, p) \subseteq {id})
  <2>1. Without(ByPrice(o)[p], id) = Level2(p)
    BY <1>1, <1>2, <1>3 DEF Without, AtPrice
  <2>2. Erase(ByPrice(o), p, id) = With(ByPrice(o), p, Level2(p))
    BY <1>4, <1>9, <2>1 DEF Erase
  <2>3. With(ByPrice(o), p, Level2(p)) = [q \in DOMAIN ByPrice(o) |-> Level2(q)]
    BY <1>3, <1>5 DEF With
  <2>4. {m[j].price : j \in DOMAIN m} = {o[j].price : j \in DOMAIN o}
    <3>1. PICK k \in AtPrice(o, p) : k # id
      BY <1>9
    <3> QED BY <3>1, <1>1 DEF AtPrice
  <2> QED BY <2>2, <2>3, <2>4, <1>6, <1>7 DEF m
<1> QED BY <1>8, <1>9

\* Moving an order is erasing it and inserting it again.
LEMMA MoveByPrice ==
  ASSUME NEW o, NEW id \in DOMAIN o, NEW p, NEW r, r.price = p
  PROVE  Insert(Erase(ByPrice(o), o[id].price, id), p, id, r) = ByPrice(With(o, id, r))
<1>1. id \notin DOMAIN Without(o, id) /\ With(Without(o, id), id, r) = With(o, id, r)
  BY DEF With, Without
<1>2. Insert(ByPrice(Without(o, id)), p, id, r) = ByPrice(With(Without(o, id), id, r))
  BY <1>1, InsertByPrice
<1>3. Erase(ByPrice(o), o[id].price, id) = ByPrice(Without(o, id))
  BY EraseByPrice
<1>4. ByPrice(With(Without(o, id), id, r)) = ByPrice(With(o, id, r))
  BY <1>1, Zenon
<1> QED BY <1>2, <1>3, <1>4, Zenon

\* The pooled book's levels hold its orders, each at its price.
LEMMA CopiesByPrice == BookInv => Copies = ByPrice(Orders)
<1> SUFFICES ASSUME BookInv PROVE Copies = ByPrice(Orders)
  OBVIOUS
<1>1. /\ DOMAIN Orders = DOMAIN lookup
      /\ \A id \in DOMAIN lookup : Orders[id].price = pool[lookup[id]].price
  BY DEF Orders
<1>2. DOMAIN levels = {Orders[id].price : id \in DOMAIN Orders}
  <2>1. ASSUME NEW p \in DOMAIN levels PROVE \E id \in DOMAIN Orders : Orders[id].price = p
    <3>1. PICK id \in DOMAIN levels[p] : TRUE
      BY DEF BookInv, IndexInv
    <3>2. id \in DOMAIN lookup /\ pool[lookup[id]].price = p
      BY <3>1 DEF BookInv, IndexInv
    <3> QED BY <1>1, <3>2
  <2>2. ASSUME NEW id \in DOMAIN Orders PROVE Orders[id].price \in DOMAIN levels
    BY <1>1, <2>2 DEF BookInv, IndexInv, At
  <2> QED BY <2>1, <2>2
<1>3. ASSUME NEW p \in DOMAIN levels
      PROVE  DOMAIN levels[p] = AtPrice(Orders, p)
  <2>1. \A id \in DOMAIN levels[p] : id \in DOMAIN lookup /\ pool[lookup[id]].price = p
    BY DEF BookInv, IndexInv
  <2>2. \A id \in DOMAIN lookup : pool[lookup[id]].price = p => id \in DOMAIN levels[p]
    BY DEF BookInv, IndexInv, At
  <2>3. AtPrice(Orders, p) = {id \in DOMAIN lookup : pool[lookup[id]].price = p}
    BY <1>1 DEF AtPrice
  <2> QED BY <2>1, <2>2, <2>3
<1>4. \A p \in DOMAIN levels : \A id \in DOMAIN levels[p] : levels[p][id] = lookup[id]
  BY DEF BookInv, IndexInv, At
<1>5. \A p \in DOMAIN levels : \A id \in DOMAIN levels[p] :
        Orders[id] = [price |-> pool[levels[p][id]].price,
                      quantity |-> pool[levels[p][id]].quantity,
                      isBuy |-> pool[levels[p][id]].isBuy]
  BY <1>4 DEF BookInv, IndexInv, Orders
<1>6. Copies = [p \in DOMAIN levels |-> [id \in DOMAIN levels[p] |-> Orders[id]]]
  BY <1>5 DEF Copies
<1> QED BY <1>2, <1>3, <1>6 DEF ByPrice

\* What makes BooksAgree inductive: unoptimized and plain levels are those of
\* the lookups, the latter as long as no id has been added twice.
AgreeInv ==
  /\ duplicates \in Nat /\ overflows \in Nat
  /\ unoptLevels = ByPrice(unoptLookup)
  /\ \A id \in DOMAIN unoptLookup :
       unoptLookup[id] \in [price : Prices, quantity : Quantities, isBuy : BOOLEAN]
  /\ duplicates = 0 => plainLevels = ByPrice(plainLookup)
  /\ overflows = 0 => Orders = unoptLookup /\ count = unoptCount
  /\ overflows = 0 /\ duplicates = 0 => Orders = plainLookup

LEMMA AgreeImplies == BookInv /\ AgreeInv => BooksAgree
BY CopiesByPrice DEF AgreeInv, BooksAgree

LEMMA AgreeInit == BooksInit => AgreeInv
<1> SUFFICES ASSUME BooksInit PROVE AgreeInv
  OBVIOUS
<1>1. /\ lookup = NoEntries /\ count = 0 /\ duplicates = 0 /\ overflows = 0
      /\ unoptLevels = NoEntries /\ unoptLookup = NoEntries /\ unoptCount = 0
      /\ plainLevels = NoEntries /\ plainLookup = NoEntries
  BY PlainOperators, UnoptOperators DEF BooksInit, Init, Plain!Init, Unopt!Init
<1>2. ByPrice(NoEntries) = NoEntries
  BY DEF ByPrice, NoEntries
<1>3. Orders = NoEntries
  BY <1>1 DEF Orders, NoEntries
<1>4. DOMAIN unoptLookup = {}
  BY <1>1 DEF NoEntries
<1> QED BY <1>1, <1>2, <1>3, <1>4 DEF AgreeInv

\* What the calls do to the map of each book's orders.
LEMMA OrdersAdd ==
  ASSUME BookInv, NEW id \in Ids, NEW p \in Prices, NEW q \in Quantities, NEW b \in BOOLEAN,
         CanAdd(id, p, q), AddOrder(id, p, q, b)
  PROVE  Orders' = With(Orders, id, [price |-> p, quantity |-> q, isBuy |-> b])
<1> DEFINE s == Head(free)
           o == [price |-> p, quantity |-> q, isBuy |-> b]
<1>1. /\ free # <<>>
      /\ pool' = [pool EXCEPT ![s] = OrderOpt(id, p, q, b)]
      /\ lookup' = With(lookup, id, s)
  BY DEF AddOrder, CanAdd, Allocate
<1>2. s \in Slots /\ s = free[1] /\ 1 \in DOMAIN free
  BY <1>1, TailFacts DEF BookInv, TypeOK
<1>3. /\ DOMAIN lookup' = DOMAIN lookup \cup {id} /\ lookup'[id] = s
      /\ \A k \in DOMAIN lookup : k # id => lookup'[k] = lookup[k] /\ lookup[k] # s
  BY <1>1, <1>2 DEF With, BookInv, PoolInv
<1>4. /\ pool'[s] = OrderOpt(id, p, q, b)
      /\ \A k \in DOMAIN lookup : k # id => pool'[lookup[k]] = pool[lookup[k]]
  BY <1>1, <1>2, <1>3 DEF BookInv, TypeOK
<1> QED BY <1>3, <1>4 DEF Orders, With, OrderOpt

LEMMA OrdersModify ==
  ASSUME BookInv, NEW id \in Ids, NEW p \in Prices, NEW q \in Quantities,
         ValidInput(p, q) /\ id \in DOMAIN lookup, ModifyOrder(id, p, q)
  PROVE  /\ Orders' = With(Orders, id, [Orders[id] EXCEPT !.price = p, !.quantity = q])
         /\ Orders' = With(Orders, id, [price |-> p, quantity |-> q, isBuy |-> Orders[id].isBuy])
<1> DEFINE s == lookup[id]
<1>1. Orders' = With(Orders, id, [Orders[id] EXCEPT !.price = p, !.quantity = q])
  BY ModifyMaps DEF Map!Modify, Map!With, With
<1>2. lookup' = lookup /\ pool' = [pool EXCEPT ![s].price = p, ![s].quantity = q]
  BY DEF ModifyOrder
<1>3. /\ pool'[s].price = p /\ pool'[s].quantity = q /\ pool'[s].isBuy = pool[s].isBuy
      /\ \A k \in DOMAIN lookup : k # id => pool'[lookup[k]] = pool[lookup[k]]
  BY <1>2 DEF BookInv, TypeOK, PoolInv
<1>4. Orders[id].isBuy = pool[s].isBuy
  BY DEF Orders
<1>5. Orders' = With(Orders, id, [price |-> p, quantity |-> q, isBuy |-> Orders[id].isBuy])
  BY <1>2, <1>3, <1>4 DEF Orders, With
<1> QED BY <1>1, <1>5

\* A call of addOrder on the three books.
LEMMA AgreeAdd ==
  ASSUME BookInv, AgreeInv, NEW id \in Ids, NEW p \in Prices, NEW q \in Quantities,
         NEW b \in BOOLEAN, Add(id, p, q, b)
  PROVE  AgreeInv'
<1> DEFINE o == [price |-> p, quantity |-> q, isBuy |-> b]
<1>1. /\ AddOrder(id, p, q, b) /\ Plain!AddOrder(id, p, q, b) /\ Unopt!AddOrder(id, p, q, b)
      /\ duplicates' = duplicates + Count(IsDuplicate(id, p, q))
      /\ overflows' = overflows + Count(Overflows(id, p, q))
  BY DEF Add
<1>2. /\ duplicates' \in Nat /\ overflows' \in Nat
      /\ duplicates' = 0 => duplicates = 0 /\ ~IsDuplicate(id, p, q)
      /\ overflows' = 0 => overflows = 0 /\ ~Overflows(id, p, q)
  BY <1>1 DEF Count, AgreeInv
<1>3. o.price = p /\ Plain!Order(p, q, b) = o /\ Unopt!Order(p, q, b) = o
      /\ o \in [price : Prices, quantity : Quantities, isBuy : BOOLEAN]
  BY DEF Plain!Order, Unopt!Order
<1>4. Unopt!CanAdd(id, p, q) <=> ValidInput(p, q) /\ id \notin DOMAIN unoptLookup
  BY UnoptOperators DEF Unopt!CanAdd
<1>5. CASE ~ValidInput(p, q)
  <2>1. /\ UNCHANGED vars
        /\ UNCHANGED <<plainLevels, plainLookup, unoptLevels, unoptLookup, unoptCount>>
    BY <1>1, <1>4, <1>5, PlainOperators
    DEF AddOrder, CanAdd, Plain!AddOrder, Unopt!AddOrder, Unopt!vars
  <2>2. Orders' = Orders /\ count' = count
    BY <2>1 DEF vars, Orders
  <2> QED BY <2>1, <2>2, <1>2 DEF AgreeInv
<1>6. CASE ValidInput(p, q)
  <2>1. /\ plainLevels' = Insert(plainLevels, p, id, o)
        /\ plainLookup' = With(plainLookup, id, o)
    BY <1>1, <1>3, <1>6, PlainOperators DEF Plain!AddOrder
  <2>2. IF id \in DOMAIN unoptLookup
        THEN UNCHANGED <<unoptLevels, unoptLookup, unoptCount>>
        ELSE /\ unoptLevels' = Insert(unoptLevels, p, id, o)
             /\ unoptLookup' = With(unoptLookup, id, o)
             /\ unoptCount' = unoptCount + 1
    BY <1>1, <1>3, <1>4, <1>6, UnoptOperators DEF Unopt!AddOrder, Unopt!vars
  <2> HIDE DEF o
  <2>3. unoptLevels' = ByPrice(unoptLookup')
    BY <2>2, <1>3, InsertByPrice DEF AgreeInv
  <2>4. ASSUME NEW k \in DOMAIN unoptLookup'
        PROVE  unoptLookup'[k] \in [price : Prices, quantity : Quantities, isBuy : BOOLEAN]
    BY <2>2, <1>3 DEF AgreeInv, With
  <2>5. ASSUME duplicates' = 0
        PROVE  /\ plainLevels' = ByPrice(plainLookup')
               /\ id \notin DOMAIN plainLookup
    <3>1. id \notin DOMAIN plainLookup /\ plainLevels = ByPrice(plainLookup)
      BY <2>5, <1>2, <1>6 DEF IsDuplicate, AgreeInv
    <3> QED BY <3>1, <2>1, <1>3, InsertByPrice
  <2>6. ASSUME overflows' = 0
        PROVE  /\ Orders' = unoptLookup' /\ count' = unoptCount'
               /\ duplicates' = 0 => Orders' = plainLookup'
    <3>1. /\ overflows = 0 /\ Orders = unoptLookup /\ count = unoptCount
          /\ DOMAIN Orders = DOMAIN lookup
      BY <2>6, <1>2 DEF AgreeInv, Orders
    <3>2. CASE id \in DOMAIN lookup
      <4>1. Orders' = Orders /\ count' = count
        BY <3>2, <1>1 DEF AddOrder, CanAdd, vars, Orders
      <4>2. ~(duplicates' = 0)
        BY <3>1, <3>2, <2>5, <1>2 DEF AgreeInv
      <4> QED BY <3>1, <3>2, <4>1, <4>2, <2>2
    <3>3. CASE id \notin DOMAIN lookup
      <4>1. CanAdd(id, p, q)
        BY <2>6, <3>1, <3>3, <1>2, <1>4, <1>6 DEF CanAdd, Overflows
      <4>2. Orders' = With(Orders, id, o) /\ count' = count + 1
        BY <4>1, <1>1, OrdersAdd DEF o, AddOrder, CanAdd
      <4>3. Orders' = unoptLookup' /\ count' = unoptCount'
        BY <4>2, <3>1, <3>3, <2>2
      <4>4. duplicates' = 0 => Orders' = plainLookup'
        BY <4>2, <3>1, <2>1, <1>2 DEF AgreeInv
      <4> QED BY <4>3, <4>4
    <3> QED BY <3>2, <3>3
  <2> QED BY <2>3, <2>4, <2>5, <2>6, <1>2 DEF AgreeInv
<1> QED BY <1>5, <1>6

\* A call of modifyOrder on the three books.
LEMMA AgreeModify ==
  ASSUME BookInv, AgreeInv, NEW id \in Ids, NEW p \in Prices, NEW q \in Quantities,
         Modify(id, p, q)
  PROVE  AgreeInv'
<1>1. /\ ModifyOrder(id, p, q) /\ Plain!ModifyOrder(id, p, q) /\ Unopt!ModifyOrder(id, p, q)
      /\ duplicates' = duplicates /\ overflows' = overflows
  BY DEF Modify
<1>2. count' = count
  BY <1>1 DEF ModifyOrder, vars
<1>3. unoptCount' = unoptCount
  BY <1>1 DEF Unopt!ModifyOrder, Unopt!vars
<1>4. /\ unoptLevels' = ByPrice(unoptLookup')
      /\ \A k \in DOMAIN unoptLookup' :
           unoptLookup'[k] \in [price : Prices, quantity : Quantities, isBuy : BOOLEAN]
  <2>1. CASE ValidInput(p, q) /\ id \in DOMAIN unoptLookup
    <3> DEFINE o == [unoptLookup[id] EXCEPT !.price = p, !.quantity = q]
    <3>1. /\ unoptLevels' = Insert(Erase(unoptLevels, unoptLookup[id].price, id), p, id, o)
          /\ unoptLookup' = [unoptLookup EXCEPT ![id] = o]
      BY <1>1, <2>1, UnoptOperators DEF Unopt!ModifyOrder
    <3>2. o \in [price : Prices, quantity : Quantities, isBuy : BOOLEAN] /\ o.price = p
      BY <2>1 DEF AgreeInv
    <3> HIDE DEF o
    <3>3. unoptLookup' = With(unoptLookup, id, o)
      BY <2>1, <3>1 DEF With
    <3>4. unoptLevels' = ByPrice(unoptLookup')
      <4>1. Insert(Erase(ByPrice(unoptLookup), unoptLookup[id].price, id), p, id, o)
              = ByPrice(With(unoptLookup, id, o))
        BY <2>1, <3>2, MoveByPrice
      <4>2. unoptLevels = ByPrice(unoptLookup)
        BY DEF AgreeInv
      <4> QED BY <3>1, <3>3, <4>1, <4>2
    <3> QED BY <3>2, <3>3, <3>4 DEF AgreeInv, With
  <2>2. CASE ~(ValidInput(p, q) /\ id \in DOMAIN unoptLookup)
    BY <1>1, <2>2, UnoptOperators DEF Unopt!ModifyOrder, Unopt!vars, AgreeInv
  <2> QED BY <2>1, <2>2
<1>5. ASSUME duplicates' = 0
      PROVE  plainLevels' = ByPrice(plainLookup')
  <2>1. plainLevels = ByPrice(plainLookup)
    BY <1>1, <1>5 DEF AgreeInv
  <2>2. CASE ValidInput(p, q) /\ id \in DOMAIN plainLookup
    <3> DEFINE o == Plain!Order(p, q, plainLookup[id].isBuy)
    <3>1. /\ plainLevels' = Insert(Erase(plainLevels, plainLookup[id].price, id), p, id, o)
          /\ plainLookup' = With(plainLookup, id, o)
      BY <1>1, <2>2, PlainOperators DEF Plain!ModifyOrder
    <3>2. o.price = p
      BY DEF Plain!Order
    <3> HIDE DEF o
    <3> QED BY <2>1, <2>2, <3>1, <3>2, MoveByPrice
  <2>3. CASE ~(ValidInput(p, q) /\ id \in DOMAIN plainLookup)
    BY <1>1, <2>1, <2>3, PlainOperators DEF Plain!ModifyOrder
  <2> QED BY <2>2, <2>3
<1>6. ASSUME overflows' = 0
      PROVE  /\ Orders' = unoptLookup'
             /\ duplicates' = 0 => Orders' = plainLookup'
  <2>1. /\ Orders = unoptLookup /\ DOMAIN Orders = DOMAIN lookup
        /\ duplicates' = 0 => Orders = plainLookup
    BY <1>1, <1>6 DEF AgreeInv, Orders
  <2>2. CASE ValidInput(p, q) /\ id \in DOMAIN lookup
    <3>1. /\ Orders' = With(Orders, id, [Orders[id] EXCEPT !.price = p, !.quantity = q])
          /\ Orders' = With(Orders, id, [price |-> p, quantity |-> q,
                                         isBuy |-> Orders[id].isBuy])
      BY <2>2, <1>1, OrdersModify
    <3>2. Orders' = unoptLookup'
      <4> DEFINE o == [unoptLookup[id] EXCEPT !.price = p, !.quantity = q]
      <4>1. unoptLookup' = [unoptLookup EXCEPT ![id] = o]
        BY <1>1, <2>1, <2>2, UnoptOperators DEF Unopt!ModifyOrder
      <4>2. Orders' = With(unoptLookup, id, o)
        BY <2>1, <3>1
      <4> HIDE DEF o
      <4> QED BY <2>1, <2>2, <4>1, <4>2 DEF With
    <3>3. ASSUME duplicates' = 0
          PROVE  Orders' = plainLookup'
      <4>1. plainLookup' = With(plainLookup, id, Plain!Order(p, q, plainLookup[id].isBuy))
        BY <1>1, <2>1, <2>2, <3>3, PlainOperators DEF Plain!ModifyOrder
      <4> QED BY <2>1, <3>1, <3>3, <4>1 DEF Plain!Order
    <3> QED BY <3>2, <3>3
  <2>3. CASE ~(ValidInput(p, q) /\ id \in DOMAIN lookup)
    <3>1. Orders' = Orders
      BY <1>1, <2>3 DEF ModifyOrder, vars, Orders
    <3>2. unoptLookup' = unoptLookup
      BY <1>1, <2>1, <2>3, UnoptOperators DEF Unopt!ModifyOrder, Unopt!vars
    <3>3. duplicates' = 0 => plainLookup' = plainLookup
      BY <1>1, <2>1, <2>3, PlainOperators DEF Plain!ModifyOrder
    <3> QED BY <2>1, <3>1, <3>2, <3>3
  <2> QED BY <2>2, <2>3
<1> QED BY <1>1, <1>2, <1>3, <1>4, <1>5, <1>6 DEF AgreeInv

\* A call of deleteOrder on the three books.
LEMMA AgreeDelete ==
  ASSUME BookInv, AgreeInv, NEW id \in Ids, Delete(id)
  PROVE  AgreeInv'
<1>1. /\ DeleteOrder(id) /\ Plain!DeleteOrder(id) /\ Unopt!DeleteOrder(id)
      /\ duplicates' = duplicates /\ overflows' = overflows
  BY DEF Delete
<1>2. /\ unoptLevels' = ByPrice(unoptLookup')
      /\ \A k \in DOMAIN unoptLookup' :
           unoptLookup'[k] \in [price : Prices, quantity : Quantities, isBuy : BOOLEAN]
  <2>1. CASE id \in DOMAIN unoptLookup
    <3>1. /\ unoptLevels' = Erase(unoptLevels, unoptLookup[id].price, id)
          /\ unoptLookup' = Without(unoptLookup, id)
      BY <1>1, <2>1, UnoptOperators DEF Unopt!DeleteOrder
    <3>2. unoptLevels' = ByPrice(unoptLookup')
      BY <2>1, <3>1, EraseByPrice DEF AgreeInv
    <3> QED BY <3>1, <3>2 DEF AgreeInv, Without
  <2>2. CASE id \notin DOMAIN unoptLookup
    BY <1>1, <2>2 DEF Unopt!DeleteOrder, Unopt!vars, AgreeInv
  <2> QED BY <2>1, <2>2
<1>3. ASSUME duplicates' = 0
      PROVE  plainLevels' = ByPrice(plainLookup')
  <2>1. plainLevels = ByPrice(plainLookup)
    BY <1>1, <1>3 DEF AgreeInv
  <2>2. CASE id \in DOMAIN plainLookup
    <3>1. /\ plainLevels' = Erase(plainLevels, plainLookup[id].price, id)
          /\ plainLookup' = Without(plainLookup, id)
      BY <1>1, <2>2, PlainOperators DEF Plain!DeleteOrder
    <3> QED BY <2>1, <2>2, <3>1, EraseByPrice
  <2>3. CASE id \notin DOMAIN plainLookup
    BY <1>1, <2>1, <2>3 DEF Plain!DeleteOrder
  <2> QED BY <2>2, <2>3
<1>4. ASSUME overflows' = 0
      PROVE  /\ Orders' = unoptLookup' /\ count' = unoptCount'
             /\ duplicates' = 0 => Orders' = plainLookup'
  <2>1. /\ Orders = unoptLookup /\ DOMAIN Orders = DOMAIN lookup /\ count = unoptCount
        /\ duplicates' = 0 => Orders = plainLookup
    BY <1>1, <1>4 DEF AgreeInv, Orders
  <2>2. CASE id \in DOMAIN lookup
    <3>1. Orders' = Without(Orders, id) /\ count' = count - 1
      BY <2>2, <1>1 DEF DeleteOrder, Deallocate, Orders, Without
    <3>2. unoptLookup' = Without(unoptLookup, id) /\ unoptCount' = unoptCount - 1
      BY <1>1, <2>1, <2>2, UnoptOperators DEF Unopt!DeleteOrder
    <3>3. duplicates' = 0 => plainLookup' = Without(plainLookup, id)
      BY <1>1, <2>1, <2>2, PlainOperators DEF Plain!DeleteOrder
    <3> QED BY <2>1, <3>1, <3>2, <3>3
  <2>3. CASE id \notin DOMAIN lookup
    <3>1. Orders' = Orders /\ count' = count
      BY <1>1, <2>3 DEF DeleteOrder, vars, Orders
    <3>2. unoptLookup' = unoptLookup /\ unoptCount' = unoptCount
      BY <1>1, <2>1, <2>3 DEF Unopt!DeleteOrder, Unopt!vars
    <3>3. duplicates' = 0 => plainLookup' = plainLookup
      BY <1>1, <2>1, <2>3 DEF Plain!DeleteOrder
    <3> QED BY <2>1, <3>1, <3>2, <3>3
  <2> QED BY <2>2, <2>3
<1> QED BY <1>1, <1>2, <1>3, <1>4 DEF AgreeInv

LEMMA AgreeNext == BookInv /\ AgreeInv /\ [BooksNext]_booksVars => AgreeInv'
<1> SUFFICES ASSUME BookInv, AgreeInv, [BooksNext]_booksVars PROVE AgreeInv'
  OBVIOUS
<1>1. CASE UNCHANGED booksVars
  BY <1>1 DEF booksVars, vars, AgreeInv, Orders
<1>2. CASE BooksNext
  BY <1>2, AgreeAdd, AgreeModify, AgreeDelete DEF BooksNext
<1> QED BY <1>1, <1>2

\* The invariant of the pooled book holds when it runs beside the others.
THEOREM BooksBookInv == BooksSpec => []BookInv
<1>1. BooksInit => BookInv
  BY InitBook DEF BooksInit
<1> QED BY <1>1, NextBook, BooksSteps, PTL DEF BooksSpec

\* The three books of week 5 cannot be told apart by getOrder, the levels or
\* the count of active orders, as long as no id has been added twice and the
\* pool has not been exhausted; hw_5's pair does not need the first condition.
THEOREM BooksAlwaysAgree == BooksSpec => []BooksAgree
BY BooksBookInv, AgreeInit, AgreeNext, AgreeImplies, PTL DEF BooksSpec

-----------------------------------------------------------------------------
(***************************************************************************)
(* OrderPriorityQueue                                                      *)
(***************************************************************************)

\* h is one of the vectors with the orders s, each of them once.
Arranged(h, s) ==
  /\ h \in Seq(HeapOrders) /\ {h[i] : i \in DOMAIN h} = s
  /\ \A i, j \in DOMAIN h : h[i] = h[j] => i = j

\* Nobody beats the order above, but for those at, or those below, place i;
\* and those below i do not beat the one above i.
HeapButAt(h, i) ==
  /\ \A j \in DOMAIN h : j > 1 /\ j # i => ~Compare(h[Parent(j)], h[j])
  /\ \A j \in DOMAIN h : i > 1 /\ j > 1 /\ Parent(j) = i => ~Compare(h[Parent(i)], h[j])

HeapButBelow(h, i) ==
  /\ \A j \in DOMAIN h : j > 1 /\ Parent(j) # i => ~Compare(h[Parent(j)], h[j])
  /\ \A j \in DOMAIN h : i > 1 /\ j > 1 /\ Parent(j) = i => ~Compare(h[Parent(i)], h[j])

IsHeap(h) == \A j \in DOMAIN h : j > 1 => ~Compare(h[Parent(j)], h[j])

HeapInv == Arranged(heap_, held) /\ IsHeap(heap_)

\* The places above and below.
LEMMA ParentFacts ==
  ASSUME NEW i \in Nat, i > 1
  PROVE  Parent(i) \in Nat /\ Parent(i) >= 1 /\ Parent(i) < i
BY DEF Parent

LEMMA ChildFacts ==
  ASSUME NEW i \in Nat, i >= 1, NEW j \in Nat
  PROVE  j > 1 /\ Parent(j) = i <=> j = 2 * i \/ j = 2 * i + 1
BY DEF Parent

\* Compare is a strict order of the prices.
LEMMA CompareFacts ==
  ASSUME NEW a \in HeapOrders, NEW b \in HeapOrders, NEW c \in HeapOrders
  PROVE  /\ Compare(a, b) => ~Compare(b, a) 
         /\ ~Compare(a, b) /\ ~Compare(b, c) => ~Compare(a, c)
         /\ Compare(a, b) /\ ~Compare(a, c) => ~Compare(b, c)
         /\ ~Compare(a, a)
BY PriorityQueueAssumption DEF Compare

\* Two orders change places.
IsSwapped(g, h, i, j) ==
  /\ DOMAIN g = DOMAIN h /\ Len(g) = Len(h)
  /\ g[i] = h[j] /\ g[j] = h[i] /\ \A k \in DOMAIN h : k # i /\ k # j => g[k] = h[k]

\* A swap keeps the orders of the vector.
LEMMA SwapFacts ==
  ASSUME NEW s, NEW h, Arranged(h, s), NEW i \in DOMAIN h, NEW j \in DOMAIN h, i # j
  PROVE  /\ Arranged(Swapped(h, i, j), s)
         /\ IsSwapped(Swapped(h, i, j), h, i, j)
<1> DEFINE g == Swapped(h, i, j)
<1>1. h \in Seq(HeapOrders) /\ DOMAIN h = 1 .. Len(h) /\ Len(h) \in Nat
  BY DEF Arranged
<1>2. /\ g \in Seq(HeapOrders) /\ Len(g) = Len(h) /\ DOMAIN g = DOMAIN h
      /\ g[i] = h[j] /\ g[j] = h[i] /\ \A k \in DOMAIN h : k # i /\ k # j => g[k] = h[k]
  BY <1>1 DEF Swapped
<1> HIDE DEF g
<1>3. \A k, l \in DOMAIN g : g[k] = g[l] => k = l
  BY <1>2 DEF Arranged
<1>4. {g[k] : k \in DOMAIN g} = {h[k] : k \in DOMAIN h}
  <2>1. \A k \in DOMAIN g : \E l \in DOMAIN h : g[k] = h[l]
    BY <1>2
  <2>2. \A l \in DOMAIN h : \E k \in DOMAIN g : g[k] = h[l]
    BY <1>2
  <2> QED BY <2>1, <2>2
<1>5. Arranged(g, s)
  BY <1>2, <1>3, <1>4 DEF Arranged
<1>6. IsSwapped(g, h, i, j)
  BY <1>2 DEF IsSwapped
<1> QED BY <1>5, <1>6 DEF g

\* A pass of heapify_up.
LEMMA UpPassKeeps ==
  ASSUME NEW s, NEW h, NEW i \in DOMAIN h, i > 1, Arranged(h, s), HeapButAt(h, i),
         Compare(h[Parent(i)], h[i])
  PROVE  /\ Parent(i) \in DOMAIN h
         /\ Arranged(Swapped(h, i, Parent(i)), s)
         /\ HeapButAt(Swapped(h, i, Parent(i)), Parent(i))
         /\ DOMAIN Swapped(h, i, Parent(i)) = DOMAIN h
<1>1. h \in Seq(HeapOrders) /\ DOMAIN h = 1 .. Len(h) /\ Len(h) \in Nat /\ i \in Nat
      /\ \A j \in DOMAIN h : h[j] \in HeapOrders /\ j \in Nat /\ j >= 1
  BY DEF Arranged
<1>2. PICK p : p = Parent(i)
  OBVIOUS
<1>3. p \in DOMAIN h /\ p < i /\ p # i
  BY <1>1, <1>2, ParentFacts
<1>4. PICK g : g = Swapped(h, i, p)
  OBVIOUS
<1>5. Arranged(g, s) /\ IsSwapped(g, h, i, p)
  BY <1>3, <1>4, SwapFacts
<1>6. DOMAIN g = DOMAIN h
  BY <1>5 DEF IsSwapped
<1>7. g[i] = h[p] /\ g[p] = h[i] /\ \A k \in DOMAIN h : k # i /\ k # p => g[k] = h[k]
  BY <1>5 DEF IsSwapped
<1>8. \A j \in DOMAIN h : j > 1 => Parent(j) \in DOMAIN h /\ Parent(j) < j
  BY <1>1, ParentFacts
<1>9. \A j \in DOMAIN h : j > 1 /\ j # i => ~Compare(h[Parent(j)], h[j])
  BY DEF HeapButAt
<1>10. \A j \in DOMAIN h : j > 1 /\ Parent(j) = i => ~Compare(h[p], h[j])
  BY <1>2 DEF HeapButAt
<1>11. Compare(h[p], h[i])
  BY <1>2
<1>12. ASSUME NEW j \in DOMAIN h, j > 1, j # p PROVE ~Compare(g[Parent(j)], g[j])
  <2>1. CASE j = i
    BY <1>1, <1>2, <1>3, <1>7, <1>11, <2>1, CompareFacts
  <2>2. CASE j # i /\ Parent(j) = i
    BY <1>7, <1>10, <1>12, <2>2
  <2>3. CASE j # i /\ Parent(j) = p
    <3>1. ~Compare(h[p], h[j])
      BY <1>9, <1>12, <2>3
    <3>2. ~Compare(h[i], h[j])
      BY <1>1, <1>3, <1>11, <3>1, CompareFacts
    <3> QED BY <1>7, <1>12, <2>3, <3>2
  <2>4. CASE j # i /\ Parent(j) # i /\ Parent(j) # p
    BY <1>7, <1>8, <1>9, <1>12, <2>4
  <2> QED BY <2>1, <2>2, <2>3, <2>4
<1>13. ASSUME NEW j \in DOMAIN h, p > 1, j > 1, Parent(j) = p PROVE ~Compare(g[Parent(p)], g[j])
  <2>1. Parent(p) \in DOMAIN h /\ Parent(p) # p /\ Parent(p) # i
    <3>1. p \in Nat /\ i \in Nat /\ Parent(p) \in Nat /\ Parent(p) < p /\ Parent(p) \in DOMAIN h
      BY <1>1, <1>3, <1>8, <1>13
    <3> QED BY <1>3, <3>1
  <2>2. g[Parent(p)] = h[Parent(p)] /\ ~Compare(h[Parent(p)], h[p])
    BY <1>3, <1>7, <1>9, <1>13, <2>1
  <2>3. CASE j = i
    BY <1>7, <2>2, <2>3
  <2>4. CASE j # i
    <3>1. ~Compare(h[p], h[j]) /\ j # p
      BY <1>8, <1>9, <1>1, <1>13, <2>4
    <3>2. ~Compare(h[Parent(p)], h[j])
      BY <1>1, <1>3, <2>1, <2>2, <3>1, CompareFacts
    <3> QED BY <1>7, <2>2, <2>4, <3>1, <3>2
  <2> QED BY <2>3, <2>4
<1>14. HeapButAt(g, p)
  BY <1>6, <1>12, <1>13 DEF HeapButAt
<1> QED BY <1>2, <1>3, <1>4, <1>5, <1>6, <1>14

\* A swap leads to a state of the loops.
LEMMA SwappedState ==
  ASSUME NEW x \in HeapState, NEW j \in DOMAIN x.heap
  PROVE  [heap |-> Swapped(x.heap, x.index, j), index |-> j] \in HeapState
<1>1. x.heap \in Seq(HeapOrders) /\ x.index \in DOMAIN x.heap /\ DOMAIN x.heap = 1 .. Len(x.heap)
      /\ Len(x.heap) \in Nat
  BY DEF HeapState
<1>2. PICK h \in Seq(HeapOrders) : h = x.heap
  BY <1>1
<1>3. PICK i \in DOMAIN h : i = x.index
  BY <1>1, <1>2
<1>4. PICK g : g = Swapped(h, i, j)
  OBVIOUS
<1>5. g \in Seq(HeapOrders) /\ Len(g) = Len(h)
  BY <1>1, <1>2, <1>4 DEF Swapped
<1>6. j \in Nat \ {0} /\ j <= Len(g)
  BY <1>1, <1>2, <1>5
<1> QED BY <1>2, <1>3, <1>4, <1>5, <1>6 DEF HeapState

LEMMA UpPassType == UpPass \in [HeapState -> HeapState]
<1>1. ASSUME NEW x \in HeapState, x.index > 1
      PROVE  [heap |-> Swapped(x.heap, x.index, Parent(x.index)), index |-> Parent(x.index)]
               \in HeapState
  <2>1. Parent(x.index) \in DOMAIN x.heap
    BY <1>1, ParentFacts DEF HeapState
  <2> QED BY <2>1, SwappedState
<1> QED BY <1>1 DEF UpPass

\* heapify_up mends a heap whose order at place i may beat the one above it.
LEMMA UpMends ==
  ASSUME NEW s, NEW h, NEW i \in DOMAIN h, Arranged(h, s), HeapButAt(h, i)
  PROVE  Arranged(heapify_up(h, i), s) /\ IsHeap(heapify_up(h, i))
<1> DEFINE start == [heap |-> h, index |-> i]
           Over(x) == ~(x.index > 1 /\ Compare(x.heap[Parent(x.index)], x.heap[x.index]))
           Good(n) == {x \in HeapState : /\ Arranged(x.heap, s) /\ HeapButAt(x.heap, x.index)
                                         /\ x.index \in DOMAIN x.heap
                                         /\ Over(x) \/ x.index <= i - n}
           J == [n \in Nat |-> Good(n)]
<1>1. h \in Seq(HeapOrders) /\ DOMAIN h = 1 .. Len(h) /\ Len(h) \in Nat /\ i \in Nat
  BY DEF Arranged
<1>2. UpPass \in [HeapState -> HeapState]
  BY UpPassType
<1>3. start \in HeapState /\ start \in J[0]
  BY <1>1 DEF HeapState
<1>4. ASSUME NEW n \in Nat, NEW x \in HeapState, x \in J[n]
      PROVE  UpPass[x] \in J[n + 1]
  <2>1. CASE Over(x)
    BY <1>4, <2>1 DEF UpPass
  <2>2. CASE ~Over(x)
    <3> DEFINE p == Parent(x.index)
               g == Swapped(x.heap, x.index, p)
    <3>1. /\ x.index \in DOMAIN x.heap /\ Arranged(x.heap, s) /\ HeapButAt(x.heap, x.index)
          /\ x.index > 1 /\ Compare(x.heap[p], x.heap[x.index]) /\ x.index <= i - n
      BY <1>4, <2>2
    <3>2. p \in DOMAIN x.heap /\ Arranged(g, s) /\ HeapButAt(g, p) /\ DOMAIN g = DOMAIN x.heap
      BY <3>1, UpPassKeeps
    <3>3. UpPass[x] = [heap |-> g, index |-> p]
      BY <3>1 DEF UpPass
    <3>4. UpPass[x] \in HeapState
      BY <1>2
    <3>5. p <= i - (n + 1)
      <4>1. x.index \in Nat /\ p < x.index /\ p \in Nat /\ i \in Nat
        BY <1>1, <3>1, ParentFacts DEF HeapState
      <4> QED BY <3>1, <4>1
    <3> HIDE DEF p, g
    <3>6. UpPass[x] \in Good(n + 1)
      BY <3>2, <3>3, <3>4, <3>5
    <3> QED BY <3>6
  <2> QED BY <2>1, <2>2
<1>5. PICK x : x = Passes(UpPass, start)[i]
  OBVIOUS
<1>6. x \in Good(i)
  <2> HIDE DEF start, Good
  <2>1. x \in J[i]
    <3> HIDE DEF J
    <3> QED BY <1>1, <1>2, <1>3, <1>4, <1>5, LoopInvariant
  <2> QED BY <1>1, <2>1
<1>7. Over(x)
  <2>1. x.index \in DOMAIN x.heap /\ x.index \in Nat
    BY <1>6 DEF HeapState
  <2>2. x.index >= 1 /\ i - i = 0
    BY <1>1, <1>6, <2>1 DEF Arranged
  <2> QED BY <1>6, <2>1, <2>2
<1>8. IsHeap(x.heap)
  BY <1>6, <1>7 DEF IsHeap, HeapButAt
<1>9. heapify_up(h, i) = x.heap
  BY <1>5 DEF heapify_up
<1> QED BY <1>6, <1>8, <1>9

\* A child that is not beaten by its sibling, as long as there is a child.
LEMMA MaxChildFacts ==
  ASSUME NEW s, NEW h, Arranged(h, s), NEW i \in DOMAIN h, 2 * i <= Len(h)
  PROVE  /\ MaxChild(h, i) \in DOMAIN h /\ MaxChild(h, i) > 1 /\ Parent(MaxChild(h, i)) = i
         /\ MaxChild(h, i) > i
         /\ \A j \in DOMAIN h : j > 1 /\ Parent(j) = i => ~Compare(h[MaxChild(h, i)], h[j])
<1>1. /\ DOMAIN h = 1 .. Len(h) /\ Len(h) \in Nat /\ i \in Nat /\ i >= 1
      /\ \A j \in DOMAIN h : h[j] \in HeapOrders /\ j \in Nat
  BY DEF Arranged
<1>2. PICK c : c = MaxChild(h, i)
  OBVIOUS
<1>3. c = 2 * i \/ c = 2 * i + 1
  BY <1>2 DEF MaxChild
<1>4. c \in DOMAIN h /\ c \in Nat /\ c > i
  BY <1>1, <1>2 DEF MaxChild
<1>5. c > 1 /\ Parent(c) = i
  BY <1>1, <1>3, <1>4, ChildFacts
<1>6. ASSUME NEW j \in DOMAIN h, j > 1, Parent(j) = i PROVE ~Compare(h[c], h[j])
  <2>1. j = 2 * i \/ j = 2 * i + 1
    BY <1>1, <1>6, ChildFacts
  <2>2. j <= Len(h) /\ h[j] \in HeapOrders /\ h[2 * i] \in HeapOrders
    BY <1>1
  <2>3. CASE j = c
    BY <1>1, <2>3, CompareFacts
  <2>4. CASE j # c
    <3>1. CASE 2 * i + 1 <= Len(h) /\ Compare(h[2 * i], h[2 * i + 1])
      <4>1. c = 2 * i + 1 /\ j = 2 * i
        BY <1>2, <2>1, <2>4, <3>1 DEF MaxChild
      <4>2. h[2 * i + 1] \in HeapOrders
        BY <1>4, <1>1, <4>1
      <4> QED BY <2>2, <3>1, <4>1, <4>2, CompareFacts
    <3>2. CASE ~(2 * i + 1 <= Len(h) /\ Compare(h[2 * i], h[2 * i + 1]))
      <4>1. c = 2 * i /\ j = 2 * i + 1
        BY <1>2, <2>1, <2>4, <3>2 DEF MaxChild
      <4> QED BY <2>2, <3>2, <4>1
    <3> QED BY <3>1, <3>2
  <2> QED BY <2>3, <2>4
<1> QED BY <1>2, <1>4, <1>5, <1>6

\* A pass of heapify_down.
LEMMA DownPassKeeps ==
  ASSUME NEW s, NEW h, NEW i \in DOMAIN h, Arranged(h, s), HeapButBelow(h, i),
         2 * i <= Len(h), Compare(h[i], h[MaxChild(h, i)])
  PROVE  /\ MaxChild(h, i) \in DOMAIN h /\ MaxChild(h, i) > i
         /\ Arranged(Swapped(h, i, MaxChild(h, i)), s)
         /\ HeapButBelow(Swapped(h, i, MaxChild(h, i)), MaxChild(h, i))
         /\ DOMAIN Swapped(h, i, MaxChild(h, i)) = DOMAIN h
         /\ Len(Swapped(h, i, MaxChild(h, i))) = Len(h)
<1>1. h \in Seq(HeapOrders) /\ DOMAIN h = 1 .. Len(h) /\ Len(h) \in Nat /\ i \in Nat
      /\ \A j \in DOMAIN h : h[j] \in HeapOrders /\ j \in Nat /\ j >= 1
  BY DEF Arranged
<1>2. PICK c : c = MaxChild(h, i)
  OBVIOUS
<1>3. /\ c \in DOMAIN h /\ c > 1 /\ Parent(c) = i /\ c > i /\ c # i
      /\ \A j \in DOMAIN h : j > 1 /\ Parent(j) = i => ~Compare(h[c], h[j])
  <2>1. c > i => c # i
    BY <1>1
  <2> QED BY <1>2, <2>1, MaxChildFacts
<1>4. PICK g : g = Swapped(h, i, c)
  OBVIOUS
<1>5. Arranged(g, s) /\ IsSwapped(g, h, i, c)
  BY <1>3, <1>4, SwapFacts
<1>6. DOMAIN g = DOMAIN h /\ Len(g) = Len(h)
  BY <1>5 DEF IsSwapped
<1>7. g[i] = h[c] /\ g[c] = h[i] /\ \A k \in DOMAIN h : k # i /\ k # c => g[k] = h[k]
  BY <1>5 DEF IsSwapped
<1>8. \A j \in DOMAIN h : j > 1 => Parent(j) \in DOMAIN h /\ Parent(j) < j
  BY <1>1, ParentFacts
<1>9. \A j \in DOMAIN h : j > 1 /\ Parent(j) # i => ~Compare(h[Parent(j)], h[j])
  BY DEF HeapButBelow
<1>10. i > 1 => ~Compare(h[Parent(i)], h[c])
  BY <1>3 DEF HeapButBelow
<1>11. Compare(h[i], h[c])
  BY <1>2
<1>12. ASSUME NEW j \in DOMAIN h, j > 1, Parent(j) # c PROVE ~Compare(g[Parent(j)], g[j])
  <2>1. CASE j = i
    <3>1. Parent(i) # i /\ Parent(i) \in DOMAIN h
      BY <1>1, <1>8, <1>12, <2>1
    <3> QED BY <1>7, <1>10, <1>12, <2>1, <3>1
  <2>2. CASE j = c
    BY <1>1, <1>3, <1>7, <1>11, <2>2, CompareFacts
  <2>3. CASE j # i /\ j # c /\ Parent(j) = i
    BY <1>3, <1>7, <1>12, <2>3
  <2>4. CASE j # i /\ j # c /\ Parent(j) # i
    BY <1>7, <1>8, <1>9, <1>12, <2>4
  <2> QED BY <2>1, <2>2, <2>3, <2>4
<1>13. ASSUME NEW j \in DOMAIN h, j > 1, Parent(j) = c PROVE ~Compare(g[Parent(c)], g[j])
  <2>1. j # c /\ j # i
    BY <1>1, <1>3, <1>8, <1>13
  <2>2. ~Compare(h[c], h[j])
    BY <1>3, <1>9, <1>13
  <2> QED BY <1>3, <1>7, <2>1, <2>2
<1>14. HeapButBelow(g, c)
  BY <1>6, <1>12, <1>13 DEF HeapButBelow
<1> QED BY <1>2, <1>3, <1>4, <1>5, <1>6, <1>14

LEMMA DownPassType == DownPass \in [HeapState -> HeapState]
<1>1. ASSUME NEW x \in HeapState, 2 * x.index <= Len(x.heap)
      PROVE  [heap |-> Swapped(x.heap, x.index, MaxChild(x.heap, x.index)),
              index |-> MaxChild(x.heap, x.index)] \in HeapState
  <2>1. MaxChild(x.heap, x.index) \in DOMAIN x.heap
    BY <1>1 DEF HeapState, MaxChild
  <2> QED BY <2>1, SwappedState
<1> QED BY <1>1 DEF DownPass

\* heapify_down mends a heap whose order at place i may be beaten by those
\* below it.
LEMMA DownMends ==
  ASSUME NEW s, NEW h, NEW i \in DOMAIN h, Arranged(h, s), HeapButBelow(h, i)
  PROVE  Arranged(heapify_down(h, i), s) /\ IsHeap(heapify_down(h, i))
<1> DEFINE start == [heap |-> h, index |-> i]
           Over(x) == ~(/\ 2 * x.index <= Len(x.heap)
                        /\ Compare(x.heap[x.index], x.heap[MaxChild(x.heap, x.index)]))
           Good(n) == {x \in HeapState : /\ Arranged(x.heap, s) /\ HeapButBelow(x.heap, x.index)
                                         /\ x.index \in DOMAIN x.heap /\ Len(x.heap) = Len(h)
                                         /\ Over(x) \/ x.index > n}
           J == [n \in Nat |-> Good(n)]
<1>1. h \in Seq(HeapOrders) /\ DOMAIN h = 1 .. Len(h) /\ Len(h) \in Nat /\ i \in Nat /\ i > 0
  BY DEF Arranged
<1>2. DownPass \in [HeapState -> HeapState]
  BY DownPassType
<1>3. start \in HeapState /\ start \in J[0]
  BY <1>1 DEF HeapState
<1>4. ASSUME NEW n \in Nat, NEW x \in HeapState, x \in J[n]
      PROVE  DownPass[x] \in J[n + 1]
  <2>1. CASE Over(x)
    BY <1>4, <2>1 DEF DownPass
  <2>2. CASE ~Over(x)
    <3> DEFINE c == MaxChild(x.heap, x.index)
               g == Swapped(x.heap, x.index, c)
    <3>1. /\ x.index \in DOMAIN x.heap /\ Arranged(x.heap, s) /\ HeapButBelow(x.heap, x.index)
          /\ 2 * x.index <= Len(x.heap) /\ Compare(x.heap[x.index], x.heap[c]) /\ x.index > n
          /\ Len(x.heap) = Len(h)
      BY <1>4, <2>2
    <3>2. c \in DOMAIN x.heap /\ c > x.index /\ Arranged(g, s) /\ HeapButBelow(g, c)
          /\ DOMAIN g = DOMAIN x.heap /\ Len(g) = Len(x.heap)
      BY <3>1, DownPassKeeps
    <3>3. DownPass[x] = [heap |-> g, index |-> c]
      BY <3>1 DEF DownPass
    <3>4. DownPass[x] \in HeapState
      BY <1>2
    <3>5. c > n + 1
      <4>1. x.index \in Nat /\ c \in Nat
        BY <3>3, <3>4 DEF HeapState
      <4> QED BY <3>1, <3>2, <4>1
    <3> HIDE DEF c, g
    <3>6. DownPass[x] \in Good(n + 1)
      BY <3>1, <3>2, <3>3, <3>4, <3>5
    <3> QED BY <3>6
  <2> QED BY <2>1, <2>2
<1>5. PICK x : x = Passes(DownPass, start)[Len(h)]
  OBVIOUS
<1>6. x \in Good(Len(h))
  <2> HIDE DEF start, Good
  <2>1. x \in J[Len(h)]
    <3> HIDE DEF J
    <3> QED BY <1>1, <1>2, <1>3, <1>4, <1>5, LoopInvariant
  <2> QED BY <1>1, <2>1
<1>7. Over(x)
  <2>1. x.index \in DOMAIN x.heap /\ x.index <= Len(h) /\ x.index \in Nat
    BY <1>6 DEF HeapState
  <2>2. ~(x.index > Len(h))
    BY <1>1, <2>1
  <2> QED BY <1>6, <2>2
<1>8. IsHeap(x.heap)
  <2>1. \A j \in DOMAIN x.heap : j > 1 /\ Parent(j) # x.index =>
          ~Compare(x.heap[Parent(j)], x.heap[j])
    BY <1>6 DEF HeapButBelow
  <2>2. ASSUME NEW j \in DOMAIN x.heap, j > 1, Parent(j) = x.index
        PROVE  ~Compare(x.heap[x.index], x.heap[j])
    <3>1. /\ x.index \in DOMAIN x.heap /\ Arranged(x.heap, s) /\ x.heap \in Seq(HeapOrders)
          /\ j \in Nat /\ j <= Len(x.heap) /\ x.index \in Nat /\ x.index >= 1 /\ Len(x.heap) \in Nat
      BY <1>6 DEF Arranged, HeapState
    <3>2. 2 * x.index <= Len(x.heap)
      <4>1. j = 2 * x.index \/ j = 2 * x.index + 1
        BY <2>2, <3>1, ChildFacts
      <4> QED BY <3>1, <4>1
    <3>3. /\ MaxChild(x.heap, x.index) \in DOMAIN x.heap
          /\ ~Compare(x.heap[MaxChild(x.heap, x.index)], x.heap[j])
      BY <2>2, <3>1, <3>2, MaxChildFacts
    <3>4. ~Compare(x.heap[x.index], x.heap[MaxChild(x.heap, x.index)])
      BY <1>7, <3>2
    <3>5. \A k \in DOMAIN x.heap : x.heap[k] \in HeapOrders
      BY <3>1
    <3> QED BY <3>1, <3>3, <3>4, <3>5, CompareFacts
  <2> QED BY <2>1, <2>2 DEF IsHeap
<1>9. heapify_down(h, i) = x.heap
  BY <1>5 DEF heapify_down
<1> QED BY <1>6, <1>8, <1>9

\* Nobody beats the top of a heap: the first who did would have somebody
\* above who does.
LEMMA TopOfHeap ==
  ASSUME NEW s, NEW h, Arranged(h, s), IsHeap(h)
  PROVE  \A j \in DOMAIN h : ~Compare(h[1], h[j])
<1> DEFINE Bad == {j \in DOMAIN h : Compare(h[1], h[j])}
<1>1. /\ h \in Seq(HeapOrders) /\ DOMAIN h = 1 .. Len(h) /\ Len(h) \in Nat
      /\ \A j \in DOMAIN h : h[j] \in HeapOrders /\ j \in Nat /\ j >= 1 /\ 1 \in DOMAIN h
  BY DEF Arranged
<1>2. ASSUME NEW j \in Bad, \A k \in Bad : j <= k PROVE FALSE
  <2>1. j \in DOMAIN h /\ Compare(h[1], h[j])
    OBVIOUS
  <2>2. j > 1
    <3>1. j # 1
      BY <1>1, <2>1, CompareFacts
    <3> QED BY <1>1, <2>1, <3>1
  <2>3. Parent(j) \in DOMAIN h /\ Parent(j) < j /\ ~(j <= Parent(j))
    BY <1>1, <2>1, <2>2, ParentFacts
  <2>4. ~Compare(h[Parent(j)], h[j])
    BY <2>1, <2>2 DEF IsHeap
  <2>5. Compare(h[1], h[Parent(j)])
    BY <1>1, <2>1, <2>3, <2>4, CompareFacts
  <2> QED BY <1>2, <2>3, <2>5
<1>3. Bad \in SUBSET Nat
  BY <1>1
<1>4. Bad = {}
  <2> HIDE DEF Bad
  <2> QED BY <1>2, <1>3, LeastNat
<1> QED BY <1>4

\* A vector with every order once has as many as there are.
LEMMA ArrangedSize ==
  ASSUME NEW s, NEW h, Arranged(h, s)
  PROVE  IsFiniteSet(s) /\ Cardinality(s) = Len(h)
<1>1. DOMAIN h = 1 .. Len(h) /\ Len(h) \in Nat
  BY DEF Arranged
<1>2. PICK n \in Nat : n = Len(h)
  BY <1>1
<1>3. PICK f : f = [i \in 1 .. n |-> h[i]]
  OBVIOUS
<1>4. f \in Bijection(1 .. n, s)
  <2>1. f \in Injection(1 .. n, s)
    BY <1>1, <1>2, <1>3 DEF Arranged, Injection, IsInjective
  <2>2. f \in Surjection(1 .. n, s)
    BY <1>1, <1>2, <1>3 DEF Arranged, Surjection
  <2> QED BY <2>1, <2>2 DEF Bijection
<1>5. IsFiniteSet(1 .. n) /\ Cardinality(1 .. n) = n
  <2>1. 1 \in Int /\ n \in Int
    OBVIOUS
  <2>2. Cardinality(1 .. n) = IF 1 > n THEN 0 ELSE n - 1 + 1
    BY <2>1, FS_Interval
  <2>3. IsFiniteSet(1 .. n)
    BY <2>1, FS_Interval
  <2> QED BY <2>2, <2>3
<1>6. IsFiniteSet(s) /\ Cardinality(s) = n
  <2>1. ExistsBijection(1 .. n, s)
    BY <1>4 DEF ExistsBijection
  <2> QED BY <1>5, <2>1, FS_Bijection
<1> QED BY <1>2, <1>6

\* push adds its order and leaves a heap.
LEMMA PushInv ==
  ASSUME HeapInv, NEW o \in HeapOrders \ held, push(o)
  PROVE  HeapInv'
<1>1. PICK h, n : h = Append(heap_, o) /\ n = Len(heap_) + 1
  OBVIOUS
<1>2. heap_' = heapify_up(h, n) /\ held' = held \cup {o}
  BY <1>1 DEF push
<1>3. /\ heap_ \in Seq(HeapOrders) /\ {heap_[i] : i \in DOMAIN heap_} = held
      /\ \A i, j \in DOMAIN heap_ : heap_[i] = heap_[j] => i = j
      /\ DOMAIN heap_ = 1 .. n - 1 /\ n \in Nat \ {0}
  BY <1>1 DEF HeapInv, Arranged
<1>4. /\ h \in Seq(HeapOrders) /\ DOMAIN h = 1 .. n /\ h[n] = o
      /\ \A i \in 1 .. n - 1 : h[i] = heap_[i]
  BY <1>1, <1>3
<1>5. Arranged(h, held \cup {o})
  <2>1. \A i, j \in DOMAIN h : h[i] = h[j] => i = j
    <3>1. \A i \in 1 .. n - 1 : h[i] # o
      BY <1>3, <1>4
    <3>2. \A i \in DOMAIN h : i = n \/ i \in 1 .. n - 1
      BY <1>3, <1>4
    <3> QED BY <1>3, <1>4, <3>1, <3>2
  <2>2. {h[i] : i \in DOMAIN h} = held \cup {o}
    <3>1. ASSUME NEW i \in DOMAIN h PROVE h[i] \in held \cup {o}
      <4>1. i = n \/ i \in 1 .. n - 1
        BY <1>3, <1>4
      <4> QED BY <1>3, <1>4, <4>1
    <3>2. ASSUME NEW x \in held \cup {o} PROVE \E i \in DOMAIN h : h[i] = x
      <4>1. CASE x = o
        BY <1>3, <1>4, <4>1
      <4>2. CASE x \in held
        <5>1. PICK i \in 1 .. n - 1 : heap_[i] = x
          BY <1>3, <4>2
        <5>2. i \in DOMAIN h
          BY <1>3, <1>4
        <5> QED BY <1>4, <5>1, <5>2
      <4> QED BY <4>1, <4>2
    <3> QED BY <3>1, <3>2
  <2> QED BY <1>4, <2>1, <2>2 DEF Arranged
<1>6. HeapButAt(h, n)
  <2>1. ASSUME NEW j \in DOMAIN h, j > 1
        PROVE  /\ j # n => ~Compare(h[Parent(j)], h[j])
               /\ Parent(j) # n
    <3>1. j \in Nat /\ j <= n /\ Parent(j) \in Nat /\ Parent(j) >= 1 /\ Parent(j) < j
      BY <1>3, <1>4, <2>1, ParentFacts
    <3>2. Parent(j) \in 1 .. n - 1
      BY <1>3, <3>1
    <3>3. Parent(j) # n
      BY <1>3, <3>1
    <3>4. ASSUME j # n PROVE ~Compare(h[Parent(j)], h[j])
      <4>1. j \in 1 .. n - 1
        BY <1>3, <3>1, <2>1, <3>4
      <4>2. ~Compare(heap_[Parent(j)], heap_[j])
        BY <1>3, <2>1, <4>1 DEF HeapInv, IsHeap
      <4> QED BY <1>4, <3>2, <4>1, <4>2
    <3> QED BY <3>3, <3>4
  <2> QED BY <2>1 DEF HeapButAt
<1>7. n \in DOMAIN h
  BY <1>3, <1>4
<1>8. Arranged(heapify_up(h, n), held \cup {o}) /\ IsHeap(heapify_up(h, n))
  BY <1>5, <1>6, <1>7, UpMends
<1> QED BY <1>2, <1>8 DEF HeapInv

\* pop takes the order on top and leaves a heap.
LEMMA HeapPopInv ==
  ASSUME HeapInv, pop
  PROVE  HeapInv'
<1>1. PICK n : n = Len(heap_)
  OBVIOUS
<1>2. PICK g : g = [heap_ EXCEPT ![1] = heap_[n]]
  OBVIOUS
<1>3. PICK h : h = SubSeq(g, 1, n - 1)
  OBVIOUS
<1>4. /\ heap_ # <<>> /\ held' = held \ {heap_[1]}
      /\ heap_' = IF h = <<>> THEN h ELSE heapify_down(h, 1)
  BY <1>1, <1>2, <1>3 DEF pop
<1>5. /\ heap_ \in Seq(HeapOrders) /\ {heap_[i] : i \in DOMAIN heap_} = held
      /\ \A i, j \in DOMAIN heap_ : heap_[i] = heap_[j] => i = j
      /\ DOMAIN heap_ = 1 .. n /\ n \in Nat \ {0}
      /\ \A i \in 1 .. n : heap_[i] \in HeapOrders
  BY <1>1, <1>4 DEF HeapInv, Arranged
<1>6. /\ g \in Seq(HeapOrders) /\ DOMAIN g = 1 .. n /\ Len(g) = n /\ g[1] = heap_[n]
      /\ \A i \in 1 .. n : i # 1 => g[i] = heap_[i]
  BY <1>1, <1>2, <1>5
<1>7. /\ h \in Seq(HeapOrders) /\ DOMAIN h = 1 .. n - 1 /\ Len(h) = n - 1
      /\ \A i \in 1 .. n - 1 : h[i] = g[i]
  BY <1>3, <1>5, <1>6
<1>8. \A i \in 1 .. n - 1 : i \in 1 .. n /\ h[i] = IF i = 1 THEN heap_[n] ELSE heap_[i]
  BY <1>5, <1>6, <1>7
<1>9. Arranged(h, held \ {heap_[1]})
  <2>1. 1 \in 1 .. n /\ n \in 1 .. n /\ \A i \in 1 .. n - 1 : i # n
    BY <1>5
  <2>2. \A i, j \in DOMAIN h : h[i] = h[j] => i = j
    BY <1>5, <1>7, <1>8, <2>1
  <2>3. ASSUME NEW i \in DOMAIN h PROVE h[i] \in held \ {heap_[1]}
    <3>1. CASE i = 1
      BY <1>5, <1>7, <1>8, <2>1, <3>1
    <3>2. CASE i # 1
      BY <1>5, <1>7, <1>8, <2>1, <3>2
    <3> QED BY <3>1, <3>2
  <2>4. ASSUME NEW x \in held \ {heap_[1]} PROVE \E i \in DOMAIN h : h[i] = x
    <3>1. PICK i \in 1 .. n : heap_[i] = x
      BY <1>5
    <3>2. i # 1
      BY <3>1
    <3>3. CASE i = n
      <4>1. 1 \in 1 .. n - 1
        BY <1>5, <3>2, <3>3
      <4> QED BY <1>7, <1>8, <3>1, <3>3, <4>1
    <3>4. CASE i # n
      <4>1. i \in 1 .. n - 1
        BY <1>5, <3>4
      <4> QED BY <1>7, <1>8, <3>1, <3>2, <4>1
    <3> QED BY <3>3, <3>4
  <2>5. {h[i] : i \in DOMAIN h} = held \ {heap_[1]}
    BY <2>3, <2>4
  <2> QED BY <1>7, <2>2, <2>5 DEF Arranged
<1>10. CASE h = <<>>
  <2>1. IsHeap(h)
    BY <1>10 DEF IsHeap
  <2>2. heap_' = h /\ held' = held \ {heap_[1]}
    BY <1>4, <1>10
  <2> QED BY <1>9, <2>1, <2>2 DEF HeapInv
<1>11. CASE h # <<>>
  <2>1. 1 \in DOMAIN h
    BY <1>5, <1>7, <1>11
  <2>2. ASSUME NEW j \in DOMAIN h, j > 1, Parent(j) # 1 PROVE ~Compare(h[Parent(j)], h[j])
    <3>1. Parent(j) \in 1 .. n - 1 /\ j \in 1 .. n - 1 /\ j # 1
      BY <1>5, <1>7, <2>2, ParentFacts
    <3>2. ~Compare(heap_[Parent(j)], heap_[j])
      BY <1>5, <1>8, <2>2, <3>1 DEF HeapInv, IsHeap
    <3> QED BY <1>8, <2>2, <3>1, <3>2
  <2>3. HeapButBelow(h, 1)
    BY <2>2 DEF HeapButBelow
  <2>4. Arranged(heapify_down(h, 1), held \ {heap_[1]}) /\ IsHeap(heapify_down(h, 1))
    BY <1>9, <2>1, <2>3, DownMends
  <2> QED BY <1>4, <1>11, <2>4 DEF HeapInv
<1> QED BY <1>10, <1>11

\* The vector is a heap of the orders that are held.
LEMMA HeapSpecInv == HeapSpec => []HeapInv
<1>1. HeapInit => HeapInv
  BY DEF HeapInit, HeapInv, Arranged, IsHeap
<1>2. HeapInv /\ [HeapNext]_hvars => HeapInv'
  <2> SUFFICES ASSUME HeapInv, [HeapNext]_hvars PROVE HeapInv'
    OBVIOUS
  <2>1. ASSUME NEW o \in HeapOrders \ held, push(o) PROVE HeapInv'
    BY <2>1, PushInv
  <2>2. CASE pop
    BY <2>2, HeapPopInv
  <2>3. CASE ClearHeap
    BY <2>3 DEF ClearHeap, HeapInv, Arranged, IsHeap
  <2>4. CASE UNCHANGED hvars
    BY <2>4 DEF hvars, HeapInv
  <2> QED BY <2>1, <2>2, <2>3, <2>4 DEF HeapNext
<1> QED BY <1>1, <1>2, PTL DEF HeapSpec

\* What OrderPriorityQueue pops is always an order of the highest price of
\* those that were pushed and are not popped yet, none of which is lost or
\* doubled, for any number of orders and all prices.
THEOREM TopOfQueueIsBest == HeapSpec => []TopIsBest
<1>1. HeapInv => TopIsBest
  <2> SUFFICES ASSUME HeapInv PROVE TopIsBest
    OBVIOUS
  <2>1. Arranged(heap_, held) /\ IsHeap(heap_)
    BY DEF HeapInv
  <2>2. {heap_[i] : i \in DOMAIN heap_} = held
    BY <2>1 DEF Arranged
  <2>3. Len(heap_) = Cardinality(held)
    BY <2>1, ArrangedSize
  <2>4. \A o \in held : ~Compare(heap_[1], o)
    <3>1. \A j \in DOMAIN heap_ : ~Compare(heap_[1], heap_[j])
      BY <2>1, TopOfHeap
    <3> QED BY <2>2, <3>1
  <2> QED BY <2>2, <2>3, <2>4 DEF TopIsBest
<1> QED BY <1>1, HeapSpecInv, PTL

-----------------------------------------------------------------------------
(***************************************************************************)
(* RobinHoodHashTable                                                      *)
(***************************************************************************)

\* The slots that are seen by a search for k, which begins at its home.
Spot(c, k, j) == ((hash[k] % c) + j) % c

Hashed(c) == c \in Nat \ {0} /\ hash \in [Keys -> Nat]

\* A search goes from slot to slot and comes back after c of them.
LEMMA SpotFacts ==
  ASSUME NEW c, Hashed(c), NEW k \in Keys
  PROVE  /\ \A j \in Nat : Spot(c, k, j) \in 0 .. c - 1
         /\ \A j \in Nat : (Spot(c, k, j) + 1) % c = Spot(c, k, j + 1)
         /\ \A j \in Nat : j % c \in 0 .. c - 1 /\ j % c <= j /\ Spot(c, k, j % c) = Spot(c, k, j)
         /\ Spot(c, k, 0) = hash[k] % c
<1>1. PICK h \in 0 .. c - 1 : h = hash[k] % c
  BY Remainders DEF Hashed
<1>2. c \in Nat \ {0} /\ h \in Nat
  BY DEF Hashed
<1>3. \A j \in Nat : Spot(c, k, j) = (h + j) % c
  BY <1>1 DEF Spot
<1>4. ASSUME NEW j \in Nat
      PROVE  /\ Spot(c, k, j) \in 0 .. c - 1
             /\ (Spot(c, k, j) + 1) % c = Spot(c, k, j + 1)
             /\ j % c \in 0 .. c - 1 /\ j % c <= j /\ Spot(c, k, j % c) = Spot(c, k, j)
  <2>1. PICK a \in Nat : a = h + j
    BY <1>2
  <2>2. a % c \in 0 .. c - 1 /\ ((a % c) + 1) % c = (a + 1) % c
    <3>1. c \in Nat \ {0} /\ a \in Nat /\ 1 \in Nat
      BY <1>2
    <3>2. a % c \in 0 .. c - 1
      BY <3>1, Remainders
    <3>3. ((a % c) + 1) % c = (a + 1) % c
      BY <3>1, RemainderOfSum
    <3> QED BY <3>2, <3>3
  <2>3. a + 1 = h + (j + 1) /\ j + 1 \in Nat
    BY <1>2, <2>1
  <2>4. Spot(c, k, j) \in 0 .. c - 1 /\ (Spot(c, k, j) + 1) % c = Spot(c, k, j + 1)
    BY <1>3, <2>1, <2>2, <2>3
  <2>5. PICK r \in 0 .. c - 1 : r = j % c
    BY <1>2, Remainders
  <2>6. r <= j
    <3>1. CASE j < c
      <4>1. j % c = j
        BY <1>2, <3>1, Remainders
      <4> QED BY <2>5, <4>1
    <3>2. CASE ~(j < c)
      BY <1>2, <2>5, <3>2
    <3> QED BY <3>1, <3>2
  <2>7. ((j % c) + h) % c = (j + h) % c
    BY <1>2, RemainderOfSum
  <2>8. r + h = h + r /\ j + h = h + j /\ r \in Nat
    BY <1>2, <2>5
  <2>9. Spot(c, k, r) = Spot(c, k, j)
    BY <1>3, <2>5, <2>7, <2>8
  <2> QED BY <2>4, <2>5, <2>6, <2>9
<1>5. Spot(c, k, 0) = hash[k] % c
  <2>1. h % c = h
    <3>1. h < c /\ h \in Nat /\ c \in Nat \ {0}
      BY <1>2
    <3> QED BY <3>1, Remainders
  <2>2. h + 0 = h /\ 0 \in Nat
    BY <1>2
  <2> QED BY <1>1, <1>3, <2>1, <2>2
<1> QED BY <1>4, <1>5

\* Fewer than c steps apart they differ.
LEMMA SpotsDiffer ==
  ASSUME NEW c, Hashed(c), NEW k \in Keys, NEW i \in 0 .. c - 1, NEW j \in 0 .. c - 1,
         Spot(c, k, i) = Spot(c, k, j)
  PROVE  i = j
<1>1. PICK h \in 0 .. c - 1 : h = hash[k] % c
  BY Remainders DEF Hashed
<1>2. c \in Nat \ {0}
  BY DEF Hashed
<1>3. PICK a \in Nat, b \in Nat : a = h + i /\ b = h + j
  BY <1>2
<1>4. a % c = b % c
  BY <1>1, <1>3 DEF Spot
<1>5. ~(a < b) /\ ~(b < a)
  <2>1. b - a < c /\ a - b < c
    BY <1>2, <1>3
  <2>2. a < b => b - a >= c
    BY <1>2, <1>4, Remainders
  <2>3. b < a => a - b >= c
    BY <1>2, <1>4, Remainders
  <2> QED BY <1>2, <2>1, <2>2, <2>3
<1> QED BY <1>3, <1>5

\* All slots are seen.
LEMMA AllSpots ==
  ASSUME NEW c, Hashed(c), NEW k \in Keys, NEW p \in 0 .. c - 1
  PROVE  \E j \in 0 .. c - 1 : Spot(c, k, j) = p
<1>1. PICK h \in 0 .. c - 1 : h = hash[k] % c
  BY Remainders DEF Hashed
<1>2. c \in Nat \ {0} /\ p \in Nat
  BY DEF Hashed
<1>3. p % c = p /\ (p + c) % c = p
  <2>1. p < c /\ c \in Nat \ {0} /\ p \in Nat
    BY <1>2
  <2>2. p % c = p /\ (p + c) % c = p % c
    BY <2>1, Remainders
  <2> QED BY <2>2
<1>4. CASE h <= p
  <2>1. p - h \in 0 .. c - 1 /\ h + (p - h) = p
    BY <1>2, <1>4
  <2> QED BY <1>1, <1>3, <2>1 DEF Spot
<1>5. CASE ~(h <= p)
  <2>1. p + c - h \in 0 .. c - 1 /\ h + (p + c - h) = p + c
    BY <1>2, <1>5
  <2> QED BY <1>1, <1>3, <2>1 DEF Spot
<1> QED BY <1>4, <1>5

\* The first o slots of a search for k are occupied, by entries whose
\* distance is as large as that of the search, or larger.
Chain(t, c, k, o) ==
  \A j \in Nat : j < o => t[Spot(c, k, j)].occupied /\ t[Spot(c, k, j)].distance >= j

\* A search for k comes to slot p before an unoccupied one, after no more than
\* d passes.
Reached(t, c, k, p, d) == \E o \in Nat : p = Spot(c, k, o) /\ o <= d /\ Chain(t, c, k, o)

Once(t, c) ==
  \A p, q \in 0 .. c - 1 : t[p].occupied /\ t[q].occupied /\ t[p].key = t[q].key => p = q

AllReached(t, c) ==
  \A p \in 0 .. c - 1 : t[p].occupied => Reached(t, c, t[p].key, p, t[p].distance)

\* Every key is in the table once, where a search for it comes to.
TableOK(t, c) == t \in Tables(c) /\ Once(t, c) /\ AllReached(t, c)

Absent(t, c, k) == \A p \in 0 .. c - 1 : t[p].occupied => t[p].key # k

\* The slots of a table of capacity c.
LEMMA TableFacts ==
  ASSUME NEW c, Hashed(c), NEW t \in Tables(c)
  PROVE  /\ DOMAIN t = 0 .. c - 1 /\ Capacity(t) = c /\ c \in Nat \ {0}
         /\ \A p \in 0 .. c - 1 : /\ t[p] \in Items \cup {Free} /\ t[p].occupied \in BOOLEAN
                                  /\ t[p].occupied => t[p] \in Items
                                  /\ ~t[p].occupied => t[p] = Free
<1>1. c \in Nat \ {0} /\ DOMAIN t = 0 .. c - 1
  BY DEF Hashed, Tables
<1>2. Capacity(t) = c
  <2>1. PICK m \in Int, z \in Int : m = c - 1 /\ z = 0
    BY <1>1
  <2>2. Cardinality(z .. m) = IF z > m THEN 0 ELSE m - z + 1
    BY FS_Interval
  <2>3. Cardinality(0 .. c - 1) = c
    BY <1>1, <2>1, <2>2
  <2> QED BY <1>1, <2>3 DEF Capacity
<1>3. ASSUME NEW p \in 0 .. c - 1
      PROVE  /\ t[p] \in Items \cup {Free} /\ t[p].occupied \in BOOLEAN
             /\ t[p].occupied => t[p] \in Items
             /\ ~t[p].occupied => t[p] = Free
  <2>1. t[p] \in Items \cup {Free}
    BY DEF Tables
  <2>2. CASE t[p] \in Items
    <3>1. t[p].occupied = TRUE
      BY <2>2 DEF Items
    <3> QED BY <2>1, <2>2, <3>1
  <2>3. CASE t[p] = Free
    <3>1. t[p].occupied = FALSE
      BY <2>3 DEF Free
    <3> QED BY <2>1, <2>3, <3>1
  <2> QED BY <2>1, <2>2, <2>3
<1> QED BY <1>1, <1>2, <1>3

\* A key that is in the table is in one of the first c slots of a search, and
\* the slots before are occupied by others.
LEMMA FoundAt ==
  ASSUME NEW c, Hashed(c), NEW t, TableOK(t, c), NEW k \in Keys, NEW p \in 0 .. c - 1,
         Holds(t, p, k)
  PROVE  \E o \in 0 .. c - 1 :
           /\ Spot(c, k, o) = p
           /\ \A j \in Nat : j < o => /\ t[Spot(c, k, j)].occupied /\ t[Spot(c, k, j)].key # k
                                      /\ t[Spot(c, k, j)].distance >= j
<1>1. t[p].occupied /\ t[p].key = k /\ Reached(t, c, k, p, t[p].distance)
  BY DEF Holds, TableOK, AllReached
<1>2. PICK n \in Nat : p = Spot(c, k, n) /\ Chain(t, c, k, n)
  BY <1>1 DEF Reached
<1>3. PICK o \in 0 .. c - 1 : o <= n /\ Spot(c, k, o) = p
  BY <1>2, SpotFacts
<1>4. ASSUME NEW j \in Nat, j < o
      PROVE  /\ t[Spot(c, k, j)].occupied /\ t[Spot(c, k, j)].key # k
             /\ t[Spot(c, k, j)].distance >= j
  <2>1. j < n /\ j \in 0 .. c - 1 /\ j # o
    BY <1>3, <1>4 DEF Hashed
  <2>2. t[Spot(c, k, j)].occupied /\ t[Spot(c, k, j)].distance >= j
    BY <1>2, <2>1 DEF Chain
  <2>3. Spot(c, k, j) # p /\ Spot(c, k, j) \in 0 .. c - 1
    BY <1>3, <2>1, SpotsDiffer, SpotFacts
  <2>4. t[Spot(c, k, j)].key # k
    BY <1>1, <2>2, <2>3 DEF TableOK, Once
  <2> QED BY <2>2, <2>4
<1> QED BY <1>3, <1>4

\* A pass of that loop, at one of the c slots, stays there or goes to the next.
Steps(body, t, c, k) ==
  /\ body \in [0 .. c - 1 -> 0 .. c - 1]
  /\ \A i \in 0 .. c - 1 : body[i] = IF t[i].occupied /\ t[i].key # k THEN (i + 1) % c ELSE i

\* SeekPass is such a loop.
LEMMA SeekPassType ==
  ASSUME NEW c, Hashed(c), NEW t \in Tables(c), NEW k \in Keys
  PROVE  Steps(SeekPass(t, k), t, c, k)
<1>1. DOMAIN t = 0 .. c - 1 /\ Capacity(t) = c /\ c \in Nat \ {0}
  BY TableFacts
<1>2. \A i \in 0 .. c - 1 : (i + 1) % c \in 0 .. c - 1
  <2>1. ASSUME NEW i \in 0 .. c - 1 PROVE (i + 1) % c \in 0 .. c - 1
    <3>1. i + 1 \in Nat
      BY <1>1
    <3> QED BY <1>1, <3>1, Remainders
  <2> QED BY <2>1
<1>3. SeekPass(t, k) = [i \in 0 .. c - 1 |-> IF t[i].occupied /\ t[i].key # k
                                            THEN (i + 1) % c ELSE i]
  BY <1>1 DEF SeekPass, NextSlot
<1> QED BY <1>2, <1>3 DEF Steps

\* find and erase find a key that is in the table.
LEMMA SeekFinds ==
  ASSUME NEW c, Hashed(c), NEW t, TableOK(t, c), NEW k \in Keys, NEW p \in 0 .. c - 1,
         Holds(t, p, k)
  PROVE  Seek(t, k) = p
<1> DEFINE SlotAt(n, o) == IF n < o THEN Spot(c, k, n) ELSE p
           J(o) == [n \in Nat |-> {SlotAt(n, o)}]
<1>1. c \in Nat \ {0} /\ t \in Tables(c) /\ Capacity(t) = c
  BY TableFacts DEF TableOK
<1>2. PICK o \in 0 .. c - 1 :
        /\ Spot(c, k, o) = p
        /\ \A j \in Nat : j < o => /\ t[Spot(c, k, j)].occupied /\ t[Spot(c, k, j)].key # k
                                   /\ t[Spot(c, k, j)].distance >= j
  BY FoundAt
<1>3. PICK body, start : body = SeekPass(t, k) /\ start = Home(t, k)
  OBVIOUS
<1>4. /\ body \in [0 .. c - 1 -> 0 .. c - 1]
      /\ \A i \in 0 .. c - 1 : body[i] = IF t[i].occupied /\ t[i].key # k
                                         THEN (i + 1) % c ELSE i
  <2>1. Steps(SeekPass(t, k), t, c, k)
    BY <1>1, SeekPassType
  <2> QED BY <1>3, <2>1 DEF Steps
<1>5. start = Spot(c, k, 0) /\ start \in 0 .. c - 1
  BY <1>1, <1>3, SpotFacts DEF Home
<1>6. start \in J(o)[0]
  <2>1. o \in Nat
    BY <1>1
  <2> QED BY <1>2, <1>5, <2>1
<1>7. ASSUME NEW n \in Nat, NEW x \in 0 .. c - 1, x \in J(o)[n]
      PROVE  body[x] \in J(o)[n + 1]
  <2>1. x = SlotAt(n, o) /\ J(o)[n + 1] = {SlotAt(n + 1, o)} /\ o \in Nat
    BY <1>1, <1>7
  <2>2. CASE n < o
    <3>1. x = Spot(c, k, n) /\ t[x].occupied /\ t[x].key # k
      BY <1>2, <2>1, <2>2
    <3>2. body[x] = Spot(c, k, n + 1)
      BY <1>4, <3>1, SpotFacts
    <3>3. n + 1 < o \/ n + 1 = o
      BY <2>1, <2>2
    <3>4. SlotAt(n + 1, o) = Spot(c, k, n + 1)
      BY <1>2, <2>1, <3>3
    <3> QED BY <2>1, <3>2, <3>4
  <2>3. CASE ~(n < o)
    <3>1. x = p /\ ~(n + 1 < o)
      BY <2>1, <2>3
    <3>2. body[x] = p
      BY <1>4, <3>1 DEF Holds
    <3> QED BY <2>1, <3>1, <3>2
  <2> QED BY <2>2, <2>3
<1>8. Passes(body, start)[c + 1] = p
  <2>1. c + 1 \in Nat /\ ~(c + 1 < o)
    BY <1>1
  <2>2. Passes(body, start)[c + 1] \in J(o)[c + 1]
    <3>1. PICK K : K = J(o)
      OBVIOUS
    <3>2. start \in K[0] /\ \A n \in Nat : \A x \in 0 .. c - 1 : x \in K[n] => body[x] \in K[n + 1]
      BY <1>6, <1>7, <3>1
    <3>3. body \in [0 .. c - 1 -> 0 .. c - 1] /\ start \in 0 .. c - 1 /\ c + 1 \in Nat
      BY <1>4, <1>5, <2>1
    <3>4. Passes(body, start)[c + 1] \in K[c + 1]
      BY ONLY <3>2, <3>3, LoopInvariant
    <3> QED BY <3>1, <3>4
  <2> QED BY <2>1, <2>2
<1> QED BY <1>1, <1>3, <1>8 DEF Seek

\* They find nothing else.
LEMMA SeekMisses ==
  ASSUME NEW c, Hashed(c), NEW t \in Tables(c), NEW k \in Keys, Absent(t, c, k)
  PROVE  Seek(t, k) = -1
<1>1. c \in Nat \ {0} /\ Capacity(t) = c
  BY TableFacts
<1>2. PICK body, start : body = SeekPass(t, k) /\ start = Home(t, k)
  OBVIOUS
<1>3. body \in [0 .. c - 1 -> 0 .. c - 1]
  <2>1. Steps(SeekPass(t, k), t, c, k)
    BY SeekPassType
  <2> QED BY <1>2, <2>1 DEF Steps
<1>4. start \in 0 .. c - 1
  <2>1. start = Spot(c, k, 0)
    BY <1>1, <1>2, SpotFacts DEF Home
  <2> QED BY <1>1, <2>1, SpotFacts
<1>5. Passes(body, start) \in [Nat -> 0 .. c - 1]
  BY <1>3, <1>4, PassesFacts
<1>6. PICK i \in 0 .. c - 1 : i = Passes(body, start)[c + 1]
  BY <1>1, <1>5
<1>7. ~Holds(t, i, k)
  BY DEF Absent, Holds
<1> QED BY <1>1, <1>2, <1>6, <1>7 DEF Seek

-----------------------------------------------------------------------------
\* insert

\* Slots are only taken, and distances only grow.
Grown(t, u, c) ==
  \A p \in 0 .. c - 1 : t[p].occupied => /\ u[p].occupied /\ u[p].distance \in Nat
                                         /\ u[p].distance >= t[p].distance

\* So what a search came to, it still comes to.
LEMMA ReachedGrows ==
  ASSUME NEW c, Hashed(c), NEW t \in Tables(c), NEW u, Grown(t, u, c), NEW k \in Keys
  PROVE  /\ \A o \in Nat : Chain(t, c, k, o) => Chain(u, c, k, o)
         /\ \A p, d : Reached(t, c, k, p, d) => Reached(u, c, k, p, d)
<1>1. ASSUME NEW o \in Nat, Chain(t, c, k, o) PROVE Chain(u, c, k, o)
  <2>1. ASSUME NEW j \in Nat, j < o
        PROVE  u[Spot(c, k, j)].occupied /\ u[Spot(c, k, j)].distance >= j
    <3>1. PICK p \in 0 .. c - 1 : p = Spot(c, k, j)
      BY SpotFacts
    <3>2. t[p].occupied /\ t[p].distance >= j
      BY <1>1, <2>1, <3>1 DEF Chain
    <3>3. t[p] \in Items
      BY <3>2, TableFacts
    <3>4. t[p].distance \in Nat
      BY <3>3 DEF Items
    <3>5. u[p].occupied /\ u[p].distance \in Nat /\ u[p].distance >= t[p].distance
      BY <3>2 DEF Grown
    <3> QED BY <3>1, <3>2, <3>4, <3>5
  <2> QED BY <2>1 DEF Chain
<1>2. ASSUME NEW p, NEW d, Reached(t, c, k, p, d) PROVE Reached(u, c, k, p, d)
  BY <1>1, <1>2 DEF Reached
<1> QED BY <1>1, <1>2

\* The search goes on, past a slot that is occupied and as far from its home.
LEMMA ReachedNext ==
  ASSUME NEW c, Hashed(c), NEW t, NEW k \in Keys, NEW p, NEW d \in Nat, NEW b \in Nat,
         Reached(t, c, k, p, d), t[p].occupied, t[p].distance \in Nat, t[p].distance >= d, d <= b
  PROVE  Reached(t, c, k, (p + 1) % c, b + 1)
<1>1. PICK o \in Nat : p = Spot(c, k, o) /\ o <= d /\ Chain(t, c, k, o)
  BY DEF Reached
<1>2. (p + 1) % c = Spot(c, k, o + 1)
  BY <1>1, SpotFacts
<1>3. ASSUME NEW j \in Nat, j < o + 1
      PROVE  t[Spot(c, k, j)].occupied /\ t[Spot(c, k, j)].distance >= j
  <2>1. CASE j < o
    BY <1>1, <2>1 DEF Chain
  <2>2. CASE ~(j < o)
    <3>1. j = o
      BY <1>3, <2>2
    <3>2. t[p].distance >= j
      BY <1>1, <3>1
    <3> QED BY <1>1, <3>1, <3>2
  <2> QED BY <2>1, <2>2
<1>4. Chain(t, c, k, o + 1)
  BY <1>3 DEF Chain
<1>5. o + 1 \in Nat /\ o + 1 <= b + 1
  BY <1>1
<1> QED BY <1>2, <1>4, <1>5 DEF Reached

\* An entry whose key is nowhere else takes a slot that is free, or that of an
\* entry that is no further from its home.
LEMMA PlaceOK ==
  ASSUME NEW c, Hashed(c), NEW t, TableOK(t, c), NEW p \in 0 .. c - 1, NEW e \in Items,
         Absent(t, c, e.key), Reached(t, c, e.key, p, e.distance),
         t[p].occupied => t[p].distance <= e.distance
  PROVE  TableOK([t EXCEPT ![p] = e], c) /\ Grown(t, [t EXCEPT ![p] = e], c)
<1>1. /\ t \in Tables(c) /\ DOMAIN t = 0 .. c - 1 /\ c \in Nat \ {0}
      /\ \A q \in 0 .. c - 1 : t[q].occupied => t[q] \in Items
  BY TableFacts DEF TableOK
<1>2. PICK u : u = [t EXCEPT ![p] = e]
  OBVIOUS
<1>3. u \in Tables(c)
  BY <1>1, <1>2 DEF Tables
<1>4. /\ u[p] = e /\ e.occupied = TRUE /\ e.distance \in Nat /\ e.key \in Keys
      /\ \A q \in 0 .. c - 1 : q # p => u[q] = t[q]
  <2>1. u[p] = e /\ \A q \in 0 .. c - 1 : q # p => u[q] = t[q]
    BY <1>1, <1>2
  <2> QED BY <2>1 DEF Items
<1>5. \A q \in 0 .. c - 1 : t[q].occupied => t[q].distance \in Nat /\ t[q].key \in Keys
  BY <1>1 DEF Items
<1>6. Grown(t, u, c)
  <2>1. ASSUME NEW q \in 0 .. c - 1, t[q].occupied
        PROVE  u[q].occupied /\ u[q].distance \in Nat /\ u[q].distance >= t[q].distance
    <3>1. CASE q = p
      BY <1>4, <1>5, <2>1, <3>1
    <3>2. CASE q # p
      BY <1>4, <1>5, <2>1, <3>2
    <3> QED BY <3>1, <3>2
  <2> QED BY <2>1 DEF Grown
<1>7. Once(u, c)
  <2>1. ASSUME NEW q \in 0 .. c - 1, NEW r \in 0 .. c - 1,
               u[q].occupied, u[r].occupied, u[q].key = u[r].key
        PROVE  q = r
    <3>1. CASE q = p /\ r # p
      BY <1>4, <2>1, <3>1 DEF Absent
    <3>2. CASE q # p /\ r = p
      BY <1>4, <2>1, <3>2 DEF Absent
    <3>3. CASE q # p /\ r # p
      BY <1>4, <2>1, <3>3 DEF TableOK, Once
    <3> QED BY <3>1, <3>2, <3>3
  <2> QED BY <2>1 DEF Once
<1>8. AllReached(u, c)
  <2>1. ASSUME NEW q \in 0 .. c - 1, u[q].occupied
        PROVE  Reached(u, c, u[q].key, q, u[q].distance)
    <3>1. CASE q = p
      <4>1. Reached(u, c, e.key, p, e.distance)
        BY <1>1, <1>4, <1>6, ReachedGrows
      <4> QED BY <1>4, <3>1, <4>1
    <3>2. CASE q # p
      <4>1. u[q] = t[q] /\ t[q].occupied /\ t[q].key \in Keys
        BY <1>4, <1>5, <2>1, <3>2
      <4>2. Reached(t, c, t[q].key, q, t[q].distance)
        BY <4>1 DEF TableOK, AllReached
      <4>3. Reached(u, c, t[q].key, q, t[q].distance)
        BY <1>1, <1>6, <4>1, <4>2, ReachedGrows
      <4> QED BY <4>1, <4>3
    <3> QED BY <3>1, <3>2
  <2> QED BY <2>1 DEF AllReached
<1> QED BY <1>2, <1>3, <1>6, <1>7, <1>8 DEF TableOK

\* What a pass of insert's loop does where there is an entry of another key:
\* the one that looks for a place displaces it, or passes it by.
Displaced(s, c) ==
  [table |-> [s.table EXCEPT ![s.slot] = s.entry],
   entry |-> [s.table[s.slot] EXCEPT !.distance = s.entry.distance + 1],
   slot  |-> (s.slot + 1) % c]

PassedBy(s, c) ==
  [table |-> s.table, entry |-> [s.entry EXCEPT !.distance = s.entry.distance + 1],
   slot  |-> (s.slot + 1) % c]

Stopped(s, k) == ~s.table[s.slot].occupied \/ s.table[s.slot].key = k

Probes(body, c, k) ==
  /\ body \in [ProbeState(c) -> ProbeState(c)]
  /\ \A s \in ProbeState(c) :
       body[s] = IF Stopped(s, k) THEN s
                 ELSE IF s.table[s.slot].distance < s.entry.distance THEN Displaced(s, c)
                 ELSE PassedBy(s, c)

\* The next distance of an entry.
LEMMA EntryMoves ==
  ASSUME NEW e \in Items, NEW d \in Nat
  PROVE  /\ [e EXCEPT !.distance = d] \in Items
         /\ [e EXCEPT !.distance = d].distance = d
         /\ [e EXCEPT !.distance = d].key = e.key
         /\ [e EXCEPT !.distance = d].value = e.value
BY DEF Items

\* The parts of a state of the loop.
LEMMA StateFacts ==
  ASSUME NEW c, Hashed(c), NEW s \in ProbeState(c)
  PROVE  /\ s = [table |-> s.table, entry |-> s.entry, slot |-> s.slot]
         /\ s.table \in Tables(c) /\ s.entry \in Items /\ s.slot \in 0 .. c - 1
         /\ s.entry.distance \in Nat /\ (s.slot + 1) % c \in 0 .. c - 1
<1>1. /\ s = [table |-> s.table, entry |-> s.entry, slot |-> s.slot]
      /\ s.table \in Tables(c) /\ s.entry \in Items /\ s.slot \in 0 .. c - 1
  BY DEF ProbeState
<1>2. s.entry.distance \in Nat
  BY <1>1 DEF Items
<1>3. (s.slot + 1) % c \in 0 .. c - 1
  <2>1. c \in Nat \ {0} /\ s.slot + 1 \in Nat
    BY <1>1 DEF Hashed
  <2> QED BY <2>1, Remainders
<1> QED BY <1>1, <1>2, <1>3

\* The table after the entry is put in its slot.
LEMMA PlacedType ==
  ASSUME NEW c, NEW t \in Tables(c), NEW p \in 0 .. c - 1, NEW e \in Items
  PROVE  /\ [t EXCEPT ![p] = e] \in Tables(c) /\ [t EXCEPT ![p] = e][p] = e
         /\ \A q \in 0 .. c - 1 : q # p => [t EXCEPT ![p] = e][q] = t[q]
BY DEF Tables

\* ProbePass is such a loop.
LEMMA ProbePassType ==
  ASSUME NEW c, Hashed(c), NEW k \in Keys
  PROVE  Probes(ProbePass(c, k), c, k)
<1> DEFINE B(s) == IF Stopped(s, k) THEN s
                   ELSE IF s.table[s.slot].distance < s.entry.distance THEN Displaced(s, c)
                   ELSE PassedBy(s, c)
<1>1. ASSUME NEW s \in ProbeState(c)
      PROVE  B(s) \in ProbeState(c) /\ ProbePass(c, k)[s] = B(s)
  <2>1. /\ s = [table |-> s.table, entry |-> s.entry, slot |-> s.slot]
        /\ s.table \in Tables(c) /\ s.entry \in Items /\ s.slot \in 0 .. c - 1
        /\ s.entry.distance \in Nat /\ (s.slot + 1) % c \in 0 .. c - 1
    BY StateFacts
  <2>2. Capacity(s.table) = c
    BY <2>1, TableFacts
  <2>3. PassedBy(s, c) \in ProbeState(c)
    <3>1. [s.entry EXCEPT !.distance = s.entry.distance + 1] \in Items
      BY <2>1, EntryMoves
    <3> QED BY <2>1, <3>1 DEF PassedBy, ProbeState
  <2>4. s.table[s.slot].occupied => Displaced(s, c) \in ProbeState(c)
    <3>1. SUFFICES ASSUME s.table[s.slot].occupied PROVE Displaced(s, c) \in ProbeState(c)
      OBVIOUS
    <3>2. s.table[s.slot] \in Items
      BY <2>1, <3>1, TableFacts
    <3>3. [s.table[s.slot] EXCEPT !.distance = s.entry.distance + 1] \in Items
      BY <2>1, <3>2, EntryMoves
    <3>4. [s.table EXCEPT ![s.slot] = s.entry] \in Tables(c)
      BY <2>1, PlacedType
    <3> QED BY <2>1, <3>3, <3>4 DEF Displaced, ProbeState
  <2>5. B(s) \in ProbeState(c)
    BY <2>3, <2>4 DEF Stopped
  <2>6. [s EXCEPT !.entry.distance = s.entry.distance + 1, !.slot = (s.slot + 1) % c] = PassedBy(s, c)
    <3>1. PICK t \in Tables(c), e \in Items, p \in 0 .. c - 1 : s = [table |-> t, entry |-> e, slot |-> p]
      BY <2>1
    <3>2. PICK d, q : d = s.entry.distance + 1 /\ q = (s.slot + 1) % c
      OBVIOUS
    <3>3. [[table |-> t, entry |-> e, slot |-> p] EXCEPT !.entry.distance = d, !.slot = q] =
            [table |-> t, entry |-> [e EXCEPT !.distance = d], slot |-> q]
      <4> DEFINE r == [table |-> t, entry |-> e, slot |-> p]
                 x == [r EXCEPT !.entry.distance = d, !.slot = q]
      <4>1. x = [[r EXCEPT !.entry.distance = d] EXCEPT !.slot = q]
        OBVIOUS
      <4>2. [r EXCEPT !.entry.distance = d] = [r EXCEPT !.entry = [r.entry EXCEPT !.distance = d]]
        OBVIOUS
      <4>3. PICK g : g = [e EXCEPT !.distance = d]
        OBVIOUS
      <4>4. [[r EXCEPT !.entry = g] EXCEPT !.slot = q] = [table |-> t, entry |-> g, slot |-> q]
        <5>1. [r EXCEPT !.entry = g] = [table |-> t, entry |-> g, slot |-> p]
          OBVIOUS
        <5>2. [[table |-> t, entry |-> g, slot |-> p] EXCEPT !.slot = q] = [table |-> t, entry |-> g, slot |-> q]
          OBVIOUS
        <5> QED BY <5>1, <5>2
      <4> QED BY <4>1, <4>2, <4>3, <4>4
    <3> QED BY <3>1, <3>2, <3>3 DEF PassedBy
  <2>7. ProbePass(c, k)[s] = B(s)
    <3>1. NextSlot(s.table, s.slot) = (s.slot + 1) % c
      BY <2>2 DEF NextSlot
    <3>2. ProbePass(c, k)[s] =
            IF ~s.table[s.slot].occupied \/ s.table[s.slot].key = k THEN s
            ELSE IF s.table[s.slot].distance < s.entry.distance
            THEN [table |-> [s.table EXCEPT ![s.slot] = s.entry],
                  entry |-> [s.table[s.slot] EXCEPT !.distance = s.entry.distance + 1],
                  slot |-> NextSlot(s.table, s.slot)]
            ELSE [s EXCEPT !.entry.distance = s.entry.distance + 1,
                           !.slot = NextSlot(s.table, s.slot)]
      BY ONLY s \in ProbeState(c) DEF ProbePass
    <3>3. Displaced(s, c) = [table |-> [s.table EXCEPT ![s.slot] = s.entry],
                  entry |-> [s.table[s.slot] EXCEPT !.distance = s.entry.distance + 1],
                  slot |-> NextSlot(s.table, s.slot)]
      BY <3>1 DEF Displaced
    <3> QED BY <2>6, <3>1, <3>2, <3>3 DEF Stopped
  <2> QED BY <2>5, <2>7
<1>2. ProbePass(c, k) = [s \in ProbeState(c) |-> B(s)]
  <2>1. \A s \in ProbeState(c) : ProbePass(c, k)[s] = B(s)
    BY <1>1
  <2> HIDE DEF B
  <2>2. DOMAIN ProbePass(c, k) = ProbeState(c) /\ ProbePass(c, k) = [s \in ProbeState(c) |-> ProbePass(c, k)[s]]
    BY DEF ProbePass
  <2> QED BY <2>1, <2>2
<1>3. ProbePass(c, k) \in [ProbeState(c) -> ProbeState(c)]
  <2>1. \A s \in ProbeState(c) : B(s) \in ProbeState(c)
    BY <1>1
  <2> HIDE DEF B
  <2> QED BY <1>2, <2>1
<1> QED BY <1>1, <1>3 DEF Probes

Has(t, c, a, b) == \E p \in 0 .. c - 1 : t[p].occupied /\ t[p].key = a /\ t[p].value = b

SameSlots(t, u, c) == \A p \in 0 .. c - 1 : t[p].occupied <=> u[p].occupied

Behind(t, c, k, m) == \A p \in 0 .. c - 1 : Holds(t, p, k) => \E j \in Nat : j < m /\ p = Spot(c, k, j)

\* What is in the table, and on its way to a slot.
Mapped(s, t, c, k, v) ==
  \A a, b : (Has(s.table, c, a, b) \/ (s.entry.key = a /\ s.entry.value = b))
              <=> (Has(t, c, a, b) \/ (a = k /\ b = v))

\* The loop of insert after m passes that went on, for a key that t does not have.
Carried(s, t, c, k, v, m) ==
  /\ s.slot = Spot(c, k, m) /\ s.entry.distance = m
  /\ TableOK(s.table, c) /\ SameSlots(t, s.table, c)
  /\ Absent(s.table, c, s.entry.key) /\ Reached(s.table, c, s.entry.key, s.slot, m)
  /\ Behind(s.table, c, k, m) /\ Mapped(s, t, c, k, v)

\* An entry goes past one that is as far from its home, or further.
LEMMA PassedByOK ==
  ASSUME NEW c, Hashed(c), NEW t \in Tables(c), NEW k \in Keys, NEW v \in MapValues, NEW m \in Nat,
         NEW s \in ProbeState(c), Carried(s, t, c, k, v, m), s.table[s.slot].occupied,
         ~(s.table[s.slot].distance < s.entry.distance)
  PROVE  Carried(PassedBy(s, c), t, c, k, v, m + 1)
<1>1. /\ s.table \in Tables(c) /\ s.entry \in Items /\ s.slot \in 0 .. c - 1
      /\ s.slot = Spot(c, k, m) /\ s.entry.distance = m
  BY StateFacts DEF Carried
<1>2. PICK z : z = PassedBy(s, c)
  OBVIOUS
<1>3. PICK e : e = [s.entry EXCEPT !.distance = s.entry.distance + 1]
  OBVIOUS
<1>4. z.table = s.table /\ z.entry = e /\ z.slot = (s.slot + 1) % c
  BY <1>2, <1>3 DEF PassedBy
<1>5. e \in Items /\ e.distance = m + 1 /\ e.key = s.entry.key /\ e.value = s.entry.value
  <2>1. s.entry.distance + 1 \in Nat
    BY <1>1
  <2> QED BY <1>1, <1>3, <2>1, EntryMoves
<1>6. z.slot = Spot(c, k, m + 1)
  BY <1>1, <1>4, SpotFacts
<1>7. Reached(s.table, c, e.key, z.slot, m + 1)
  <2>1. s.table[s.slot] \in Items /\ s.entry.key \in Keys
    <3>1. s.table[s.slot] \in Items
      BY <1>1, TableFacts
    <3>2. s.entry.key \in Keys
      BY <1>1 DEF Items
    <3> QED BY <3>1, <3>2
  <2>2. s.table[s.slot].distance \in Nat
    BY <2>1 DEF Items
  <2>3. s.table[s.slot].distance >= m /\ m <= m
    BY <1>1, <2>2
  <2>4. Reached(s.table, c, s.entry.key, s.slot, m)
    BY DEF Carried
  <2>5. Reached(s.table, c, s.entry.key, (s.slot + 1) % c, m + 1)
    BY <2>1, <2>2, <2>3, <2>4, ReachedNext
  <2> QED BY <1>4, <1>5, <2>5
<1>8. Behind(s.table, c, k, m + 1)
  <2>1. Behind(s.table, c, k, m)
    BY DEF Carried
  <2>2. \A j \in Nat : j < m => j < m + 1
    OBVIOUS
  <2> QED BY <2>1, <2>2 DEF Behind
<1>9. Mapped(z, t, c, k, v)
  BY <1>4, <1>5 DEF Carried, Mapped
<1> QED BY <1>2, <1>4, <1>5, <1>6, <1>7, <1>8, <1>9 DEF Carried

\* An entry takes the slot of one that is nearer, which goes on instead.
LEMMA DisplacedOK ==
  ASSUME NEW c, Hashed(c), NEW t \in Tables(c), NEW k \in Keys, NEW v \in MapValues, NEW m \in Nat,
         NEW s \in ProbeState(c), Carried(s, t, c, k, v, m), s.table[s.slot].occupied,
         s.table[s.slot].distance < s.entry.distance
  PROVE  Carried(Displaced(s, c), t, c, k, v, m + 1)
<1>1. /\ s.table \in Tables(c) /\ s.entry \in Items /\ s.slot \in 0 .. c - 1
      /\ s.slot = Spot(c, k, m) /\ s.entry.distance = m
  BY StateFacts DEF Carried
<1>2. PICK z : z = Displaced(s, c)
  OBVIOUS
<1>3. PICK h, p, u, e : /\ h = s.table[s.slot] /\ p = s.slot
                        /\ u = [s.table EXCEPT ![s.slot] = s.entry]
                        /\ e = [s.table[s.slot] EXCEPT !.distance = s.entry.distance + 1]
  OBVIOUS
<1>4. z.table = u /\ z.entry = e /\ z.slot = (p + 1) % c
  BY <1>2, <1>3 DEF Displaced
<1>5. h \in Items /\ h.distance \in Nat /\ h.distance < m /\ h.key \in Keys /\ h.occupied
  <2>1. h \in Items
    BY <1>1, <1>3, TableFacts
  <2>2. h.distance \in Nat /\ h.key \in Keys
    BY <2>1 DEF Items
  <2> QED BY <1>1, <1>3, <2>1, <2>2
<1>6. e \in Items /\ e.distance = m + 1 /\ e.key = h.key /\ e.value = h.value
  <2>1. s.entry.distance + 1 \in Nat
    BY <1>1
  <2> QED BY <1>1, <1>3, <1>5, <2>1, EntryMoves
<1>7. z.slot = Spot(c, k, m + 1)
  BY <1>1, <1>3, <1>4, SpotFacts
<1>8. /\ TableOK(s.table, c) /\ Absent(s.table, c, s.entry.key)
      /\ Reached(s.table, c, s.entry.key, p, s.entry.distance)
      /\ s.table[p].occupied => s.table[p].distance <= s.entry.distance
  <2>1. s.table[p].distance <= s.entry.distance
    BY <1>1, <1>3, <1>5
  <2>2. TableOK(s.table, c) /\ Absent(s.table, c, s.entry.key) /\ Reached(s.table, c, s.entry.key, p, m)
    BY <1>3 DEF Carried
  <2> QED BY <1>1, <2>1, <2>2
<1>9. TableOK(u, c) /\ Grown(s.table, u, c)
  <2>1. TableOK([s.table EXCEPT ![p] = s.entry], c) /\ Grown(s.table, [s.table EXCEPT ![p] = s.entry], c)
    BY <1>1, <1>3, <1>8, PlaceOK
  <2> QED BY <1>3, <2>1
<1>10. /\ u[p] = s.entry /\ s.entry.occupied = TRUE /\ p \in 0 .. c - 1
       /\ \A q \in 0 .. c - 1 : q # p => u[q] = s.table[q]
  <2>1. s.entry.occupied = TRUE
    BY <1>1 DEF Items
  <2> QED BY <1>1, <1>3, <2>1, PlacedType
<1>11. SameSlots(t, u, c)
  <2>1. SameSlots(t, s.table, c)
    BY DEF Carried
  <2> QED BY <1>3, <1>5, <1>10, <2>1 DEF SameSlots
<1>12. Absent(u, c, h.key)
  <2>1. ASSUME NEW q \in 0 .. c - 1, u[q].occupied PROVE u[q].key # h.key
    <3>1. CASE q = p
      BY <1>3, <1>5, <1>8, <1>10, <3>1 DEF Absent
    <3>2. CASE q # p
      BY <1>3, <1>5, <1>8, <1>10, <2>1, <3>2 DEF TableOK, Once
    <3> QED BY <3>1, <3>2
  <2> QED BY <2>1 DEF Absent
<1>13. Reached(u, c, h.key, z.slot, m + 1)
  <2>1. Reached(s.table, c, h.key, p, h.distance)
    BY <1>3, <1>5, <1>8, <1>10 DEF TableOK, AllReached
  <2>2. Reached(u, c, h.key, p, h.distance)
    BY <1>1, <1>5, <1>9, <2>1, ReachedGrows
  <2>3. u[p].occupied /\ u[p].distance = m /\ m >= h.distance /\ h.distance <= m
    BY <1>1, <1>5, <1>10
  <2>4. Reached(u, c, h.key, (p + 1) % c, m + 1)
    BY <1>5, <2>2, <2>3, ReachedNext
  <2> QED BY <1>4, <2>4
<1>14. Behind(u, c, k, m + 1)
  <2>1. Behind(s.table, c, k, m)
    BY DEF Carried
  <2>2. \A j \in Nat : j < m => j < m + 1
    OBVIOUS
  <2>3. m \in Nat /\ m < m + 1 /\ p = Spot(c, k, m)
    BY <1>1, <1>3
  <2> QED BY <1>10, <2>1, <2>2, <2>3 DEF Behind, Holds
<1>15. Mapped(z, t, c, k, v)
  <2>1. ASSUME NEW a, NEW b
        PROVE  (Has(u, c, a, b) \/ (h.key = a /\ h.value = b))
                 <=> (Has(s.table, c, a, b) \/ (s.entry.key = a /\ s.entry.value = b))
    <3>1. ASSUME Has(u, c, a, b) PROVE Has(s.table, c, a, b) \/ (s.entry.key = a /\ s.entry.value = b)
      BY <1>10, <3>1 DEF Has
    <3>2. ASSUME h.key = a /\ h.value = b PROVE Has(s.table, c, a, b)
      BY <1>3, <1>5, <1>10, <3>2 DEF Has
    <3>3. ASSUME Has(s.table, c, a, b) PROVE Has(u, c, a, b) \/ (h.key = a /\ h.value = b)
      BY <1>3, <1>10, <3>3 DEF Has
    <3>4. ASSUME s.entry.key = a /\ s.entry.value = b PROVE Has(u, c, a, b)
      BY <1>10, <3>4 DEF Has
    <3> QED BY <3>1, <3>2, <3>3, <3>4
  <2>2. Mapped(s, t, c, k, v)
    BY DEF Carried
  <2> QED BY <1>4, <1>6, <2>1, <2>2 DEF Mapped
<1> QED BY <1>2, <1>4, <1>6, <1>7, <1>9, <1>11, <1>12, <1>13, <1>14, <1>15 DEF Carried

Starting(t, c, k, v) == [table |-> t, entry |-> Entry(k, v, 0), slot |-> Spot(c, k, 0)]

\* What insert does when its loop is over.
PutIn(s, v) ==
  IF s.table[s.slot].occupied
  THEN [table |-> [s.table EXCEPT ![s.slot].value = v], new |-> FALSE]
  ELSE [table |-> [s.table EXCEPT ![s.slot] = s.entry], new |-> TRUE]

PutBy(r, body, s, c, k, v) ==
  /\ Probes(body, c, k) /\ body \in [ProbeState(c) -> ProbeState(c)] /\ s \in ProbeState(c)
  /\ r = PutIn(Passes(body, s)[c], v) /\ Passes(body, s)[c] \in ProbeState(c)

\* Put is what that makes of the last state of the loop.
LEMMA PutLoop ==
  ASSUME NEW c, Hashed(c), NEW t \in Tables(c), NEW k \in Keys, NEW v \in MapValues
  PROVE  \E body : PutBy(Put(t, k, v), body, Starting(t, c, k, v), c, k, v)
<1>1. c \in Nat \ {0} /\ Capacity(t) = c
  BY TableFacts
<1>2. PICK body : body = ProbePass(c, k)
  OBVIOUS
<1>3. Probes(body, c, k)
  BY <1>2, ProbePassType
<1>4. PICK s : s = Starting(t, c, k, v)
  OBVIOUS
<1>5. s = [table |-> t, entry |-> Entry(k, v, 0), slot |-> Home(t, k)]
  BY <1>1, <1>4, SpotFacts DEF Starting, Home
<1>6. s \in ProbeState(c)
  <2>1. Entry(k, v, 0) \in Items
    BY DEF Entry, Items
  <2>2. Spot(c, k, 0) \in 0 .. c - 1
    BY SpotFacts
  <2> QED BY <1>4, <2>1, <2>2 DEF Starting, ProbeState
<1>7. Passes(body, s)[c] \in ProbeState(c)
  <2>1. body \in [ProbeState(c) -> ProbeState(c)] /\ c \in Nat
    BY <1>1, <1>3 DEF Probes
  <2>2. Passes(body, s) \in [Nat -> ProbeState(c)]
    BY <1>6, <2>1, PassesFacts
  <2> QED BY <2>1, <2>2
<1>8. Put(t, k, v) = PutIn(Passes(body, s)[c], v)
  BY <1>1, <1>2, <1>5 DEF Put, PutIn
<1> QED BY <1>3, <1>4, <1>6, <1>7, <1>8 DEF PutBy, Probes

\* The value of the entry in a slot.
Written(t, p, v) == [t EXCEPT ![p].value = v]

ValueIn(u, t, c, p, v) ==
  /\ u \in Tables(c)
  /\ \E e \in Items : /\ u[p] = e /\ e.occupied /\ e.value = v
                      /\ e.key = t[p].key /\ e.distance = t[p].distance
  /\ \A q \in 0 .. c - 1 : q # p => u[q] = t[q]

\* insert changes nothing but the value.
LEMMA ValueWritten ==
  ASSUME NEW c, NEW t \in Tables(c), NEW p \in 0 .. c - 1, t[p] \in Items, NEW v \in MapValues
  PROVE  ValueIn(Written(t, p, v), t, c, p, v)
<1>1. DOMAIN t = 0 .. c - 1
  BY DEF Tables
<1>2. PICK e : e = [t[p] EXCEPT !.value = v]
  OBVIOUS
<1>3. e \in Items /\ e.value = v /\ e.key = t[p].key /\ e.distance = t[p].distance
  BY <1>2 DEF Items
<1>4. e.occupied
  <2>1. e.occupied = TRUE
    BY <1>3 DEF Items
  <2> QED BY <2>1
<1>5. [t EXCEPT ![p].value = v] = [t EXCEPT ![p] = e]
  BY <1>1, <1>2
<1>6. [t EXCEPT ![p] = e] \in Tables(c) /\ [t EXCEPT ![p] = e][p] = e
  BY <1>3, PlacedType
<1>7. \A q \in 0 .. c - 1 : q # p => [t EXCEPT ![p] = e][q] = t[q]
  BY <1>3, PlacedType
<1> QED BY <1>3, <1>4, <1>5, <1>6, <1>7 DEF ValueIn, Written

\* The table of an insert has the capacity it had.
LEMMA PutType ==
  ASSUME NEW c, Hashed(c), NEW t \in Tables(c), NEW k \in Keys, NEW v \in MapValues
  PROVE  Put(t, k, v).table \in Tables(c)
<1>1. PICK s \in ProbeState(c) : Put(t, k, v) = PutIn(s, v)
  BY PutLoop DEF PutBy
<1>2. s.table \in Tables(c) /\ s.entry \in Items /\ s.slot \in 0 .. c - 1
  BY StateFacts
<1>3. CASE s.table[s.slot].occupied
  <2>1. s.table[s.slot] \in Items
    BY <1>2, <1>3, TableFacts
  <2>2. ValueIn(Written(s.table, s.slot, v), s.table, c, s.slot, v)
    BY <1>2, <2>1, ValueWritten
  <2>3. Put(t, k, v) = [table |-> Written(s.table, s.slot, v), new |-> FALSE]
    BY <1>1, <1>3 DEF PutIn, Written
  <2> QED BY <2>2, <2>3 DEF ValueIn
<1>4. CASE ~s.table[s.slot].occupied
  <2>1. [s.table EXCEPT ![s.slot] = s.entry] \in Tables(c)
    BY <1>2, PlacedType
  <2> QED BY <1>1, <1>4, <2>1 DEF PutIn
<1> QED BY <1>3, <1>4

\* What a call of insert promises: the key has the value, the others have what
\* they had, and a slot is taken if the key was not there.
SlotTaken(r, t, c) ==
  /\ r.new \in BOOLEAN
  /\ IF r.new THEN \E p \in 0 .. c - 1 : /\ ~t[p].occupied /\ r.table[p].occupied
                                         /\ \A q \in 0 .. c - 1 : q # p => (t[q].occupied <=> r.table[q].occupied)
              ELSE SameSlots(t, r.table, c)

PutOK(r, t, c, k, v) ==
  /\ TableOK(r.table, c)
  /\ \A a, b : Has(r.table, c, a, b) <=> IF a = k THEN b = v ELSE Has(t, c, a, b)
  /\ SlotTaken(r, t, c)

\* The loop of insert for a key that is in the table comes to its slot without
\* moving an entry.
SeekingState(t, c, k, v, m) == [table |-> t, entry |-> Entry(k, v, m), slot |-> Spot(c, k, m)]

LEMMA EntryNext ==
  ASSUME NEW k, NEW v, NEW m, NEW d
  PROVE  [Entry(k, v, m) EXCEPT !.distance = d] = Entry(k, v, d)
<1>1. PICK yes : yes = TRUE
  OBVIOUS
<1>2. [[occupied |-> yes, key |-> k, value |-> v, distance |-> m] EXCEPT !.distance = d] =
        [occupied |-> yes, key |-> k, value |-> v, distance |-> d]
  BY ONLY TRUE
<1> QED BY <1>1, <1>2 DEF Entry

\* insert of a key that is in the table keeps what it promises.
LEMMA PutPresent ==
  ASSUME NEW c, Hashed(c), NEW t, TableOK(t, c), NEW k \in Keys, NEW v \in MapValues,
         NEW p \in 0 .. c - 1, Holds(t, p, k)
  PROVE  PutOK(Put(t, k, v), t, c, k, v)
<1> DEFINE AtStep(o) == [n \in Nat |-> {SeekingState(t, c, k, v, IF n < o THEN n ELSE o)}]
<1>1. t \in Tables(c) /\ c \in Nat \ {0} /\ t[p].occupied /\ t[p].key = k /\ t[p] \in Items
  <2>1. t \in Tables(c) /\ c \in Nat \ {0} /\ t[p].occupied /\ t[p].key = k
    BY DEF TableOK, Holds, Hashed
  <2> QED BY <2>1, TableFacts
<1>2. PICK o \in 0 .. c - 1 :
        /\ Spot(c, k, o) = p
        /\ \A j \in Nat : j < o => /\ t[Spot(c, k, j)].occupied /\ t[Spot(c, k, j)].key # k
                                   /\ t[Spot(c, k, j)].distance >= j
  BY FoundAt
<1>3. o \in Nat /\ o <= c
  BY <1>1
<1>4. PICK body : PutBy(Put(t, k, v), body, Starting(t, c, k, v), c, k, v)
  BY <1>1, PutLoop
<1>5. PICK K : K = AtStep(o)
  OBVIOUS
<1>6. Starting(t, c, k, v) \in K[0]
  <2>1. (IF 0 < o THEN 0 ELSE o) = 0
    BY <1>3
  <2>2. K[0] = {SeekingState(t, c, k, v, 0)}
    BY <1>5, <2>1
  <2> QED BY <2>2 DEF Starting, SeekingState
<1>7. ASSUME NEW n \in Nat, NEW s \in ProbeState(c), s \in K[n]
      PROVE  body[s] \in K[n + 1]
  <2>1. PICK m \in Nat : m = (IF n < o THEN n ELSE o)
    BY <1>3
  <2>2. s = SeekingState(t, c, k, v, m)
    BY <1>5, <1>7, <2>1
  <2>3. s.table = t /\ s.entry = Entry(k, v, m) /\ s.slot = Spot(c, k, m) /\ s.entry.distance = m
    BY <2>2 DEF SeekingState, Entry
  <2>4. CASE n < o
    <3>1. m = n /\ m < o /\ (IF n + 1 < o THEN n + 1 ELSE o) = m + 1
      BY <1>3, <2>1, <2>4
    <3>2. t[s.slot].occupied /\ t[s.slot].key # k /\ t[s.slot].distance >= m
      BY <1>2, <2>3, <3>1
    <3>3. ~(t[s.slot].distance < m)
      <4>0. s.slot \in 0 .. c - 1
        BY <2>3, SpotFacts
      <4>1. t[s.slot] \in Items
        BY <1>1, <3>2, <4>0, TableFacts
      <4>2. t[s.slot].distance \in Nat
        BY <4>1 DEF Items
      <4> QED BY <3>2, <4>2
    <3>4. body[s] = PassedBy(s, c)
      BY <1>4, <2>3, <3>2, <3>3 DEF PutBy, Probes, Stopped
    <3>5. [s.entry EXCEPT !.distance = s.entry.distance + 1] = Entry(k, v, m + 1)
      <4>1. PICK d : d = m + 1
        OBVIOUS
      <4>2. [Entry(k, v, m) EXCEPT !.distance = d] = Entry(k, v, d)
        BY EntryNext
      <4> QED BY <2>3, <4>1, <4>2
    <3>6. (s.slot + 1) % c = Spot(c, k, m + 1)
      BY <2>3, SpotFacts
    <3>7. PassedBy(s, c) = SeekingState(t, c, k, v, m + 1)
      BY <2>3, <3>5, <3>6 DEF PassedBy, SeekingState
    <3>8. K[n + 1] = {SeekingState(t, c, k, v, m + 1)}
      BY <1>5, <3>1
    <3> QED BY <3>4, <3>7, <3>8
  <2>5. CASE ~(n < o)
    <3>1. m = o /\ (IF n + 1 < o THEN n + 1 ELSE o) = m
      BY <1>3, <2>1, <2>5
    <3>2. body[s] = s
      BY <1>1, <1>2, <1>4, <2>3, <3>1 DEF PutBy, Probes, Stopped
    <3>3. K[n + 1] = {SeekingState(t, c, k, v, m)}
      BY <1>5, <3>1
    <3> QED BY <2>2, <3>2, <3>3
  <2> QED BY <2>4, <2>5
<1>8. PICK s : s = Passes(body, Starting(t, c, k, v))[c]
  OBVIOUS
<1>9. s = SeekingState(t, c, k, v, o)
  <2>1. \A n \in Nat : \A x \in ProbeState(c) : x \in K[n] => body[x] \in K[n + 1]
    BY <1>7
  <2>2. body \in [ProbeState(c) -> ProbeState(c)] /\ Starting(t, c, k, v) \in ProbeState(c) /\ c \in Nat
    BY <1>1, <1>4 DEF PutBy
  <2>3. s \in K[c]
    BY ONLY <1>6, <1>8, <2>1, <2>2, LoopInvariant
  <2>4. K[c] = {SeekingState(t, c, k, v, o)}
    <3>1. ~(c < o) /\ c \in Nat
      BY <1>1, <1>3
    <3> QED BY <1>5, <3>1
  <2> QED BY <2>3, <2>4
<1>10. s.table = t /\ s.slot = p
  BY <1>2, <1>9 DEF SeekingState
<1>11. PICK u : u = Written(t, p, v)
  OBVIOUS
<1>12. PICK r : r = Put(t, k, v)
  OBVIOUS
<1>13. r.table = u /\ r.new = FALSE
  <2>1. r = PutIn(s, v)
    BY <1>4, <1>8, <1>12 DEF PutBy
  <2>2. PutIn(s, v) = [table |-> [s.table EXCEPT ![s.slot].value = v], new |-> FALSE]
    BY <1>1, <1>10 DEF PutIn
  <2>3. [s.table EXCEPT ![s.slot].value = v] = u
    BY <1>10, <1>11 DEF Written
  <2> QED BY <2>1, <2>2, <2>3
<1>14. /\ u \in Tables(c)
       /\ \A q \in 0 .. c - 1 : q # p => u[q] = t[q]
       /\ \E e \in Items : /\ u[p] = e /\ e.occupied /\ e.value = v /\ e.key = t[p].key
                            /\ e.distance = t[p].distance
  <2>1. ValueIn(u, t, c, p, v)
    <3>1. ValueIn(Written(t, p, v), t, c, p, v)
      BY <1>1, ValueWritten
    <3> QED BY <1>11, <3>1
  <2> QED BY ONLY <2>1 DEF ValueIn
<1>15. PICK e \in Items : /\ u[p] = e /\ e.occupied /\ e.value = v /\ e.key = k
                          /\ e.distance = t[p].distance
  BY <1>1, <1>14
<1>16. \A q \in 0 .. c - 1 : (t[q].occupied <=> u[q].occupied) /\ u[q].key = t[q].key /\ u[q].distance = t[q].distance
  <2>1. ASSUME NEW q \in 0 .. c - 1
        PROVE  (t[q].occupied <=> u[q].occupied) /\ u[q].key = t[q].key /\ u[q].distance = t[q].distance
    <3>1. CASE q = p
      BY <1>1, <1>15, <3>1
    <3>2. CASE q # p
      BY <1>14, <3>2
    <3> QED BY <3>1, <3>2
  <2> QED BY <2>1
<1>17. Once(u, c)
  BY <1>16 DEF TableOK, Once
<1>18. AllReached(u, c)
  <2>1. Grown(t, u, c)
    <3>1. \A q \in 0 .. c - 1 : t[q].occupied => t[q].distance \in Nat
      <4>1. \A q \in 0 .. c - 1 : t[q].occupied => t[q] \in Items
        BY <1>1, TableFacts
      <4> QED BY <4>1 DEF Items
    <3>2. ASSUME NEW q \in 0 .. c - 1, t[q].occupied
          PROVE  u[q].occupied /\ u[q].distance \in Nat /\ u[q].distance >= t[q].distance
      <4>1. t[q].distance \in Nat /\ u[q].distance = t[q].distance /\ u[q].occupied
        BY <1>16, <3>1, <3>2
      <4> QED BY <4>1
    <3> QED BY <3>2 DEF Grown
  <2>2. ASSUME NEW q \in 0 .. c - 1, u[q].occupied
        PROVE  Reached(u, c, u[q].key, q, u[q].distance)
    <3>1. t[q].occupied /\ u[q].key = t[q].key /\ u[q].distance = t[q].distance
      BY <1>16, <2>2
    <3>2. Reached(t, c, t[q].key, q, t[q].distance)
      BY <3>1 DEF TableOK, AllReached
    <3>3. t[q].key \in Keys
      <4>1. t[q] \in Items
        BY <1>1, <3>1, TableFacts
      <4> QED BY <4>1 DEF Items
    <3>4. Reached(u, c, t[q].key, q, t[q].distance)
      BY <1>1, <2>1, <3>2, <3>3, ReachedGrows
    <3> QED BY <3>1, <3>4
  <2> QED BY <2>2 DEF AllReached
<1>19. ASSUME NEW a, NEW b
       PROVE  Has(u, c, a, b) <=> IF a = k THEN b = v ELSE Has(t, c, a, b)
  <2>1. ASSUME a = k PROVE Has(u, c, a, b) <=> b = v
    <3>1. ASSUME Has(u, c, a, b) PROVE b = v
      <4>1. PICK q \in 0 .. c - 1 : u[q].occupied /\ u[q].key = a /\ u[q].value = b
        BY <3>1 DEF Has
      <4>2. q = p
        BY <1>15, <1>17, <2>1, <4>1 DEF Once
      <4> QED BY <1>15, <4>1, <4>2
    <3>2. ASSUME b = v PROVE Has(u, c, a, b)
      BY <1>15, <2>1, <3>2 DEF Has
    <3> QED BY <3>1, <3>2
  <2>2. ASSUME a # k PROVE Has(u, c, a, b) <=> Has(t, c, a, b)
    BY <1>1, <1>14, <1>15, <2>2 DEF Has
  <2> QED BY <2>1, <2>2
<1>20. SameSlots(t, u, c)
  BY <1>16 DEF SameSlots
<1>21. TableOK(u, c)
  BY <1>14, <1>17, <1>18 DEF TableOK
<1> QED BY <1>12, <1>13, <1>19, <1>20, <1>21 DEF PutOK, SlotTaken

HasRoom(t, c) == \E p \in 0 .. c - 1 : ~t[p].occupied

\* The first f slots that are seen are occupied, the next is not.
FirstFree(t, c, k, f) ==
  /\ f \in 0 .. c - 1 /\ ~t[Spot(c, k, f)].occupied
  /\ \A j \in Nat : j < f => t[Spot(c, k, j)].occupied

\* A search in a table with room comes to a free slot.
LEMMA RoomAhead ==
  ASSUME NEW c, Hashed(c), NEW t \in Tables(c), NEW k \in Keys, HasRoom(t, c)
  PROVE  \E f : FirstFree(t, c, k, f)
<1> DEFINE F == {j \in 0 .. c - 1 : ~t[Spot(c, k, j)].occupied}
<1>1. F # {} /\ F \in SUBSET Nat
  <2>1. PICK p \in 0 .. c - 1 : ~t[p].occupied
    BY DEF HasRoom
  <2>2. PICK j \in 0 .. c - 1 : Spot(c, k, j) = p
    BY AllSpots
  <2> QED BY <2>1, <2>2
<1>2. PICK f \in F : \A j \in F : f <= j
  <2> HIDE DEF F
  <2> QED BY <1>1, LeastNat
<1>3. \A j \in Nat : j < f => t[Spot(c, k, j)].occupied
  <2>1. ASSUME NEW j \in Nat, j < f, ~t[Spot(c, k, j)].occupied PROVE FALSE
    <3>1. j \in F
      BY <2>1 DEF Hashed
    <3> QED BY <1>2, <2>1, <3>1
  <2> QED BY <2>1
<1> QED BY <1>2, <1>3 DEF FirstFree

\* Before the first pass.
LEMMA CarriedFirst ==
  ASSUME NEW c, Hashed(c), NEW t, TableOK(t, c), NEW k \in Keys, NEW v \in MapValues,
         Absent(t, c, k)
  PROVE  Carried(Starting(t, c, k, v), t, c, k, v, 0)
<1>1. PICK s : s = Starting(t, c, k, v)
  OBVIOUS
<1>2. /\ s.table = t /\ s.slot = Spot(c, k, 0) /\ s.entry.distance = 0
      /\ s.entry.key = k /\ s.entry.value = v
  BY <1>1 DEF Starting, Entry
<1>3. Reached(t, c, k, Spot(c, k, 0), 0)
  <2>1. Chain(t, c, k, 0)
    BY DEF Chain
  <2> QED BY <2>1 DEF Reached
<1>4. Behind(t, c, k, 0)
  BY DEF Behind, Absent, Holds
<1>5. SameSlots(t, t, c)
  BY DEF SameSlots
<1>6. Mapped(s, t, c, k, v)
  BY <1>2 DEF Mapped
<1> QED BY <1>1, <1>2, <1>3, <1>4, <1>5, <1>6 DEF Carried

\* A pass goes on while there is no free slot, and ends at the first.
LEMMA CarriedOn ==
  ASSUME NEW c, Hashed(c), NEW t \in Tables(c), NEW k \in Keys, NEW v \in MapValues,
         NEW f, FirstFree(t, c, k, f), NEW body, Probes(body, c, k),
         NEW m \in Nat, NEW s \in ProbeState(c), Carried(s, t, c, k, v, m)
  PROVE  /\ m < f => Carried(body[s], t, c, k, v, m + 1)
         /\ m = f => body[s] = s
<1>1. s.slot \in 0 .. c - 1 /\ s.slot = Spot(c, k, m)
  BY StateFacts DEF Carried
<1>2. s.table[s.slot].occupied <=> t[s.slot].occupied
  BY <1>1 DEF Carried, SameSlots
<1>3. ASSUME m < f PROVE Carried(body[s], t, c, k, v, m + 1)
  <2>1. s.table[s.slot].occupied
    BY <1>1, <1>2, <1>3 DEF FirstFree
  <2>2. s.table[s.slot].key # k
    <3>1. ASSUME Holds(s.table, s.slot, k) PROVE FALSE
      <4>1. PICK j \in Nat : j < m /\ s.slot = Spot(c, k, j)
        BY <1>1, <3>1 DEF Carried, Behind
      <4>2. j \in 0 .. c - 1 /\ m \in 0 .. c - 1 /\ j # m
        BY <1>3, <4>1 DEF FirstFree, Hashed
      <4> QED BY <1>1, <4>1, <4>2, SpotsDiffer
    <3> QED BY <2>1, <3>1 DEF Holds
  <2>3. ~Stopped(s, k)
    BY <2>1, <2>2 DEF Stopped
  <2>4. CASE s.table[s.slot].distance < s.entry.distance
    <3>1. body[s] = Displaced(s, c)
      BY <2>3, <2>4 DEF Probes
    <3>2. Carried(Displaced(s, c), t, c, k, v, m + 1)
      BY <2>1, <2>4, DisplacedOK
    <3> QED BY <3>1, <3>2
  <2>5. CASE ~(s.table[s.slot].distance < s.entry.distance)
    <3>1. body[s] = PassedBy(s, c)
      BY <2>3, <2>5 DEF Probes
    <3>2. Carried(PassedBy(s, c), t, c, k, v, m + 1)
      BY <2>1, <2>5, PassedByOK
    <3> QED BY <3>1, <3>2
  <2> QED BY <2>4, <2>5
<1>4. ASSUME m = f PROVE body[s] = s
  <2>1. Stopped(s, k)
    BY <1>1, <1>2, <1>4 DEF FirstFree, Stopped
  <2> QED BY <2>1 DEF Probes
<1> QED BY <1>3, <1>4

\* insert of a new key keeps what it promises.
LEMMA PutAbsent ==
  ASSUME NEW c, Hashed(c), NEW t, TableOK(t, c), NEW k \in Keys, NEW v \in MapValues,
         Absent(t, c, k), HasRoom(t, c)
  PROVE  PutOK(Put(t, k, v), t, c, k, v)
<1>1. t \in Tables(c) /\ c \in Nat \ {0}
  BY DEF TableOK, Hashed
<1>2. PICK f : FirstFree(t, c, k, f)
  BY <1>1, RoomAhead
<1>3. f \in 0 .. c - 1 /\ f \in Nat
  BY <1>1, <1>2 DEF FirstFree
<1> DEFINE M(n) == IF n < f THEN n ELSE f
           J == [n \in Nat |-> {s \in ProbeState(c) : Carried(s, t, c, k, v, M(n))}]
<1>4. PICK body : PutBy(Put(t, k, v), body, Starting(t, c, k, v), c, k, v)
  BY <1>1, PutLoop
<1>5. PICK start : start = Starting(t, c, k, v)
  OBVIOUS
<1>6. /\ Probes(body, c, k) /\ body \in [ProbeState(c) -> ProbeState(c)] /\ start \in ProbeState(c)
      /\ Put(t, k, v) = PutIn(Passes(body, start)[c], v) /\ Passes(body, start)[c] \in ProbeState(c)
  BY <1>4, <1>5 DEF PutBy
<1>7. start \in J[0]
  <2>1. Carried(start, t, c, k, v, 0)
    BY <1>5, CarriedFirst
  <2>2. M(0) = 0
    BY <1>3
  <2> QED BY <1>6, <2>1, <2>2
<1>8. ASSUME NEW n \in Nat, NEW s \in ProbeState(c), s \in J[n]
      PROVE  body[s] \in J[n + 1]
  <2>1. PICK m \in Nat : m = M(n)
    BY <1>3
  <2>2. Carried(s, t, c, k, v, m)
    BY <1>8, <2>1
  <2>3. (m < f => Carried(body[s], t, c, k, v, m + 1)) /\ (m = f => body[s] = s)
    BY <1>1, <1>2, <1>6, <2>2, CarriedOn
  <2>4. (m < f /\ M(n + 1) = m + 1) \/ (m = f /\ M(n + 1) = m)
    BY <1>3, <2>1
  <2>5. Carried(body[s], t, c, k, v, M(n + 1))
    BY <2>2, <2>3, <2>4
  <2>6. body[s] \in ProbeState(c)
    BY <1>6
  <2> QED BY <2>5, <2>6
<1>9. PICK s : s = Passes(body, start)[c]
  OBVIOUS
<1>10. Carried(s, t, c, k, v, f)
  <2>1. PICK K : K = J
    OBVIOUS
  <2>2. start \in K[0] /\ \A n \in Nat : \A x \in ProbeState(c) : x \in K[n] => body[x] \in K[n + 1]
    BY <1>7, <1>8, <2>1
  <2>3. c \in Nat
    BY <1>1
  <2>4. s \in K[c]
    BY ONLY <1>6, <1>9, <2>2, <2>3, LoopInvariant
  <2>5. M(c) = f
    BY <1>1, <1>3
  <2> QED BY <2>1, <2>3, <2>4, <2>5
<1> HIDE DEF J, M
<1>11. /\ s \in ProbeState(c) /\ s.table \in Tables(c) /\ s.entry \in Items /\ s.slot \in 0 .. c - 1
       /\ s.slot = Spot(c, k, f) /\ s.entry.distance = f
  <2>1. s \in ProbeState(c)
    BY <1>6, <1>9
  <2> QED BY <1>10, <2>1, StateFacts DEF Carried
<1>12. ~t[s.slot].occupied /\ ~s.table[s.slot].occupied
  <2>1. ~t[s.slot].occupied
    BY <1>2, <1>11 DEF FirstFree
  <2> QED BY <1>10, <1>11, <2>1 DEF Carried, SameSlots
<1>13. PICK r, u, p : r = Put(t, k, v) /\ u = [s.table EXCEPT ![s.slot] = s.entry] /\ p = s.slot
  OBVIOUS
<1>14. r.table = u /\ r.new = TRUE
  <2>1. r = [table |-> u, new |-> TRUE]
    BY <1>6, <1>9, <1>12, <1>13 DEF PutIn
  <2> QED BY <2>1
<1>15. /\ u[p] = s.entry /\ s.entry.occupied = TRUE /\ p \in 0 .. c - 1
       /\ \A q \in 0 .. c - 1 : q # p => u[q] = s.table[q]
  <2>1. s.entry.occupied = TRUE
    BY <1>11 DEF Items
  <2> QED BY <1>11, <1>13, <2>1, PlacedType
<1>16. TableOK(u, c)
  <2>1. /\ TableOK(s.table, c) /\ Absent(s.table, c, s.entry.key)
        /\ Reached(s.table, c, s.entry.key, s.slot, s.entry.distance)
    BY <1>10, <1>11 DEF Carried
  <2>2. TableOK([s.table EXCEPT ![s.slot] = s.entry], c)
    BY <1>11, <1>12, <2>1, PlaceOK
  <2> QED BY <1>13, <2>2
<1>17. \A q \in 0 .. c - 1 : q # p => (t[q].occupied <=> u[q].occupied)
  BY <1>10, <1>15 DEF Carried, SameSlots
<1>18. ASSUME NEW a, NEW b
       PROVE  Has(u, c, a, b) <=> IF a = k THEN b = v ELSE Has(t, c, a, b)
  <2>1. Has(u, c, a, b) <=> (Has(s.table, c, a, b) \/ (s.entry.key = a /\ s.entry.value = b))
    <3>1. ASSUME Has(u, c, a, b) PROVE Has(s.table, c, a, b) \/ (s.entry.key = a /\ s.entry.value = b)
      <4>1. PICK q \in 0 .. c - 1 : u[q].occupied /\ u[q].key = a /\ u[q].value = b
        BY <3>1 DEF Has
      <4>2. CASE q = p
        BY <1>15, <4>1, <4>2
      <4>3. CASE q # p
        <5>1. u[q] = s.table[q]
          BY <1>15, <4>3
        <5> QED BY <4>1, <5>1 DEF Has
      <4> QED BY <4>2, <4>3
    <3>2. ASSUME Has(s.table, c, a, b) PROVE Has(u, c, a, b)
      BY <1>12, <1>13, <1>15, <3>2 DEF Has
    <3>3. ASSUME s.entry.key = a /\ s.entry.value = b PROVE Has(u, c, a, b)
      BY <1>15, <3>3 DEF Has
    <3> QED BY <3>1, <3>2, <3>3
  <2>2. Mapped(s, t, c, k, v)
    BY <1>10 DEF Carried
  <2>3. Has(u, c, a, b) <=> (Has(t, c, a, b) \/ (a = k /\ b = v))
    BY <2>1, <2>2 DEF Mapped
  <2>4. a = k => ~Has(t, c, a, b)
    BY DEF Has, Absent
  <2> QED BY <2>3, <2>4
<1>19. \E q \in 0 .. c - 1 : /\ ~t[q].occupied /\ r.table[q].occupied
                             /\ \A i \in 0 .. c - 1 : i # q => (t[i].occupied <=> r.table[i].occupied)
  BY <1>12, <1>13, <1>14, <1>15, <1>17
<1>20. PutOK(r, t, c, k, v)
  BY <1>14, <1>16, <1>18, <1>19 DEF PutOK, SlotTaken
<1> QED BY <1>13, <1>20

\* So insert does for every key.
LEMMA PutFacts ==
  ASSUME NEW c, Hashed(c), NEW t, TableOK(t, c), NEW k \in Keys, NEW v \in MapValues, HasRoom(t, c)
  PROVE  PutOK(Put(t, k, v), t, c, k, v)
<1>1. CASE Absent(t, c, k)
  BY <1>1, PutAbsent
<1>2. CASE ~Absent(t, c, k)
  <2>1. PICK p \in 0 .. c - 1 : Holds(t, p, k)
    BY <1>2 DEF Absent, Holds
  <2> QED BY <2>1, PutPresent
<1> QED BY <1>1, <1>2

\* The occupied slots, one of which is free if they are fewer than c.
LEMMA OccupiedFacts ==
  ASSUME NEW c, Hashed(c), NEW t \in Tables(c)
  PROVE  /\ IsFiniteSet(Occupied(t)) /\ Cardinality(Occupied(t)) \in Nat
         /\ Cardinality(Occupied(t)) < c => HasRoom(t, c)
         /\ \A p : p \in Occupied(t) <=> p \in 0 .. c - 1 /\ t[p].occupied
<1>1. c \in Nat \ {0} /\ DOMAIN t = 0 .. c - 1
  BY TableFacts
<1>2. PICK m \in Int, z \in Int : m = c - 1 /\ z = 0
  BY <1>1
<1>3. IsFiniteSet(0 .. c - 1) /\ Cardinality(0 .. c - 1) = c
  <2>1. IsFiniteSet(z .. m)
    BY FS_Interval
  <2>2. Cardinality(z .. m) = IF z > m THEN 0 ELSE m - z + 1
    BY FS_Interval
  <2> QED BY <1>1, <1>2, <2>1, <2>2
<1>4. \A p : p \in Occupied(t) <=> p \in 0 .. c - 1 /\ t[p].occupied
  BY <1>1 DEF Occupied
<1>5. Occupied(t) \in SUBSET (0 .. c - 1)
  BY <1>4
<1>6. IsFiniteSet(Occupied(t))
  BY <1>3, <1>5, FS_Subset
<1>7. Cardinality(Occupied(t)) \in Nat
  BY <1>6, FS_CardinalityType
<1>8. ASSUME Cardinality(Occupied(t)) < c, ~HasRoom(t, c) PROVE FALSE
  <2>1. Occupied(t) = 0 .. c - 1
    BY <1>4, <1>8 DEF HasRoom
  <2> QED BY <1>1, <1>3, <1>8, <2>1
<1> QED BY <1>4, <1>6, <1>7, <1>8

\* A call of insert takes one slot, if it says so.
LEMMA OneMore ==
  ASSUME NEW c, Hashed(c), NEW t \in Tables(c), NEW r, r.table \in Tables(c), SlotTaken(r, t, c)
  PROVE  Cardinality(Occupied(r.table)) =
           IF r.new THEN Cardinality(Occupied(t)) + 1 ELSE Cardinality(Occupied(t))
<1>2. /\ IsFiniteSet(Occupied(t))
      /\ \A p : p \in Occupied(t) <=> p \in 0 .. c - 1 /\ t[p].occupied
  BY OccupiedFacts
<1>3. \A p : p \in Occupied(r.table) <=> p \in 0 .. c - 1 /\ r.table[p].occupied
  BY OccupiedFacts
<1>4. ASSUME r.new PROVE Cardinality(Occupied(r.table)) = Cardinality(Occupied(t)) + 1
  <2>1. PICK p \in 0 .. c - 1 : /\ ~t[p].occupied /\ r.table[p].occupied
                                /\ \A q \in 0 .. c - 1 : q # p => (t[q].occupied <=> r.table[q].occupied)
    BY <1>4 DEF SlotTaken
  <2>2. Occupied(r.table) = Occupied(t) \cup {p}
    BY <1>2, <1>3, <2>1
  <2>3. p \notin Occupied(t)
    BY <1>2, <2>1
  <2>4. Cardinality(Occupied(t) \cup {p}) =
          IF p \in Occupied(t) THEN Cardinality(Occupied(t)) ELSE Cardinality(Occupied(t)) + 1
    BY <1>2, FS_AddElement
  <2> QED BY <2>2, <2>3, <2>4
<1>5. ASSUME ~r.new PROVE Occupied(r.table) = Occupied(t)
  <2>1. SameSlots(t, r.table, c)
    BY <1>5 DEF SlotTaken
  <2> QED BY <1>2, <1>3, <2>1 DEF SameSlots
<1> QED BY <1>4, <1>5

\* A table without entries.
LEMMA EmptyOK ==
  ASSUME NEW c, Hashed(c)
  PROVE  /\ TableOK(Empty(c), c) /\ Occupied(Empty(c)) = {}
         /\ \A a, b : ~Has(Empty(c), c, a, b)
<1>1. PICK t : t = Empty(c)
  OBVIOUS
<1>2. t \in Tables(c) /\ \A p \in 0 .. c - 1 : t[p] = Free
  BY <1>1 DEF Empty, Tables
<1>3. Free.occupied = FALSE
  BY DEF Free
<1>4. \A p \in 0 .. c - 1 : ~t[p].occupied
  BY <1>2, <1>3
<1>5. \A p : p \in Occupied(t) <=> p \in 0 .. c - 1 /\ t[p].occupied
  BY <1>2, OccupiedFacts
<1>6. Occupied(t) = {}
  BY <1>4, <1>5
<1>7. TableOK(t, c)
  BY <1>2, <1>4 DEF TableOK, Once, AllReached
<1>8. \A a, b : ~Has(t, c, a, b)
  BY <1>4 DEF Has
<1> QED BY <1>1, <1>6, <1>7, <1>8

-----------------------------------------------------------------------------
\* rehash

\* The first m slots of t have been put into the table of a state of rehash's loop.
Moved(x, t, c, n, m) ==
  /\ x.slot = m /\ TableOK(x.table, n) /\ Cardinality(Occupied(x.table)) <= m
  /\ \A a, b : Has(x.table, n, a, b)
                 <=> \E p \in 0 .. c - 1 : p < m /\ t[p].occupied /\ t[p].key = a /\ t[p].value = b

RehashState(n) == [table : Tables(n), slot : Nat]

RehashStep(x, t, c, n) ==
  [table |-> IF x.slot \in 0 .. c - 1 /\ t[x.slot].occupied
             THEN Put(x.table, t[x.slot].key, t[x.slot].value).table ELSE x.table,
   slot  |-> x.slot + 1]

\* A pass of rehash's loop moves one slot.
LEMMA RehashStepOK ==
  ASSUME NEW c, Hashed(c), NEW t, TableOK(t, c), NEW n, Hashed(n), c < n, NEW m \in 0 .. c - 1,
         NEW x \in RehashState(n), Moved(x, t, c, n, m)
  PROVE  Moved(RehashStep(x, t, c, n), t, c, n, m + 1)
<1>1. x.table \in Tables(n) /\ x.slot = m /\ c \in Nat \ {0} /\ n \in Nat
  BY DEF RehashState, Moved, Hashed
<1>2. PICK y : y = RehashStep(x, t, c, n)
  OBVIOUS
<1>3. Cardinality(Occupied(x.table)) \in Nat /\ Cardinality(Occupied(x.table)) <= m
  BY <1>1, OccupiedFacts DEF Moved
<1>4. CASE t[m].occupied
  <2>1. PICK k, v : k = t[m].key /\ v = t[m].value
    OBVIOUS
  <2>2. k \in Keys /\ v \in MapValues
    <3>1. t[m] \in Items
      BY <1>4, TableFacts DEF TableOK
    <3> QED BY <2>1, <3>1 DEF Items
  <2>3. PICK r : r = Put(x.table, k, v)
    OBVIOUS
  <2>4. HasRoom(x.table, n)
    <3>1. Cardinality(Occupied(x.table)) < n
      BY <1>1, <1>3
    <3> QED BY <1>1, <3>1, OccupiedFacts
  <2>5. PutOK(r, x.table, n, k, v)
    <3>1. TableOK(x.table, n)
      BY DEF Moved
    <3> QED BY <2>2, <2>3, <2>4, <3>1, PutFacts
  <2>6. y.table = r.table /\ y.slot = m + 1
    BY <1>1, <1>2, <1>4, <2>1, <2>3 DEF RehashStep
  <2>7. Cardinality(Occupied(r.table)) <= m + 1
    <3>1. Cardinality(Occupied(r.table)) =
            IF r.new THEN Cardinality(Occupied(x.table)) + 1 ELSE Cardinality(Occupied(x.table))
      <4>1. r.table \in Tables(n) /\ SlotTaken(r, x.table, n)
        BY <2>5 DEF PutOK, TableOK
      <4> QED BY <1>1, <4>1, OneMore
    <3> QED BY <1>1, <1>3, <3>1
  <2>8. ASSUME NEW a, NEW b
        PROVE  Has(r.table, n, a, b)
                 <=> \E p \in 0 .. c - 1 : p < m + 1 /\ t[p].occupied /\ t[p].key = a /\ t[p].value = b
    <3>1. Has(x.table, n, a, b)
            <=> \E p \in 0 .. c - 1 : p < m /\ t[p].occupied /\ t[p].key = a /\ t[p].value = b
      BY DEF Moved
    <3>2. Has(r.table, n, a, b) <=> IF a = k THEN b = v ELSE Has(x.table, n, a, b)
      BY <2>5 DEF PutOK
    <3>3. \A p \in 0 .. c - 1 : p < m + 1 <=> p < m \/ p = m
      BY <1>1
    <3>4. CASE a = k
      <4>1. \A p \in 0 .. c - 1 : t[p].occupied /\ t[p].key = a => p = m
        BY <1>4, <2>1, <3>4 DEF TableOK, Once
      <4> QED BY <1>4, <2>1, <3>2, <3>3, <3>4, <4>1
    <3>5. CASE a # k
      BY <2>1, <3>1, <3>2, <3>3, <3>5
    <3> QED BY <3>4, <3>5
  <2>9. TableOK(r.table, n)
    BY <2>5 DEF PutOK
  <2> QED BY <1>2, <2>6, <2>7, <2>8, <2>9 DEF Moved
<1>5. CASE ~t[m].occupied
  <2>1. y.table = x.table /\ y.slot = m + 1
    BY <1>1, <1>2, <1>5 DEF RehashStep
  <2>2. \A p \in 0 .. c - 1 : p < m + 1 <=> p < m \/ p = m
    BY <1>1
  <2>3. \A a, b : Has(x.table, n, a, b)
          <=> \E p \in 0 .. c - 1 : p < m + 1 /\ t[p].occupied /\ t[p].key = a /\ t[p].value = b
    BY <1>5, <2>2 DEF Moved
  <2>4. Cardinality(Occupied(x.table)) <= m + 1 /\ TableOK(x.table, n)
    BY <1>1, <1>3 DEF Moved
  <2> QED BY <1>2, <2>1, <2>3, <2>4 DEF Moved
<1> QED BY <1>4, <1>5

Rehashes(body, t, c, n) ==
  /\ body \in [RehashState(n) -> RehashState(n)]
  /\ \A x \in RehashState(n) : body[x] = RehashStep(x, t, c, n)

\* RehashPass is such a loop.
LEMMA RehashPassType ==
  ASSUME NEW c, Hashed(c), NEW t \in Tables(c), NEW n, Hashed(n)
  PROVE  Rehashes(RehashPass(n, t), t, c, n)
<1>1. DOMAIN t = 0 .. c - 1
  BY TableFacts
<1>2. RehashPass(n, t) = [x \in RehashState(n) |-> RehashStep(x, t, c, n)]
  BY <1>1 DEF RehashPass, RehashState, RehashStep
<1>3. ASSUME NEW x \in RehashState(n) PROVE RehashStep(x, t, c, n) \in RehashState(n)
  <2>1. x.table \in Tables(n) /\ x.slot + 1 \in Nat
    BY DEF RehashState
  <2>2. ASSUME x.slot \in 0 .. c - 1 /\ t[x.slot].occupied
        PROVE  Put(x.table, t[x.slot].key, t[x.slot].value).table \in Tables(n)
    <3>1. t[x.slot] \in Items
      BY <2>2, TableFacts
    <3>2. t[x.slot].key \in Keys /\ t[x.slot].value \in MapValues
      BY <3>1 DEF Items
    <3> QED BY <2>1, <3>2, PutType
  <2> QED BY <2>1, <2>2 DEF RehashStep, RehashState
<1> QED BY <1>2, <1>3 DEF Rehashes

\* rehash keeps what is in the table, and leaves a free slot.
LEMMA RehashFacts ==
  ASSUME NEW c, Hashed(c), NEW t, TableOK(t, c)
  PROVE  /\ TableOK(Rehash(t), 2 * c) /\ Hashed(2 * c) /\ HasRoom(Rehash(t), 2 * c)
         /\ \A a, b : Has(Rehash(t), 2 * c, a, b) <=> Has(t, c, a, b)
<1>1. t \in Tables(c) /\ c \in Nat \ {0} /\ Capacity(t) = c
  BY TableFacts DEF TableOK
<1>2. PICK n \in Nat \ {0} : n = 2 * c /\ c < n
  BY <1>1
<1>3. Hashed(n)
  BY <1>2 DEF Hashed
<1>4. PICK body, start : body = RehashPass(n, t) /\ start = [table |-> Empty(n), slot |-> 0]
  OBVIOUS
<1>5. Rehash(t) = Passes(body, start)[c].table
  BY <1>1, <1>2, <1>4 DEF Rehash
<1>6. Rehashes(body, t, c, n)
  BY <1>1, <1>3, <1>4, RehashPassType
<1>7. body \in [RehashState(n) -> RehashState(n)] /\ \A x \in RehashState(n) : body[x] = RehashStep(x, t, c, n)
  BY <1>6 DEF Rehashes
<1>8. start \in RehashState(n) /\ Moved(start, t, c, n, 0)
  <2>1. /\ TableOK(Empty(n), n) /\ Occupied(Empty(n)) = {}
        /\ \A a, b : ~Has(Empty(n), n, a, b)
    BY <1>3, EmptyOK
  <2>2. Cardinality(Occupied(Empty(n))) = 0
    BY <2>1, FS_EmptySet
  <2>3. start \in RehashState(n)
    BY <1>4, <2>1 DEF RehashState, TableOK
  <2>4. Moved(start, t, c, n, 0)
    BY <1>4, <2>1, <2>2 DEF Moved
  <2> QED BY <2>3, <2>4
<1> DEFINE J == [m \in Nat |-> {x \in RehashState(n) : m <= c => Moved(x, t, c, n, m)}]
<1>9. start \in J[0]
  BY <1>8
<1>10. ASSUME NEW m \in Nat, NEW x \in RehashState(n), x \in J[m]
       PROVE  body[x] \in J[m + 1]
  <2>1. body[x] = RehashStep(x, t, c, n) /\ body[x] \in RehashState(n)
    BY <1>7
  <2>2. ASSUME m + 1 <= c PROVE Moved(body[x], t, c, n, m + 1)
    <3>1. m \in 0 .. c - 1 /\ m <= c
      BY <1>1, <2>2
    <3>2. Moved(x, t, c, n, m)
      BY <1>10, <3>1
    <3> QED BY <1>2, <1>3, <2>1, <3>1, <3>2, RehashStepOK
  <2> QED BY <2>1, <2>2
<1>11. PICK x \in RehashState(n) : x = Passes(body, start)[c] /\ Moved(x, t, c, n, c)
  <2>1. PICK K : K = J
    OBVIOUS
  <2>2. start \in K[0] /\ \A m \in Nat : \A x \in RehashState(n) : x \in K[m] => body[x] \in K[m + 1]
    BY <1>9, <1>10, <2>1
  <2>3. c \in Nat
    BY <1>1
  <2>4. Passes(body, start)[c] \in K[c]
    BY ONLY <1>7, <1>8, <2>2, <2>3, LoopInvariant
  <2> QED BY <2>1, <2>3, <2>4
<1> HIDE DEF J
<1>12. /\ TableOK(x.table, n) /\ Cardinality(Occupied(x.table)) <= c
       /\ \A a, b : Has(x.table, n, a, b)
            <=> \E p \in 0 .. c - 1 : p < c /\ t[p].occupied /\ t[p].key = a /\ t[p].value = b
  BY <1>11 DEF Moved
<1>13. HasRoom(x.table, n)
  <2>1. x.table \in Tables(n)
    BY <1>12 DEF TableOK
  <2>2. Cardinality(Occupied(x.table)) \in Nat
    BY <1>3, <2>1, OccupiedFacts
  <2>3. Cardinality(Occupied(x.table)) < n
    BY <1>1, <1>2, <1>12, <2>2
  <2> QED BY <1>3, <2>1, <2>3, OccupiedFacts
<1>14. \A a, b : Has(x.table, n, a, b) <=> Has(t, c, a, b)
  <2>1. \A p \in 0 .. c - 1 : p < c
    BY <1>1
  <2>2. ASSUME NEW a, NEW b PROVE Has(x.table, n, a, b) <=> Has(t, c, a, b)
    <3>1. Has(x.table, n, a, b)
            <=> \E p \in 0 .. c - 1 : p < c /\ t[p].occupied /\ t[p].key = a /\ t[p].value = b
      BY <1>12
    <3>2. Has(t, c, a, b)
            <=> \E p \in 0 .. c - 1 : t[p].occupied /\ t[p].key = a /\ t[p].value = b
      BY DEF Has
    <3> QED BY ONLY <2>1, <3>1, <3>2
  <2> QED BY <2>2
<1> QED BY <1>2, <1>3, <1>5, <1>11, <1>12, <1>13, <1>14

-----------------------------------------------------------------------------
\* A table with holes: what insert, rehash and erase still keep

\* Every entry has a value that g gives to its key.
Known(t, c, g) == \A p \in 0 .. c - 1 : t[p].occupied => <<t[p].key, t[p].value>> \in g

\* The loop of insert after m passes: an entry has moved only into a slot that
\* was occupied, and the loop has stopped, or gone on past occupied slots only.
Probing(s, t, c, k, g, m, f) ==
  /\ SameSlots(t, s.table, c) /\ Known(s.table, c, g)
  /\ <<s.entry.key, s.entry.value>> \in g
  /\ Stopped(s, k) \/ (s.slot = Spot(c, k, m) /\ m <= f)

\* A pass keeps that.
LEMMA ProbingOn ==
  ASSUME NEW c, Hashed(c), NEW t \in Tables(c), NEW k \in Keys, NEW g,
         NEW f, FirstFree(t, c, k, f), NEW body, Probes(body, c, k),
         NEW m \in Nat, NEW s \in ProbeState(c), Probing(s, t, c, k, g, m, f)
  PROVE  Probing(body[s], t, c, k, g, m + 1, f)
<1>1. /\ s.table \in Tables(c) /\ s.entry \in Items /\ s.slot \in 0 .. c - 1
      /\ s.entry.distance \in Nat
  BY StateFacts
<1>2. /\ SameSlots(t, s.table, c) /\ Known(s.table, c, g)
      /\ <<s.entry.key, s.entry.value>> \in g
  BY DEF Probing
<1>3. CASE Stopped(s, k)
  <2>1. body[s] = s
    BY <1>3 DEF Probes
  <2> QED BY <1>2, <1>3, <2>1 DEF Probing
<1>4. CASE ~Stopped(s, k)
  <2>1. s.slot = Spot(c, k, m) /\ m <= f /\ s.table[s.slot].occupied
    BY <1>4 DEF Probing, Stopped
  <2>2. f \in Nat /\ m + 1 <= f
    <3>1. f \in Nat /\ ~t[Spot(c, k, f)].occupied
      BY DEF FirstFree
    <3>2. t[s.slot].occupied
      BY <1>1, <1>2, <2>1 DEF SameSlots
    <3>3. m # f
      BY <2>1, <3>1, <3>2
    <3> QED BY <2>1, <3>1, <3>3
  <2>3. (s.slot + 1) % c = Spot(c, k, m + 1)
    BY <2>1, SpotFacts
  <2>4. PICK d : d = s.entry.distance + 1
    OBVIOUS
  <2>5. d \in Nat
    BY <1>1, <2>4
  <2>6. CASE s.table[s.slot].distance < s.entry.distance
    <3>1. PICK z, h, u, e : /\ z = Displaced(s, c) /\ h = s.table[s.slot]
                            /\ u = [s.table EXCEPT ![s.slot] = s.entry]
                            /\ e = [s.table[s.slot] EXCEPT !.distance = d]
      OBVIOUS
    <3>2. body[s] = z
      BY <1>4, <2>6, <3>1 DEF Probes
    <3>3. z.table = u /\ z.entry = e /\ z.slot = (s.slot + 1) % c
      BY <2>4, <3>1 DEF Displaced
    <3>4. h \in Items /\ <<h.key, h.value>> \in g
      BY <1>1, <1>2, <2>1, <3>1, TableFacts DEF Known
    <3>5. e.key = h.key /\ e.value = h.value
      BY <2>5, <3>1, <3>4, EntryMoves
    <3>6. /\ u[s.slot] = s.entry /\ s.entry.occupied = TRUE
          /\ \A q \in 0 .. c - 1 : q # s.slot => u[q] = s.table[q]
      <4>1. s.entry.occupied = TRUE
        BY <1>1 DEF Items
      <4> QED BY <1>1, <3>1, <4>1, PlacedType
    <3>7. SameSlots(t, u, c)
      BY <1>1, <1>2, <2>1, <3>6 DEF SameSlots
    <3>8. Known(u, c, g)
      <4>1. ASSUME NEW q \in 0 .. c - 1, u[q].occupied PROVE <<u[q].key, u[q].value>> \in g
        <5>1. CASE q = s.slot
          BY <1>2, <3>6, <5>1
        <5>2. CASE q # s.slot
          BY <1>2, <3>6, <4>1, <5>2 DEF Known
        <5> QED BY <5>1, <5>2
      <4> QED BY <4>1 DEF Known
    <3>9. z.slot = Spot(c, k, m + 1)
      BY <2>3, <3>3
    <3>10. <<z.entry.key, z.entry.value>> \in g
      BY <3>3, <3>4, <3>5
    <3> QED BY <2>2, <3>2, <3>3, <3>7, <3>8, <3>9, <3>10 DEF Probing
  <2>7. CASE ~(s.table[s.slot].distance < s.entry.distance)
    <3>1. PICK z, e : z = PassedBy(s, c) /\ e = [s.entry EXCEPT !.distance = d]
      OBVIOUS
    <3>2. body[s] = z
      BY <1>4, <2>7, <3>1 DEF Probes
    <3>3. z.table = s.table /\ z.entry = e /\ z.slot = (s.slot + 1) % c
      BY <2>4, <3>1 DEF PassedBy
    <3>4. e.key = s.entry.key /\ e.value = s.entry.value
      BY <1>1, <2>5, <3>1, EntryMoves
    <3>5. z.slot = Spot(c, k, m + 1)
      BY <2>3, <3>3
    <3>6. <<z.entry.key, z.entry.value>> \in g
      BY <1>2, <3>3, <3>4
    <3> QED BY <1>2, <2>2, <3>2, <3>3, <3>5, <3>6 DEF Probing
  <2> QED BY <2>6, <2>7
<1> QED BY <1>3, <1>4

\* insert in a table with a free slot: the loop ends, there or at the key.
LEMMA ProbingEnds ==
  ASSUME NEW c, Hashed(c), NEW t \in Tables(c), NEW k \in Keys, NEW v \in MapValues, NEW g,
         HasRoom(t, c), Known(t, c, g), <<k, v>> \in g
  PROVE  \E s \in ProbeState(c) :
           /\ Put(t, k, v) = PutIn(s, v) /\ Stopped(s, k)
           /\ SameSlots(t, s.table, c) /\ Known(s.table, c, g)
           /\ <<s.entry.key, s.entry.value>> \in g
<1>1. PICK f : FirstFree(t, c, k, f)
  BY RoomAhead
<1>2. PICK body, start : start = Starting(t, c, k, v) /\ PutBy(Put(t, k, v), body, start, c, k, v)
  BY PutLoop
<1>3. /\ Probes(body, c, k) /\ body \in [ProbeState(c) -> ProbeState(c)] /\ start \in ProbeState(c)
      /\ Put(t, k, v) = PutIn(Passes(body, start)[c], v) /\ Passes(body, start)[c] \in ProbeState(c)
  BY <1>2 DEF PutBy
<1>4. c \in Nat /\ f \in Nat /\ f < c
  BY <1>1 DEF FirstFree, Hashed
<1> DEFINE J == [m \in Nat |-> {s \in ProbeState(c) : Probing(s, t, c, k, g, m, f)}]
<1>5. start \in J[0]
  <2>1. /\ start.table = t /\ start.entry.key = k /\ start.entry.value = v
        /\ start.slot = Spot(c, k, 0)
    BY <1>2 DEF Starting, Entry
  <2>2. SameSlots(t, t, c)
    BY DEF SameSlots
  <2>3. 0 <= f
    BY <1>4
  <2> QED BY <1>3, <2>1, <2>2, <2>3 DEF Probing
<1>6. ASSUME NEW m \in Nat, NEW s \in ProbeState(c), s \in J[m]
      PROVE  body[s] \in J[m + 1]
  <2>1. Probing(body[s], t, c, k, g, m + 1, f)
    BY <1>1, <1>3, <1>6, ProbingOn
  <2>2. body[s] \in ProbeState(c)
    BY <1>3
  <2> QED BY <2>1, <2>2
<1>7. PICK s : s = Passes(body, start)[c]
  OBVIOUS
<1>8. Probing(s, t, c, k, g, c, f)
  <2>1. PICK K : K = J
    OBVIOUS
  <2>2. start \in K[0] /\ \A m \in Nat : \A x \in ProbeState(c) : x \in K[m] => body[x] \in K[m + 1]
    BY <1>5, <1>6, <2>1
  <2>3. s \in K[c]
    BY ONLY <1>3, <1>4, <1>7, <2>2, LoopInvariant
  <2> QED BY <1>4, <2>1, <2>3
<1> HIDE DEF J
<1>9. Stopped(s, k)
  <2>1. ~(c <= f)
    BY <1>4
  <2> QED BY <1>8, <2>1 DEF Probing
<1> QED BY <1>3, <1>7, <1>8, <1>9 DEF Probing

\* What insert keeps in every table with a free slot.
Kept(r, t, c, g) == r.table \in Tables(c) /\ SlotTaken(r, t, c) /\ Known(r.table, c, g)

LEMMA PutKept ==
  ASSUME NEW c, Hashed(c), NEW t \in Tables(c), NEW k \in Keys, NEW v \in MapValues, NEW g,
         HasRoom(t, c), Known(t, c, g), <<k, v>> \in g
  PROVE  Kept(Put(t, k, v), t, c, g)
<1>1. PICK s \in ProbeState(c) :
        /\ Put(t, k, v) = PutIn(s, v) /\ Stopped(s, k)
        /\ SameSlots(t, s.table, c) /\ Known(s.table, c, g)
        /\ <<s.entry.key, s.entry.value>> \in g
  BY ProbingEnds
<1>2. PICK r, p : r = Put(t, k, v) /\ p = s.slot
  OBVIOUS
<1>3. s.table \in Tables(c) /\ s.entry \in Items /\ p \in 0 .. c - 1
  BY <1>2, StateFacts
<1>4. CASE s.table[p].occupied
  <2>1. s.table[p] \in Items /\ s.table[p].key = k
    BY <1>1, <1>2, <1>3, <1>4, TableFacts DEF Stopped
  <2>2. PICK u : u = Written(s.table, p, v)
    OBVIOUS
  <2>3. ValueIn(u, s.table, c, p, v)
    BY <1>3, <2>1, <2>2, ValueWritten
  <2>4. r.table = u /\ r.new = FALSE
    <3>1. r = [table |-> u, new |-> FALSE]
      BY <1>1, <1>2, <1>4, <2>2 DEF PutIn, Written
    <3> QED BY <3>1
  <2>5. PICK e \in Items : u[p] = e /\ e.occupied /\ e.value = v /\ e.key = k
    BY <2>1, <2>3 DEF ValueIn
  <2>6. u \in Tables(c) /\ \A q \in 0 .. c - 1 : q # p => u[q] = s.table[q]
    BY <2>3 DEF ValueIn
  <2>7. SameSlots(t, u, c)
    BY <1>1, <1>3, <1>4, <2>5, <2>6 DEF SameSlots
  <2>8. Known(u, c, g)
    <3>1. ASSUME NEW q \in 0 .. c - 1, u[q].occupied PROVE <<u[q].key, u[q].value>> \in g
      <4>1. CASE q = p
        BY <2>5, <4>1
      <4>2. CASE q # p
        BY <1>1, <2>6, <3>1, <4>2 DEF Known
      <4> QED BY <4>1, <4>2
    <3> QED BY <3>1 DEF Known
  <2>9. SlotTaken(r, t, c)
    BY <2>4, <2>7 DEF SlotTaken
  <2> QED BY <1>2, <2>4, <2>6, <2>8, <2>9 DEF Kept
<1>5. CASE ~s.table[p].occupied
  <2>1. PICK u : u = [s.table EXCEPT ![p] = s.entry]
    OBVIOUS
  <2>2. r.table = u /\ r.new = TRUE
    <3>1. r = [table |-> u, new |-> TRUE]
      BY <1>1, <1>2, <1>5, <2>1 DEF PutIn
    <3> QED BY <3>1
  <2>3. /\ u \in Tables(c) /\ u[p] = s.entry /\ s.entry.occupied = TRUE
        /\ \A q \in 0 .. c - 1 : q # p => u[q] = s.table[q]
    <3>1. s.entry.occupied = TRUE
      BY <1>3 DEF Items
    <3> QED BY <1>3, <2>1, <3>1, PlacedType
  <2>4. ~t[p].occupied /\ \A q \in 0 .. c - 1 : q # p => (t[q].occupied <=> u[q].occupied)
    BY <1>1, <1>3, <1>5, <2>3 DEF SameSlots
  <2>5. SlotTaken(r, t, c)
    BY <1>3, <2>2, <2>3, <2>4 DEF SlotTaken
  <2>6. Known(u, c, g)
    <3>1. ASSUME NEW q \in 0 .. c - 1, u[q].occupied PROVE <<u[q].key, u[q].value>> \in g
      <4>1. CASE q = p
        BY <1>1, <2>3, <4>1
      <4>2. CASE q # p
        BY <1>1, <2>3, <3>1, <4>2 DEF Known
      <4> QED BY <4>1, <4>2
    <3> QED BY <3>1 DEF Known
  <2> QED BY <1>2, <2>2, <2>3, <2>5, <2>6 DEF Kept
<1> QED BY <1>4, <1>5

\* The loop of rehash after m slots.
Moving(x, n, g, m) ==
  x.slot = m /\ Known(x.table, n, g) /\ Cardinality(Occupied(x.table)) <= m

LEMMA MovingOn ==
  ASSUME NEW c, Hashed(c), NEW t \in Tables(c), NEW n, Hashed(n), c < n, NEW m \in 0 .. c - 1,
         NEW g, Known(t, c, g), NEW x \in RehashState(n), Moving(x, n, g, m)
  PROVE  Moving(RehashStep(x, t, c, n), n, g, m + 1)
<1>1. x.table \in Tables(n) /\ x.slot = m /\ c \in Nat \ {0} /\ n \in Nat
  BY DEF RehashState, Moving, Hashed
<1>2. PICK y : y = RehashStep(x, t, c, n)
  OBVIOUS
<1>3. /\ Cardinality(Occupied(x.table)) \in Nat /\ Cardinality(Occupied(x.table)) <= m
      /\ Known(x.table, n, g)
  BY <1>1, OccupiedFacts DEF Moving
<1>4. CASE t[m].occupied
  <2>1. PICK k, v : k = t[m].key /\ v = t[m].value
    OBVIOUS
  <2>2. k \in Keys /\ v \in MapValues /\ <<k, v>> \in g
    <3>1. t[m] \in Items
      BY <1>4, TableFacts
    <3> QED BY <1>4, <2>1, <3>1 DEF Items, Known
  <2>3. PICK r : r = Put(x.table, k, v)
    OBVIOUS
  <2>4. HasRoom(x.table, n)
    <3>1. Cardinality(Occupied(x.table)) < n
      BY <1>1, <1>3
    <3> QED BY <1>1, <3>1, OccupiedFacts
  <2>5. r.table \in Tables(n) /\ SlotTaken(r, x.table, n) /\ Known(r.table, n, g)
    BY <1>1, <1>3, <2>2, <2>3, <2>4, PutKept DEF Kept
  <2>6. y.table = r.table /\ y.slot = m + 1
    BY <1>1, <1>2, <1>4, <2>1, <2>3 DEF RehashStep
  <2>7. Cardinality(Occupied(r.table)) <= m + 1
    <3>1. Cardinality(Occupied(r.table)) =
            IF r.new THEN Cardinality(Occupied(x.table)) + 1 ELSE Cardinality(Occupied(x.table))
      BY <1>1, <2>5, OneMore
    <3> QED BY <1>1, <1>3, <3>1
  <2> QED BY <1>2, <2>5, <2>6, <2>7 DEF Moving
<1>5. CASE ~t[m].occupied
  <2>1. y.table = x.table /\ y.slot = m + 1
    BY <1>1, <1>2, <1>5 DEF RehashStep
  <2>2. Cardinality(Occupied(x.table)) <= m + 1
    BY <1>1, <1>3
  <2> QED BY <1>2, <1>3, <2>1, <2>2 DEF Moving
<1> QED BY <1>4, <1>5

\* rehash of every table, with holes or without.
LEMMA RehashKept ==
  ASSUME NEW c, Hashed(c), NEW t \in Tables(c), NEW g, Known(t, c, g)
  PROVE  /\ Rehash(t) \in Tables(2 * c) /\ Hashed(2 * c) /\ HasRoom(Rehash(t), 2 * c)
         /\ Known(Rehash(t), 2 * c, g)
<1>1. c \in Nat \ {0} /\ Capacity(t) = c
  BY TableFacts
<1>2. PICK n \in Nat \ {0} : n = 2 * c /\ c < n
  BY <1>1
<1>3. Hashed(n)
  BY <1>2 DEF Hashed
<1>4. PICK body, start : body = RehashPass(n, t) /\ start = [table |-> Empty(n), slot |-> 0]
  OBVIOUS
<1>5. Rehash(t) = Passes(body, start)[c].table
  BY <1>1, <1>2, <1>4 DEF Rehash
<1>6. Rehashes(body, t, c, n)
  BY <1>1, <1>3, <1>4, RehashPassType
<1>7. body \in [RehashState(n) -> RehashState(n)] /\ \A x \in RehashState(n) : body[x] = RehashStep(x, t, c, n)
  BY <1>6 DEF Rehashes
<1>8. start \in RehashState(n) /\ Moving(start, n, g, 0)
  <2>1. Empty(n) \in Tables(n) /\ Occupied(Empty(n)) = {}
    BY <1>3, EmptyOK DEF TableOK
  <2>2. Cardinality(Occupied(Empty(n))) = 0
    BY <2>1, FS_EmptySet
  <2>3. start \in RehashState(n)
    BY <1>4, <2>1 DEF RehashState
  <2>4. Known(Empty(n), n, g)
    BY <1>3, <2>1, OccupiedFacts DEF Known
  <2>5. Moving(start, n, g, 0)
    BY <1>4, <2>2, <2>4 DEF Moving
  <2> QED BY <2>3, <2>5
<1> DEFINE J == [m \in Nat |-> {x \in RehashState(n) : m <= c => Moving(x, n, g, m)}]
<1>9. start \in J[0]
  BY <1>8
<1>10. ASSUME NEW m \in Nat, NEW x \in RehashState(n), x \in J[m]
       PROVE  body[x] \in J[m + 1]
  <2>1. body[x] = RehashStep(x, t, c, n) /\ body[x] \in RehashState(n)
    BY <1>7
  <2>2. ASSUME m + 1 <= c PROVE Moving(body[x], n, g, m + 1)
    <3>1. m \in 0 .. c - 1 /\ m <= c
      BY <1>1, <2>2
    <3>2. Moving(x, n, g, m)
      BY <1>10, <3>1
    <3> QED BY <1>2, <1>3, <2>1, <3>1, <3>2, MovingOn
  <2> QED BY <2>1, <2>2
<1>11. PICK x \in RehashState(n) : x = Passes(body, start)[c] /\ Moving(x, n, g, c)
  <2>1. PICK K : K = J
    OBVIOUS
  <2>2. start \in K[0] /\ \A m \in Nat : \A x \in RehashState(n) : x \in K[m] => body[x] \in K[m + 1]
    BY <1>9, <1>10, <2>1
  <2>3. c \in Nat
    BY <1>1
  <2>4. Passes(body, start)[c] \in K[c]
    BY ONLY <1>7, <1>8, <2>2, <2>3, LoopInvariant
  <2> QED BY <2>1, <2>3, <2>4
<1> HIDE DEF J
<1>12. x.table \in Tables(n) /\ Known(x.table, n, g) /\ Cardinality(Occupied(x.table)) <= c
  BY <1>11 DEF Moving, RehashState
<1>13. HasRoom(x.table, n)
  <2>1. Cardinality(Occupied(x.table)) \in Nat
    BY <1>3, <1>12, OccupiedFacts
  <2>2. Cardinality(Occupied(x.table)) < n
    BY <1>1, <1>2, <1>12, <2>1
  <2> QED BY <1>3, <1>12, <2>2, OccupiedFacts
<1> QED BY <1>2, <1>3, <1>5, <1>11, <1>12, <1>13

\* A search that finds its key ends in its slot.
LEMMA SeekInside ==
  ASSUME NEW c, Hashed(c), NEW t \in Tables(c), NEW k \in Keys, ~(Seek(t, k) < 0)
  PROVE  Seek(t, k) \in 0 .. c - 1 /\ Holds(t, Seek(t, k), k)
<1>1. PICK i : i = Passes(SeekPass(t, k), Home(t, k))[Capacity(t) + 1]
  OBVIOUS
<1>2. Seek(t, k) = IF Holds(t, i, k) THEN i ELSE -1
  BY <1>1 DEF Seek
<1>3. Holds(t, i, k) /\ Seek(t, k) = i
  BY <1>2
<1>4. i \in 0 .. c - 1
  <2>1. Capacity(t) = c /\ c \in Nat \ {0}
    BY TableFacts
  <2>2. SeekPass(t, k) \in [0 .. c - 1 -> 0 .. c - 1]
    BY SeekPassType DEF Steps
  <2>3. Home(t, k) \in 0 .. c - 1
    <3>1. hash[k] \in Nat
      BY DEF Hashed
    <3> QED BY <2>1, <3>1, Remainders DEF Home
  <2>4. Passes(SeekPass(t, k), Home(t, k)) \in [Nat -> 0 .. c - 1]
    BY <2>2, <2>3, PassesFacts
  <2>5. c + 1 \in Nat
    BY <2>1
  <2> QED BY <1>1, <2>1, <2>4, <2>5
<1> QED BY <1>3, <1>4

\* So find answers a value that its key was given, wherever it ends.
LEMMA FindKnown ==
  ASSUME NEW c, Hashed(c), NEW t \in Tables(c), NEW k \in Keys, NEW g, Known(t, c, g)
  PROVE  \A v \in find(t, k) : <<k, v>> \in g
<1>1. CASE Seek(t, k) < 0
  <2>1. find(t, k) = {}
    BY <1>1 DEF find
  <2> QED BY <2>1
<1>2. CASE ~(Seek(t, k) < 0)
  <2>1. find(t, k) = {t[Seek(t, k)].value}
    BY <1>2 DEF find
  <2>2. Seek(t, k) \in 0 .. c - 1 /\ Holds(t, Seek(t, k), k)
    BY <1>2, SeekInside
  <2> QED BY <2>1, <2>2 DEF Holds, Known
<1> QED BY <1>1, <1>2

\* erase frees that slot.
LEMMA FreedSlot ==
  ASSUME NEW c, Hashed(c), NEW t \in Tables(c), NEW p \in 0 .. c - 1, t[p].occupied,
         NEW g, Known(t, c, g)
  PROVE  /\ [t EXCEPT ![p] = Free] \in Tables(c) /\ Known([t EXCEPT ![p] = Free], c, g)
         /\ Cardinality(Occupied([t EXCEPT ![p] = Free])) = Cardinality(Occupied(t)) - 1
<1>1. DOMAIN t = 0 .. c - 1
  BY TableFacts
<1>2. PICK u : u = [t EXCEPT ![p] = Free]
  OBVIOUS
<1>3. u \in Tables(c)
  BY <1>1, <1>2 DEF Tables
<1>4. ~u[p].occupied /\ \A q \in 0 .. c - 1 : q # p => u[q] = t[q]
  <2>1. Free.occupied = FALSE
    BY DEF Free
  <2>2. u[p] = Free /\ \A q \in 0 .. c - 1 : q # p => u[q] = t[q]
    BY <1>1, <1>2
  <2> QED BY <2>1, <2>2
<1>5. Known(u, c, g)
  BY <1>4 DEF Known
<1>6. Cardinality(Occupied(u)) = Cardinality(Occupied(t)) - 1
  <2>1. /\ IsFiniteSet(Occupied(t))
        /\ \A q : q \in Occupied(t) <=> q \in 0 .. c - 1 /\ t[q].occupied
    BY OccupiedFacts
  <2>2. \A q : q \in Occupied(u) <=> q \in 0 .. c - 1 /\ u[q].occupied
    BY <1>3, OccupiedFacts
  <2>3. Occupied(u) = Occupied(t) \ {p}
    BY <1>4, <2>1, <2>2
  <2>4. p \in Occupied(t)
    BY <2>1
  <2>5. Cardinality(Occupied(t) \ {p}) =
          IF p \in Occupied(t) THEN Cardinality(Occupied(t)) - 1 ELSE Cardinality(Occupied(t))
    BY <2>1, FS_RemoveElement
  <2> QED BY <2>3, <2>4, <2>5
<1> QED BY <1>2, <1>3, <1>5, <1>6

-----------------------------------------------------------------------------
\* erase, and the invariant

\* No search goes through a slot whose successor is not occupied.
LEMMA EraseOK ==
  ASSUME NEW c, Hashed(c), NEW t, TableOK(t, c), NEW p \in 0 .. c - 1, t[p].occupied,
         ~t[(p + 1) % c].occupied
  PROVE  /\ TableOK([t EXCEPT ![p] = Free], c)
         /\ \A a, b : Has([t EXCEPT ![p] = Free], c, a, b) <=> Has(t, c, a, b) /\ a # t[p].key
         /\ Cardinality(Occupied([t EXCEPT ![p] = Free])) = Cardinality(Occupied(t)) - 1
<1>1. t \in Tables(c) /\ DOMAIN t = 0 .. c - 1 /\ c \in Nat \ {0}
  BY TableFacts DEF TableOK
<1>2. PICK u : u = [t EXCEPT ![p] = Free]
  OBVIOUS
<1>3. u \in Tables(c)
  BY <1>1, <1>2 DEF Tables
<1>4. ~u[p].occupied /\ \A q \in 0 .. c - 1 : q # p => u[q] = t[q]
  <2>1. Free.occupied = FALSE
    BY DEF Free
  <2>2. u[p] = Free /\ \A q \in 0 .. c - 1 : q # p => u[q] = t[q]
    BY <1>1, <1>2
  <2> QED BY <2>1, <2>2
<1>5. \A q \in 0 .. c - 1 : u[q].occupied => q # p /\ u[q] = t[q] /\ t[q].occupied
  BY <1>4
<1>6. Once(u, c)
  <2>1. ASSUME NEW q \in 0 .. c - 1, NEW r \in 0 .. c - 1, u[q].occupied, u[r].occupied, u[q].key = u[r].key
        PROVE  q = r
    <3>1. t[q].occupied /\ t[r].occupied /\ t[q].key = t[r].key
      BY <1>5, <2>1
    <3> QED BY <3>1 DEF TableOK, Once
  <2> QED BY <2>1 DEF Once
<1>7. AllReached(u, c)
  <2>1. ASSUME NEW q \in 0 .. c - 1, u[q].occupied
        PROVE  Reached(u, c, u[q].key, q, u[q].distance)
    <3>1. q # p /\ u[q] = t[q] /\ t[q].occupied
      BY <1>5, <2>1
    <3>2. PICK k, d : k = t[q].key /\ d = t[q].distance
      OBVIOUS
    <3>3. Reached(t, c, k, q, d)
      BY <3>1, <3>2 DEF TableOK, AllReached
    <3>4. k \in Keys
      <4>1. t[q] \in Items
        BY <1>1, <3>1, TableFacts
      <4> QED BY <3>2, <4>1 DEF Items
    <3>5. PICK o \in Nat : q = Spot(c, k, o) /\ o <= d /\ Chain(t, c, k, o)
      BY <3>3 DEF Reached
    <3>6. ASSUME NEW j \in Nat, j < o
          PROVE  u[Spot(c, k, j)].occupied /\ u[Spot(c, k, j)].distance >= j
      <4>1. PICK i \in 0 .. c - 1 : i = Spot(c, k, j)
        BY <3>4, SpotFacts
      <4>2. t[i].occupied /\ t[i].distance >= j
        BY <3>5, <3>6, <4>1 DEF Chain
      <4>3. i # p
        <5>1. ASSUME i = p PROVE FALSE
          <6>1. Spot(c, k, j + 1) = (p + 1) % c
            <7>1. (Spot(c, k, j) + 1) % c = Spot(c, k, j + 1)
              BY <3>4, SpotFacts
            <7> QED BY ONLY <4>1, <5>1, <7>1
          <6>2. CASE j + 1 < o
            <7>1. j + 1 \in Nat
              OBVIOUS
            <7>2. t[Spot(c, k, j + 1)].occupied
              BY <3>5, <6>2, <7>1 DEF Chain
            <7> QED BY <6>1, <7>2
          <6>3. CASE ~(j + 1 < o)
            <7>1. j + 1 = o
              BY <3>6, <6>3
            <7> QED BY <3>1, <3>5, <6>1, <7>1
          <6> QED BY <6>2, <6>3
        <5> QED BY <5>1
      <4> QED BY <1>4, <4>1, <4>2, <4>3
    <3>7. Chain(u, c, k, o)
      BY <3>6 DEF Chain
    <3> QED BY <3>1, <3>2, <3>5, <3>7 DEF Reached
  <2> QED BY <2>1 DEF AllReached
<1>8. ASSUME NEW a, NEW b PROVE Has(u, c, a, b) <=> Has(t, c, a, b) /\ a # t[p].key
  <2>1. ASSUME Has(u, c, a, b) PROVE Has(t, c, a, b) /\ a # t[p].key
    <3>1. PICK q \in 0 .. c - 1 : u[q].occupied /\ u[q].key = a /\ u[q].value = b
      BY <2>1 DEF Has
    <3>2. q # p /\ t[q].occupied /\ t[q].key = a /\ t[q].value = b
      BY <1>5, <3>1
    <3>3. a # t[p].key
      BY <3>2 DEF TableOK, Once
    <3> QED BY <3>2, <3>3 DEF Has
  <2>2. ASSUME Has(t, c, a, b), a # t[p].key PROVE Has(u, c, a, b)
    <3>1. PICK q \in 0 .. c - 1 : t[q].occupied /\ t[q].key = a /\ t[q].value = b
      BY <2>2 DEF Has
    <3>2. u[q] = t[q]
      BY <1>4, <2>2, <3>1
    <3> QED BY <3>1, <3>2 DEF Has
  <2> QED BY <2>1, <2>2
<1>9. Cardinality(Occupied(u)) = Cardinality(Occupied(t)) - 1
  <2>1. /\ IsFiniteSet(Occupied(t))
        /\ \A q : q \in Occupied(t) <=> q \in 0 .. c - 1 /\ t[q].occupied
    BY <1>1, OccupiedFacts
  <2>2. \A q : q \in Occupied(u) <=> q \in 0 .. c - 1 /\ u[q].occupied
    BY <1>3, OccupiedFacts
  <2>3. Occupied(u) = Occupied(t) \ {p}
    BY <1>4, <1>5, <2>1, <2>2
  <2>4. p \in Occupied(t)
    BY <2>1
  <2>5. Cardinality(Occupied(t) \ {p}) =
          IF p \in Occupied(t) THEN Cardinality(Occupied(t)) - 1 ELSE Cardinality(Occupied(t))
    BY <2>1, FS_RemoveElement
  <2> QED BY <2>3, <2>4, <2>5
<1>10. TableOK(u, c)
  BY <1>3, <1>6, <1>7 DEF TableOK
<1> QED BY <1>2, <1>8, <1>9, <1>10

\* The table and the map that the calls describe.
Agrees(t, c, map) == \A a, b : Has(t, c, a, b) <=> a \in DOMAIN map /\ map[a] = b

Loose(c) ==
  /\ table \in Tables(c) /\ num_elements = Cardinality(Occupied(table))
  /\ Known(table, c, given)

Sound(c) ==
  /\ TableOK(table, c) /\ num_elements = Cardinality(Occupied(table)) /\ Agrees(table, c, contents)

TableInv ==
  /\ hash \in [Keys -> HashValues] /\ behind \in Nat
  /\ \E c \in Nat \ {0} : Loose(c) /\ (behind = 0 => Sound(c))

\* The hashes of the table.
LEMMA HashedAll ==
  ASSUME hash \in [Keys -> HashValues], NEW c \in Nat \ {0}
  PROVE  Hashed(c)
BY HashTableAssumption DEF Hashed

\* The invariant after a step, from the table it leaves.
LEMMA SoundNext ==
  ASSUME NEW c, hash' = hash, TableOK(table', c), num_elements' = Cardinality(Occupied(table')),
         Agrees(table', c, contents')
  PROVE  Sound(c)'
<1>1. Once(table, c)' /\ Agrees(table, c, contents)' /\ (num_elements = Cardinality(Occupied(table)))'
  BY DEF TableOK, Once, Agrees, Has, Occupied
<1>2. (table \in Tables(c))'
  BY DEF TableOK, Tables
<1>3. AllReached(table, c)'
  BY DEF TableOK, AllReached, Reached, Chain, Spot
<1> QED BY <1>1, <1>2, <1>3 DEF Sound, TableOK

LEMMA LooseNext ==
  ASSUME NEW c, table' \in Tables(c), num_elements' = Cardinality(Occupied(table')),
         Known(table', c, given')
  PROVE  Loose(c)'
BY DEF Loose, Tables, Occupied, Known

\* The capacity after an insert.
Grows(c) == IF 10 * num_elements > 7 * c THEN 2 * c ELSE c

\* insert keeps what is true of a table with holes.
LEMMA InsertLoose ==
  ASSUME NEW c \in Nat \ {0}, Hashed(c), Loose(c), NEW k \in Keys, NEW v \in MapValues, insert(k, v)
  PROVE  \E n \in Nat \ {0} : n = Grows(c) /\ Loose(n)'
<1>1. /\ table \in Tables(c) /\ num_elements = Cardinality(Occupied(table)) /\ Known(table, c, given)
      /\ Capacity(table) = c /\ num_elements \in Nat
  BY TableFacts, OccupiedFacts DEF Loose
<1>2. PICK full, room, size, after :
        /\ full = (10 * num_elements > 7 * Capacity(table))
        /\ room = (IF full THEN Rehash(table) ELSE table)
        /\ size = (IF full THEN Cardinality(Occupied(room)) ELSE num_elements)
        /\ after = Put(room, k, v)
  OBVIOUS
<1>3. /\ table' = after.table /\ num_elements' = (IF after.new THEN size + 1 ELSE size)
      /\ given' = given \cup {<<k, v>>}
  BY <1>2 DEF insert
<1>4. PICK g : g = given'
  OBVIOUS
<1>5. <<k, v>> \in g /\ Known(table, c, g)
  BY <1>1, <1>3, <1>4 DEF Known
<1>6. PICK n \in Nat \ {0} : n = Grows(c)
  BY DEF Grows
<1>7. Hashed(n) /\ room \in Tables(n) /\ HasRoom(room, n) /\ Known(room, n, g)
  <2>1. CASE full
    <3>1. n = 2 * c /\ room = Rehash(table)
      BY <1>1, <1>2, <1>6, <2>1 DEF Grows
    <3> QED BY <1>1, <1>5, <3>1, RehashKept
  <2>2. CASE ~full
    <3>1. n = c /\ room = table
      BY <1>1, <1>2, <1>6, <2>2 DEF Grows
    <3>2. num_elements < c
      <4>1. ~(10 * num_elements > 7 * c)
        BY <1>1, <1>2, <2>2
      <4> QED BY <1>1, <4>1
    <3>3. HasRoom(table, c)
      BY <1>1, <3>2, OccupiedFacts
    <3> QED BY <1>1, <1>5, <3>1, <3>3
  <2> QED BY <2>1, <2>2
<1>8. after.table \in Tables(n) /\ SlotTaken(after, room, n) /\ Known(after.table, n, g)
  BY <1>2, <1>5, <1>7, PutKept DEF Kept
<1>9. size = Cardinality(Occupied(room))
  BY <1>1, <1>2
<1>10. Cardinality(Occupied(after.table)) =
         IF after.new THEN Cardinality(Occupied(room)) + 1 ELSE Cardinality(Occupied(room))
  BY <1>7, <1>8, OneMore
<1>11. num_elements' = Cardinality(Occupied(after.table))
  BY <1>3, <1>9, <1>10
<1>12. /\ table' \in Tables(n) /\ num_elements' = Cardinality(Occupied(table'))
       /\ Known(table', n, given')
  BY <1>3, <1>4, <1>8, <1>11
<1>13. Loose(n)'
  BY <1>12, LooseNext
<1> QED BY <1>6, <1>13

\* insert keeps a table without holes a map.
LEMMA InsertSound ==
  ASSUME NEW c \in Nat \ {0}, Hashed(c), Sound(c), NEW k \in Keys, NEW v \in MapValues, insert(k, v)
  PROVE  \E n \in Nat \ {0} : n = Grows(c) /\ Sound(n)'
<1>1. table \in Tables(c)
  BY DEF Sound, TableOK
<1>2. Capacity(table) = c
  BY <1>1, TableFacts
<1>3. PICK full, room, size, after :
        /\ full = (10 * num_elements > 7 * Capacity(table))
        /\ room = (IF full THEN Rehash(table) ELSE table)
        /\ size = (IF full THEN Cardinality(Occupied(room)) ELSE num_elements)
        /\ after = Put(room, k, v)
  OBVIOUS
<1>4. /\ table' = after.table /\ num_elements' = (IF after.new THEN size + 1 ELSE size)
      /\ contents' = With(contents, k, v) /\ hash' = hash
  BY <1>3 DEF insert
<1>5. /\ TableOK(table, c) /\ num_elements = Cardinality(Occupied(table)) /\ num_elements \in Nat
      /\ Agrees(table, c, contents)
  BY <1>1, OccupiedFacts DEF Sound
<1>6. PICK n \in Nat \ {0} : /\ n = Grows(c) /\ Hashed(n) /\ TableOK(room, n) /\ HasRoom(room, n)
                             /\ \A a, b : Has(room, n, a, b) <=> Has(table, c, a, b)
  <2>1. CASE full
    <3>1. /\ TableOK(Rehash(table), 2 * c) /\ Hashed(2 * c) /\ HasRoom(Rehash(table), 2 * c)
          /\ \A a, b : Has(Rehash(table), 2 * c, a, b) <=> Has(table, c, a, b)
      BY <1>5, RehashFacts
    <3>2. 2 * c \in Nat \ {0}
      OBVIOUS
    <3>3. room = Rehash(table) /\ Grows(c) = 2 * c
      BY <1>2, <1>3, <2>1 DEF Grows
    <3> QED BY <3>1, <3>2, <3>3
  <2>2. CASE ~full
    <3>1. num_elements < c
      <4>1. ~(10 * num_elements > 7 * c)
        BY <1>2, <1>3, <2>2
      <4> QED BY <1>5, <4>1
    <3>2. HasRoom(table, c)
      BY <1>1, <1>5, <3>1, OccupiedFacts
    <3>3. room = table /\ Grows(c) = c
      BY <1>2, <1>3, <2>2 DEF Grows
    <3> QED BY <1>5, <3>2, <3>3
  <2> QED BY <2>1, <2>2
<1>7. PutOK(after, room, n, k, v)
  BY <1>3, <1>6, PutFacts
<1>8. room \in Tables(n) /\ after.table \in Tables(n) /\ TableOK(after.table, n)
  BY <1>6, <1>7 DEF PutOK, TableOK
<1>9. size = Cardinality(Occupied(room)) /\ size \in Nat
  <2>1. size = Cardinality(Occupied(room))
    BY <1>3, <1>5
  <2> QED BY <1>6, <1>8, <2>1, OccupiedFacts
<1>10. num_elements' = Cardinality(Occupied(table'))
  <2>1. Cardinality(Occupied(after.table)) =
          IF after.new THEN Cardinality(Occupied(room)) + 1 ELSE Cardinality(Occupied(room))
    BY <1>6, <1>7, <1>8, OneMore DEF PutOK
  <2>2. Cardinality(Occupied(after.table)) = IF after.new THEN size + 1 ELSE size
    BY <1>9, <2>1
  <2>3. Cardinality(Occupied(table')) = Cardinality(Occupied(after.table))
    BY <1>4
  <2> QED BY <1>4, <2>2, <2>3
<1>11. Agrees(table', n, contents')
  <2>1. ASSUME NEW a, NEW b
        PROVE  Has(after.table, n, a, b) <=> a \in DOMAIN contents' /\ contents'[a] = b
    <3>1. Has(after.table, n, a, b) <=> IF a = k THEN b = v ELSE Has(room, n, a, b)
      BY <1>7 DEF PutOK
    <3>2. Has(room, n, a, b) <=> a \in DOMAIN contents /\ contents[a] = b
      BY <1>5, <1>6 DEF Agrees
    <3>3. a \in DOMAIN contents' <=> a \in DOMAIN contents \/ a = k
      BY <1>4 DEF With
    <3>4. a \in DOMAIN contents' => contents'[a] = IF a = k THEN v ELSE contents[a]
      BY <1>4 DEF With
    <3> QED BY <3>1, <3>2, <3>3, <3>4
  <2> QED BY <1>4, <2>1 DEF Agrees
<1>12. table' \in Tables(n) /\ TableOK(table', n)
  BY <1>4, <1>8
<1>13. Sound(n)'
  BY <1>4, <1>10, <1>11, <1>12, SoundNext
<1> QED BY <1>6, <1>13

LEMMA InsertInv ==
  ASSUME TableInv, NEW k \in Keys, NEW v \in MapValues, insert(k, v)
  PROVE  TableInv'
<1>1. PICK c \in Nat \ {0} : Loose(c) /\ (behind = 0 => Sound(c))
  BY DEF TableInv
<1>2. Hashed(c)
  BY HashedAll DEF TableInv
<1>3. PICK n \in Nat \ {0} : n = Grows(c) /\ Loose(n)'
  BY <1>1, <1>2, InsertLoose
<1>4. behind' \in Nat /\ (behind' = 0 => behind = 0) /\ hash' = hash
  BY DEF TableInv, insert, Counted
<1>5. ASSUME behind' = 0 PROVE Sound(n)'
  <2>1. PICK m \in Nat \ {0} : m = Grows(c) /\ Sound(m)'
    BY <1>1, <1>2, <1>4, <1>5, InsertSound
  <2>2. m = n
    BY <1>3, <2>1
  <2> QED BY <2>1, <2>2
<1> QED BY <1>3, <1>4, <1>5 DEF TableInv

\* erase frees a slot, or none.
LEMMA EraseLoose ==
  ASSUME NEW c \in Nat \ {0}, Hashed(c), Loose(c), NEW k \in Keys, erase(k)
  PROVE  Loose(c)'
<1>1. table \in Tables(c) /\ num_elements = Cardinality(Occupied(table)) /\ Known(table, c, given)
  BY DEF Loose
<1>2. given' = given
  BY DEF erase
<1>3. CASE Seek(table, k) < 0
  <2>1. table' = table /\ num_elements' = num_elements
    BY <1>3 DEF erase
  <2>2. /\ table' \in Tables(c) /\ num_elements' = Cardinality(Occupied(table'))
        /\ Known(table', c, given')
    BY <1>1, <1>2, <2>1
  <2> QED BY <2>2, LooseNext
<1>4. CASE ~(Seek(table, k) < 0)
  <2>1. PICK p \in 0 .. c - 1 : p = Seek(table, k) /\ table[p].occupied
    BY <1>1, <1>4, SeekInside DEF Holds
  <2>2. table' = [table EXCEPT ![p] = Free] /\ num_elements' = num_elements - 1
    BY <1>4, <2>1 DEF erase
  <2>3. /\ table' \in Tables(c) /\ num_elements' = Cardinality(Occupied(table'))
        /\ Known(table', c, given')
    BY <1>1, <1>2, <2>1, <2>2, FreedSlot
  <2> QED BY <2>3, LooseNext
<1> QED BY <1>3, <1>4

\* It keeps the table a map, up to the first hole.
LEMMA EraseSound ==
  ASSUME NEW c \in Nat \ {0}, Hashed(c), Sound(c), behind = 0, NEW k \in Keys, erase(k), behind' = 0
  PROVE  Sound(c)'
<1>1. table \in Tables(c)
  BY DEF Sound, TableOK
<1>2. Capacity(table) = c
  BY <1>1, TableFacts
<1>3. /\ TableOK(table, c) /\ num_elements = Cardinality(Occupied(table))
      /\ Agrees(table, c, contents)
  BY DEF Sound
<1>4. contents' = Without(contents, k) /\ hash' = hash
  BY DEF erase
<1>5. \A a, b : a \in DOMAIN contents' /\ contents'[a] = b
                 <=> a # k /\ a \in DOMAIN contents /\ contents[a] = b
  BY <1>4 DEF Without
<1>6. CASE Absent(table, c, k)
  <2>1. Seek(table, k) = -1
    BY <1>1, <1>2, <1>6, SeekMisses
  <2>2. Seek(table, k) < 0
    BY <2>1
  <2>3. table' = table /\ num_elements' = num_elements
    BY <2>2 DEF erase
  <2>4. \A b : ~Has(table, c, k, b)
    BY <1>6 DEF Has, Absent
  <2>5. ASSUME NEW a, NEW b
        PROVE  Has(table, c, a, b) <=> a \in DOMAIN contents' /\ contents'[a] = b
    BY <1>3, <1>5, <2>4 DEF Agrees
  <2>6. Agrees(table', c, contents')
    BY <2>3, <2>5 DEF Agrees
  <2>7. TableOK(table', c) /\ num_elements' = Cardinality(Occupied(table')) /\ table' \in Tables(c)
    BY <1>1, <1>3, <2>3
  <2>8. Sound(c)'
    BY <1>4, <2>6, <2>7, SoundNext
  <2> QED BY <2>8
<1>7. CASE ~Absent(table, c, k)
  <2>1. PICK p \in 0 .. c - 1 : table[p].occupied /\ table[p].key = k
    BY <1>7 DEF Absent
  <2>2. Seek(table, k) = p
    BY <1>2, <1>3, <2>1, SeekFinds DEF Holds
  <2>3. ~(Seek(table, k) < 0)
    BY <2>2
  <2>4. /\ table' = [table EXCEPT ![p] = Free] /\ num_elements' = num_elements - 1
        /\ ~table[(p + 1) % c].occupied
    BY <1>2, <2>2, <2>3 DEF erase, NextSlot, Counted
  <2>5. /\ TableOK([table EXCEPT ![p] = Free], c)
        /\ \A a, b : Has([table EXCEPT ![p] = Free], c, a, b) <=> Has(table, c, a, b) /\ a # table[p].key
        /\ Cardinality(Occupied([table EXCEPT ![p] = Free])) = Cardinality(Occupied(table)) - 1
    BY <1>3, <2>1, <2>4, EraseOK
  <2>6. TableOK(table', c) /\ num_elements' = Cardinality(Occupied(table'))
    BY <1>3, <2>4, <2>5
  <2>7. ASSUME NEW a, NEW b
        PROVE  Has(table', c, a, b) <=> a \in DOMAIN contents' /\ contents'[a] = b
    <3>1. Has(table', c, a, b) <=> Has(table, c, a, b) /\ a # k
      BY <2>1, <2>4, <2>5
    <3>2. Has(table, c, a, b) <=> a \in DOMAIN contents /\ contents[a] = b
      BY <1>3 DEF Agrees
    <3> QED BY <1>5, <3>1, <3>2
  <2>8. Agrees(table', c, contents')
    BY <2>7 DEF Agrees
  <2> QED BY <1>4, <2>6, <2>8, SoundNext
<1> QED BY <1>6, <1>7

LEMMA EraseInv ==
  ASSUME TableInv, NEW k \in Keys, erase(k)
  PROVE  TableInv'
<1>1. PICK c \in Nat \ {0} : Loose(c) /\ (behind = 0 => Sound(c))
  BY DEF TableInv
<1>2. Hashed(c)
  BY HashedAll DEF TableInv
<1>3. behind' \in Nat /\ (behind' = 0 => behind = 0) /\ hash' = hash
  BY DEF TableInv, erase, Counted
<1>4. Loose(c)'
  BY <1>1, <1>2, EraseLoose
<1>5. ASSUME behind' = 0 PROVE Sound(c)'
  BY <1>1, <1>2, <1>3, <1>5, EraseSound
<1> QED BY <1>3, <1>4, <1>5 DEF TableInv

\* It holds of an empty table, and of a cleared one.
LEMMA EmptySound ==
  ASSUME NEW c, Hashed(c), table = Empty(c), num_elements = 0, contents = NoEntries
  PROVE  Sound(c)
<1>1. /\ TableOK(Empty(c), c) /\ Occupied(Empty(c)) = {}
      /\ \A a, b : ~Has(Empty(c), c, a, b)
  BY EmptyOK
<1>2. DOMAIN contents = {}
  BY DEF NoEntries
<1>3. num_elements = Cardinality(Occupied(table))
  BY <1>1, FS_EmptySet
<1>4. Agrees(table, c, contents)
  BY <1>1, <1>2 DEF Agrees
<1> QED BY <1>1, <1>3, <1>4 DEF Sound

LEMMA ClearInv ==
  ASSUME TableInv, ClearTable
  PROVE  TableInv'
<1>1. PICK c \in Nat \ {0} : table \in Tables(c)
  BY DEF TableInv, Loose
<1>2. Hashed(c) /\ Capacity(table) = c
  <2>1. Hashed(c)
    BY HashedAll DEF TableInv
  <2> QED BY <1>1, <2>1, TableFacts
<1>3. /\ table' = Empty(c) /\ num_elements' = 0 /\ contents' = NoEntries /\ hash' = hash
      /\ given' = {} /\ behind' = 0
  BY <1>2 DEF ClearTable
<1>4. /\ TableOK(Empty(c), c) /\ Occupied(Empty(c)) = {}
      /\ \A a, b : ~Has(Empty(c), c, a, b)
  BY <1>2, EmptyOK
<1>5. Cardinality(Occupied(table')) = 0
  BY <1>3, <1>4, FS_EmptySet
<1>6. DOMAIN contents' = {}
  BY <1>3 DEF NoEntries
<1>7. Agrees(table', c, contents')
  BY <1>3, <1>4, <1>6 DEF Agrees
<1>8. Sound(c)'
  BY <1>3, <1>4, <1>5, <1>7, SoundNext
<1>9. Loose(c)'
  <2>1. table' \in Tables(c) /\ Known(table', c, given')
    BY <1>2, <1>3, <1>4, OccupiedFacts DEF TableOK, Known
  <2> QED BY <1>3, <1>5, <2>1, LooseNext
<1> QED BY <1>3, <1>8, <1>9 DEF TableInv

\* The keys of the entries are those of the map, each in one slot.
LEMMA SoundCounts ==
  ASSUME NEW c, Hashed(c), Sound(c)
  PROVE  num_elements = Cardinality(DOMAIN contents)
<1> DEFINE f == [p \in Occupied(table) |-> table[p].key]
<1>1. /\ TableOK(table, c) /\ num_elements = Cardinality(Occupied(table)) /\ table \in Tables(c)
      /\ Agrees(table, c, contents)
  BY DEF Sound, TableOK
<1>2. /\ IsFiniteSet(Occupied(table))
      /\ \A p : p \in Occupied(table) <=> p \in 0 .. c - 1 /\ table[p].occupied
  BY <1>1, OccupiedFacts
<1>3. \A p \in Occupied(table) : table[p].key \in DOMAIN contents
  BY <1>1, <1>2 DEF Agrees, Has
<1>4. \A p, q \in Occupied(table) : table[p].key = table[q].key => p = q
  BY <1>1, <1>2 DEF TableOK, Once
<1>5. ASSUME NEW a \in DOMAIN contents
      PROVE  \E p \in Occupied(table) : table[p].key = a
  <2>1. Has(table, c, a, contents[a])
    BY <1>1 DEF Agrees
  <2> QED BY <1>2, <2>1 DEF Has
<1>6. f \in Bijection(Occupied(table), DOMAIN contents)
  <2>0. PICK S, T, g : S = Occupied(table) /\ T = DOMAIN contents /\ g = f
    OBVIOUS
  <2>1. /\ g \in [S -> T] /\ \A p, q \in S : g[p] = g[q] => p = q
        /\ \A a \in T : \E p \in S : g[p] = a
    BY <1>3, <1>4, <1>5, <2>0
  <2>2. g \in Injection(S, T) /\ g \in Surjection(S, T)
    BY ONLY <2>1 DEF Injection, IsInjective, Surjection
  <2> QED BY <2>0, <2>2 DEF Bijection
<1>7. ExistsBijection(Occupied(table), DOMAIN contents)
  BY <1>6 DEF ExistsBijection
<1>8. Cardinality(DOMAIN contents) = Cardinality(Occupied(table))
  BY <1>2, <1>7, FS_Bijection
<1> QED BY <1>1, <1>8

\* find answers what the map says.
LEMMA SoundFinds ==
  ASSUME NEW c, Hashed(c), Sound(c), NEW k \in Keys
  PROVE  find(table, k) = IF k \in DOMAIN contents THEN {contents[k]} ELSE {}
<1>1. TableOK(table, c) /\ table \in Tables(c) /\ Agrees(table, c, contents)
  BY DEF Sound, TableOK
<1>2. CASE k \in DOMAIN contents
  <2>1. Has(table, c, k, contents[k])
    BY <1>1, <1>2 DEF Agrees
  <2>2. PICK p \in 0 .. c - 1 : table[p].occupied /\ table[p].key = k /\ table[p].value = contents[k]
    BY <2>1 DEF Has
  <2>3. Seek(table, k) = p
    BY <1>1, <2>2, SeekFinds DEF Holds
  <2>4. ~(Seek(table, k) < 0)
    BY <2>3
  <2> QED BY <1>2, <2>2, <2>3, <2>4 DEF find
<1>3. CASE k \notin DOMAIN contents
  <2>1. \A b : ~Has(table, c, k, b)
    BY <1>1, <1>3 DEF Agrees
  <2>2. Absent(table, c, k)
    BY <2>1 DEF Absent, Has
  <2>3. Seek(table, k) = -1
    BY <1>1, <2>2, SeekMisses
  <2>4. Seek(table, k) < 0
    BY <2>3
  <2> QED BY <1>3, <2>4 DEF find
<1> QED BY <1>2, <1>3

LEMMA TableSpecInv == TableSpec => []TableInv
<1>1. TableInit => TableInv
  <2> SUFFICES ASSUME TableInit PROVE TableInv
    OBVIOUS
  <2>1. InitialCapacity \in Nat \ {0} /\ hash \in [Keys -> HashValues] /\ behind = 0
    BY HashTableAssumption DEF TableInit
  <2>2. Hashed(InitialCapacity)
    BY <2>1, HashedAll
  <2>3. Sound(InitialCapacity)
    BY <2>2, EmptySound DEF TableInit
  <2>4. Loose(InitialCapacity)
    <3>1. TableOK(Empty(InitialCapacity), InitialCapacity) /\ Occupied(Empty(InitialCapacity)) = {}
      BY <2>2, EmptyOK
    <3>2. table = Empty(InitialCapacity)
      BY DEF TableInit
    <3>3. table \in Tables(InitialCapacity) /\ Occupied(table) = {}
      BY <3>1, <3>2 DEF TableOK
    <3>4. Known(table, InitialCapacity, given)
      BY <2>2, <3>3, OccupiedFacts DEF Known
    <3>5. num_elements = Cardinality(Occupied(table))
      BY <2>3 DEF Sound
    <3> QED BY <3>3, <3>4, <3>5 DEF Loose
  <2> QED BY <2>1, <2>3, <2>4 DEF TableInv
<1>2. TableInv /\ [TableNext]_tvars => TableInv'
  <2> SUFFICES ASSUME TableInv, [TableNext]_tvars PROVE TableInv'
    OBVIOUS
  <2>1. ASSUME NEW k \in Keys, erase(k) PROVE TableInv'
    BY <2>1, EraseInv
  <2>2. ASSUME NEW k \in Keys, NEW v \in MapValues, insert(k, v) PROVE TableInv'
    BY <2>2, InsertInv
  <2>3. CASE ClearTable
    BY <2>3, ClearInv
  <2>4. CASE UNCHANGED tvars
    <3>1. /\ table' = table /\ hash' = hash /\ num_elements' = num_elements /\ contents' = contents
          /\ given' = given /\ behind' = behind
      BY <2>4 DEF tvars
    <3>2. PICK c \in Nat \ {0} : Loose(c) /\ (behind = 0 => Sound(c))
      BY DEF TableInv
    <3>3. Loose(c)'
      <4>1. /\ table' \in Tables(c) /\ num_elements' = Cardinality(Occupied(table'))
            /\ Known(table', c, given')
        BY <3>1, <3>2 DEF Loose
      <4> QED BY <4>1, LooseNext
    <3>4. ASSUME behind' = 0 PROVE Sound(c)'
      <4>1. TableOK(table', c) /\ num_elements' = Cardinality(Occupied(table')) /\ Agrees(table', c, contents')
        BY <3>1, <3>2, <3>4 DEF Sound
      <4> QED BY <3>1, <4>1, SoundNext
    <3> QED BY <3>1, <3>3, <3>4 DEF TableInv
  <2> QED BY <2>1, <2>2, <2>3, <2>4 DEF TableNext
<1> QED BY <1>1, <1>2, PTL DEF TableSpec

\* TableIsMap for every table of every run of robinhood_hash_table.cpp: whatever
\* the keys, the values, the hashes and the initial capacity are, and however
\* many calls come after an erase that left a hole.
THEOREM TableIsAMap == TableSpec => []TableIsMap
<1>1. TableInv => TableIsMap
  <2> SUFFICES ASSUME TableInv PROVE TableIsMap
    OBVIOUS
  <2>1. PICK c \in Nat \ {0} : Loose(c) /\ (behind = 0 => Sound(c))
    BY DEF TableInv
  <2>2. Hashed(c)
    BY HashedAll DEF TableInv
  <2>3. ASSUME behind = 0
        PROVE  /\ \A k \in Keys : find(table, k) = IF k \in DOMAIN contents THEN {contents[k]} ELSE {}
               /\ num_elements = Cardinality(DOMAIN contents)
    BY <2>1, <2>2, <2>3, SoundCounts, SoundFinds
  <2>4. \A k \in Keys : \A v \in find(table, k) : <<k, v>> \in given
    BY <2>1, <2>2, FindKnown DEF Loose
  <2>5. num_elements = Cardinality(Occupied(table))
    BY <2>1 DEF Loose
  <2> QED BY <2>3, <2>4, <2>5 DEF TableIsMap
<1> QED BY <1>1, TableSpecInv, PTL
=============================================================================
