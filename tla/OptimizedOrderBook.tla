------------------------- MODULE OptimizedOrderBook -------------------------
(***************************************************************************)
(* OptimizedOrderBook and ObjectPool of week_5/phase_5; hw_5 has the same  *)
(* book and pool.  Orders live in the slots of the pool; the levels and    *)
(* the lookup hold pointers to them, modelled by the slot's index.  The    *)
(* book has one caller, so an operation is one step.                       *)
(*                                                                         *)
(* An id is never empty here (the code returns early on an empty one).     *)
(***************************************************************************)
EXTENDS PriceLevels, Sequences, FiniteSets

CONSTANTS Ids,
          Prices, Quantities,  \* the arguments callers pass, valid or not
          PoolCapacity         \* initial_pool_capacity

ASSUME BookAssumption ==
  /\ Prices \subseteq Int /\ Quantities \subseteq Int
  /\ PoolCapacity \in Nat

Slots == 0 .. PoolCapacity - 1

VARIABLES
  levels,  \* orderLevels
  lookup,  \* orderLookup
  pool,    \* pool_
  free,    \* free_indices_
  used,    \* used_count_
  count    \* activeOrderCount

vars == <<levels, lookup, pool, free, used, count>>

\* OrderOpt; a slot that has held no order yet is default-constructed.
NoId == ""
OrderOpt(id, price, quantity, isBuy) ==
  [id |-> id, price |-> price, quantity |-> quantity, isBuy |-> isBuy]

\* The constructor reserves the whole pool.
Init ==
  /\ levels = NoEntries
  /\ lookup = NoEntries
  /\ pool = [s \in Slots |-> OrderOpt(NoId, 0, 0, TRUE)]
  /\ free = [i \in 1 .. PoolCapacity |-> i - 1]
  /\ used = 0
  /\ count = 0

\* Mutant: the index stays on the free list.
AllocatePeeks(o) ==
  /\ pool' = [pool EXCEPT ![Head(free)] = o]
  /\ used' = used + 1
  /\ UNCHANGED free

\* ObjectPool::allocate, from a list that is not empty.
Allocate(o) ==
  /\ pool' = [pool EXCEPT ![Head(free)] = o]
  /\ free' = Tail(free)
  /\ used' = used + 1

\* ObjectPool::deallocate, of a slot of this pool.
Deallocate(s) ==
  /\ free' = Append(free, s)
  /\ used' = used - 1
  /\ UNCHANGED pool

\* Mutant: a duplicate is not refused.
CanAddAgain(id, price, quantity) == ValidInput(price, quantity) /\ free # <<>>

\* A duplicate id is refused with a warning, an exhausted pool with an
\* exception; neither changes anything.
CanAdd(id, price, quantity) ==
  ValidInput(price, quantity) /\ id \notin DOMAIN lookup /\ free # <<>>

AddOrder(id, price, quantity, isBuy) ==
  \/ /\ CanAdd(id, price, quantity)
     /\ Allocate(OrderOpt(id, price, quantity, isBuy))
     /\ levels' = Insert(levels, price, id, Head(free))
     /\ lookup' = With(lookup, id, Head(free))
     /\ count' = count + 1
  \/ /\ ~CanAdd(id, price, quantity)
     /\ UNCHANGED vars

\* The order keeps its slot; its level changes with its price.
ModifyOrder(id, price, quantity) ==
  \/ /\ ValidInput(price, quantity) /\ id \in DOMAIN lookup
     /\ LET s == lookup[id]
        IN  /\ levels' = IF pool[s].price = price THEN levels
                         ELSE Insert(Erase(levels, pool[s].price, id), price, id, s)
            /\ pool' = [pool EXCEPT ![s].price = price, ![s].quantity = quantity]
     /\ UNCHANGED <<lookup, free, used, count>>
  \/ /\ ~(ValidInput(price, quantity) /\ id \in DOMAIN lookup)
     /\ UNCHANGED vars

\* Mutant: the slot is not returned.
DeleteLeaks(id) ==
  \/ /\ id \in DOMAIN lookup
     /\ levels' = Erase(levels, pool[lookup[id]].price, id)
     /\ lookup' = Without(lookup, id)
     /\ count' = count - 1
     /\ UNCHANGED <<pool, free, used>>
  \/ id \notin DOMAIN lookup /\ UNCHANGED vars

DeleteOrder(id) ==
  \/ /\ id \in DOMAIN lookup
     /\ levels' = Erase(levels, pool[lookup[id]].price, id)
     /\ Deallocate(lookup[id])
     /\ lookup' = Without(lookup, id)
     /\ count' = count - 1
  \/ id \notin DOMAIN lookup /\ UNCHANGED vars

Next == \E id \in Ids :
          \/ \E p \in Prices, q \in Quantities :
               \/ \E b \in BOOLEAN : AddOrder(id, p, q, b)
               \/ ModifyOrder(id, p, q)
          \/ DeleteOrder(id)

Spec == Init /\ [][Next]_vars

-----------------------------------------------------------------------------
(***************************************************************************)
(* Properties                                                              *)
(***************************************************************************)

TypeOK ==
  /\ DOMAIN lookup \subseteq Ids /\ IsFiniteSet(DOMAIN lookup)
  /\ \A id \in DOMAIN lookup : lookup[id] \in Slots
  /\ DOMAIN levels \subseteq Prices
  /\ pool \in [Slots -> [id : Ids \cup {NoId}, price : Prices \cup {0},
                         quantity : Quantities \cup {0}, isBuy : BOOLEAN]]
  /\ free \in Seq(Slots)
  /\ used \in Int /\ count \in Int

\* A slot of the pool is free exactly once or belongs to exactly one order.
PoolInv ==
  /\ \A i, j \in DOMAIN free : free[i] = free[j] => i = j
  /\ \A id \in DOMAIN lookup, i \in DOMAIN free : lookup[id] # free[i]
  /\ \A id1, id2 \in DOMAIN lookup : lookup[id1] = lookup[id2] => id1 = id2
  /\ used = count
  /\ used = Cardinality(DOMAIN lookup)
  /\ used + Len(free) = PoolCapacity

\* Each order is at its price level and nothing else is at any level; a level
\* without orders is not kept.
IndexInv ==
  /\ \A id \in DOMAIN lookup :
       LET s == lookup[id]
       IN  /\ pool[s].id = id
           /\ At(levels, pool[s].price, id) /\ levels[pool[s].price][id] = s
  /\ \A p \in DOMAIN levels :
       /\ DOMAIN levels[p] # {}
       /\ \A id \in DOMAIN levels[p] : id \in DOMAIN lookup /\ pool[lookup[id]].price = p

\* The two indexes, the pool's slots and its free list, and the two counters
\* agree after every sequence of calls: no pointer is to a slot that has been
\* given back, and no branch that reports an inconsistency is ever taken.
BookInv == TypeOK /\ PoolInv /\ IndexInv

\* What getOrder copies out, for every id in the book.
Orders == [id \in DOMAIN lookup |->
             [price |-> pool[lookup[id]].price, quantity |-> pool[lookup[id]].quantity,
              isBuy |-> pool[lookup[id]].isBuy]]

Map == INSTANCE OrderMap WITH orders <- Orders, Limit <- PoolCapacity

\* The book with its pool is a map from ids to orders of at most PoolCapacity
\* entries: reusing slots never mixes up two orders.
IsOrderMap == Map!Spec
=============================================================================
