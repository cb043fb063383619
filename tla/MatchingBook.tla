---------------------------- MODULE MatchingBook ----------------------------
(***************************************************************************)
(* OrderBook, MemoryPool and OrderManager of week_4/phase_4.  An order     *)
(* lives in a block of the pool and is owned, through shared pointers, by  *)
(* the side it rests on, by ordersById_ and possibly by the manager; when  *)
(* the last owner lets go, the deleter returns the block to the pool.      *)
(*                                                                         *)
(* One thread at a time uses these objects, so an operation is one step.   *)
(***************************************************************************)
EXTENDS Maps, Sequences, FiniteSets

CONSTANTS Prices,
          PoolSize    \* poolSize: the number of blocks

ASSUME PoolAssumption == Prices \subseteq Int /\ PoolSize \in Nat

Blocks == 1 .. PoolSize

VARIABLES
  free,    \* freeList: the chain of free blocks, the head first
  mem,     \* the orders in the blocks
  side,    \* side[TRUE] is bids_ and side[FALSE] is asks_, best price first
  byId,    \* ordersById_
  orders,  \* the manager's orders
  states   \* the manager's states

bookVars == <<free, mem, side, byId>>
managerVars == <<orders, states>>

Order(id, price, quantity, isBuy) ==
  [id |-> id, price |-> price, quantity |-> quantity, isBuy |-> isBuy]

Resting(isBuy) == {side[isBuy][i].block : i \in DOMAIN side[isBuy]}

\* The blocks some shared pointer points to.
Owned ==
  Resting(TRUE) \cup Resting(FALSE)
    \cup {byId[id] : id \in DOMAIN byId} \cup {orders[id] : id \in DOMAIN orders}

Orderings(S) ==
  {s \in [1 .. Cardinality(S) -> S] : \A i, j \in DOMAIN s : s[i] = s[j] => i = j}

\* OrderDeleter: the blocks that lose their last owner in this step go back
\* to the head of the free list.
Release == free' = (CHOOSE s \in Orderings(Owned \ Owned') : TRUE) \o free

\* The constructor links all blocks; the rest is empty.
BookInit ==
  /\ free = [i \in Blocks |-> i]
  /\ mem = [b \in Blocks |-> Order(0, 0, 0, TRUE)]
  /\ side = [isBuy \in BOOLEAN |-> <<>>]
  /\ byId = NoEntries
  /\ orders = NoEntries
  /\ states = NoEntries

\* Price p comes before price q in bids_ (std::greater) or in asks_.
Ahead(isBuy, p, q) == IF isBuy THEN p > q ELSE p < q

\* Mutant: an order is put before those of its price.
EmplaceFirst(isBuy, price, b) ==
  \E n \in 0 .. Len(side[isBuy]) :
    /\ \A i \in 1 .. n : Ahead(isBuy, side[isBuy][i].price, price)
    /\ \A i \in n + 1 .. Len(side[isBuy]) : ~Ahead(isBuy, side[isBuy][i].price, price)
    /\ side' = [side EXCEPT ![isBuy] =
                  SubSeq(@, 1, n) \o <<[price |-> price, block |-> b]>> \o SubSeq(@, n + 1, Len(@))]

\* multimap::emplace: behind all entries that are not behind price.
Emplace(isBuy, price, b) ==
  \E n \in 0 .. Len(side[isBuy]) :
    /\ \A i \in 1 .. n : ~Ahead(isBuy, price, side[isBuy][i].price)
    /\ \A i \in n + 1 .. Len(side[isBuy]) : Ahead(isBuy, price, side[isBuy][i].price)
    /\ side' = [side EXCEPT ![isBuy] =
                  SubSeq(@, 1, n) \o <<[price |-> price, block |-> b]>> \o SubSeq(@, n + 1, Len(@))]

CanAdd(id) == id \notin DOMAIN byId /\ free # <<>>

\* A known id and an exhausted pool are refused with nullptr.
AddOrder(id, price, quantity, isBuy) ==
  \/ /\ CanAdd(id)
     /\ free' = Tail(free)
     /\ mem' = [mem EXCEPT ![Head(free)] = Order(id, price, quantity, isBuy)]
     /\ byId' = With(byId, id, Head(free))
     /\ Emplace(isBuy, price, Head(free))
  \/ ~CanAdd(id) /\ UNCHANGED bookVars

\* The side without the entry for block b, if it has one.
WithoutBlock(s, b) ==
  IF \E i \in DOMAIN s : s[i].block = b
  THEN LET i == CHOOSE i \in DOMAIN s : s[i].block = b
       IN  SubSeq(s, 1, i - 1) \o SubSeq(s, i + 1, Len(s))
  ELSE s

\* Mutant: the block is returned although the manager still owns it.
DeleteFrees(id) ==
  /\ id \in DOMAIN byId
  /\ byId' = Without(byId, id)
  /\ side' = [side EXCEPT ![mem[byId[id]].isBuy] = WithoutBlock(@, byId[id])]
  /\ free' = <<byId[id]>> \o free
  /\ UNCHANGED <<mem, managerVars>>

\* Also for an order that matchOrders has filled: it is on no side then.
DeleteOrder(id) ==
  /\ id \in DOMAIN byId
  /\ byId' = Without(byId, id)
  /\ side' = [side EXCEPT ![mem[byId[id]].isBuy] = WithoutBlock(@, byId[id])]
  /\ UNCHANGED <<mem, managerVars>>
  /\ Release

UpdateQuantity(id, quantity) ==
  /\ id \in DOMAIN byId /\ quantity > 0
  /\ mem' = [mem EXCEPT ![byId[id]].quantity = quantity]
  /\ UNCHANGED <<free, side, byId, managerVars>>

\* OrderManager::addOrder of the order in block b; emplace keeps an old state.
Track(id, b) ==
  IF id \in DOMAIN orders
  THEN UNCHANGED managerVars
  ELSE /\ orders' = With(orders, id, b)
       /\ states' = IF id \in DOMAIN states THEN states ELSE With(states, id, "New")

\* The book is not told.
CancelOrder(id) ==
  /\ id \in DOMAIN orders
  /\ orders' = Without(orders, id)
  /\ states' = [states EXCEPT ![id] = "Cancelled"]
  /\ UNCHANGED <<mem, side, byId>>
  /\ Release

UpdateOrderFill(id, filled) ==
  /\ id \in DOMAIN orders
  /\ states[id] \notin {"Cancelled", "Filled"}
  /\ filled >= 0 /\ filled <= mem[orders[id]].quantity
  /\ IF filled = mem[orders[id]].quantity
     THEN /\ states' = [states EXCEPT ![id] = "Filled"]
          /\ orders' = Without(orders, id)
     ELSE /\ states' = IF filled > 0 THEN [states EXCEPT ![id] = "PartiallyFilled"] ELSE states
          /\ UNCHANGED orders
  /\ UNCHANGED <<mem, side, byId>>
  /\ Release

\* The engine with its manager is destroyed before the book, the book's maps
\* before its pool.
Destroy ==
  /\ orders' = NoEntries /\ states' = NoEntries
  /\ byId' = NoEntries
  /\ side' = [isBuy \in BOOLEAN |-> <<>>]
  /\ UNCHANGED mem
  /\ Release
=============================================================================
