------------------------ MODULE UnoptimizedOrderBook ------------------------
(***************************************************************************)
(* UnoptimizedOrderBook of week_5/hw_5: copies in the levels and in the    *)
(* lookup, as in phase_5's OrderBook, but a duplicate id is refused.       *)
(***************************************************************************)
EXTENDS PriceLevels

VARIABLES levels,  \* orderLevels
          lookup,  \* orderLookup
          count    \* activeOrderCount

vars == <<levels, lookup, count>>

Order(price, quantity, isBuy) == [price |-> price, quantity |-> quantity, isBuy |-> isBuy]

Init ==
  /\ levels = NoEntries
  /\ lookup = NoEntries
  /\ count = 0

CanAdd(id, price, quantity) == ValidInput(price, quantity) /\ id \notin DOMAIN lookup

AddOrder(id, price, quantity, isBuy) ==
  IF CanAdd(id, price, quantity)
  THEN /\ levels' = Insert(levels, price, id, Order(price, quantity, isBuy))
       /\ lookup' = With(lookup, id, Order(price, quantity, isBuy))
       /\ count' = count + 1
  ELSE UNCHANGED vars

\* The lookup's order is changed in place and copied to its new level.
ModifyOrder(id, price, quantity) ==
  IF ValidInput(price, quantity) /\ id \in DOMAIN lookup
  THEN LET o == [lookup[id] EXCEPT !.price = price, !.quantity = quantity]
       IN  /\ levels' = Insert(Erase(levels, lookup[id].price, id), price, id, o)
           /\ lookup' = [lookup EXCEPT ![id] = o]
           /\ UNCHANGED count
  ELSE UNCHANGED vars

DeleteOrder(id) ==
  IF id \in DOMAIN lookup
  THEN /\ levels' = Erase(levels, lookup[id].price, id)
       /\ lookup' = Without(lookup, id)
       /\ count' = count - 1
  ELSE UNCHANGED vars
=============================================================================
