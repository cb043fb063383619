----------------------------- MODULE OrderBook -----------------------------
(***************************************************************************)
(* OrderBook of week_5/phase_5: the levels and the lookup hold copies of   *)
(* the orders.  An id that is added twice replaces the entry of the lookup *)
(* and is added to the levels a second time if the prices differ.          *)
(***************************************************************************)
EXTENDS PriceLevels

VARIABLES levels,  \* orderLevels
          lookup   \* orderLookup

Order(price, quantity, isBuy) == [price |-> price, quantity |-> quantity, isBuy |-> isBuy]

Init ==
  /\ levels = NoEntries
  /\ lookup = NoEntries

AddOrder(id, price, quantity, isBuy) ==
  IF ValidInput(price, quantity)
  THEN /\ levels' = Insert(levels, price, id, Order(price, quantity, isBuy))
       /\ lookup' = With(lookup, id, Order(price, quantity, isBuy))
  ELSE UNCHANGED <<levels, lookup>>

\* The order is taken out of its level and added again.
ModifyOrder(id, price, quantity) ==
  IF ValidInput(price, quantity) /\ id \in DOMAIN lookup
  THEN LET o == Order(price, quantity, lookup[id].isBuy)
       IN  /\ levels' = Insert(Erase(levels, lookup[id].price, id), price, id, o)
           /\ lookup' = With(lookup, id, o)
  ELSE UNCHANGED <<levels, lookup>>

DeleteOrder(id) ==
  IF id \in DOMAIN lookup
  THEN /\ levels' = Erase(levels, lookup[id].price, id)
       /\ lookup' = Without(lookup, id)
  ELSE UNCHANGED <<levels, lookup>>

\* Every order that getOrder finds is at its price level, in the same state,
\* even when ids have been added twice: modifyOrder and deleteOrder never
\* report that "State might be inconsistent".
LookupIsAtLevel ==
  \A id \in DOMAIN lookup :
    /\ At(levels, lookup[id].price, id)
    /\ levels[lookup[id].price][id] = lookup[id]
=============================================================================
