------------------------------ MODULE OrderMap ------------------------------
(***************************************************************************)
(* What an order book of week 5 promises: a map from ids to orders, of at  *)
(* most Limit entries.  addOrder adds an id that is not there, modifyOrder *)
(* changes price and quantity and keeps the side, deleteOrder removes.     *)
(* Every other call changes nothing.                                       *)
(***************************************************************************)
EXTENDS PriceLevels, FiniteSets

CONSTANTS Ids, Prices, Quantities, Limit

VARIABLE orders   \* a function from the ids in the book to their orders

Order == [price : Prices, quantity : Quantities, isBuy : BOOLEAN]

Init == orders = NoEntries

Add(id, o) ==
  /\ id \notin DOMAIN orders
  /\ Cardinality(DOMAIN orders) < Limit
  /\ orders' = With(orders, id, o)

Modify(id, price, quantity) ==
  /\ id \in DOMAIN orders
  /\ orders' = With(orders, id, [orders[id] EXCEPT !.price = price, !.quantity = quantity])

Delete(id) ==
  /\ id \in DOMAIN orders
  /\ orders' = Without(orders, id)

Next == \E id \in Ids :
          \/ \E o \in Order : Add(id, o)
          \/ \E p \in Prices, q \in Quantities : Modify(id, p, q)
          \/ Delete(id)

Spec == Init /\ [][Next]_orders
=============================================================================
