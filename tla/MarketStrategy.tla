--------------------------- MODULE MarketStrategy ---------------------------
(***************************************************************************)
(* The event loop of week_3/phase_3 (main.cpp) with the market snapshot    *)
(* and the order manager it drives.  A better bid than any before is       *)
(* answered with a sell order at its price, a better ask with a buy order; *)
(* when the level of an own order changes, the order is cancelled and      *)
(* placed again with the level's new quantity.                             *)
(*                                                                         *)
(* The two sides have the same code, so a level is told by its side; own   *)
(* orders keep the side of the level they trade against ("BID" for         *)
(* Side::Sell, "ASK" for Side::Buy).  The status of an order follows from  *)
(* filled and from its being in the map.                                   *)
(***************************************************************************)
EXTENDS Maps, FiniteSets

CONSTANTS Prices, Quantities, \* what the feed's lines may hold
          Fills,              \* quantities of executions
          FirstBid, FirstAsk, \* 100.10 and 100.20 in main
          MaxOrders           \* bound: own orders placed

ASSUME StrategyAssumption ==
  /\ Prices \subseteq Int /\ Quantities \subseteq Nat /\ Fills \subseteq Nat
  /\ FirstBid \in Int /\ FirstAsk \in Int /\ MaxOrders \in Nat

VARIABLES
  levels,  \* levels[side]: the map bids or asks, from price to quantity
  best,    \* best[side]: prev_best_bid_price, prev_best_ask_price
  orders,  \* the order manager's map, from id to order
  nextId,  \* curr_id
  main     \* "running", "ended", or "crashed"

svars == <<levels, best, orders, nextId, main>>

Sides == {"BID", "ASK"}
Order == [side : Sides, price : Int, quantity : Nat, filled : Nat]

\* load_feed: the lines that could be parsed, in any order.
Updates    == [type : Sides, price : Prices, quantity : Quantities]
Executions == [order_id : 1 .. MaxOrders, quantity : Fills]

StrategyInit ==
  /\ levels = [s \in Sides |-> NoEntries]
  /\ best = [s \in Sides |-> IF s = "BID" THEN FirstBid ELSE FirstAsk]
  /\ orders = NoEntries
  /\ nextId = 1
  /\ main = "running"

\* The order of the levels in bids and asks.
Better(side, p, q) == IF side = "BID" THEN p > q ELSE p < q

IsBest(side, map, p) == p \in DOMAIN map /\ \A q \in DOMAIN map : ~Better(side, q, p)

\* update_bid and update_ask: only a level that exists is removed by 0.
Updated(map, price, quantity) ==
  IF quantity = 0 /\ price \in DOMAIN map
  THEN Without(map, price) ELSE With(map, price, quantity)

NewOrder(side, price, quantity) ==
  [side |-> side, price |-> price, quantity |-> quantity, filled |-> 0]

Conflicts(side, price) ==
  {id \in DOMAIN orders : orders[id].side = side /\ orders[id].price = price}

Remaining(ids) == [id \in DOMAIN orders \ ids |-> orders[id]]

Place(kept, order) ==
  /\ nextId <= MaxOrders
  /\ orders' = With(kept, nextId, order)
  /\ nextId' = nextId + 1

\* Mutant: an order is placed again also when its level is gone.
ReplaceAlways(u) ==
  LET ids == Conflicts(u.type, u.price)
  IN  /\ ids # {}
      /\ Place(Remaining(ids), NewOrder(u.type, u.price, u.quantity))
      /\ UNCHANGED <<best, main>>

\* resolved_conflicts, when it returns true.
Replace(u) ==
  LET ids == Conflicts(u.type, u.price)
  IN  /\ ids # {}
      /\ IF u.quantity > 0
         THEN Place(Remaining(ids), NewOrder(u.type, u.price, u.quantity))
         ELSE orders' = Remaining(ids) /\ UNCHANGED nextId
      /\ UNCHANGED <<best, main>>

\* What follows when it returns false: a new best price is answered; without
\* any level on the side, get_best_bid returns nullptr and is dereferenced.
Follow(u) ==
  /\ Conflicts(u.type, u.price) = {}
  /\ LET map == levels'[u.type]
     IN  \/ \E p \in DOMAIN map :
              /\ IsBest(u.type, map, p)
              /\ IF Better(u.type, p, best[u.type])
                 THEN /\ Place(orders, NewOrder(u.type, p, map[p]))
                      /\ best' = [best EXCEPT ![u.type] = p]
                 ELSE UNCHANGED <<orders, nextId, best>>
              /\ UNCHANGED main
         \/ /\ DOMAIN map = {}
            /\ main' = "crashed"
            /\ UNCHANGED <<orders, nextId, best>>

Update(u) ==
  /\ levels' = [levels EXCEPT ![u.type] = Updated(@, u.price, u.quantity)]
  /\ Replace(u) \/ Follow(u)

\* handle_fill; an id that is not in the map is only logged.
Execute(e) ==
  /\ IF e.order_id \notin DOMAIN orders THEN UNCHANGED orders
     ELSE LET filled == orders[e.order_id].filled + e.quantity
          IN  orders' = IF filled >= orders[e.order_id].quantity
                        THEN Without(orders, e.order_id)
                        ELSE [orders EXCEPT ![e.order_id].filled = filled]
  /\ UNCHANGED <<levels, best, nextId, main>>

\* main returns and its locals are destroyed.
FeedEnds ==
  /\ main' = "ended"
  /\ levels' = [s \in Sides |-> NoEntries]
  /\ orders' = NoEntries
  /\ UNCHANGED <<best, nextId>>

StrategyNext ==
  /\ main = "running"
  /\ \/ \E u \in Updates : Update(u)
     \/ \E e \in Executions : Execute(e)
     \/ FeedEnds

StrategySpec == StrategyInit /\ [][StrategyNext]_svars

-----------------------------------------------------------------------------
\* Every own order is for a level that is on the market now and for all of
\* it, no level has two, and what is filled of an order is less than all:
\* over updates, removals, replacements and executions in any order.
OrdersMatchMarket ==
  /\ \A id \in DOMAIN orders :
       LET o == orders[id]
       IN  /\ o.price \in DOMAIN levels[o.side]
           /\ o.quantity = levels[o.side][o.price]
           /\ o.filled = 0 \/ o.filled < o.quantity
  /\ \A i, j \in DOMAIN orders :
       orders[i].side = orders[j].side /\ orders[i].price = orders[j].price => i = j

-----------------------------------------------------------------------------
(***************************************************************************)
(* What OrdersMatchMarket rests on (proved in ProgramProofs): ids         *)
(* are new, and no own order has a better price than the best one that was *)
(* ever answered, so a better one cannot meet an order of its own.         *)
(***************************************************************************)

StrategyTypeOK ==
  /\ levels = [s \in Sides |-> levels[s]]
  /\ \A s \in Sides : /\ DOMAIN levels[s] \subseteq Int
                      /\ levels[s] \in [DOMAIN levels[s] -> Nat]
  /\ best \in [Sides -> Int]
  /\ nextId \in Nat \ {0}
  /\ orders \in [DOMAIN orders -> Order]

IdsAreNew == DOMAIN orders \subseteq 1 .. nextId - 1

NoneIsBetter ==
  \A id \in DOMAIN orders : ~Better(orders[id].side, orders[id].price, best[orders[id].side])

StrategyInv == StrategyTypeOK /\ IdsAreNew /\ NoneIsBetter /\ OrdersMatchMarket
=============================================================================
