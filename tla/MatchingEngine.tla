--------------------------- MODULE MatchingEngine ---------------------------
(***************************************************************************)
(* MatchingEngine, MarketDataFeed and main of week_4/phase_4: the feed's   *)
(* thread produces ticks and runs processMarketData in its callback; main  *)
(* starts it, stops it, joins it and exits.  processMarketData is one      *)
(* action for each order it adds and each trade it makes.                  *)
(*                                                                         *)
(* The other operations of the book and of the manager are called by       *)
(* nobody in the program; here a listener may call them between two ticks. *)
(***************************************************************************)
EXTENDS MatchingBook

CONSTANTS
  Quantities,       \* what a listener asks for, valid or not
  DefaultQuantity,  \* defaultQuantity, 20 in the code
  CheapBelow,       \* the best bid below which a buy order is added, 100
  MaxTicks,         \* bound on the ticks
  MaxCalls          \* bound on the listener's calls

ASSUME EngineAssumption ==
  /\ Quantities \subseteq Int
  /\ DefaultQuantity \in Nat \ {0}
  /\ CheapBelow \in Int
  /\ MaxTicks \in Nat /\ MaxCalls \in Nat

\* runSimulation keeps the bid below the ask; no other limit matters here.
Ticks == {t \in [bid : Prices, ask : Prices] : t.bid < t.ask}

VARIABLES
  main,     \* where main is: "start", "sleep", "join", "return", "exited"
  running,  \* m_running
  pc,       \* where the feed's thread is
  tick,     \* the tick in the callback
  nextId,   \* generateOrderId's currentId
  ticks,    \* history: how many ticks there were
  calls,    \* history: how many calls a listener made
  traded    \* history: the ids that have traded

threadVars == <<main, running, pc>>
vars == <<bookVars, managerVars, threadVars, tick, nextId, ticks, calls, traded>>

Init ==
  /\ BookInit
  /\ main = "start"
  /\ running = FALSE
  /\ pc = "none"
  /\ tick \in Ticks
  /\ nextId = 1
  /\ ticks = 0
  /\ calls = 0
  /\ traded = {}

-----------------------------------------------------------------------------
(***************************************************************************)
(* processMarketData, in the feed's thread                                 *)
(***************************************************************************)

Goto(from, to) == pc = from /\ pc' = to /\ UNCHANGED <<main, running>>

\* The two ids are generated first.
AddBuy ==
  /\ Goto("buy", "sell")
  /\ AddOrder(nextId, tick.bid, DefaultQuantity, TRUE)
  /\ nextId' = nextId + 1
  /\ UNCHANGED <<managerVars, tick, ticks, calls, traded>>

AddSell ==
  /\ Goto("sell", "match")
  /\ AddOrder(nextId, tick.ask, DefaultQuantity, FALSE)
  /\ nextId' = nextId + 1
  /\ UNCHANGED <<managerVars, tick, ticks, calls, traded>>

BothSides == side[TRUE] # <<>> /\ side[FALSE] # <<>>
Best(isBuy) == side[isBuy][1]

\* Mutant: equal prices do not trade.
CrossesStrictly == BothSides /\ Best(TRUE).price > Best(FALSE).price

Crosses == BothSides /\ Best(TRUE).price >= Best(FALSE).price

\* Mutant: a filled sell order stays at the head of its side.
TradeKeepsSell ==
  /\ Crosses
  /\ LET buy  == Best(TRUE).block
         sell == Best(FALSE).block
         quantity == IF mem[buy].quantity <= mem[sell].quantity
                     THEN mem[buy].quantity ELSE mem[sell].quantity
     IN  /\ mem' = [mem EXCEPT ![buy].quantity = @ - quantity,
                               ![sell].quantity = @ - quantity]
         /\ side' = [isBuy \in BOOLEAN |->
                       IF isBuy /\ mem'[Best(isBuy).block].quantity <= 0
                       THEN Tail(side[isBuy]) ELSE side[isBuy]]
         /\ traded' = traded \cup {mem[buy].id, mem[sell].id}
  /\ UNCHANGED <<byId, managerVars>>
  /\ Release

\* One pass of matchOrders' loop.  A filled order leaves its side, and
\* nothing else.
Trade ==
  /\ Crosses
  /\ LET buy  == Best(TRUE).block
         sell == Best(FALSE).block
         quantity == IF mem[buy].quantity <= mem[sell].quantity
                     THEN mem[buy].quantity ELSE mem[sell].quantity
     IN  /\ mem' = [mem EXCEPT ![buy].quantity = @ - quantity,
                               ![sell].quantity = @ - quantity]
         /\ side' = [isBuy \in BOOLEAN |->
                       IF mem'[Best(isBuy).block].quantity <= 0
                       THEN Tail(side[isBuy]) ELSE side[isBuy]]
         /\ traded' = traded \cup {mem[buy].id, mem[sell].id}
  /\ UNCHANGED <<byId, managerVars>>
  /\ Release

MatchOrders ==
  /\ \/ Goto("match", "match") /\ Trade
     \/ Goto("match", "quote") /\ ~Crosses /\ UNCHANGED <<bookVars, managerVars, traded>>
  /\ UNCHANGED <<tick, nextId, ticks, calls>>

\* One more unit is bought at the best bid, and the manager told.
BuyCheap ==
  /\ Goto("quote", "loop")
  /\ \/ /\ BothSides /\ Best(TRUE).price < CheapBelow
        /\ AddOrder(nextId, Best(TRUE).price, 1, TRUE)
        /\ IF CanAdd(nextId) THEN Track(nextId, Head(free)) ELSE UNCHANGED managerVars
        /\ nextId' = nextId + 1
     \/ /\ ~(BothSides /\ Best(TRUE).price < CheapBelow)
        /\ UNCHANGED <<bookVars, managerVars, nextId>>
  /\ UNCHANGED <<tick, ticks, calls, traded>>

-----------------------------------------------------------------------------
(***************************************************************************)
(* The feed, its listener and main                                         *)
(***************************************************************************)

\* runSimulation's loop test and the next tick.
NextTick ==
  /\ Goto("loop", "buy")
  /\ running /\ ticks < MaxTicks
  /\ tick' \in Ticks
  /\ ticks' = ticks + 1
  /\ UNCHANGED <<bookVars, managerVars, nextId, calls, traded>>

FeedEnds ==
  /\ Goto("loop", "done")
  /\ ~running
  /\ UNCHANGED <<bookVars, managerVars, tick, nextId, ticks, calls, traded>>

Feed == AddBuy \/ AddSell \/ MatchOrders \/ BuyCheap \/ NextTick \/ FeedEnds

\* A call that finds no order or is refused changes nothing and is left out.
ListenerCalls ==
  /\ pc = "loop" /\ calls < MaxCalls
  /\ calls' = calls + 1
  /\ \E id \in 1 .. nextId - 1 :
       \/ DeleteOrder(id)
       \/ CancelOrder(id)
       \/ \E q \in Quantities : UpdateQuantity(id, q) \/ UpdateOrderFill(id, q)
  /\ UNCHANGED <<threadVars, tick, nextId, ticks, traded>>

Others == <<bookVars, managerVars, tick, nextId, ticks, calls, traded>>

\* start() creates the thread.
Start ==
  /\ main = "start" /\ main' = "sleep"
  /\ running' = TRUE
  /\ pc' = "loop"
  /\ UNCHANGED Others

\* stop() lowers the flag and joins.
Stop ==
  /\ main = "sleep" /\ main' = "join"
  /\ running' = FALSE
  /\ UNCHANGED <<pc, Others>>

Join ==
  /\ main = "join" /\ main' = "return"
  /\ pc = "done"
  /\ UNCHANGED <<running, pc, Others>>

\* After main has returned, the globals are destroyed.
Exit ==
  /\ main = "return" /\ main' = "exited"
  /\ Destroy
  /\ UNCHANGED <<running, pc, tick, nextId, ticks, calls, traded>>

Exited == main = "exited" /\ UNCHANGED vars

Main == Start \/ Stop \/ Join \/ Exit

Next == Feed \/ ListenerCalls \/ Main \/ Exited

\* The operating system runs both threads.
Spec == Init /\ [][Next]_vars /\ WF_vars(Feed) /\ WF_vars(Main)

-----------------------------------------------------------------------------
(***************************************************************************)
(* Properties                                                              *)
(***************************************************************************)

OrderStates == {"New", "Filled", "PartiallyFilled", "Cancelled"}
Ids == 1 .. nextId - 1

TypeOK ==
  /\ free \in Seq(Blocks)
  /\ mem \in [Blocks -> [id : Nat, price : Prices \cup {0}, quantity : Nat, isBuy : BOOLEAN]]
  /\ side \in [BOOLEAN -> Seq([price : Prices, block : Blocks])]
  /\ DOMAIN byId \subseteq Ids /\ \A id \in DOMAIN byId : byId[id] \in Blocks
  /\ DOMAIN orders \subseteq DOMAIN states /\ \A id \in DOMAIN orders : orders[id] \in Blocks
  /\ DOMAIN states \subseteq Ids /\ \A id \in DOMAIN states : states[id] \in OrderStates
  /\ main \in {"start", "sleep", "join", "return", "exited"} /\ running \in BOOLEAN
  /\ pc \in {"none", "loop", "buy", "sell", "match", "quote", "done"}
  /\ tick \in Ticks
  /\ nextId \in Nat \ {0} /\ ticks \in 0 .. MaxTicks /\ calls \in 0 .. MaxCalls
  /\ traded \subseteq Ids

\* A block is on the free list once, or has an owner.
PoolInv ==
  /\ \A i, j \in DOMAIN free : free[i] = free[j] => i = j
  /\ \A i \in DOMAIN free : free[i] \notin Owned
  /\ Blocks = Owned \cup {free[i] : i \in DOMAIN free}

\* Every pointer to an order is under that order's id, and every entry of a
\* side is an order of that side and price that still wants something.
PointersInv ==
  /\ \A id \in DOMAIN byId : mem[byId[id]].id = id
  /\ \A id \in DOMAIN orders : mem[orders[id]].id = id
  /\ \A isBuy \in BOOLEAN : \A i \in DOMAIN side[isBuy] :
       LET e == side[isBuy][i]
       IN  /\ mem[e.block].id \in DOMAIN byId /\ byId[mem[e.block].id] = e.block
           /\ mem[e.block].isBuy = isBuy /\ mem[e.block].price = e.price
           /\ mem[e.block].quantity > 0

\* Each side is in the order of prices, and of arrival within a price.
SortedInv ==
  \A isBuy \in BOOLEAN : \A i, j \in DOMAIN side[isBuy] :
    i < j => \/ Ahead(isBuy, side[isBuy][i].price, side[isBuy][j].price)
             \/ /\ side[isBuy][i].price = side[isBuy][j].price
                /\ mem[side[isBuy][i].block].id < mem[side[isBuy][j].block].id

\* The pool, the maps, the sides and the manager agree, whatever ticks come
\* and calls are made, down to the exit, when every block is back: no order
\* is freed twice, freed while someone points to it, or never freed.
EngineInv == TypeOK /\ PoolInv /\ PointersInv /\ SortedInv

\* matchOrders leaves nothing that could trade, and what the engine or a
\* listener does until the next tick does not change that.
NotCrossed ==
  pc \in {"quote", "loop", "done"} =>
    \A i \in DOMAIN side[TRUE], j \in DOMAIN side[FALSE] :
      side[TRUE][i].price < side[FALSE][j].price

\* Price-time priority: whoever is ahead of an order that has traded came
\* after it, and with a better price.
PriceTimePriority ==
  \A isBuy \in BOOLEAN : \A i, j \in DOMAIN side[isBuy] :
    LET first  == side[isBuy][i]
        second == side[isBuy][j]
    IN  i < j /\ mem[second.block].id \in traded =>
          /\ mem[first.block].id > mem[second.block].id
          /\ Ahead(isBuy, first.price, second.price)

\* stop() gets its thread back and main exits: the matching loop always ends.
StopEnds == main = "join" ~> main = "exited"

\* The book "maintains the current state of resting limit orders" (README of
\* phase_4): between ticks, an order that getOrderById finds is on a side.
OnlyRestingOrders ==
  pc = "loop" /\ main # "exited" =>
    \A id \in DOMAIN byId : byId[id] \in Resting(TRUE) \cup Resting(FALSE)
=============================================================================
