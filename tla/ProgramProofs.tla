--------------------------- MODULE ProgramProofs ---------------------------
(***************************************************************************)
(* Proofs about the programs that stand alone, for all values of their     *)
(* constants:                                                              *)
(*   - MarketStrategy's own orders match the market;                       *)
(*   - OrderBookBuffer's blocks have one owner each;                       *)
(*   - PriceServer sends every client every price in order, and every hit  *)
(*     has the prices that justify it;                                     *)
(*   - LatencyLogger's rows are in the order of the claims, and a stopped  *)
(*     logger leaves nothing behind that was pushed before the interrupt;  *)
(*   - TradeEngine places the orders that the whole feed asks for;         *)
(*   - NumericKernels' loops add up the terms of their results.            *)
(***************************************************************************)
EXTENDS MarketStrategy, OrderBookBuffer, PriceServer, LatencyLogger, TradeEngine, NumericKernels,
        FiniteSums

-----------------------------------------------------------------------------
(***************************************************************************)
(* MarketStrategy                                                          *)
(***************************************************************************)

\* The order that a side's Better is is strict and total.
LEMMA BetterIsOrder ==
  ASSUME NEW s, NEW p \in Int, NEW q \in Int, NEW r \in Int
  PROVE  /\ ~Better(s, p, p)
         /\ Better(s, p, q) /\ ~Better(s, r, q) => r # p /\ ~Better(s, r, p)
BY DEF Better

LEMMA StrategyInitInv == StrategyInit => StrategyInv
<1> SUFFICES ASSUME StrategyInit PROVE StrategyInv
  OBVIOUS
<1>1. DOMAIN NoEntries = {}
  BY DEF NoEntries
<1>2. StrategyTypeOK
  BY <1>1, StrategyAssumption DEF StrategyInit, StrategyTypeOK, Sides, NoEntries
<1>3. IdsAreNew /\ NoneIsBetter /\ OrdersMatchMarket
  BY <1>1 DEF StrategyInit, IdsAreNew, NoneIsBetter, OrdersMatchMarket
<1> QED
  BY <1>2, <1>3 DEF StrategyInv

\* An update of the snapshot changes one level only and keeps the types.
LEMMA LevelsUpdated ==
  ASSUME StrategyTypeOK, NEW u \in Updates,
         levels' = [levels EXCEPT ![u.type] = Updated(@, u.price, u.quantity)]
  PROVE  /\ levels' = [s \in Sides |-> levels'[s]]
         /\ \A s \in Sides : /\ DOMAIN levels'[s] \subseteq Int
                             /\ levels'[s] \in [DOMAIN levels'[s] -> Nat]
         /\ \A s \in Sides : \A p \in DOMAIN levels[s] :
              s # u.type \/ p # u.price =>
                p \in DOMAIN levels'[s] /\ levels'[s][p] = levels[s][p]
         /\ u.quantity > 0 => /\ u.price \in DOMAIN levels'[u.type]
                              /\ levels'[u.type][u.price] = u.quantity
<1> DEFINE old == levels[u.type]
           new == Updated(old, u.price, u.quantity)
<1>1. u.type \in Sides /\ u.price \in Int /\ u.quantity \in Nat
  BY StrategyAssumption DEF Updates
<1>2. /\ DOMAIN levels = Sides /\ DOMAIN levels' = Sides
      /\ levels'[u.type] = new
      /\ \A s \in Sides \ {u.type} : levels'[s] = levels[s]
      /\ levels' = [s \in Sides |-> levels'[s]]
  <2>1. levels = [s \in Sides |-> levels[s]]
    BY DEF StrategyTypeOK
  <2> QED
    BY <2>1, <1>1
<1>3. DOMAIN old \subseteq Int /\ old \in [DOMAIN old -> Nat]
  BY <1>1 DEF StrategyTypeOK
<1>4. /\ DOMAIN new \subseteq Int /\ new \in [DOMAIN new -> Nat]
      /\ \A p \in DOMAIN old : p # u.price => p \in DOMAIN new /\ new[p] = old[p]
      /\ u.quantity > 0 => u.price \in DOMAIN new /\ new[u.price] = u.quantity
  <2> HIDE DEF old
  <2>1. CASE u.quantity = 0 /\ u.price \in DOMAIN old
    <3>1. new = [x \in DOMAIN old \ {u.price} |-> old[x]]
      BY <2>1 DEF Updated, Without
    <3> QED
      BY <1>3, <2>1, <3>1
  <2>2. CASE ~(u.quantity = 0 /\ u.price \in DOMAIN old)
    <3>1. new = [x \in DOMAIN old \cup {u.price} |-> IF x = u.price THEN u.quantity ELSE old[x]]
      BY <2>2 DEF Updated, With
    <3> QED
      BY <1>1, <1>3, <3>1
  <2> QED
    BY <2>1, <2>2
<1> QED
  <2> HIDE DEF old, new
  <2>1. \A s \in Sides : /\ DOMAIN levels'[s] \subseteq Int
                         /\ levels'[s] \in [DOMAIN levels'[s] -> Nat]
    BY <1>2, <1>4 DEF StrategyTypeOK
  <2>2. old = levels[u.type]
    BY DEF old
  <2> QED
    BY <1>1, <1>2, <1>4, <2>1, <2>2

\* With, for the orders: a new order under a new id beside some of the old.
LEMMA OrdersPlaced ==
  ASSUME StrategyTypeOK, IdsAreNew,
         NEW ids, NEW o \in Order, NEW kept, kept = Remaining(ids), Place(kept, o)
  PROVE  /\ nextId' \in Nat \ {0}
         /\ DOMAIN orders' = (DOMAIN orders \ ids) \cup {nextId}
         /\ nextId \notin DOMAIN orders
         /\ orders'[nextId] = o
         /\ \A id \in DOMAIN orders \ ids : orders'[id] = orders[id]
         /\ orders' \in [DOMAIN orders' -> Order]
         /\ IdsAreNew'
<1>1. /\ nextId \in Nat \ {0}
      /\ DOMAIN orders \subseteq 1 .. nextId - 1
      /\ orders \in [DOMAIN orders -> Order]
  BY DEF StrategyTypeOK, IdsAreNew
<1>2. nextId \notin DOMAIN orders
  BY <1>1
<1>3. orders' = [x \in (DOMAIN orders \ ids) \cup {nextId} |->
                   IF x = nextId THEN o ELSE [id \in DOMAIN orders \ ids |-> orders[id]][x]]
  BY DEF Place, With, Remaining
<1>4. /\ DOMAIN orders' = (DOMAIN orders \ ids) \cup {nextId}
      /\ orders'[nextId] = o
      /\ \A id \in DOMAIN orders \ ids : orders'[id] = orders[id]
  BY <1>2, <1>3
<1>5. orders' = [x \in DOMAIN orders' |-> orders'[x]]
  BY <1>3
<1>6. \A x \in DOMAIN orders' : orders'[x] \in Order
  BY <1>1, <1>4
<1>7. nextId' = nextId + 1
  BY DEF Place
<1> QED
  BY <1>1, <1>2, <1>4, <1>5, <1>6, <1>7 DEF IdsAreNew

\* Own orders at the updated level make way for at most one new one there.
LEMMA ReplaceInv ==
  ASSUME StrategyInv, NEW u \in Updates, Update(u), Replace(u)
  PROVE  StrategyInv'
<1> DEFINE ids == Conflicts(u.type, u.price)
<1> USE DEF StrategyInv
<1>1. u.type \in Sides /\ u.price \in Int /\ u.quantity \in Nat
  BY StrategyAssumption DEF Updates
<1>2. /\ levels' = [s \in Sides |-> levels'[s]]
      /\ \A s \in Sides : /\ DOMAIN levels'[s] \subseteq Int
                          /\ levels'[s] \in [DOMAIN levels'[s] -> Nat]
      /\ \A s \in Sides : \A p \in DOMAIN levels[s] :
           s # u.type \/ p # u.price =>
             p \in DOMAIN levels'[s] /\ levels'[s][p] = levels[s][p]
      /\ u.quantity > 0 => /\ u.price \in DOMAIN levels'[u.type]
                           /\ levels'[u.type][u.price] = u.quantity
  BY LevelsUpdated DEF Update
<1>3. \A id \in DOMAIN orders \ ids :
        orders[id].side # u.type \/ orders[id].price # u.price
  BY DEF Conflicts
<1>4. /\ orders \in [DOMAIN orders -> Order]
      /\ \A id \in DOMAIN orders : orders[id].side \in Sides /\ orders[id].price \in Int
  BY DEF StrategyTypeOK, Order
<1>5. best' = best
  BY DEF Replace
<1>6. \A id \in DOMAIN orders \ ids :
        /\ orders[id].price \in DOMAIN levels'[orders[id].side]
        /\ orders[id].quantity = levels'[orders[id].side][orders[id].price]
  BY <1>2, <1>3, <1>4 DEF OrdersMatchMarket
<1>7. PICK c \in DOMAIN orders : orders[c].side = u.type /\ orders[c].price = u.price
  BY DEF Replace, Conflicts
<1>8. CASE u.quantity > 0
  <2> DEFINE o == NewOrder(u.type, u.price, u.quantity)
             kept == Remaining(ids)
  <2>1. /\ o \in Order /\ o.side = u.type /\ o.price = u.price
        /\ o.quantity = u.quantity /\ o.filled = 0
    BY <1>1 DEF NewOrder, Order
  <2>2. Place(kept, o)
    BY <1>8 DEF Replace
  <2> HIDE DEF o, kept
  <2>3. /\ nextId' \in Nat \ {0}
        /\ DOMAIN orders' = (DOMAIN orders \ ids) \cup {nextId}
        /\ nextId \notin DOMAIN orders
        /\ orders'[nextId] = o
        /\ \A id \in DOMAIN orders \ ids : orders'[id] = orders[id]
        /\ orders' \in [DOMAIN orders' -> Order]
        /\ IdsAreNew'
    <3>1. kept = Remaining(ids)
      BY DEF kept
    <3> QED
      BY <2>1, <2>2, <3>1, OrdersPlaced
  <2> HIDE DEF ids
  <2>4. StrategyTypeOK'
    BY <1>2, <1>5, <2>3 DEF StrategyTypeOK
  <2>5. NoneIsBetter'
    BY <1>5, <1>7, <2>1, <2>3 DEF NoneIsBetter, Better
  <2>6. OrdersMatchMarket'
    <3>1. \A id \in DOMAIN orders' :
            LET r == orders'[id]
            IN  /\ r.price \in DOMAIN levels'[r.side]
                /\ r.quantity = levels'[r.side][r.price]
                /\ r.filled = 0 \/ r.filled < r.quantity
      BY <1>2, <1>6, <1>8, <2>1, <2>3 DEF OrdersMatchMarket
    <3>2. \A i, j \in DOMAIN orders' :
            orders'[i].side = orders'[j].side /\ orders'[i].price = orders'[j].price => i = j
      BY <1>3, <2>1, <2>3 DEF OrdersMatchMarket
    <3> QED
      BY <3>1, <3>2 DEF OrdersMatchMarket
  <2> QED
    BY <2>3, <2>4, <2>5, <2>6
<1>9. CASE ~(u.quantity > 0)
  <2>1. /\ orders' = [id \in DOMAIN orders \ ids |-> orders[id]]
        /\ nextId' = nextId
    BY <1>9 DEF Replace, Remaining
  <2> HIDE DEF ids
  <2>2. /\ DOMAIN orders' = DOMAIN orders \ ids
        /\ \A id \in DOMAIN orders' : orders'[id] = orders[id]
    BY <2>1
  <2>3. StrategyTypeOK'
    BY <1>2, <1>4, <1>5, <2>1 DEF StrategyTypeOK
  <2>4. IdsAreNew' /\ NoneIsBetter'
    BY <1>5, <2>1, <2>2 DEF IdsAreNew, NoneIsBetter, Better
  <2>5. OrdersMatchMarket'
    BY <1>6, <2>2 DEF OrdersMatchMarket
  <2> QED
    BY <2>3, <2>4, <2>5
<1> QED
  BY <1>8, <1>9

\* Without own orders at the updated level a new best price gets the first.
LEMMA FollowInv ==
  ASSUME StrategyInv, NEW u \in Updates, Update(u), Follow(u)
  PROVE  StrategyInv'
<1> USE DEF StrategyInv
<1>1. u.type \in Sides
  BY DEF Updates
<1>2. /\ levels' = [s \in Sides |-> levels'[s]]
      /\ \A s \in Sides : /\ DOMAIN levels'[s] \subseteq Int
                          /\ levels'[s] \in [DOMAIN levels'[s] -> Nat]
      /\ \A s \in Sides : \A p \in DOMAIN levels[s] :
           s # u.type \/ p # u.price =>
             p \in DOMAIN levels'[s] /\ levels'[s][p] = levels[s][p]
  BY LevelsUpdated DEF Update
<1>3. /\ orders \in [DOMAIN orders -> Order]
      /\ \A id \in DOMAIN orders : orders[id].side \in Sides /\ orders[id].price \in Int
      /\ best \in [Sides -> Int]
  BY DEF StrategyTypeOK, Order
<1>4. \A id \in DOMAIN orders :
        /\ orders[id].price \in DOMAIN levels'[orders[id].side]
        /\ orders[id].quantity = levels'[orders[id].side][orders[id].price]
  <2>1. \A id \in DOMAIN orders : orders[id].side # u.type \/ orders[id].price # u.price
    BY DEF Follow, Conflicts
  <2> QED
    BY <1>2, <1>3, <2>1 DEF OrdersMatchMarket
<1>5. CASE UNCHANGED <<orders, nextId, best>>
  <2>1. StrategyTypeOK'
    BY <1>2, <1>3, <1>5 DEF StrategyTypeOK
  <2>2. IdsAreNew' /\ NoneIsBetter' /\ OrdersMatchMarket'
    BY <1>4, <1>5 DEF IdsAreNew, NoneIsBetter, OrdersMatchMarket, Better
  <2> QED
    BY <2>1, <2>2
<1>6. CASE \E p \in DOMAIN levels'[u.type] :
             /\ Better(u.type, p, best[u.type])
             /\ Place(orders, NewOrder(u.type, p, levels'[u.type][p]))
             /\ best' = [best EXCEPT ![u.type] = p]
  <2>1. PICK p \in DOMAIN levels'[u.type] :
          /\ Better(u.type, p, best[u.type])
          /\ Place(orders, NewOrder(u.type, p, levels'[u.type][p]))
          /\ best' = [best EXCEPT ![u.type] = p]
    BY <1>6
  <2> DEFINE o == NewOrder(u.type, p, levels'[u.type][p])
  <2>2. p \in Int /\ levels'[u.type][p] \in Nat
    BY <1>1, <1>2
  <2>3. /\ o \in Order /\ o.side = u.type /\ o.price = p
        /\ o.quantity = levels'[u.type][p] /\ o.filled = 0
    BY <1>1, <2>2 DEF NewOrder, Order
  <2>4. Place(orders, o)
    BY <2>1
  <2> HIDE DEF o
  <2>5. orders = Remaining({})
    BY <1>3 DEF Remaining
  <2>6. /\ nextId' \in Nat \ {0}
        /\ DOMAIN orders' = DOMAIN orders \cup {nextId}
        /\ nextId \notin DOMAIN orders
        /\ orders'[nextId] = o
        /\ \A id \in DOMAIN orders : orders'[id] = orders[id]
        /\ orders' \in [DOMAIN orders' -> Order]
        /\ IdsAreNew'
    <3>1. /\ nextId' \in Nat \ {0}
          /\ DOMAIN orders' = (DOMAIN orders \ {}) \cup {nextId}
          /\ nextId \notin DOMAIN orders
          /\ orders'[nextId] = o
          /\ \A id \in DOMAIN orders \ {} : orders'[id] = orders[id]
          /\ orders' \in [DOMAIN orders' -> Order]
          /\ IdsAreNew'
      BY ONLY StrategyTypeOK, IdsAreNew, <2>3, <2>4, <2>5, OrdersPlaced
    <3> QED
      BY <3>1
  <2>7. /\ best' \in [Sides -> Int] /\ best'[u.type] = p
        /\ \A s \in Sides \ {u.type} : best'[s] = best[s]
    BY <1>1, <1>3, <2>1, <2>2
  <2>8. StrategyTypeOK'
    BY <1>2, <2>6, <2>7 DEF StrategyTypeOK
  <2>9. \A id \in DOMAIN orders :
          /\ ~Better(orders[id].side, orders[id].price, best'[orders[id].side])
          /\ orders[id].side = u.type => orders[id].price # p
    <3> TAKE id \in DOMAIN orders
    <3>1. /\ orders[id].price \in Int /\ best[u.type] \in Int /\ orders[id].side \in Sides
          /\ ~Better(orders[id].side, orders[id].price, best[orders[id].side])
      BY <1>1, <1>3 DEF NoneIsBetter
    <3>2. CASE orders[id].side = u.type
      BY <2>1, <2>2, <2>7, <3>1, <3>2, BetterIsOrder
    <3>3. CASE orders[id].side # u.type
      BY <2>7, <3>1, <3>3
    <3> QED
      BY <3>2, <3>3
  <2>10. NoneIsBetter'
    <3>1. ~Better(u.type, p, p)
      BY <2>2 DEF Better
    <3>2. \A id \in DOMAIN orders' :
            ~Better(orders'[id].side, orders'[id].price, best'[orders'[id].side])
      BY <2>3, <2>6, <2>7, <2>9, <3>1
    <3> QED
      BY <3>2 DEF NoneIsBetter, Better
  <2>11. OrdersMatchMarket'
    <3>1. \A id \in DOMAIN orders' :
            LET r == orders'[id]
            IN  /\ r.price \in DOMAIN levels'[r.side]
                /\ r.quantity = levels'[r.side][r.price]
                /\ r.filled = 0 \/ r.filled < r.quantity
      BY <1>4, <2>1, <2>3, <2>6 DEF OrdersMatchMarket
    <3>2. \A i, j \in DOMAIN orders' :
            orders'[i].side = orders'[j].side /\ orders'[i].price = orders'[j].price => i = j
      BY <2>3, <2>6, <2>9 DEF OrdersMatchMarket
    <3> QED
      BY <3>1, <3>2 DEF OrdersMatchMarket
  <2> QED
    BY <2>6, <2>8, <2>10, <2>11
<1> QED
  BY <1>5, <1>6 DEF Follow

\* What is filled stays below the quantity, or the order leaves the map.
LEMMA ExecuteInv ==
  ASSUME StrategyInv, NEW e \in Executions, Execute(e)
  PROVE  StrategyInv'
<1> USE DEF StrategyInv
<1> DEFINE x == e.order_id
           filled == orders[x].filled + e.quantity
<1>1. /\ levels' = levels /\ best' = best /\ nextId' = nextId
      /\ orders \in [DOMAIN orders -> Order]
      /\ e.quantity \in Nat
  BY StrategyAssumption DEF Execute, StrategyTypeOK, Executions
<1>2. CASE orders' = orders
  BY <1>1, <1>2 DEF StrategyTypeOK, IdsAreNew, NoneIsBetter, OrdersMatchMarket, Better
<1>3. CASE orders' = Without(orders, x)
  <2>1. /\ DOMAIN orders' = DOMAIN orders \ {x}
        /\ \A id \in DOMAIN orders' : orders'[id] = orders[id]
        /\ orders' \in [DOMAIN orders' -> Order]
    BY <1>1, <1>3 DEF Without
  <2> QED
    BY <1>1, <2>1 DEF StrategyTypeOK, IdsAreNew, NoneIsBetter, OrdersMatchMarket, Better
<1>4. CASE /\ x \in DOMAIN orders /\ ~(filled >= orders[x].quantity)
           /\ orders' = [orders EXCEPT ![x].filled = filled]
  <2>1. orders[x].quantity \in Nat /\ orders[x].filled \in Nat /\ filled \in Nat
    BY <1>1, <1>4 DEF Order
  <2>2. orders' = [orders EXCEPT ![x] = [orders[x] EXCEPT !.filled = filled]]
    BY <1>4
  <2> HIDE DEF filled
  <2>3. /\ DOMAIN orders' = DOMAIN orders
        /\ \A id \in DOMAIN orders \ {x} : orders'[id] = orders[id]
        /\ orders'[x] = [orders[x] EXCEPT !.filled = filled]
    BY <1>1, <1>4, <2>2
  <2>4. /\ orders'[x].side = orders[x].side /\ orders'[x].price = orders[x].price
        /\ orders'[x].quantity = orders[x].quantity /\ orders'[x].filled = filled
        /\ orders'[x] \in Order
    BY <1>1, <1>4, <2>1, <2>3 DEF Order
  <2>5. orders' \in [DOMAIN orders' -> Order]
    BY <1>1, <2>2, <2>3, <2>4
  <2>6. \A id \in DOMAIN orders :
          /\ orders'[id].side = orders[id].side /\ orders'[id].price = orders[id].price
          /\ orders'[id].quantity = orders[id].quantity
          /\ orders'[id].filled = 0 \/ orders'[id].filled < orders'[id].quantity
    BY <1>4, <2>1, <2>3, <2>4 DEF OrdersMatchMarket
  <2>7. StrategyTypeOK' /\ IdsAreNew'
    BY <1>1, <2>3, <2>5 DEF StrategyTypeOK, IdsAreNew
  <2>8. NoneIsBetter'
    BY <1>1, <2>3, <2>6 DEF NoneIsBetter, Better
  <2>9. OrdersMatchMarket'
    BY <1>1, <2>3, <2>6 DEF OrdersMatchMarket
  <2> QED
    BY <2>7, <2>8, <2>9
<1> QED
  BY <1>2, <1>3, <1>4 DEF Execute

LEMMA FeedEndsInv == StrategyInv /\ FeedEnds => StrategyInv'
<1> SUFFICES ASSUME StrategyInv, FeedEnds PROVE StrategyInv'
  OBVIOUS
<1>1. DOMAIN NoEntries = {}
  BY DEF NoEntries
<1>2. StrategyTypeOK'
  BY <1>1 DEF StrategyInv, FeedEnds, StrategyTypeOK, Sides, NoEntries
<1>3. IdsAreNew' /\ NoneIsBetter' /\ OrdersMatchMarket'
  BY <1>1 DEF FeedEnds, IdsAreNew, NoneIsBetter, OrdersMatchMarket
<1> QED
  BY <1>2, <1>3 DEF StrategyInv

LEMMA StrategyStep == StrategyInv /\ [StrategyNext]_svars => StrategyInv'
<1> SUFFICES ASSUME StrategyInv, [StrategyNext]_svars PROVE StrategyInv'
  OBVIOUS
<1>1. ASSUME NEW u \in Updates, Update(u) PROVE StrategyInv'
  BY <1>1, ReplaceInv, FollowInv DEF Update
<1>2. ASSUME NEW e \in Executions, Execute(e) PROVE StrategyInv'
  BY <1>2, ExecuteInv
<1>3. CASE UNCHANGED svars
  BY <1>3 DEF svars, StrategyInv, StrategyTypeOK, IdsAreNew, NoneIsBetter, OrdersMatchMarket,
              Better
<1> QED
  BY <1>1, <1>2, <1>3, FeedEndsInv DEF StrategyNext

\* The strategy's own orders match the market: each is for the whole of a
\* level that is there, no level has two, and none is filled and kept.
THEOREM StrategyCorrect == StrategySpec => []OrdersMatchMarket
<1>1. StrategyInv => OrdersMatchMarket
  BY DEF StrategyInv
<1> QED
  BY <1>1, StrategyInitInv, StrategyStep, PTL DEF StrategySpec

-----------------------------------------------------------------------------
(***************************************************************************)
(* OrderBookBuffer                                                         *)
(***************************************************************************)

BufferInv == BufferTypeOK /\ BlocksHaveOneOwner

LEMMA BufferInitInv == BufferInit => BufferInv
BY BufferAssumption DEF BufferInit, BufferInv, BufferTypeOK, BlocksHaveOneOwner

LEMMA ConstructInv ==
  ASSUME BufferInv, NEW b \in Buffers, NEW n \in Capacities, construct(b, n)
  PROVE  BufferInv'
<1> USE BufferAssumption DEF BufferInv
<1>1. n \in Nat /\ b \notin live /\ built' = built
  BY DEF construct
<1>2. /\ live' = live \cup {b}
      /\ size_' = [size_ EXCEPT ![b] = 0]
      /\ capacity_' = [capacity_ EXCEPT ![b] = n]
  BY DEF construct
<1>3. CASE n = 0
  <2>1. buffer_' = [buffer_ EXCEPT ![b] = Null] /\ allocated' = allocated
    BY <1>3 DEF construct
  <2>2. BufferTypeOK'
    BY <1>1, <1>2, <2>1 DEF BufferTypeOK
  <2>3. BlocksHaveOneOwner'
    BY <1>1, <1>2, <1>3, <2>1 DEF BufferTypeOK, BlocksHaveOneOwner
  <2> QED
    BY <2>2, <2>3
<1>4. CASE n # 0
  <2>1. PICK m \in Blocks \ allocated :
          buffer_' = [buffer_ EXCEPT ![b] = m] /\ allocated' = allocated \cup {m}
    BY <1>4 DEF construct
  <2>2. BufferTypeOK'
    BY <1>1, <1>2, <2>1 DEF BufferTypeOK
  <2>3. BlocksHaveOneOwner'
    BY <1>1, <1>2, <1>4, <2>1 DEF BufferTypeOK, BlocksHaveOneOwner
  <2> QED
    BY <2>2, <2>3
<1> QED
  BY <1>3, <1>4

\* What Release leaves: the block of b holds nothing and is free.
LEMMA Released ==
  ASSUME BufferInv, NEW b \in live, Release(b)
  PROVE  /\ allocated' = allocated \ {buffer_[b]}
         /\ built' \in [Blocks -> Nat]
         /\ \A m \in Blocks : built'[m] = IF m = buffer_[b] THEN 0 ELSE built[m]
<1> USE BufferAssumption DEF BufferInv, BufferTypeOK
<1>1. CASE buffer_[b] = Null
  BY <1>1 DEF Release
<1>2. CASE buffer_[b] # Null
  <2>1. buffer_[b] \in Blocks /\ built[buffer_[b]] = size_[b] /\ size_[b] \in Nat
    BY <1>2 DEF BlocksHaveOneOwner
  <2>2. /\ built' = [built EXCEPT ![buffer_[b]] = built[buffer_[b]] - size_[b]]
        /\ allocated' = allocated \ {buffer_[b]}
    BY <1>2 DEF Release
  <2> QED
    BY <2>1, <2>2
<1> QED
  BY <1>1, <1>2

LEMMA DestroyInv ==
  ASSUME BufferInv, NEW b \in Buffers, destroy(b)
  PROVE  BufferInv'
<1>1. /\ b \in live /\ live' = live \ {b}
      /\ buffer_' = buffer_ /\ size_' = size_ /\ capacity_' = capacity_
  BY DEF destroy
<1>2. /\ allocated' = allocated \ {buffer_[b]}
      /\ built' \in [Blocks -> Nat]
      /\ \A m \in Blocks : built'[m] = IF m = buffer_[b] THEN 0 ELSE built[m]
  BY <1>1, Released DEF destroy
<1>3. BufferTypeOK'
  BY <1>1, <1>2 DEF BufferInv, BufferTypeOK
<1>4. BlocksHaveOneOwner'
  BY <1>1, <1>2, BufferAssumption DEF BufferInv, BufferTypeOK, BlocksHaveOneOwner
<1> QED
  BY <1>3, <1>4 DEF BufferInv

\* The members of o after TakeOver are those of b, and o owns nothing.
LEMMA TakenOver ==
  ASSUME BufferTypeOK, NEW b \in Buffers, NEW o \in Buffers, b # o, TakeOver(b, o)
  PROVE  /\ buffer_' \in [Buffers -> Blocks \cup {Null}]
         /\ size_' \in [Buffers -> Nat] /\ capacity_' \in [Buffers -> Nat]
         /\ buffer_'[b] = buffer_[o] /\ size_'[b] = size_[o] /\ capacity_'[b] = capacity_[o]
         /\ buffer_'[o] = Null /\ size_'[o] = 0 /\ capacity_'[o] = 0
         /\ \A c \in Buffers \ {b, o} : /\ buffer_'[c] = buffer_[c]
                                        /\ size_'[c] = size_[c] /\ capacity_'[c] = capacity_[c]
BY DEF BufferTypeOK, TakeOver

LEMMA MoveConstructInv ==
  ASSUME BufferInv, NEW b \in Buffers, NEW o \in Buffers, moveConstruct(b, o)
  PROVE  BufferInv'
<1>1. /\ b \notin live /\ o \in live /\ b # o /\ live' = live \cup {b}
      /\ allocated' = allocated /\ built' = built
  BY DEF moveConstruct
<1>2. /\ buffer_' \in [Buffers -> Blocks \cup {Null}]
      /\ size_' \in [Buffers -> Nat] /\ capacity_' \in [Buffers -> Nat]
      /\ buffer_'[b] = buffer_[o] /\ size_'[b] = size_[o] /\ capacity_'[b] = capacity_[o]
      /\ buffer_'[o] = Null /\ size_'[o] = 0 /\ capacity_'[o] = 0
      /\ \A c \in Buffers \ {b, o} : /\ buffer_'[c] = buffer_[c]
                                     /\ size_'[c] = size_[c] /\ capacity_'[c] = capacity_[c]
  BY <1>1, TakenOver DEF moveConstruct, BufferInv
<1>3. BufferTypeOK'
  BY <1>1, <1>2 DEF BufferInv, BufferTypeOK
<1>4. BlocksHaveOneOwner'
  BY <1>1, <1>2, BufferAssumption DEF BufferInv, BufferTypeOK, BlocksHaveOneOwner
<1> QED
  BY <1>3, <1>4 DEF BufferInv

LEMMA MoveAssignInv ==
  ASSUME BufferInv, NEW b \in Buffers, NEW o \in Buffers, moveAssign(b, o)
  PROVE  BufferInv'
<1>1. b \in live /\ o \in live /\ live' = live
  BY DEF moveAssign
<1>2. CASE b = o
  BY <1>1, <1>2 DEF moveAssign, BufferInv, BufferTypeOK, BlocksHaveOneOwner
<1>3. CASE b # o
  <2>1. Release(b) /\ TakeOver(b, o)
    BY <1>3 DEF moveAssign
  <2>2. /\ allocated' = allocated \ {buffer_[b]}
        /\ built' \in [Blocks -> Nat]
        /\ \A m \in Blocks : built'[m] = IF m = buffer_[b] THEN 0 ELSE built[m]
    BY <1>1, <2>1, Released
  <2>3. /\ buffer_' \in [Buffers -> Blocks \cup {Null}]
        /\ size_' \in [Buffers -> Nat] /\ capacity_' \in [Buffers -> Nat]
        /\ buffer_'[b] = buffer_[o] /\ size_'[b] = size_[o] /\ capacity_'[b] = capacity_[o]
        /\ buffer_'[o] = Null /\ size_'[o] = 0 /\ capacity_'[o] = 0
        /\ \A c \in Buffers \ {b, o} : /\ buffer_'[c] = buffer_[c]
                                       /\ size_'[c] = size_[c] /\ capacity_'[c] = capacity_[c]
    BY <1>3, <2>1, TakenOver DEF BufferInv
  <2>4. BufferTypeOK'
    BY <1>1, <2>2, <2>3 DEF BufferInv, BufferTypeOK
  <2>5. BlocksHaveOneOwner'
    BY <1>1, <1>3, <2>2, <2>3, BufferAssumption DEF BufferInv, BufferTypeOK, BlocksHaveOneOwner
  <2> QED
    BY <2>4, <2>5 DEF BufferInv
<1> QED
  BY <1>2, <1>3

LEMMA AddOrderInv ==
  ASSUME BufferInv, NEW b \in Buffers, add_order(b)
  PROVE  BufferInv'
<1> USE DEF BufferInv
<1>1. /\ b \in live /\ live' = live /\ buffer_' = buffer_ /\ capacity_' = capacity_
      /\ allocated' = allocated /\ size_[b] < capacity_[b]
      /\ size_' = [size_ EXCEPT ![b] = size_[b] + 1]
      /\ built' = [built EXCEPT ![buffer_[b]] = built[buffer_[b]] + 1]
  BY DEF add_order
<1>2. buffer_[b] \in allocated /\ buffer_[b] # Null
  BY <1>1, BufferAssumption DEF BufferTypeOK, BlocksHaveOneOwner
<1>3. BufferTypeOK'
  BY <1>1, <1>2 DEF BufferTypeOK
<1>4. BlocksHaveOneOwner'
  BY <1>1, <1>2, BufferAssumption DEF BufferTypeOK, BlocksHaveOneOwner
<1> QED
  BY <1>3, <1>4

LEMMA BufferStep == BufferInv /\ [BufferNext]_bvars => BufferInv'
<1> SUFFICES ASSUME BufferInv, [BufferNext]_bvars PROVE BufferInv'
  OBVIOUS
<1>1. CASE UNCHANGED bvars
  BY <1>1 DEF bvars, BufferInv, BufferTypeOK, BlocksHaveOneOwner
<1>2. CASE BufferNext
  BY <1>2, ConstructInv, MoveConstructInv, MoveAssignInv, AddOrderInv, DestroyInv DEF BufferNext
<1> QED
  BY <1>1, <1>2

\* OrderBookBuffer's memory: nothing is leaked, freed or destroyed twice, or
\* used after it was freed, whatever objects are moved onto whichever others.
THEOREM BufferCorrect == BufferSpec => []BlocksHaveOneOwner
<1>1. BufferInv => BlocksHaveOneOwner
  BY DEF BufferInv
<1> QED
  BY <1>1, BufferInitInv, BufferStep, PTL DEF BufferSpec
-----------------------------------------------------------------------------
(***************************************************************************)
(* PriceServer: what the server's list of clients and its sockets have to  *)
(* do with who is sent what                                                *)
(***************************************************************************)

ServerTypes ==
  /\ prices \in Seq(Values) /\ Len(prices) <= MaxPrices /\ announced \in 0 .. Len(prices)
  /\ clients \in Seq(Sockets) /\ Len(clients) <= MaxClients
  /\ nextClient \in 0 .. Len(clients) + 1 /\ (nextClient # 0 => announced > 0)
  /\ accepted \in 0 .. MaxClients
  /\ holder \in [Sockets -> 0 .. MaxClients]
  /\ up \subseteq Conns
  /\ handler \in [Conns -> {"none", "name", "orders", "judge", "guess", "done"}]
  /\ joined \in [Conns -> 0 .. MaxPrices]
  /\ delivered \in [Conns -> [Ids -> Nat]]

\* Whoever has socket s got it as its own.
Placed(s) == \/ holder[s] = 0
             \/ holder[s] \in DOMAIN clients /\ clients[holder[s]] = s
             \/ holder[s] = Len(clients) + 1 /\ s = accepted

\* A connection whose thread runs has its socket, alone: a later client that
\* has its number came when the thread had closed it.
SocketsInv ==
  /\ \A c \in Conns : handler[c] = "none" <=> c \notin DOMAIN clients
  /\ \A c \in DOMAIN clients : handler[c] # "done" => holder[clients[c]] = c
  /\ \A c \in DOMAIN clients : c \in up => handler[c] # "done"
  /\ \A c, d \in DOMAIN clients : c < d /\ handler[c] # "done" => clients[d] # clients[c]
  /\ \A s \in Sockets : Placed(s)
  /\ accepted # 0 => Len(clients) < MaxClients /\ holder[accepted] = Len(clients) + 1

\* The entries before entry k that have the socket of client c.
Sent(c, k) == {d \in 1 .. k - 1 : clients[d] = clients[c]}

\* EveryClientEveryPrice in the middle of a broadcast: the price that is being
\* sent has been sent to the entries before nextClient.
DeliveredInv ==
  /\ \A c \in Conns, i \in Ids : i > announced => delivered[c][i] = 0
  /\ \A c \in up \cap DOMAIN clients : \A i \in joined[c] + 1 .. announced :
       delivered[c][i] = IF nextClient # 0 /\ i = announced
                         THEN Cardinality(Sent(c, nextClient)) ELSE Registrations(c)

ServerInv == ServerTypes /\ SocketsInv /\ DeliveredInv

LEMMA ServerInit == PricesInit => ServerInv
<1> SUFFICES ASSUME PricesInit PROVE ServerInv
  OBVIOUS
<1> USE DEF PricesInit
<1>1. /\ prices = <<>> /\ clients = <<>> /\ prices \in Seq(Values) /\ clients \in Seq(Sockets)
      /\ Len(prices) = 0 /\ Len(clients) = 0 /\ DOMAIN clients = {}
      /\ MaxPrices \in Nat /\ MaxClients \in Nat
  BY PriceServerAssumption
<1>2. /\ holder \in [Sockets -> 0 .. MaxClients] /\ joined \in [Conns -> 0 .. MaxPrices]
      /\ delivered \in [Conns -> [Ids -> Nat]]
      /\ handler \in [Conns -> {"none", "name", "orders", "judge", "guess", "done"}]
  BY <1>1
<1>3. ServerTypes
  BY <1>1, <1>2 DEF ServerTypes
<1>4. SocketsInv /\ DeliveredInv
  BY <1>1 DEF SocketsInv, DeliveredInv, Placed
<1> QED BY <1>3, <1>4 DEF ServerInv

\* One send counts for the client, if there is one, that has the socket.
LEMMA SendFacts ==
  ASSUME ServerTypes, SendPrice
  PROVE  LET s == holder[clients[nextClient]]
         IN  /\ nextClient \in DOMAIN clients /\ announced \in Ids /\ s \in 0 .. MaxClients
             /\ delivered' \in [Conns -> [Ids -> Nat]]
             /\ \A c \in Conns, i \in Ids :
                  delivered'[c][i] = IF c = s /\ c \in up /\ i = announced
                                     THEN delivered[c][i] + 1 ELSE delivered[c][i]
<1> DEFINE s == holder[clients[nextClient]]
<1>1. nextClient \in DOMAIN clients /\ announced \in Ids /\ s \in 0 .. MaxClients
  <2>1. nextClient \in DOMAIN clients
    BY DEF SendPrice
  <2>2. announced \in Ids
    BY <2>1, PriceServerAssumption DEF ServerTypes, Ids
  <2>3. clients[nextClient] \in Sockets
    BY <2>1 DEF ServerTypes
  <2> QED BY <2>1, <2>2, <2>3 DEF ServerTypes
<1>2. \/ s \in up /\ delivered' = [delivered EXCEPT ![s][announced] = @ + 1]
      \/ s \notin up /\ delivered' = delivered
  BY DEF SendPrice
<1> HIDE DEF s
<1>3. delivered \in [Conns -> [Ids -> Nat]] /\ up \subseteq Conns
  BY DEF ServerTypes
<1>4. CASE s \in up
  <2>1. s \in Conns /\ delivered' = [delivered EXCEPT ![s] = [delivered[s] EXCEPT ![announced] = @ + 1]]
    BY <1>2, <1>3, <1>4
  <2> DEFINE f == [delivered[s] EXCEPT ![announced] = @ + 1]
  <2>2. /\ f \in [Ids -> Nat]
        /\ \A i \in Ids : f[i] = IF i = announced THEN delivered[s][i] + 1 ELSE delivered[s][i]
    BY <2>1, <1>1, <1>3
  <2> HIDE DEF f
  <2>3. delivered' = [delivered EXCEPT ![s] = f]
    BY <2>1 DEF f
  <2>4. delivered'[s] = f /\ \A c \in Conns : c # s => delivered'[c] = delivered[c]
    BY <2>1, <2>3, <1>3
  <2>5. delivered' \in [Conns -> [Ids -> Nat]]
    BY <2>2, <2>3, <1>3
  <2>6. \A c \in Conns, i \in Ids :
          delivered'[c][i] = IF c = s /\ c \in up /\ i = announced
                             THEN delivered[c][i] + 1 ELSE delivered[c][i]
    BY <2>2, <2>4, <1>4
  <2> QED BY <2>5, <2>6, <1>1 DEF s
<1>5. CASE s \notin up
  <2>1. \A c \in Conns, i \in Ids :
          delivered'[c][i] = IF c = s /\ c \in up /\ i = announced
                             THEN delivered[c][i] + 1 ELSE delivered[c][i]
    BY <1>2, <1>5
  <2> QED BY <2>1, <1>1, <1>2, <1>3, <1>5 DEF s
<1> QED BY <1>4, <1>5

\* The variables that ServerInv is about, without one or more of them.
Books == <<clients, accepted, joined, holder, up, handler>>

LEMMA SameSockets ==
  ASSUME SocketsInv, UNCHANGED Books
  PROVE  SocketsInv'
BY DEF SocketsInv, Books, Placed

LEMMA StampKeepsServer ==
  ASSUME ServerInv, NEW v \in Values, StampPrice(v)
  PROVE  ServerInv'
<1> USE DEF ServerInv
<1>1. /\ prices' = Append(prices, v) /\ Len(prices) < MaxPrices
      /\ announced' = announced /\ nextClient' = nextClient /\ delivered' = delivered
      /\ clients' = clients /\ accepted' = accepted /\ joined' = joined /\ holder' = holder
      /\ up' = up /\ handler' = handler
  BY DEF StampPrice, list, clientVars, judging
<1>2. prices' \in Seq(Values) /\ Len(prices') = Len(prices) + 1 /\ Len(prices) \in Nat
  BY <1>1 DEF ServerTypes
<1>3. Len(prices') <= MaxPrices /\ announced' \in 0 .. Len(prices')
  BY <1>1, <1>2, PriceServerAssumption DEF ServerTypes
<1>4. ServerTypes'
  BY <1>1, <1>2, <1>3 DEF ServerTypes, Conns, Ids, Sockets
<1>5. SocketsInv'
  BY <1>1, SameSockets DEF Books
<1>6. DeliveredInv'
  <2>1. DeliveredInv
    OBVIOUS
  <2>2. UNCHANGED <<announced, nextClient, delivered, clients, joined, up>>
    BY <1>1
  <2> QED BY ONLY <2>1, <2>2 DEF DeliveredInv, Conns, Ids, Registrations, Sent
<1> QED BY <1>4, <1>5, <1>6

LEMMA LockKeepsServer ==
  ASSUME ServerInv, LockClients
  PROVE  ServerInv'
<1> USE DEF ServerInv
<1>1. /\ nextClient = 0 /\ announced < Len(prices)
      /\ announced' = announced + 1 /\ nextClient' = 1
      /\ prices' = prices /\ delivered' = delivered
      /\ clients' = clients /\ accepted' = accepted /\ joined' = joined /\ holder' = holder
      /\ up' = up /\ handler' = handler
  BY DEF LockClients, list, clientVars, judging
<1>2. /\ Len(prices) \in Nat /\ Len(clients) \in Nat /\ announced \in Nat
      /\ announced' \in 0 .. Len(prices') /\ announced' > 0 /\ announced' \in Ids
      /\ nextClient' \in 0 .. Len(clients') + 1
  BY <1>1, PriceServerAssumption DEF ServerTypes, Ids
<1>3. ServerTypes'
  BY <1>1, <1>2 DEF ServerTypes, Conns, Ids, Sockets
<1>4. SocketsInv'
  BY <1>1, SameSockets DEF Books
<1>5. ASSUME NEW c \in Conns, NEW i \in Ids, i > announced'
      PROVE  delivered'[c][i] = 0
  <2>1. i > announced
    BY <1>1, <1>2, <1>5, PriceServerAssumption DEF Ids
  <2> QED BY <2>1, <1>1 DEF DeliveredInv
<1>6. ASSUME NEW c \in up \cap DOMAIN clients, NEW i \in joined[c] + 1 .. announced'
      PROVE  delivered'[c][i] = IF nextClient' # 0 /\ i = announced'
                                THEN Cardinality(Sent(c, nextClient)') ELSE Registrations(c)'
  <2>0. joined[c] \in Nat /\ c \in Conns
    BY DEF ServerTypes
  <2>1. CASE i = announced'
    <3>1. Sent(c, nextClient)' = {}
      BY <1>1 DEF Sent
    <3>2. delivered[c][i] = 0
      BY <2>0, <2>1, <1>1, <1>2 DEF DeliveredInv
    <3> QED BY <2>1, <3>1, <3>2, <1>1, FS_EmptySet
  <2>2. CASE i # announced'
    <3>1. i \in joined[c] + 1 .. announced
      BY <2>0, <2>2, <1>1, <1>2
    <3>2. delivered[c][i] = Registrations(c)
      BY <3>1, <1>1 DEF DeliveredInv
    <3>3. Registrations(c)' = Registrations(c)
      BY <1>1 DEF Registrations
    <3> QED BY <2>2, <3>2, <3>3, <1>1
  <2> QED BY <2>1, <2>2
<1>7. DeliveredInv'
  BY <1>1, <1>5, <1>6 DEF DeliveredInv, Conns, Ids
<1> QED BY <1>3, <1>4, <1>7

\* One more entry with the client's socket, or not.
LEMMA SentGrows ==
  ASSUME ServerTypes, NEW c, NEW k \in DOMAIN clients
  PROVE  /\ IsFiniteSet(Sent(c, k)) /\ Cardinality(Sent(c, k)) \in Nat
         /\ Cardinality(Sent(c, k + 1)) = IF clients[k] = clients[c]
                                          THEN Cardinality(Sent(c, k)) + 1
                                          ELSE Cardinality(Sent(c, k))
<1>1. k \in Nat /\ k \in 1 .. Len(clients) /\ k - 1 \in Int
  BY DEF ServerTypes
<1>2. IsFiniteSet(Sent(c, k)) /\ Cardinality(Sent(c, k)) \in Nat
  <2>1. Sent(c, k) \subseteq 1 .. k - 1
    BY DEF Sent
  <2>2. IsFiniteSet(1 .. k - 1)
    BY <1>1, FS_Interval
  <2> QED BY <2>1, <2>2, FS_Subset, FS_CardinalityType
<1>3. k \notin Sent(c, k)
  BY <1>1 DEF Sent
<1>4. CASE clients[k] = clients[c]
  <2>1. Sent(c, k + 1) = Sent(c, k) \cup {k}
    BY <1>1, <1>4 DEF Sent
  <2> QED BY <2>1, <1>2, <1>3, <1>4, FS_AddElement
<1>5. CASE clients[k] # clients[c]
  <2>1. Sent(c, k + 1) = Sent(c, k)
    BY <1>1, <1>5 DEF Sent
  <2> QED BY <2>1, <1>2, <1>5
<1> QED BY <1>4, <1>5

LEMMA SendKeepsServer ==
  ASSUME ServerInv, SendPrice
  PROVE  ServerInv'
<1> USE DEF ServerInv
<1> DEFINE s == holder[clients[nextClient]]
<1>1. /\ nextClient' = nextClient + 1 /\ announced' = announced /\ prices' = prices
      /\ clients' = clients /\ accepted' = accepted /\ joined' = joined /\ holder' = holder
      /\ up' = up /\ handler' = handler
  BY DEF SendPrice, list, clientVars, judging
<1>2. /\ nextClient \in DOMAIN clients /\ announced \in Ids /\ s \in 0 .. MaxClients
      /\ delivered' \in [Conns -> [Ids -> Nat]]
      /\ \A c \in Conns, i \in Ids :
           delivered'[c][i] = IF c = s /\ c \in up /\ i = announced
                              THEN delivered[c][i] + 1 ELSE delivered[c][i]
  BY SendFacts
<1>3. Len(clients) \in Nat /\ nextClient \in 1 .. Len(clients) /\ announced > 0
  BY <1>2 DEF ServerTypes
<1>4. ServerTypes'
  <2>1. nextClient' \in 0 .. Len(clients') + 1
    BY <1>1, <1>3
  <2> QED BY <2>1, <1>1, <1>2, <1>3 DEF ServerTypes, Conns, Ids, Sockets
<1>5. SocketsInv'
  BY <1>1, SameSockets DEF Books
<1>6. ASSUME NEW c \in Conns, NEW i \in Ids, i > announced'
      PROVE  delivered'[c][i] = 0
  <2>1. i # announced /\ i > announced
    BY <1>1, <1>2, <1>6 DEF Ids
  <2> QED BY <2>1, <1>2 DEF DeliveredInv
<1>7. ASSUME NEW c \in up \cap DOMAIN clients, NEW i \in joined[c] + 1 .. announced'
      PROVE  delivered'[c][i] = IF nextClient' # 0 /\ i = announced'
                                THEN Cardinality(Sent(c, nextClient)') ELSE Registrations(c)'
  <2>0. c \in Conns /\ i \in Ids /\ i \in joined[c] + 1 .. announced /\ nextClient' # 0
    <3>1. c \in Conns /\ joined[c] \in Nat /\ announced' = announced
      BY <1>1 DEF ServerTypes
    <3>2. announced \in 1 .. MaxPrices /\ i \in Int
      BY <1>2, <3>1 DEF Ids
    <3> QED BY <3>1, <3>2, <1>1, <1>3, PriceServerAssumption DEF Ids
  <2>1. delivered[c][i] = IF i = announced THEN Cardinality(Sent(c, nextClient)) ELSE Registrations(c)
    BY <2>0, <1>3 DEF DeliveredInv
  <2>2. CASE i # announced
    <3>1. Registrations(c)' = Registrations(c)
      BY <1>1 DEF Registrations
    <3> QED BY <2>0, <2>1, <2>2, <3>1, <1>1, <1>2
  <2>3. CASE i = announced
    <3>1. Sent(c, nextClient)' = Sent(c, nextClient + 1)
      BY <1>1 DEF Sent
    \* The socket of a client that runs is the client's.
    <3>2. c = s <=> clients[nextClient] = clients[c]
      <4>1. c \in DOMAIN clients /\ handler[c] # "done" /\ holder[clients[c]] = c
        BY DEF SocketsInv
      <4>2. clients[nextClient] \in Sockets /\ DOMAIN clients = 1 .. Len(clients) /\ c \in Nat
        BY <1>2, <4>1 DEF ServerTypes
      <4>3. Placed(clients[nextClient])
        BY <4>2 DEF SocketsInv
      <4>4. c = s => clients[nextClient] = clients[c]
        BY <4>1, <4>2, <4>3, <1>3 DEF Placed
      <4>5. clients[nextClient] = clients[c] => c = s
        BY <4>1 DEF s
      <4> QED BY <4>4, <4>5
    <3>3. Cardinality(Sent(c, nextClient + 1)) = IF clients[nextClient] = clients[c]
                                                 THEN Cardinality(Sent(c, nextClient)) + 1
                                                 ELSE Cardinality(Sent(c, nextClient))
      BY <1>2, SentGrows
    <3> QED BY <2>0, <2>1, <2>3, <3>1, <3>2, <3>3, <1>1, <1>2
  <2> QED BY <2>2, <2>3
<1>8. DeliveredInv'
  BY <1>1, <1>6, <1>7 DEF DeliveredInv, Conns, Ids
<1> QED BY <1>4, <1>5, <1>8

LEMMA UnlockKeepsServer ==
  ASSUME ServerInv, UnlockClients
  PROVE  ServerInv'
<1> USE DEF ServerInv
<1>1. /\ nextClient = Len(clients) + 1 /\ nextClient' = 0
      /\ announced' = announced /\ prices' = prices /\ delivered' = delivered
      /\ clients' = clients /\ accepted' = accepted /\ joined' = joined /\ holder' = holder
      /\ up' = up /\ handler' = handler
  BY DEF UnlockClients, list, clientVars, judging
<1>2. Len(clients) \in Nat /\ DOMAIN clients = 1 .. Len(clients) /\ nextClient # 0
  BY <1>1 DEF ServerTypes
<1>3. ServerTypes'
  BY <1>1, <1>2 DEF ServerTypes, Conns, Ids, Sockets
<1>4. SocketsInv'
  BY <1>1, SameSockets DEF Books
\* No later entry has the socket of a client that runs.
<1>5. ASSUME NEW c \in up \cap DOMAIN clients
      PROVE  Sent(c, nextClient) = {d \in 1 .. c : clients[d] = clients[c]}
  <2>1. c \in DOMAIN clients /\ handler[c] # "done" /\ nextClient - 1 = Len(clients)
    BY <1>1, <1>2 DEF SocketsInv
  <2>2. \A d \in DOMAIN clients : c < d => clients[d] # clients[c]
    BY <2>1 DEF SocketsInv
  <2>3. \A d \in 1 .. Len(clients) : clients[d] = clients[c] => d \in 1 .. c
    BY <1>2, <2>1, <2>2
  <2> QED BY <1>2, <2>1, <2>3 DEF Sent
<1>6. ASSUME NEW c \in up \cap DOMAIN clients, NEW i \in joined[c] + 1 .. announced
      PROVE  delivered[c][i] = Registrations(c)
  BY <1>2, <1>5 DEF DeliveredInv, Registrations
<1>7. DeliveredInv'
  BY <1>1, <1>6 DEF DeliveredInv, Conns, Ids, Registrations
<1> QED BY <1>3, <1>4, <1>7

LEMMA AcceptKeepsServer ==
  ASSUME ServerInv, Accept
  PROVE  ServerInv'
<1> USE DEF ServerInv
<1> DEFINE n == Len(clients) + 1
<1>1. PICK s \in Sockets : holder[s] = 0 /\ accepted' = s /\ holder' = [holder EXCEPT ![s] = n]
  BY DEF Accept
<1>2. /\ accepted = 0 /\ Len(clients) < MaxClients /\ up' = up \cup {n}
      /\ announced' = announced /\ nextClient' = nextClient /\ prices' = prices
      /\ delivered' = delivered /\ clients' = clients /\ joined' = joined /\ handler' = handler
  BY DEF Accept, judging
<1>3. /\ Len(clients) \in Nat /\ DOMAIN clients = 1 .. Len(clients) /\ MaxClients \in Nat
      /\ n \in 1 .. MaxClients /\ n \in Conns /\ n \notin DOMAIN clients /\ s \in 1 .. MaxClients
  BY <1>2, PriceServerAssumption DEF ServerTypes, Conns, Sockets
<1>4. /\ holder' \in [Sockets -> 0 .. MaxClients] /\ holder'[s] = n
      /\ \A t \in Sockets : t # s => holder'[t] = holder[t]
  BY <1>1, <1>3 DEF ServerTypes
<1>5. up' \subseteq Conns /\ up' \cap DOMAIN clients' = up \cap DOMAIN clients
  BY <1>2, <1>3 DEF ServerTypes
<1> HIDE DEF n
<1>6. ServerTypes'
  <2>1. accepted' \in 0 .. MaxClients
    BY <1>1, <1>3
  <2> QED BY <2>1, <1>2, <1>4, <1>5 DEF ServerTypes, Conns, Ids, Sockets
<1>7. SocketsInv'
  <2>1. \A c \in DOMAIN clients : clients[c] \in Sockets
    BY DEF ServerTypes
  <2>2. \A c \in DOMAIN clients' : handler'[c] # "done" => holder'[clients'[c]] = c
    <3> SUFFICES ASSUME NEW c \in DOMAIN clients, handler[c] # "done" PROVE holder'[clients[c]] = c
      BY <1>2
    <3>1. holder[clients[c]] = c /\ c # 0
      BY <1>3 DEF SocketsInv
    <3>2. clients[c] # s
      BY <3>1, <1>1
    <3> QED BY <3>1, <3>2, <2>1, <1>4
  <2>3. ASSUME NEW t \in Sockets PROVE Placed(t)'
    <3>1. CASE t = s
      BY <3>1, <1>1, <1>2, <1>4 DEF Placed, n
    <3>2. CASE t # s
      <4>1. t # accepted /\ Placed(t)
        BY <1>2, <1>3 DEF Sockets, SocketsInv
      <4> QED BY <3>2, <4>1, <1>2, <1>4 DEF Placed
    <3> QED BY <3>1, <3>2
  <2>4. accepted' # 0 => Len(clients') < MaxClients /\ holder'[accepted'] = Len(clients') + 1
    BY <1>1, <1>2, <1>4 DEF n
  <2>5. \A c \in DOMAIN clients' : c \in up' => handler'[c] # "done"
    BY <1>2, <1>3 DEF SocketsInv
  <2>6. /\ \A c \in Conns' : handler'[c] = "none" <=> c \notin DOMAIN clients'
        /\ \A c, d \in DOMAIN clients' : c < d /\ handler'[c] # "done" => clients'[d] # clients'[c]
    BY <1>2 DEF SocketsInv, Conns
  <2> QED BY <2>2, <2>3, <2>4, <2>5, <2>6 DEF SocketsInv, Sockets, Conns
<1>8. DeliveredInv'
  BY <1>2, <1>5 DEF DeliveredInv, Conns, Ids, Registrations, Sent
<1> QED BY <1>6, <1>7, <1>8

LEMMA RegisterKeepsServer ==
  ASSUME ServerInv, Register
  PROVE  ServerInv'
<1> USE DEF ServerInv
<1> DEFINE n == Len(clients) + 1
<1>1. /\ accepted # 0 /\ nextClient = 0
      /\ clients' = Append(clients, accepted)
      /\ joined' = [joined EXCEPT ![n] = announced]
      /\ handler' = [handler EXCEPT ![n] = "name"]
      /\ accepted' = 0
      /\ announced' = announced /\ nextClient' = 0 /\ prices' = prices
      /\ delivered' = delivered /\ holder' = holder /\ up' = up
  BY DEF Register, clientVars
<1>2. /\ Len(clients) \in Nat /\ DOMAIN clients = 1 .. Len(clients) /\ MaxClients \in Nat
      /\ n \in 1 .. MaxClients /\ n \in Conns /\ n \notin DOMAIN clients /\ accepted \in Sockets
      /\ holder[accepted] = n
  BY <1>1, PriceServerAssumption DEF ServerTypes, SocketsInv, Conns, Sockets
<1>3. /\ clients' \in Seq(Sockets) /\ Len(clients') = n /\ DOMAIN clients' = DOMAIN clients \cup {n}
      /\ clients'[n] = accepted /\ \A c \in DOMAIN clients : clients'[c] = clients[c]
  BY <1>1, <1>2 DEF ServerTypes
<1>4. /\ joined' \in [Conns -> 0 .. MaxPrices] /\ joined'[n] = announced
      /\ \A c \in Conns : c # n => joined'[c] = joined[c]
  <2>1. announced \in 0 .. MaxPrices
    BY PriceServerAssumption DEF ServerTypes
  <2> HIDE DEF n
  <2> QED BY <2>1, <1>1, <1>2 DEF ServerTypes
<1>5. /\ handler' \in [Conns -> {"none", "name", "orders", "judge", "guess", "done"}]
      /\ handler'[n] = "name" /\ \A c \in Conns : c # n => handler'[c] = handler[c]
  <2> HIDE DEF n
  <2> QED BY <1>1, <1>2 DEF ServerTypes
<1>6. DOMAIN clients \subseteq Conns /\ DOMAIN clients \subseteq Nat
  BY <1>2 DEF ServerTypes, Conns
<1>7. Len(clients') <= MaxClients /\ nextClient' \in 0 .. Len(clients') + 1
  BY <1>1, <1>2, <1>3
<1>8. ServerTypes'
  <2>1. accepted' \in 0 .. MaxClients
    BY <1>1, <1>2
  <2> HIDE DEF n
  <2> QED BY <2>1, <1>1, <1>3, <1>4, <1>5, <1>7 DEF ServerTypes, Conns, Ids, Sockets
<1>9. SocketsInv'
  <2>1. \A c \in Conns : handler'[c] = "none" <=> c \notin DOMAIN clients'
    BY <1>2, <1>3, <1>5 DEF SocketsInv
  <2>2. \A c \in DOMAIN clients' : handler'[c] # "done" => holder'[clients'[c]] = c
    BY <1>1, <1>2, <1>3, <1>5, <1>6 DEF SocketsInv
  <2>3. \A c \in DOMAIN clients' : c \in up' => handler'[c] # "done"
    BY <1>1, <1>3, <1>5, <1>6 DEF SocketsInv
  <2>4. \A c, d \in DOMAIN clients' : c < d /\ handler'[c] # "done" => clients'[d] # clients'[c]
    <3> SUFFICES ASSUME NEW c \in DOMAIN clients', NEW d \in DOMAIN clients',
                        c < d, handler'[c] # "done"
                 PROVE  clients'[d] # clients'[c]
      OBVIOUS
    <3>1. c \in DOMAIN clients /\ handler[c] # "done" /\ c # n
      BY <1>2, <1>3, <1>5, <1>6
    <3>2. CASE d \in DOMAIN clients
      BY <3>1, <3>2, <1>3 DEF SocketsInv
    <3>3. CASE d = n
      <4>1. holder[clients[c]] = c
        BY <3>1 DEF SocketsInv
      <4> QED BY <3>1, <3>3, <4>1, <1>2, <1>3
    <3> QED BY <3>2, <3>3, <1>3
  <2>5. ASSUME NEW s \in Sockets PROVE Placed(s)'
    <3>1. Placed(s)
      BY DEF SocketsInv
    <3> QED BY <3>1, <1>1, <1>3 DEF Placed
  <2> QED BY <2>1, <2>2, <2>3, <2>4, <2>5, <1>1 DEF SocketsInv, Conns, Sockets
<1>10. ASSUME NEW c \in up' \cap DOMAIN clients', NEW i \in joined'[c] + 1 .. announced'
       PROVE  delivered'[c][i] = Registrations(c)'
  <2>1. c \in DOMAIN clients /\ c \in up /\ joined'[c] = joined[c]
    <3>1. CASE c = n
      <4>1. joined'[c] + 1 > announced' /\ joined'[c] \in Int /\ announced' \in Int
        BY <3>1, <1>1, <1>4 DEF ServerTypes
      <4> QED BY <4>1, <1>10
    <3>2. CASE c # n
      BY <3>2, <1>1, <1>3, <1>4, <1>6
    <3> QED BY <3>1, <3>2
  <2>2. delivered[c][i] = Registrations(c)
    BY <2>1, <1>1 DEF DeliveredInv
  <2>3. Registrations(c)' = Registrations(c)
    <3>1. \A d \in 1 .. c : clients'[d] = clients[d]
      BY <2>1, <1>2, <1>3
    <3>2. {d \in 1 .. c : clients'[d] = clients'[c]} = {d \in 1 .. c : clients[d] = clients[c]}
      BY <2>1, <3>1, <1>3
    <3> QED BY <3>2 DEF Registrations
  <2> QED BY <2>2, <2>3, <1>1
<1>11. DeliveredInv'
  BY <1>1, <1>10 DEF DeliveredInv, Conns, Ids
<1> QED BY <1>8, <1>9, <1>11

LEMMA CloseKeepsServer ==
  ASSUME ServerInv, NEW c \in Conns, CloseSocket(c)
  PROVE  ServerInv'
<1> USE DEF ServerInv
<1>1. /\ handler[c] \in {"name", "orders"} /\ c \notin up
      /\ handler' = [handler EXCEPT ![c] = "done"]
      /\ holder' = [holder EXCEPT ![clients[c]] = 0]
      /\ prices' = prices /\ announced' = announced /\ nextClient' = nextClient
      /\ clients' = clients /\ accepted' = accepted /\ joined' = joined
      /\ up' = up /\ delivered' = delivered
  BY DEF CloseSocket, list, clientVars
<1>2. /\ c \in DOMAIN clients /\ clients[c] \in Sockets /\ holder[clients[c]] = c
      /\ Len(clients) \in Nat /\ DOMAIN clients = 1 .. Len(clients)
      /\ MaxClients \in Nat
  <2>1. c \in DOMAIN clients
    BY <1>1 DEF SocketsInv
  <2> QED BY <2>1, <1>1, PriceServerAssumption DEF ServerTypes, SocketsInv
<1>3. /\ handler' \in [Conns -> {"none", "name", "orders", "judge", "guess", "done"}]
      /\ handler'[c] = "done" /\ \A d \in Conns : d # c => handler'[d] = handler[d]
  BY <1>1 DEF ServerTypes
<1>4. /\ holder' \in [Sockets -> 0 .. MaxClients] /\ holder'[clients[c]] = 0
      /\ \A t \in Sockets : t # clients[c] => holder'[t] = holder[t]
  BY <1>1, <1>2 DEF ServerTypes
<1>5. ServerTypes'
  BY <1>1, <1>3, <1>4 DEF ServerTypes, Conns, Ids, Sockets
<1>6. DOMAIN clients \subseteq Conns /\ \A d \in DOMAIN clients : clients[d] \in Sockets
  <2>1. clients \in Seq(Sockets) /\ Len(clients) <= MaxClients
    BY DEF ServerTypes
  <2> QED BY ONLY <1>2, <2>1 DEF Conns
<1>7. SocketsInv'
  <2>1. /\ \A d \in Conns : handler'[d] = "none" <=> d \notin DOMAIN clients'
        /\ \A d \in DOMAIN clients' : d \in up' => handler'[d] # "done"
    BY <1>1, <1>2, <1>3, <1>6 DEF SocketsInv
  <2>2. ASSUME NEW d \in DOMAIN clients', handler'[d] # "done"
        PROVE  holder'[clients'[d]] = d
    <3>1. d \in DOMAIN clients /\ d # c /\ handler[d] # "done" /\ clients' = clients
      BY <2>2, <1>1, <1>3, <1>6
    <3>2. holder[clients[d]] = d
      BY <3>1 DEF SocketsInv
    <3>3. clients[d] # clients[c]
      BY <3>1, <3>2, <1>2
    <3> QED BY <3>1, <3>2, <3>3, <1>4, <1>6
  <2>3. ASSUME NEW d \in DOMAIN clients', NEW e \in DOMAIN clients', d < e, handler'[d] # "done"
        PROVE  clients'[e] # clients'[d]
    <3>1. d \in DOMAIN clients /\ e \in DOMAIN clients /\ handler[d] # "done" /\ clients' = clients
      BY <2>3, <1>1, <1>3, <1>6
    <3> QED BY <2>3, <3>1 DEF SocketsInv
  <2>4. ASSUME NEW t \in Sockets PROVE Placed(t)'
    <3>1. Placed(t)
      BY DEF SocketsInv
    <3> QED BY <3>1, <1>1, <1>4 DEF Placed
  <2>5. accepted' # 0 => Len(clients') < MaxClients /\ holder'[accepted'] = Len(clients') + 1
    <3> SUFFICES ASSUME accepted # 0 PROVE Len(clients) < MaxClients /\ holder'[accepted] = Len(clients) + 1
      BY <1>1
    <3>1. /\ Len(clients) < MaxClients /\ holder[accepted] = Len(clients) + 1
          /\ accepted \in Sockets
      BY <1>2 DEF SocketsInv, ServerTypes, Sockets
    <3>2. c # Len(clients) + 1
      BY <1>2
    <3>3. accepted # clients[c]
      BY <3>1, <3>2, <1>2
    <3>4. holder'[accepted] = holder[accepted]
      BY <3>1, <3>3, <1>4
    <3> QED BY <3>1, <3>4
  <2> QED BY <2>1, <2>2, <2>3, <2>4, <2>5 DEF SocketsInv, Conns, Sockets
<1>8. DeliveredInv'
  BY <1>1 DEF DeliveredInv, Conns, Ids, Registrations, Sent
<1> QED BY <1>5, <1>7, <1>8

\* A thread that goes on, and a client that leaves.
LEMMA WorkKeepsServer ==
  ASSUME ServerInv, NEW c \in Conns,
         ReceiveName(c) \/ ReceiveOrder(c) \/ Judge(c) \/ Leave(c)
  PROVE  ServerInv'
<1> USE DEF ServerInv
<1>1. /\ prices' = prices /\ announced' = announced /\ nextClient' = nextClient
      /\ clients' = clients /\ accepted' = accepted /\ joined' = joined /\ holder' = holder
      /\ delivered' = delivered /\ up' \subseteq up
      /\ \/ handler' = handler
         \/ /\ handler[c] \in {"name", "orders", "judge", "guess"}
            /\ \E x \in {"orders", "judge", "guess"} : handler' = [handler EXCEPT ![c] = x]
  BY DEF ReceiveName, ReceiveOrder, Judge, Leave, list, clientVars, judging
<1>2. /\ handler' \in [Conns -> {"none", "name", "orders", "judge", "guess", "done"}]
      /\ \A d \in Conns : /\ handler'[d] = "none" <=> handler[d] = "none"
                          /\ handler'[d] = "done" <=> handler[d] = "done"
  BY <1>1 DEF ServerTypes
<1>3. ServerTypes'
  BY <1>1, <1>2 DEF ServerTypes, Conns, Ids, Sockets
<1>4. DOMAIN clients \subseteq Conns
  BY PriceServerAssumption DEF ServerTypes, Conns
<1>5. SocketsInv'
  <2>1. \A t \in Sockets : Placed(t)'
    BY <1>1 DEF SocketsInv, Placed
  <2>2. /\ \A d \in Conns : handler'[d] = "none" <=> d \notin DOMAIN clients'
        /\ \A d \in DOMAIN clients' : handler'[d] # "done" => holder'[clients'[d]] = d
        /\ \A d \in DOMAIN clients' : d \in up' => handler'[d] # "done"
    BY <1>1, <1>2, <1>4 DEF SocketsInv
  <2>3. \A d, e \in DOMAIN clients' : d < e /\ handler'[d] # "done" => clients'[e] # clients'[d]
    BY <1>1, <1>2, <1>4 DEF SocketsInv
  <2>4. accepted' # 0 => Len(clients') < MaxClients /\ holder'[accepted'] = Len(clients') + 1
    BY <1>1 DEF SocketsInv
  <2> QED BY <2>1, <2>2, <2>3, <2>4 DEF SocketsInv, Conns, Sockets
<1>6. DeliveredInv'
  BY <1>1 DEF DeliveredInv, Conns, Ids, Registrations, Sent
<1> QED BY <1>3, <1>5, <1>6

LEMMA SameServer ==
  ASSUME ServerInv, UNCHANGED <<prices, announced, nextClient, Books, delivered>>
  PROVE  ServerInv'
<1> USE DEF ServerInv
<1>1. /\ prices' = prices /\ announced' = announced /\ nextClient' = nextClient
      /\ clients' = clients /\ accepted' = accepted /\ joined' = joined /\ holder' = holder
      /\ delivered' = delivered /\ up' = up /\ handler' = handler
  BY DEF Books
<1>2. ServerTypes'
  BY <1>1 DEF ServerTypes, Conns, Ids, Sockets
<1>3. SocketsInv'
  BY SameSockets
<1>4. DeliveredInv'
  BY <1>1 DEF DeliveredInv, Conns, Ids, Registrations, Sent
<1> QED BY <1>2, <1>3, <1>4

LEMMA ServerStep == ServerInv /\ [PricesNext]_pvars => ServerInv'
<1> SUFFICES ASSUME ServerInv, [PricesNext]_pvars PROVE ServerInv'
  OBVIOUS
<1>1. ASSUME NEW v \in Values, StampPrice(v) PROVE ServerInv'
  BY <1>1, StampKeepsServer
<1>2. CASE LockClients
  BY <1>2, LockKeepsServer
<1>3. CASE SendPrice
  BY <1>3, SendKeepsServer
<1>4. CASE UnlockClients
  BY <1>4, UnlockKeepsServer
<1>5. CASE Accept
  BY <1>5, AcceptKeepsServer
<1>6. CASE Register
  BY <1>6, RegisterKeepsServer
<1>7. ASSUME NEW c \in Conns, Handle(c) PROVE ServerInv'
  BY <1>7, CloseKeepsServer, WorkKeepsServer DEF Handle
<1>8. ASSUME NEW c \in Conns, Leave(c) PROVE ServerInv'
  BY <1>8, WorkKeepsServer
<1>9. CASE Killed \/ UNCHANGED pvars \/ \E c \in Conns : ReceivePrice(c)
  BY <1>9, SameServer
     DEF Killed, ReceivePrice, pvars, Books, list, clientVars, judging
<1> QED
  BY <1>1, <1>2, <1>3, <1>4, <1>5, <1>6, <1>7, <1>8, <1>9 DEF PricesNext, Broadcast

LEMMA ServerHolds == PricesSpec => []ServerInv
<1>1. PricesInit => ServerInv
  BY ServerInit
<1>2. ServerInv /\ [PricesNext]_pvars => ServerInv'
  BY ServerStep
<1> QED BY <1>1, <1>2, PTL DEF PricesSpec

\* broadcastPrices sends a client that runs every price since it was put on
\* the list, once for each entry up to its own that has its socket's number.
THEOREM EveryPriceSent == PricesSpec => []EveryClientEveryPrice
<1>1. ServerInv => EveryClientEveryPrice
  BY DEF ServerInv, DeliveredInv, EveryClientEveryPrice
<1> QED BY <1>1, ServerHolds, PTL

-----------------------------------------------------------------------------
(***************************************************************************)
(* PriceServer: the prices behind an order                                 *)
(***************************************************************************)

LEMMA SeqElement ==
  ASSUME NEW S, NEW s \in Seq(S), NEW i \in DOMAIN s
  PROVE  s[i] \in S
OBVIOUS

\* A sequence that rises from each element to the next rises throughout.
LEMMA RisesThroughout ==
  ASSUME NEW n \in Nat, NEW h, \A i \in 1 .. n : h[i] \in Int,
         \A i \in 1 .. n - 1 : h[i] < h[i + 1]
  PROVE  \A k, l \in 1 .. n : k < l => h[k] < h[l]
<1> DEFINE T == {l \in 1 .. n : \E k \in 1 .. n : k < l /\ ~(h[k] < h[l])}
<1>1. ASSUME T # {} PROVE FALSE
  <2>1. T \in SUBSET Nat
    OBVIOUS
  <2>2. PICK l \in T : \A m \in T : l <= m
    <3> HIDE DEF T
    <3> QED BY <2>1, <1>1, LeastNat
  <2>3. PICK k \in 1 .. n : k < l /\ ~(h[k] < h[l])
    BY <2>2
  <2>4. l \in 1 .. n /\ l - 1 \in 1 .. n - 1 /\ l - 1 \in 1 .. n /\ l - 1 + 1 = l
    BY <2>2, <2>3
  <2>5. h[l - 1] < h[l] /\ h[l] \in Int /\ h[l - 1] \in Int /\ h[k] \in Int
    <3>1. \A i \in 1 .. n - 1 : h[i] < h[i + 1]
      OBVIOUS
    <3>2. h[l - 1] < h[l - 1 + 1]
      BY <2>4, <3>1
    <3> QED BY <2>4, <3>2
  <2>6. k = l - 1 \/ k < l - 1
    BY <2>3, <2>4
  <2>7. l - 1 \notin T
    <3>1. ~(l <= l - 1)
      BY <2>4
    <3> HIDE DEF T
    <3> QED BY <2>2, <3>1
  <2>8. CASE k < l - 1
    <3>1. h[k] < h[l - 1]
      BY <2>4, <2>7, <2>8
    <3> QED BY <2>3, <2>5, <3>1
  <2>9. CASE k = l - 1
    BY <2>3, <2>5, <2>9
  <2> QED BY <2>6, <2>8, <2>9
<1> QED BY <1>1

\* So does one that falls, with the signs changed.
LEMMA MomentumThroughout ==
  ASSUME NEW h \in Seq(Values), Momentum(h)
  PROVE  /\ Len(h) = Trend
         /\ \/ \A k, l \in 1 .. Trend : k < l => h[k] < h[l]
            \/ \A k, l \in 1 .. Trend : k < l => h[k] > h[l]
<1>1. Len(h) = Trend /\ Trend \in Nat /\ \A i \in 1 .. Trend : h[i] \in Int
  <2>1. Len(h) = Trend /\ Trend \in Nat /\ DOMAIN h = 1 .. Trend
    BY PriceServerAssumption DEF Momentum
  <2>2. \A i \in DOMAIN h : h[i] \in Values
    BY SeqElement
  <2> QED BY <2>1, <2>2, PriceServerAssumption
<1>2. CASE \A i \in 1 .. Trend - 1 : h[i] < h[i + 1]
  <2>1. \A k, l \in 1 .. Trend : k < l => h[k] < h[l]
    BY <1>1, <1>2, RisesThroughout
  <2> QED BY <1>1, <2>1
<1>3. CASE \A i \in 1 .. Trend - 1 : h[i] > h[i + 1]
  <2> DEFINE g == [i \in 1 .. Trend |-> -h[i]]
  <2>1. \A i \in 1 .. Trend : g[i] = -h[i] /\ g[i] \in Int
    BY <1>1
  <2> HIDE DEF g
  <2>2. ASSUME NEW i \in 1 .. Trend - 1 PROVE g[i] < g[i + 1]
    <3>1. i \in 1 .. Trend /\ i + 1 \in 1 .. Trend
      BY <1>1
    <3>2. h[i] > h[i + 1] /\ h[i] \in Int /\ h[i + 1] \in Int
      BY <1>1, <1>3, <3>1
    <3> QED BY <2>1, <3>1, <3>2
  <2>3. \A k, l \in 1 .. Trend : k < l => g[k] < g[l]
    BY <1>1, <2>1, <2>2, RisesThroughout
  <2>4. \A k, l \in 1 .. Trend : k < l => h[k] > h[l]
    BY <1>1, <2>1, <2>3
  <2> QED BY <1>1, <2>4
<1> QED BY <1>2, <1>3 DEF Momentum

Messages == 0 .. MaxPrices \cup {Piece}

MessageTypes ==
  /\ toClient \in [Conns -> Seq(Ids \cup {Piece})]
  /\ toServer \in [Conns -> Seq(Messages)]
  /\ number \in [Conns -> Messages]
  /\ priceHistory \in [Conns -> Seq(Values)] /\ \A c \in Conns : Len(priceHistory[c]) <= Trend
  /\ hits \subseteq [client : Conns, price : Ids, read : {"judge", "guess"}]

\* Price i was sent to client c, and with prices before it makes a momentum.
Backed(c, i) ==
  \E f \in [1 .. Trend -> Ids] :
    /\ f[Trend] = i
    /\ \A k, l \in 1 .. Trend : k < l => f[k] < f[l]
    /\ \/ \A k, l \in 1 .. Trend : k < l => prices[f[k]] < prices[f[l]]
       \/ \A k, l \in 1 .. Trend : k < l => prices[f[k]] > prices[f[l]]
    /\ \A k \in 1 .. Trend : f[k] \in DOMAIN prices /\ delivered[c][f[k]] > 0

\* What is on the way to a client was sent to it, in the order of the prices.
Queued(c) ==
  /\ \A k \in DOMAIN toClient[c] : toClient[c][k] # Piece =>
       toClient[c][k] \in 1 .. announced /\ delivered[c][toClient[c][k]] > 0
  /\ \A k, l \in DOMAIN toClient[c] :
       k < l /\ toClient[c][k] # Piece /\ toClient[c][l] # Piece => toClient[c][k] <= toClient[c][l]

\* Price i is not after what is on the way to client c.
Before(c, i) == \A m \in DOMAIN toClient[c] : toClient[c][m] # Piece => i <= toClient[c][m]

\* The history of a client is the values of prices that were sent to it
\* before all that is on the way.
Seen(c) ==
  \E f \in [DOMAIN priceHistory[c] -> Ids] :
    /\ \A k, l \in DOMAIN priceHistory[c] : k < l => f[k] <= f[l]
    /\ \A k \in DOMAIN priceHistory[c] :
         /\ f[k] <= announced /\ delivered[c][f[k]] > 0 /\ prices[f[k]] = priceHistory[c][k]
         /\ Before(c, f[k])

\* Of a client that took a part of a message for a price nothing is known.
ClientInv(c) == Queued(c) /\ (c \notin misread => Seen(c))

\* Every number that is on the way back, or received whole, is such a price
\* or none: Name and NoPrice are 0.
Justified(c) == {i \in Ids : Backed(c, i)} \cup {0}

NumbersInv(c) ==
  c \notin misread =>
    /\ \A k \in DOMAIN toServer[c] : toServer[c][k] \in Justified(c) \cup {Piece}
    /\ handler[c] = "judge" => number[c] \in Justified(c)

HitsInv ==
  /\ \A h \in hits : h.price \in DOMAIN prices
  /\ \A h \in hits :
       h.read = "judge" /\ h.client \notin misread => h.price \in Justified(h.client)
  /\ \A g, h \in hits : g.price = h.price => g = h

MessagesInv ==
  /\ MessageTypes
  /\ \A c \in Conns : ClientInv(c)
  /\ \A c \in Conns : NumbersInv(c)
  /\ HitsInv

\* Prices, deliveries and misreadings are only added.
Grown ==
  /\ misread \subseteq misread'
  /\ \A i \in DOMAIN prices : i \in DOMAIN prices' /\ prices'[i] = prices[i]
  /\ \A c \in Conns, i \in Ids : delivered[c][i] > 0 => delivered'[c][i] > 0
  /\ announced \in 0 .. Len(prices) /\ announced' >= announced

LEMMA StepGrows ==
  ASSUME ServerTypes, [PricesNext]_pvars
  PROVE  Grown
<1>1. announced \in 0 .. Len(prices) /\ Len(prices) \in Nat /\ announced >= announced
  BY DEF ServerTypes
<1>2. CASE SendPrice
  <2>1. prices' = prices /\ announced' = announced /\ misread' = misread
    BY <1>2 DEF SendPrice, clientVars
  <2>2. \A c \in Conns, i \in Ids : delivered[c][i] > 0 => delivered'[c][i] > 0
    <3>1. \A c \in Conns, i \in Ids : \/ delivered'[c][i] = delivered[c][i]
                                     \/ delivered'[c][i] = delivered[c][i] + 1
      BY <1>2, SendFacts
    <3>2. \A c \in Conns, i \in Ids : delivered[c][i] \in Nat
      BY DEF ServerTypes
    <3> QED BY <3>1, <3>2
  <2> QED BY <1>1, <2>1, <2>2 DEF Grown
<1>3. ASSUME NEW v \in Values, StampPrice(v) PROVE Grown
  <2>1. /\ prices' = Append(prices, v) /\ announced' = announced /\ delivered' = delivered
        /\ misread' = misread
    BY <1>3 DEF StampPrice, clientVars
  <2>2. \A i \in DOMAIN prices : i \in DOMAIN prices' /\ prices'[i] = prices[i]
    BY <2>1 DEF ServerTypes
  <2> QED BY <1>1, <2>1, <2>2 DEF Grown
<1>4. CASE /\ prices' = prices /\ announced' >= announced /\ delivered' = delivered
           /\ misread \subseteq misread'
  BY <1>1, <1>4 DEF Grown
<1>5. CASE LockClients
  BY <1>1, <1>4, <1>5 DEF LockClients, clientVars
<1>6. CASE Killed \/ UnlockClients \/ Accept \/ Register \/ UNCHANGED pvars
  BY <1>1, <1>4, <1>6 DEF Killed, UnlockClients, Accept, Register, pvars, clientVars
<1>7. ASSUME NEW c \in Conns, Handle(c) \/ Leave(c) PROVE Grown
  BY <1>1, <1>4, <1>7
     DEF Handle, ReceiveName, ReceiveOrder, Judge, CloseSocket, Leave, clientVars
<1>8. ASSUME NEW c \in Conns, ReceivePrice(c) PROVE Grown
  BY <1>1, <1>4, <1>8 DEF ReceivePrice
<1> QED BY <1>2, <1>3, <1>5, <1>6, <1>7, <1>8 DEF PricesNext, Broadcast

\* Then what is backed stays backed.
LEMMA BackedStays ==
  ASSUME Grown, NEW c \in Conns
  PROVE  Justified(c) \subseteq Justified(c)'
<1> SUFFICES ASSUME NEW i \in Ids, Backed(c, i) PROVE Backed(c, i)'
  BY DEF Justified, Ids
<1>1. PICK f \in [1 .. Trend -> Ids] :
        /\ f[Trend] = i
        /\ \A k, l \in 1 .. Trend : k < l => f[k] < f[l]
        /\ \/ \A k, l \in 1 .. Trend : k < l => prices[f[k]] < prices[f[l]]
           \/ \A k, l \in 1 .. Trend : k < l => prices[f[k]] > prices[f[l]]
        /\ \A k \in 1 .. Trend : f[k] \in DOMAIN prices /\ delivered[c][f[k]] > 0
  BY DEF Backed
<1>2. \A k \in 1 .. Trend : /\ f[k] \in DOMAIN prices' /\ prices'[f[k]] = prices[f[k]]
                           /\ delivered'[c][f[k]] > 0
  BY <1>1 DEF Grown
<1>3. \/ \A k, l \in 1 .. Trend : k < l => prices'[f[k]] < prices'[f[l]]
      \/ \A k, l \in 1 .. Trend : k < l => prices'[f[k]] > prices'[f[l]]
  BY <1>1, <1>2
<1> QED BY <1>1, <1>2, <1>3 DEF Backed, Ids

LEMMA QueuedStays ==
  ASSUME ServerTypes, ServerTypes', MessageTypes, Grown, NEW c \in Conns, Queued(c),
         toClient'[c] = toClient[c]
  PROVE  Queued(c)'
<1>1. announced \in Nat /\ announced' \in Nat /\ announced' >= announced
  BY DEF Grown, ServerTypes
<1>2. \A k \in DOMAIN toClient[c] : toClient[c][k] # Piece => toClient[c][k] \in Ids
  <2>1. \A k \in DOMAIN toClient[c] : toClient[c][k] \in Ids \cup {Piece}
    BY SeqElement DEF MessageTypes
  <2> QED BY <2>1
<1>3. \A k \in DOMAIN toClient[c] : toClient[c][k] # Piece =>
        toClient[c][k] \in 1 .. announced' /\ delivered'[c][toClient[c][k]] > 0
  BY <1>1, <1>2 DEF Queued, Grown
<1> QED BY <1>3 DEF Queued, Piece

\* What a client has seen stays, if no more than that is on the way.
LEMMA SeenStays ==
  ASSUME ServerTypes, ServerTypes', Grown, NEW c \in Conns, Seen(c),
         priceHistory'[c] = priceHistory[c], \A i \in Ids : Before(c, i) => Before(c, i)'
  PROVE  Seen(c)'
<1>1. /\ announced \in Nat /\ announced' \in Nat /\ announced' >= announced
      /\ Len(prices) \in Nat /\ announced <= Len(prices) /\ DOMAIN prices = 1 .. Len(prices)
  BY DEF Grown, ServerTypes
<1>2. PICK f \in [DOMAIN priceHistory[c] -> Ids] :
        /\ \A k, l \in DOMAIN priceHistory[c] : k < l => f[k] <= f[l]
        /\ \A k \in DOMAIN priceHistory[c] :
             /\ f[k] <= announced /\ delivered[c][f[k]] > 0 /\ prices[f[k]] = priceHistory[c][k]
             /\ Before(c, f[k])
  BY DEF Seen
<1>3. ASSUME NEW k \in DOMAIN priceHistory[c]
      PROVE  /\ f[k] <= announced' /\ delivered'[c][f[k]] > 0
             /\ prices'[f[k]] = priceHistory[c][k] /\ Before(c, f[k])'
  <2>0. f[k] \in Ids
    BY <1>2
  <2>1. f[k] \in Nat /\ f[k] >= 1 /\ f[k] <= announced
    BY <2>0, <1>2 DEF Ids
  <2>2. f[k] \in DOMAIN prices /\ f[k] <= announced'
    BY <2>1, <1>1
  <2>3. delivered'[c][f[k]] > 0 /\ prices'[f[k]] = priceHistory[c][k]
    BY <2>0, <2>2, <1>2 DEF Grown
  <2>4. Before(c, f[k])'
    <3>1. PICK i \in Ids : i = f[k]
      BY <2>0
    <3>2. Before(c, i)
      BY <3>1, <1>2
    <3>3. Before(c, i)'
      BY <3>2
    <3> QED BY <3>1, <3>3 DEF Before
  <2> QED BY <2>2, <2>3, <2>4
<1>4. f \in [DOMAIN priceHistory'[c] -> Ids'] /\ priceHistory'[c] = priceHistory[c]
  BY DEF Ids
<1> QED BY <1>2, <1>3, <1>4 DEF Seen

LEMMA ClientStays ==
  ASSUME ServerTypes, ServerTypes', MessageTypes, Grown, NEW c \in Conns, ClientInv(c),
         toClient'[c] = toClient[c], priceHistory'[c] = priceHistory[c]
  PROVE  ClientInv(c)'
<1>1. Queued(c)'
  BY QueuedStays DEF ClientInv
<1>2. ASSUME c \notin misread' PROVE Seen(c)'
  <2>1. c \notin misread
    BY <1>2 DEF Grown
  <2>2. \A i \in Ids : Before(c, i) => Before(c, i)'
    BY DEF Before, Piece
  <2> QED BY <2>1, <2>2, SeenStays DEF ClientInv
<1> QED BY <1>1, <1>2 DEF ClientInv

LEMMA NumbersStay ==
  ASSUME Grown, NEW c \in Conns, NumbersInv(c),
         \A k \in DOMAIN toServer'[c] :
           \/ toServer'[c][k] \in {Name, Piece}
           \/ \E l \in DOMAIN toServer[c] : toServer'[c][k] = toServer[c][l],
         handler'[c] = "judge" =>
           \/ handler[c] = "judge" /\ number'[c] = number[c]
           \/ number'[c] # Piece /\ \E l \in DOMAIN toServer[c] : number'[c] = toServer[c][l]
  PROVE  NumbersInv(c)'
<1> SUFFICES ASSUME c \notin misread' PROVE NumbersInv(c)'
  BY DEF NumbersInv
<1>0. c \notin misread /\ Piece' = Piece
  BY DEF Grown, Piece
<1>1. Justified(c) \subseteq Justified(c)' /\ 0 \in Justified(c)'
  BY BackedStays DEF Justified
<1>2. \A k \in DOMAIN toServer'[c] : toServer'[c][k] \in Justified(c)' \cup {Piece}
  BY <1>0, <1>1 DEF NumbersInv, Name
<1>3. handler'[c] = "judge" => number'[c] \in Justified(c)'
  BY <1>0, <1>1 DEF NumbersInv
<1> QED BY <1>0, <1>2, <1>3 DEF NumbersInv

LEMMA HitsStay ==
  ASSUME Grown, MessageTypes, HitsInv, hits' = hits
  PROVE  HitsInv'
<1>1. \A h \in hits : h.client \in Conns
  BY DEF MessageTypes
<1>2. \A h \in hits : h.read = "judge" /\ h.client \notin misread' => h.price \in Justified(h.client)'
  BY <1>1, BackedStays DEF HitsInv, Grown
<1>3. \A h \in hits : h.price \in DOMAIN prices'
  BY DEF HitsInv, Grown
<1> QED BY <1>2, <1>3 DEF HitsInv

\* The steps that leave the clients, their messages and the hits alone.
LEMMA SameMessages ==
  ASSUME ServerTypes, ServerTypes', MessagesInv, Grown,
         UNCHANGED <<toClient, toServer, number, priceHistory, hits>>,
         \A c \in Conns : handler'[c] = "judge" => handler[c] = "judge"
  PROVE  MessagesInv'
<1> USE DEF MessagesInv
<1>1. /\ toClient' = toClient /\ toServer' = toServer /\ number' = number
      /\ priceHistory' = priceHistory /\ hits' = hits
  OBVIOUS
<1>2. MessageTypes'
  BY <1>1 DEF MessageTypes, Messages, Conns, Ids, Piece
<1>3. ASSUME NEW c \in Conns PROVE ClientInv(c)' /\ NumbersInv(c)'
  <2>1. ClientInv(c)'
    BY <1>1, ClientStays
  <2>2. NumbersInv(c)'
    BY <1>1, NumbersStay
  <2> QED BY <2>1, <2>2
<1>4. HitsInv'
  BY <1>1, HitsStay
<1> QED BY <1>2, <1>3, <1>4 DEF Conns

\* Whatever recv leaves was there, or is the rest of what it cut.
LEMMA UnreadFacts ==
  ASSUME NEW S, Piece \in S, NEW s \in Seq(S), NEW n \in 0 .. Len(s), NEW cut
  PROVE  /\ Unread(s, n, cut) \in Seq(S) /\ DOMAIN Unread(s, n, cut) = 1 .. Len(s) - n
         /\ \A i \in 1 .. Len(s) - n :
              /\ n + i \in DOMAIN s
              /\ Unread(s, n, cut)[i] = Piece \/ Unread(s, n, cut)[i] = s[n + i]
<1> DEFINE t == Unread(s, n, cut)
<1>1. t = [i \in 1 .. Len(s) - n |-> IF cut /\ i = 1 THEN Piece ELSE s[n + i]]
  BY DEF Unread
<1>2. \A i \in 1 .. Len(s) - n : n + i \in DOMAIN s /\ s[n + i] \in S
  OBVIOUS
<1>3. PICK m \in Nat : m = Len(s) - n
  OBVIOUS
<1> HIDE DEF t
<1>4. t \in [1 .. m -> S] /\ DOMAIN t = 1 .. m
  BY <1>1, <1>2, <1>3 DEF Piece
<1>5. t \in Seq(S)
  BY <1>3, <1>4
<1> QED BY <1>1, <1>2, <1>3, <1>4, <1>5 DEF t

LEMMA AppendFacts ==
  ASSUME NEW S, NEW s \in Seq(S), NEW e \in S
  PROVE  /\ Append(s, e) \in Seq(S) /\ Len(s) \in Nat /\ DOMAIN s = 1 .. Len(s)
         /\ Len(Append(s, e)) = Len(s) + 1 /\ DOMAIN Append(s, e) = 1 .. Len(s) + 1
         /\ Append(s, e)[Len(s) + 1] = e
         /\ \A i \in 1 .. Len(s) : Append(s, e)[i] = s[i]
OBVIOUS

\* One more price on the way to the client that has the socket.
LEMMA SendKeepsMessages ==
  ASSUME ServerTypes, ServerTypes', MessagesInv, Grown, SendPrice
  PROVE  MessagesInv'
<1> USE DEF MessagesInv
<1>0. PICK s : s = holder[clients[nextClient]]
  OBVIOUS
<1>1. /\ announced' = announced /\ prices' = prices /\ toServer' = toServer /\ number' = number
      /\ priceHistory' = priceHistory /\ hits' = hits /\ handler' = handler
      /\ misread' = misread
      /\ \/ s \in up /\ toClient' = [toClient EXCEPT ![s] = Append(@, announced)]
         \/ toClient' = toClient
  BY <1>0 DEF SendPrice, clientVars, judging
<1>2. /\ announced \in Ids /\ delivered \in [Conns -> [Ids -> Nat]] /\ up \subseteq Conns
      /\ \A c \in Conns, i \in Ids :
           delivered'[c][i] = IF c = s /\ c \in up /\ i = announced
                              THEN delivered[c][i] + 1 ELSE delivered[c][i]
  BY <1>0, SendFacts DEF ServerTypes
<1>3. CASE toClient' = toClient
  BY <1>1, <1>3, SameMessages
<1>4. CASE s \in up /\ toClient' = [toClient EXCEPT ![s] = Append(@, announced)]
  <2> DEFINE q == toClient[s]
             t == toClient'[s]
  <2>1. /\ s \in Conns /\ q \in Seq(Ids \cup {Piece}) /\ t = Append(q, announced)
        /\ \A c \in Conns : c # s => toClient'[c] = toClient[c]
    BY <1>2, <1>4 DEF MessageTypes
  <2>2. /\ t \in Seq(Ids \cup {Piece}) /\ Len(q) \in Nat /\ DOMAIN q = 1 .. Len(q)
        /\ DOMAIN t = 1 .. Len(q) + 1 /\ t[Len(q) + 1] = announced
        /\ \A k \in 1 .. Len(q) : t[k] = q[k]
    <3>1. announced \in Ids \cup {Piece}
      BY <1>2
    <3> HIDE DEF q, t
    <3> QED BY <2>1, <3>1, AppendFacts
  <2>3. MessageTypes'
    <3>1. toClient' \in [Conns -> Seq(Ids \cup {Piece})]
      BY <2>1, <2>2, <1>4 DEF MessageTypes
    <3> QED BY <3>1, <1>1 DEF MessageTypes, Messages, Conns, Ids, Piece
  <2>4. ClientInv(s)'
    <3>1. /\ \A k \in DOMAIN q : q[k] # Piece => q[k] \in 1 .. announced /\ delivered[s][q[k]] > 0
          /\ \A k, l \in DOMAIN q : k < l /\ q[k] # Piece /\ q[l] # Piece => q[k] <= q[l]
      BY <2>1 DEF ClientInv, Queued
    <3>2. announced \in Nat /\ announced > 0 /\ delivered'[s][announced] > 0
      <4>1. delivered[s][announced] \in Nat
        BY <1>2, <2>1
      <4>2. announced \in Nat /\ announced > 0
        BY <1>2 DEF Ids
      <4> QED BY <4>1, <4>2, <1>2, <1>4, <2>1
    <3>3. \A k \in DOMAIN q : q[k] # Piece => q[k] \in Ids
      <4>1. \A k \in DOMAIN q : q[k] \in Ids \cup {Piece}
        <5> HIDE DEF q
        <5> QED BY <2>1, SeqElement
      <4> QED BY <4>1
    <3> HIDE DEF q, t
    <3>4. \A k \in DOMAIN t : t[k] # Piece => t[k] \in 1 .. announced /\ delivered'[s][t[k]] > 0
      BY <2>1, <2>2, <3>1, <3>2, <3>3 DEF Grown
    <3>5. ASSUME NEW k \in DOMAIN t, NEW l \in DOMAIN t, k < l, t[k] # Piece, t[l] # Piece
          PROVE  t[k] <= t[l]
      <4>1. k \in 1 .. Len(q) /\ t[k] = q[k] /\ q[k] \in 1 .. announced
        BY <2>2, <3>1, <3>5
      <4>2. l = Len(q) + 1 \/ (l \in 1 .. Len(q) /\ t[l] = q[l])
        BY <2>2
      <4> QED BY <2>2, <3>1, <3>2, <3>5, <4>1, <4>2
    <3>6. Queued(s)'
      BY <3>4, <3>5, <1>1 DEF Queued, t, Piece
    <3>7. ASSUME s \notin misread PROVE Seen(s)'
      <4>1. Seen(s)
        BY <2>1, <3>7 DEF ClientInv
      <4>2. PICK f \in [DOMAIN priceHistory[s] -> Ids] :
              /\ \A k, l \in DOMAIN priceHistory[s] : k < l => f[k] <= f[l]
              /\ \A k \in DOMAIN priceHistory[s] :
                   /\ f[k] <= announced /\ delivered[s][f[k]] > 0
                   /\ prices[f[k]] = priceHistory[s][k]
                   /\ \A m \in DOMAIN q : q[m] # Piece => f[k] <= q[m]
        BY <4>1 DEF Seen, Before, q
      <4>3. ASSUME NEW k \in DOMAIN priceHistory[s]
            PROVE  delivered'[s][f[k]] > 0 /\ \A m \in DOMAIN t : t[m] # Piece => f[k] <= t[m]
        BY <2>1, <2>2, <4>2 DEF Grown
      <4> QED BY <4>2, <4>3, <1>1 DEF Seen, Before, Ids, t, Piece
    <3> QED BY <3>6, <3>7, <1>1 DEF ClientInv
  <2>5. ASSUME NEW c \in Conns PROVE ClientInv(c)' /\ NumbersInv(c)'
    <3>1. NumbersInv(c)'
      BY <1>1, NumbersStay
    <3>2. CASE c # s
      <4>1. ClientInv(c)'
        BY <1>1, <2>1, <3>2, ClientStays
      <4> QED BY <3>1, <4>1
    <3>3. CASE c = s
      BY <2>4, <3>1, <3>3
    <3> QED BY <3>2, <3>3
  <2>6. HitsInv'
    BY <1>1, HitsStay
  <2> QED BY <2>3, <2>5, <2>6 DEF Conns
<1> QED BY <1>1, <1>3, <1>4

LEMMA HeadFacts ==
  ASSUME NEW S, NEW s \in Seq(S), NEW n \in 1 .. Len(s)
  PROVE  Head(s) = s[1] /\ 1 \in DOMAIN s /\ s[1] \in S
OBVIOUS

\* The steps that take messages of clients up, with no word about a price
\* that was not on the way.
LEMMA NumbersTaken ==
  ASSUME ServerTypes, ServerTypes', MessagesInv, Grown,
         UNCHANGED <<toClient, priceHistory, hits>>,
         toServer' \in [Conns -> Seq(Messages)],
         number' \in [Conns -> Messages],
         \A c \in Conns : \A k \in DOMAIN toServer'[c] :
           \/ toServer'[c][k] \in {Name, Piece}
           \/ \E l \in DOMAIN toServer[c] : toServer'[c][k] = toServer[c][l],
         \A c \in Conns : handler'[c] = "judge" =>
           \/ handler[c] = "judge" /\ number'[c] = number[c]
           \/ number'[c] # Piece /\ \E l \in DOMAIN toServer[c] : number'[c] = toServer[c][l]
  PROVE  MessagesInv'
<1> USE DEF MessagesInv
<1>1. toClient' = toClient /\ priceHistory' = priceHistory /\ hits' = hits
  OBVIOUS
<1>2. MessageTypes'
  BY <1>1 DEF MessageTypes, Messages, Conns, Ids, Piece
<1>3. ASSUME NEW c \in Conns PROVE ClientInv(c)' /\ NumbersInv(c)'
  <2>1. ClientInv(c)'
    BY <1>1, ClientStays
  <2>2. NumbersInv(c)'
    BY NumbersStay
  <2> QED BY <2>1, <2>2
<1>4. HitsInv'
  BY <1>1, HitsStay
<1> QED BY <1>2, <1>3, <1>4 DEF Conns

LEMMA AcceptKeepsMessages ==
  ASSUME ServerTypes, ServerTypes', MessagesInv, Grown, Accept
  PROVE  MessagesInv'
<1> USE DEF MessagesInv
<1>0. PICK d : d = Len(clients) + 1
  OBVIOUS
<1>1. /\ toClient' = toClient /\ priceHistory' = priceHistory /\ hits' = hits
      /\ number' = number /\ handler' = handler /\ toServer' = [toServer EXCEPT ![d] = <<Name>>]
  BY <1>0 DEF Accept, judging
<1>2. d \in Conns
  BY <1>0 DEF Accept, ServerTypes, Conns
<1>3. <<Name>> \in Seq(Messages) /\ \A k \in DOMAIN <<Name>> : <<Name>>[k] = Name
  <2>1. Name \in Messages
    BY PriceServerAssumption DEF Name, Messages
  <2> QED BY <2>1
<1>4. /\ toServer' \in [Conns -> Seq(Messages)] /\ toServer'[d] = <<Name>>
      /\ \A c \in Conns : c # d => toServer'[c] = toServer[c]
  BY <1>1, <1>2, <1>3 DEF MessageTypes
<1>5. number' \in [Conns -> Messages]
  BY <1>1 DEF MessageTypes
<1>6. ASSUME NEW c \in Conns, NEW k \in DOMAIN toServer'[c]
      PROVE  \/ toServer'[c][k] \in {Name, Piece}
             \/ \E l \in DOMAIN toServer[c] : toServer'[c][k] = toServer[c][l]
  BY <1>3, <1>4
<1> QED BY <1>1, <1>4, <1>5, <1>6, NumbersTaken

\* A recv of the server.
LEMMA ReceiveKeepsMessages ==
  ASSUME ServerTypes, ServerTypes', MessagesInv, Grown, NEW d \in Conns,
         ReceiveName(d) \/ ReceiveOrder(d)
  PROVE  MessagesInv'
<1> USE DEF MessagesInv
<1>1. PICK n \in 0 .. Len(toServer[d]), cut \in BOOLEAN :
        /\ toServer' = [toServer EXCEPT ![d] = Unread(@, n, cut)]
        /\ \/ number' = number /\ handler' = [handler EXCEPT ![d] = "orders"]
           \/ /\ n = 1 /\ Head(toServer[d]) # Piece
              /\ number' = [number EXCEPT ![d] = Head(toServer[d])]
              /\ handler' = [handler EXCEPT ![d] = "judge"]
           \/ /\ \E i \in Ids \cup {NoPrice} : number' = [number EXCEPT ![d] = i]
              /\ handler' = [handler EXCEPT ![d] = "guess"]
  <2>1. CASE ReceiveName(d)
    BY <2>1 DEF ReceiveName, judging
  <2>2. CASE ReceiveOrder(d)
    BY <2>2 DEF ReceiveOrder, Read
  <2> QED BY <2>1, <2>2
<1>2. toClient' = toClient /\ priceHistory' = priceHistory /\ hits' = hits
  BY DEF ReceiveName, ReceiveOrder, clientVars, judging
<1>3. PICK q : q = toServer[d]
  OBVIOUS
<1>4. q \in Seq(Messages) /\ n \in 0 .. Len(q) /\ Piece \in Messages /\ Len(q) \in Nat
  BY <1>1, <1>3 DEF MessageTypes, Messages
<1>5. PICK t : t = Unread(q, n, cut)
  OBVIOUS
<1>6. /\ t \in Seq(Messages) /\ DOMAIN t = 1 .. Len(q) - n
      /\ \A i \in 1 .. Len(q) - n : n + i \in DOMAIN q /\ (t[i] = Piece \/ t[i] = q[n + i])
  <2>1. /\ Unread(q, n, cut) \in Seq(Messages) /\ DOMAIN Unread(q, n, cut) = 1 .. Len(q) - n
        /\ \A i \in 1 .. Len(q) - n :
             /\ n + i \in DOMAIN q
             /\ Unread(q, n, cut)[i] = Piece \/ Unread(q, n, cut)[i] = q[n + i]
    BY ONLY <1>4, UnreadFacts
  <2> QED BY <1>5, <2>1
<1>7. /\ toServer' \in [Conns -> Seq(Messages)] /\ toServer'[d] = t
      /\ \A c \in Conns : c # d => toServer'[c] = toServer[c]
  BY <1>1, <1>3, <1>5, <1>6 DEF MessageTypes
<1>8. ASSUME NEW c \in Conns, NEW k \in DOMAIN toServer'[c]
      PROVE  \/ toServer'[c][k] \in {Name, Piece}
             \/ \E l \in DOMAIN toServer[c] : toServer'[c][k] = toServer[c][l]
  <2>1. CASE c # d
    BY <1>7, <2>1
  <2>2. CASE c = d
    BY <1>3, <1>6, <1>7, <2>2
  <2> QED BY <2>1, <2>2
<1>9. number \in [Conns -> Messages] /\ handler \in [Conns -> {"none", "name", "orders", "judge", "guess", "done"}]
  BY DEF MessageTypes, ServerTypes
<1>10. /\ number' \in [Conns -> Messages]
       /\ \A c \in Conns : handler'[c] = "judge" =>
            \/ handler[c] = "judge" /\ number'[c] = number[c]
            \/ number'[c] # Piece /\ \E l \in DOMAIN toServer[c] : number'[c] = toServer[c][l]
  <2>1. CASE number' = number /\ handler' = [handler EXCEPT ![d] = "orders"]
    BY <1>9, <2>1
  <2>2. CASE /\ n = 1 /\ Head(toServer[d]) # Piece
             /\ number' = [number EXCEPT ![d] = Head(toServer[d])]
             /\ handler' = [handler EXCEPT ![d] = "judge"]
    <3>1. Head(q) = q[1] /\ 1 \in DOMAIN q /\ q[1] \in Messages
      <4>1. n \in 1 .. Len(q)
        BY <1>4, <2>2
      <4> QED BY ONLY <1>4, <4>1, HeadFacts
    <3>2. /\ number' \in [Conns -> Messages] /\ number'[d] = q[1] /\ q[1] # Piece
          /\ \A c \in Conns : c # d => number'[c] = number[c] /\ handler'[c] = handler[c]
      BY <1>3, <1>9, <2>2, <3>1
    <3> QED BY <1>3, <3>1, <3>2
  <2>3. CASE /\ \E i \in Ids \cup {NoPrice} : number' = [number EXCEPT ![d] = i]
             /\ handler' = [handler EXCEPT ![d] = "guess"]
    <3>1. PICK i \in Ids \cup {NoPrice} : number' = [number EXCEPT ![d] = i]
      BY <2>3
    <3>2. i \in Messages
      BY PriceServerAssumption DEF Ids, NoPrice, Messages
    <3> QED BY <1>9, <2>3, <3>1, <3>2
  <2> QED BY <1>1, <2>1, <2>2, <2>3
<1> QED BY <1>2, <1>7, <1>8, <1>10, NumbersTaken

\* A hit: the price is stamped, nobody had it, and it is backed if its number
\* was read whole.
LEMMA JudgeKeepsMessages ==
  ASSUME ServerTypes, ServerTypes', MessagesInv, Grown, NEW d \in Conns, Judge(d)
  PROVE  MessagesInv'
<1> USE DEF MessagesInv
<1>0. PICK i, w : i = number[d] /\ w = handler[d]
  OBVIOUS
<1>1. /\ toClient' = toClient /\ priceHistory' = priceHistory /\ toServer' = toServer
      /\ number' = [number EXCEPT ![d] = NoPrice]
      /\ handler' = [handler EXCEPT ![d] = "orders"]
      /\ w \in {"judge", "guess"} /\ prices' = prices /\ misread' = misread
      /\ \/ hits' = hits
         \/ /\ ~AlreadyHit(i) /\ i \in DOMAIN prices
            /\ hits' = hits \cup {[client |-> d, price |-> i, read |-> w]}
  BY <1>0 DEF Judge, clientVars
<1>2. /\ number' \in [Conns -> Messages]
      /\ \A c \in Conns : handler'[c] = "judge" => handler[c] = "judge" /\ number'[c] = number[c]
  <2>1. NoPrice \in Messages
    BY PriceServerAssumption DEF NoPrice, Messages
  <2>2. number \in [Conns -> Messages]
    BY DEF MessageTypes
  <2>3. handler \in [Conns -> {"none", "name", "orders", "judge", "guess", "done"}]
    BY DEF ServerTypes
  <2> QED BY <1>1, <2>1, <2>2, <2>3
<1>3. DOMAIN prices \subseteq Ids
  <2>1. prices \in Seq(Values) /\ Len(prices) <= MaxPrices /\ MaxPrices \in Nat
    BY PriceServerAssumption DEF ServerTypes
  <2> QED BY ONLY <2>1 DEF Ids
<1>4. hits' \subseteq [client : Conns, price : Ids, read : {"judge", "guess"}]
  <2>1. hits \subseteq [client : Conns, price : Ids, read : {"judge", "guess"}]
    BY DEF MessageTypes
  <2> QED BY <1>1, <1>3, <2>1
<1>5. MessageTypes'
  BY <1>1, <1>2, <1>4 DEF MessageTypes, Messages, Conns, Ids, Piece
<1>6. ASSUME NEW c \in Conns PROVE ClientInv(c)' /\ NumbersInv(c)'
  <2>1. ClientInv(c)'
    BY <1>1, ClientStays
  <2>2. NumbersInv(c)'
    BY <1>1, <1>2, NumbersStay
  <2> QED BY <2>1, <2>2
<1>7. HitsInv'
  <2>1. CASE hits' = hits
    BY <2>1, HitsStay
  <2>2. CASE /\ ~AlreadyHit(i) /\ i \in DOMAIN prices
             /\ hits' = hits \cup {[client |-> d, price |-> i, read |-> w]}
    <3>1. \A h \in hits : h.read = "judge" /\ h.client \notin misread =>
                         h.price \in Justified(h.client)'
      <4>1. \A h \in hits : h.client \in Conns
        BY DEF MessageTypes
      <4> QED BY <4>1, BackedStays DEF HitsInv
    <3>2. w = "judge" /\ d \notin misread => i \in Justified(d)'
      BY <1>0, BackedStays DEF NumbersInv
    <3>3. \A h \in hits' : h.read = "judge" /\ h.client \notin misread =>
                          h.price \in Justified(h.client)'
      BY <2>2, <3>1, <3>2
    <3>4. \A g, h \in hits' : g.price = h.price => g = h
      BY <2>2 DEF HitsInv, AlreadyHit
    <3>5. \A h \in hits' : h.price \in DOMAIN prices
      BY <2>2 DEF HitsInv
    <3> QED BY <1>1, <3>3, <3>4, <3>5 DEF HitsInv
  <2> QED BY <1>1, <2>1, <2>2
<1> QED BY <1>5, <1>6, <1>7 DEF Conns

LEMMA LastValues ==
  ASSUME NEW s \in Seq(Values), Len(s) <= Trend
  PROVE  LET b == IF Len(s) = Trend THEN Tail(s) ELSE s
         IN  /\ b \in Seq(Values) /\ Len(b) \in Nat /\ Len(b) + 1 <= Trend
             /\ \E off \in {0, 1} : /\ Len(b) = Len(s) - off
                                    /\ \A k \in 1 .. Len(b) : b[k] = s[k + off]
<1> DEFINE b == IF Len(s) = Trend THEN Tail(s) ELSE s
<1>0. Trend \in Nat \ {0} /\ Len(s) \in Nat
  BY PriceServerAssumption
<1>1. CASE Len(s) = Trend
  <2>1. b = Tail(s) /\ s # <<>>
    BY <1>0, <1>1
  <2>2. Tail(s) \in Seq(Values) /\ Len(Tail(s)) = Len(s) - 1
        /\ \A k \in 1 .. Len(s) - 1 : Tail(s)[k] = s[k + 1]
    BY <1>0, <2>1
  <2> HIDE DEF b
  <2>3. /\ b \in Seq(Values) /\ Len(b) \in Nat /\ Len(b) + 1 <= Trend
        /\ Len(b) = Len(s) - 1 /\ \A k \in 1 .. Len(b) : b[k] = s[k + 1]
    BY <1>0, <1>1, <2>1, <2>2
  <2> QED BY <2>3 DEF b
<1>2. CASE Len(s) # Trend
  <2>1. b = s
    BY <1>2
  <2> HIDE DEF b
  <2>2. /\ b \in Seq(Values) /\ Len(b) \in Nat /\ Len(b) + 1 <= Trend
        /\ Len(b) = Len(s) - 0 /\ \A k \in 1 .. Len(b) : b[k] = s[k + 0]
    BY <1>0, <1>2, <2>1
  <2> QED BY <2>2 DEF b
<1> QED BY <1>1, <1>2

\* The values h are those of prices that were sent to client d, the last of
\* them the first that is on the way.
Retraced(d, h) ==
  \E g \in [1 .. Len(h) -> Ids] :
    /\ g[Len(h)] = Head(toClient[d])
    /\ \A k, l \in 1 .. Len(h) : k < l => g[k] <= g[l]
    /\ \A k \in 1 .. Len(h) :
         /\ g[k] <= announced /\ delivered[d][g[k]] > 0 /\ prices[g[k]] = h[k]
         /\ Before(d, g[k])

\* So is the history when that price has been received.
LEMMA HistoryGrows ==
  ASSUME ServerTypes, MessageTypes, NEW d \in Conns, Queued(d), Seen(d),
         NEW n \in 1 .. Len(toClient[d]), Head(toClient[d]) # Piece, NEW h,
         h = Append(IF Len(priceHistory[d]) = Trend THEN Tail(priceHistory[d])
                    ELSE priceHistory[d], prices[Head(toClient[d])])
  PROVE  /\ h \in Seq(Values) /\ Len(h) \in 1 .. Trend /\ Head(toClient[d]) \in Ids
         /\ Retraced(d, h)
<1>0. PICK q, s : q = toClient[d] /\ s = priceHistory[d]
  OBVIOUS
<1>1. PICK b : b = IF Len(s) = Trend THEN Tail(s) ELSE s
  OBVIOUS
<1>2. q \in Seq(Ids \cup {Piece}) /\ n \in 1 .. Len(q) /\ s \in Seq(Values) /\ Len(s) <= Trend
  BY <1>0 DEF MessageTypes
<1>3. Head(q) = q[1] /\ 1 \in DOMAIN q /\ q[1] \in Ids
  <2>1. Head(q) = q[1] /\ 1 \in DOMAIN q /\ q[1] \in Ids \cup {Piece}
    BY ONLY <1>2, HeadFacts
  <2> QED BY <1>0, <2>1
<1>4. PICK i : i = q[1]
  OBVIOUS
<1>5. /\ \A k \in DOMAIN q : q[k] # Piece => i <= q[k]
      /\ i \in Ids /\ i \in DOMAIN prices /\ i \in Nat /\ i <= announced /\ delivered[d][i] > 0
  <2>0. i # Piece /\ i = q[1] /\ 1 \in DOMAIN q /\ i \in Ids
    BY <1>0, <1>3, <1>4
  <2>1. /\ \A k \in DOMAIN q : q[k] # Piece => q[k] \in 1 .. announced /\ delivered[d][q[k]] > 0
        /\ \A k, l \in DOMAIN q : k < l /\ q[k] # Piece /\ q[l] # Piece => q[k] <= q[l]
    BY <1>0 DEF Queued
  <2>2. DOMAIN q = 1 .. Len(q) /\ Len(q) \in Nat
    BY <1>2
  <2>3. announced \in Nat /\ announced <= Len(prices) /\ DOMAIN prices = 1 .. Len(prices)
        /\ Len(prices) \in Nat
    BY DEF ServerTypes
  <2>4. i \in 1 .. announced /\ delivered[d][i] > 0
    BY <2>0, <2>1
  <2>5. ASSUME NEW k \in DOMAIN q, q[k] # Piece PROVE i <= q[k]
    <3>1. k = 1 \/ 1 < k
      BY <2>2
    <3>2. CASE k = 1
      BY <2>0, <2>4, <3>2
    <3>3. CASE 1 < k
      BY <2>0, <2>1, <2>5, <3>3
    <3> QED BY <3>1, <3>2, <3>3
  <2> QED BY <2>0, <2>3, <2>4, <2>5
<1>6. prices[i] \in Values
  <2>1. prices \in Seq(Values)
    BY DEF ServerTypes
  <2> QED BY <1>5, <2>1, SeqElement
<1>7. /\ b \in Seq(Values) /\ Len(b) \in Nat /\ Len(b) + 1 <= Trend
      /\ \E off \in {0, 1} : /\ Len(b) = Len(s) - off
                             /\ \A k \in 1 .. Len(b) : b[k] = s[k + off]
  BY ONLY <1>1, <1>2, LastValues
<1>8. PICK off \in {0, 1} : Len(b) = Len(s) - off /\ \A k \in 1 .. Len(b) : b[k] = s[k + off]
  BY <1>7
<1>9. h = Append(b, prices[i])
  BY <1>0, <1>1, <1>3, <1>4
<1>10. /\ h \in Seq(Values) /\ Len(h) = Len(b) + 1 /\ h[Len(b) + 1] = prices[i]
       /\ \A k \in 1 .. Len(b) : h[k] = b[k]
  <2>1. /\ Append(b, prices[i]) \in Seq(Values) /\ Len(b) \in Nat /\ DOMAIN b = 1 .. Len(b)
        /\ Len(Append(b, prices[i])) = Len(b) + 1
        /\ DOMAIN Append(b, prices[i]) = 1 .. Len(b) + 1
        /\ Append(b, prices[i])[Len(b) + 1] = prices[i]
        /\ \A k \in 1 .. Len(b) : Append(b, prices[i])[k] = b[k]
    <3>1. b \in Seq(Values)
      BY <1>7
    <3> QED BY <1>6, <3>1, AppendFacts
  <2> QED BY <1>9, <2>1
<1>11. PICK f \in [DOMAIN s -> Ids] :
         /\ \A k, l \in DOMAIN s : k < l => f[k] <= f[l]
         /\ \A k \in DOMAIN s :
              /\ f[k] <= announced /\ delivered[d][f[k]] > 0 /\ prices[f[k]] = s[k]
              /\ \A m \in DOMAIN q : q[m] # Piece => f[k] <= q[m]
  BY <1>0 DEF Seen, Before
<1> DEFINE m == Len(b) + 1
           g == [k \in 1 .. m |-> IF k < m THEN f[k + off] ELSE i]
<1>12. DOMAIN s = 1 .. Len(s) /\ Len(s) \in Nat
  BY <1>2
<1>13. \A k \in 1 .. m : k < m => k \in 1 .. Len(b) /\ k + off \in DOMAIN s
  BY <1>7, <1>8, <1>12
<1>14. ASSUME NEW k \in 1 .. m
       PROVE  \/ k < m /\ g[k] = f[k + off]
              \/ k = m /\ g[k] = i
  <2>1. k < m \/ (k = m /\ ~(k < m))
    <3>1. Len(b) \in Nat /\ k \in 1 .. Len(b) + 1
      BY <1>7
    <3> QED BY ONLY <3>1
  <2> HIDE DEF m
  <2>2. g[k] = IF k < m THEN f[k + off] ELSE i
    OBVIOUS
  <2> QED BY <2>1, <2>2
<1>15. g \in [1 .. m -> Ids] /\ g[m] = i /\ m \in Nat /\ m \in 1 .. Trend
  <2>1. \A k \in 1 .. m : g[k] \in Ids
    BY <1>5, <1>11, <1>13, <1>14
  <2>2. g[m] = i /\ m \in Nat /\ m \in 1 .. Trend
    BY <1>7, PriceServerAssumption
  <2> QED BY <2>1, <2>2
<1> HIDE DEF g
<1>16. ASSUME NEW k \in 1 .. m
       PROVE  /\ g[k] <= announced /\ delivered[d][g[k]] > 0 /\ prices[g[k]] = h[k]
              /\ \A x \in DOMAIN q : q[x] # Piece => g[k] <= q[x]
  <2>1. CASE k < m
    <3>1. k \in 1 .. Len(b) /\ k + off \in DOMAIN s /\ g[k] = f[k + off]
      BY <1>13, <1>14, <2>1
    <3>2. h[k] = s[k + off]
      BY <1>8, <1>10, <3>1
    <3>3. /\ f[k + off] <= announced /\ delivered[d][f[k + off]] > 0
          /\ prices[f[k + off]] = s[k + off] /\ \A x \in DOMAIN q : q[x] # Piece => f[k + off] <= q[x]
      BY <1>11, <3>1
    <3> QED BY <3>1, <3>2, <3>3
  <2>2. CASE k = m
    <3>1. g[k] = i /\ h[k] = prices[i]
      BY <1>10, <1>15, <2>2
    <3>2. delivered[d][i] > 0 /\ \A x \in DOMAIN q : q[x] # Piece => i <= q[x]
      BY <1>3, <1>4, <1>5
    <3> QED BY <1>5, <3>1, <3>2
  <2> QED BY <1>14, <2>1, <2>2
<1>17. ASSUME NEW k \in 1 .. m, NEW l \in 1 .. m, k < l PROVE g[k] <= g[l]
  <2>1. k < m /\ g[k] = f[k + off] /\ k + off \in DOMAIN s
    BY <1>13, <1>14, <1>15, <1>17
  <2>2. CASE l < m
    <3>1. g[l] = f[l + off] /\ l + off \in DOMAIN s /\ k + off < l + off
      BY <1>13, <1>14, <1>17, <2>2
    <3> QED BY <1>11, <2>1, <3>1
  <2>3. CASE l = m
    <3>1. g[l] = i /\ q[1] # Piece
      BY <1>0, <1>3, <1>15, <2>3
    <3> QED BY <1>3, <1>4, <1>11, <2>1, <3>1
  <2> QED BY <1>14, <2>2, <2>3
<1>18. Len(h) = m
  BY <1>10
<1> HIDE DEF m
<1>19. h \in Seq(Values) /\ Len(h) \in 1 .. Trend /\ Head(q) \in Ids
  BY <1>3, <1>10, <1>15, <1>18
<1>20. /\ g \in [1 .. Len(h) -> Ids] /\ g[Len(h)] = Head(q)
       /\ \A k, l \in 1 .. Len(h) : k < l => g[k] <= g[l]
       /\ \A k \in 1 .. Len(h) :
            /\ g[k] <= announced /\ delivered[d][g[k]] > 0 /\ prices[g[k]] = h[k]
            /\ \A x \in DOMAIN q : q[x] # Piece => g[k] <= q[x]
  <2>1. g \in [1 .. Len(h) -> Ids] /\ g[Len(h)] = Head(q)
    BY <1>3, <1>4, <1>15, <1>18
  <2> QED BY <2>1, <1>16, <1>17, <1>18
<1>21. Retraced(d, h)
  <2>1. q = toClient[d]
    BY <1>0
  <2> QED BY ONLY <2>1, <1>20 DEF Retraced, Before
<1> QED BY <1>0, <1>19, <1>21

\* With a momentum at its end, that price is backed.
LEMMA MomentumBacks ==
  ASSUME ServerTypes, NEW d \in Conns, NEW h \in Seq(Values), Momentum(h), NEW i \in Ids,
         NEW g \in [1 .. Len(h) -> Ids], g[Len(h)] = i,
         \A k, l \in 1 .. Len(h) : k < l => g[k] <= g[l],
         \A k \in 1 .. Len(h) :
           g[k] <= announced /\ delivered[d][g[k]] > 0 /\ prices[g[k]] = h[k]
  PROVE  i \in Justified(d)
<1>1. /\ Len(h) = Trend
      /\ \/ \A k, l \in 1 .. Trend : k < l => h[k] < h[l]
         \/ \A k, l \in 1 .. Trend : k < l => h[k] > h[l]
  BY MomentumThroughout
<1>2. \A k \in 1 .. Trend : h[k] \in Int
  <2>1. \A k \in DOMAIN h : h[k] \in Values
    BY SeqElement
  <2>2. DOMAIN h = 1 .. Trend
    BY <1>1
  <2> QED BY <2>1, <2>2, PriceServerAssumption
<1>3. \A k \in 1 .. Trend : /\ g[k] \in Ids /\ g[k] \in Nat /\ g[k] \in DOMAIN prices
                           /\ delivered[d][g[k]] > 0 /\ prices[g[k]] = h[k]
  <2>1. announced \in Nat /\ announced <= Len(prices) /\ DOMAIN prices = 1 .. Len(prices)
        /\ Len(prices) \in Nat
    BY DEF ServerTypes
  <2> QED BY <1>1, <2>1 DEF Ids
<1>4. ASSUME NEW k \in 1 .. Trend, NEW l \in 1 .. Trend, k < l PROVE g[k] < g[l]
  <2>1. h[k] # h[l]
    BY <1>1, <1>2, <1>4
  <2>2. g[k] # g[l]
    BY <1>3, <2>1
  <2>3. g[k] <= g[l]
    BY <1>1, <1>4
  <2> QED BY <1>3, <2>2, <2>3
<1>5. \/ \A k, l \in 1 .. Trend : k < l => prices[g[k]] < prices[g[l]]
      \/ \A k, l \in 1 .. Trend : k < l => prices[g[k]] > prices[g[l]]
  BY <1>1, <1>3
<1>6. g \in [1 .. Trend -> Ids] /\ g[Trend] = i
  BY <1>1
<1>7. Backed(d, i)
  BY <1>3, <1>4, <1>5, <1>6 DEF Backed
<1> QED BY <1>7 DEF Justified

\* What recv leaves of a queue is a queue.
LEMMA QueueShrinks ==
  ASSUME ServerTypes, MessageTypes, NEW d \in Conns, Queued(d),
         NEW n \in 0 .. Len(toClient[d]), NEW cut,
         toClient' = [toClient EXCEPT ![d] = Unread(@, n, cut)],
         announced' = announced, delivered' = delivered
  PROVE  /\ toClient' \in [Conns -> Seq(Ids \cup {Piece})]
         /\ \A c \in Conns : c # d => toClient'[c] = toClient[c]
         /\ Queued(d)' /\ \A i \in Ids : Before(d, i) => Before(d, i)'
<1>0. PICK q, t : q = toClient[d] /\ t = Unread(q, n, cut)
  OBVIOUS
<1>1. q \in Seq(Ids \cup {Piece}) /\ n \in 0 .. Len(q) /\ Piece \in Ids \cup {Piece}
  BY <1>0 DEF MessageTypes
<1>2. /\ t \in Seq(Ids \cup {Piece}) /\ DOMAIN t = 1 .. Len(q) - n /\ Len(q) \in Nat
      /\ \A k \in 1 .. Len(q) - n : n + k \in DOMAIN q /\ (t[k] = Piece \/ t[k] = q[n + k])
  <2>1. /\ Unread(q, n, cut) \in Seq(Ids \cup {Piece})
        /\ DOMAIN Unread(q, n, cut) = 1 .. Len(q) - n
        /\ \A i \in 1 .. Len(q) - n :
             /\ n + i \in DOMAIN q
             /\ Unread(q, n, cut)[i] = Piece \/ Unread(q, n, cut)[i] = q[n + i]
    BY ONLY <1>1, UnreadFacts
  <2> QED BY <1>0, <1>1, <2>1
<1>3. /\ toClient' \in [Conns -> Seq(Ids \cup {Piece})] /\ toClient'[d] = t
      /\ \A c \in Conns : c # d => toClient'[c] = toClient[c]
  BY <1>0, <1>2 DEF MessageTypes
<1>4. Queued(d)'
  <2>1. /\ \A k \in DOMAIN q : q[k] # Piece => q[k] \in 1 .. announced /\ delivered[d][q[k]] > 0
        /\ \A k, l \in DOMAIN q : k < l /\ q[k] # Piece /\ q[l] # Piece => q[k] <= q[l]
    BY <1>0 DEF Queued
  <2>2. \A k \in DOMAIN t : t[k] # Piece => t[k] \in 1 .. announced /\ delivered[d][t[k]] > 0
    BY <1>2, <2>1
  <2>3. ASSUME NEW k \in DOMAIN t, NEW l \in DOMAIN t, k < l, t[k] # Piece, t[l] # Piece
        PROVE  t[k] <= t[l]
    <3>1. n + k \in DOMAIN q /\ n + l \in DOMAIN q /\ t[k] = q[n + k] /\ t[l] = q[n + l]
      BY <1>2, <2>3
    <3>2. n + k < n + l
      <4>1. k \in Int /\ l \in Int /\ n \in Int
        BY <1>1, <1>2, <2>3
      <4> QED BY <2>3, <4>1
    <3> QED BY <2>1, <2>3, <3>1, <3>2
  <2> QED BY <1>3, <2>2, <2>3 DEF Queued, Piece
<1>5. ASSUME NEW i \in Ids, Before(d, i) PROVE Before(d, i)'
  <2>1. \A m \in DOMAIN q : q[m] # Piece => i <= q[m]
    BY <1>0, <1>5 DEF Before
  <2>2. \A m \in DOMAIN t : t[m] # Piece => i <= t[m]
    BY <1>2, <2>1
  <2> QED BY <1>3, <2>2 DEF Before, Piece
<1> QED BY <1>3, <1>4, <1>5

\* What a client makes of a value: its last values, and perhaps an order.
Responded(d, i, h) ==
  /\ h \in Seq(Values) /\ Len(h) \in 1 .. Trend
  /\ priceHistory' \in [Conns -> Seq(Values)] /\ priceHistory'[d] = h
  /\ \A c \in Conns : c # d => /\ priceHistory'[c] = priceHistory[c]
                               /\ toServer'[c] = toServer[c]
  /\ toServer' \in [Conns -> Seq(Messages)]
  /\ \A k \in DOMAIN toServer'[d] :
       \/ \E l \in DOMAIN toServer[d] : toServer'[d][k] = toServer[d][l]
       \/ toServer'[d][k] = i /\ Momentum(h)

LEMMA RespondFacts ==
  ASSUME MessageTypes, NEW d \in Conns, NEW i \in 0 .. MaxPrices, NEW v \in Values,
         Respond(d, i, v),
         NEW h, h = Append(IF Len(priceHistory[d]) = Trend THEN Tail(priceHistory[d])
                           ELSE priceHistory[d], v)
  PROVE  Responded(d, i, h)
<1>0. PICK s, u : s = priceHistory[d] /\ u = toServer[d]
  OBVIOUS
<1>1. PICK b : b = IF Len(s) = Trend THEN Tail(s) ELSE s
  OBVIOUS
<1>2. s \in Seq(Values) /\ Len(s) <= Trend /\ u \in Seq(Messages) /\ i \in Messages
  BY <1>0 DEF MessageTypes, Messages
<1>3. b \in Seq(Values) /\ Len(b) \in Nat /\ Len(b) + 1 <= Trend
  BY ONLY <1>1, <1>2, LastValues
<1>4. h = Append(b, v)
  BY <1>0, <1>1
<1>5. h \in Seq(Values) /\ Len(h) = Len(b) + 1
  <2>1. /\ Append(b, v) \in Seq(Values) /\ Len(b) \in Nat /\ DOMAIN b = 1 .. Len(b)
        /\ Len(Append(b, v)) = Len(b) + 1 /\ DOMAIN Append(b, v) = 1 .. Len(b) + 1
        /\ Append(b, v)[Len(b) + 1] = v
        /\ \A k \in 1 .. Len(b) : Append(b, v)[k] = b[k]
    <3>1. b \in Seq(Values) /\ v \in Values
      BY <1>3
    <3> QED BY ONLY <3>1, AppendFacts
  <2> QED BY <1>4, <2>1
<1>6. Len(h) \in 1 .. Trend
  BY <1>3, <1>5, PriceServerAssumption
<1>7. /\ priceHistory' = [priceHistory EXCEPT ![d] = h]
      /\ toServer' = IF Momentum(h) THEN [toServer EXCEPT ![d] = Append(@, i)] ELSE toServer
  BY DEF Respond
<1>8. /\ priceHistory' \in [Conns -> Seq(Values)] /\ priceHistory'[d] = h
      /\ \A c \in Conns : c # d => priceHistory'[c] = priceHistory[c]
  BY <1>5, <1>7 DEF MessageTypes
<1>9. toServer \in [Conns -> Seq(Messages)]
  BY DEF MessageTypes
<1>10. CASE ~Momentum(h)
  <2>1. toServer' = toServer
    BY <1>7, <1>10
  <2> QED BY <1>5, <1>6, <1>8, <1>9, <2>1 DEF Responded
<1>11. CASE Momentum(h)
  <2>1. /\ Append(u, i) \in Seq(Messages) /\ Len(u) \in Nat /\ DOMAIN u = 1 .. Len(u)
        /\ Len(Append(u, i)) = Len(u) + 1 /\ DOMAIN Append(u, i) = 1 .. Len(u) + 1
        /\ Append(u, i)[Len(u) + 1] = i
        /\ \A k \in 1 .. Len(u) : Append(u, i)[k] = u[k]
    BY ONLY <1>2, AppendFacts
  <2>2. /\ toServer' \in [Conns -> Seq(Messages)] /\ toServer'[d] = Append(u, i)
        /\ \A c \in Conns : c # d => toServer'[c] = toServer[c]
    BY <1>0, <1>7, <1>9, <1>11, <2>1
  <2>3. ASSUME NEW k \in DOMAIN toServer'[d]
        PROVE  \/ \E l \in DOMAIN u : toServer'[d][k] = u[l]
               \/ toServer'[d][k] = i
    <3>1. k \in 1 .. Len(u) \/ k = Len(u) + 1
      BY <2>1, <2>2
    <3> QED BY <2>1, <2>2, <3>1
  <2> QED BY <1>0, <1>5, <1>6, <1>8, <1>11, <2>2, <2>3 DEF Responded
<1> QED BY <1>10, <1>11

LEMMA PriceKeepsMessages ==
  ASSUME ServerTypes, ServerTypes', MessagesInv, Grown, NEW d \in Conns, ReceivePrice(d)
  PROVE  MessagesInv'
<1> USE DEF MessagesInv
<1>1. PICK n \in 0 .. Len(toClient[d]), cut \in BOOLEAN :
        /\ Read(toClient[d], n, cut)
        /\ toClient' = [toClient EXCEPT ![d] = Unread(@, n, cut)]
        /\ IF n > 0 /\ Head(toClient[d]) # Piece
           THEN Respond(d, Head(toClient[d]), prices[Head(toClient[d])]) /\ UNCHANGED misread
           ELSE \/ UNCHANGED <<priceHistory, toServer, misread>>
                \/ /\ \E i \in Ids \cup {NoPrice}, v \in Values : Respond(d, i, v)
                   /\ misread' = misread \cup {d}
  BY DEF ReceivePrice
<1>2. /\ announced' = announced /\ prices' = prices /\ delivered' = delivered
      /\ number' = number /\ hits' = hits /\ handler' = handler
  BY DEF ReceivePrice, judging
<1>3. Queued(d) /\ MessageTypes
  BY DEF ClientInv
<1>4. /\ toClient' \in [Conns -> Seq(Ids \cup {Piece})]
      /\ \A c \in Conns : c # d => toClient'[c] = toClient[c]
      /\ Queued(d)' /\ \A i \in Ids : Before(d, i) => Before(d, i)'
  <2>1. toClient' = [toClient EXCEPT ![d] = Unread(@, n, cut)]
    BY <1>1
  <2>2. ServerTypes /\ n \in 0 .. Len(toClient[d])
    BY <1>1
  <2> QED BY ONLY <1>2, <1>3, <2>1, <2>2, QueueShrinks
<1>5. HitsInv'
  BY <1>2, HitsStay
\* Enough for a history that is typed, and backs the order if nothing was misread.
<1>6. ASSUME priceHistory' \in [Conns -> Seq(Values)], toServer' \in [Conns -> Seq(Messages)],
             Len(priceHistory'[d]) <= Trend,
             \A c \in Conns : c # d => /\ priceHistory'[c] = priceHistory[c]
                                      /\ toServer'[c] = toServer[c],
             d \notin misread' => Seen(d)' /\ NumbersInv(d)'
      PROVE  MessagesInv'
  <2>1. \A c \in Conns : Len(priceHistory'[c]) <= Trend
    <3>1. \A c \in Conns : Len(priceHistory[c]) <= Trend
      BY DEF MessageTypes
    <3> QED BY <1>6, <3>1
  <2>2. number \in [Conns -> Messages]
        /\ hits \subseteq [client : Conns, price : Ids, read : {"judge", "guess"}]
    BY DEF MessageTypes
  <2>3. MessageTypes'
    BY <1>2, <1>4, <1>6, <2>1, <2>2 DEF MessageTypes, Messages, Conns, Ids, Piece
  <2>4. ASSUME NEW c \in Conns PROVE ClientInv(c)' /\ NumbersInv(c)'
    <3>1. CASE c # d
      <4>1. ClientInv(c)'
        BY <1>4, <1>6, <3>1, ClientStays
      <4>2. NumbersInv(c)'
        BY <1>2, <1>6, <3>1, NumbersStay
      <4> QED BY <4>1, <4>2
    <3>2. CASE c = d
      <4>1. ClientInv(d)'
        BY <1>4, <1>6 DEF ClientInv
      <4>2. NumbersInv(d)'
        BY <1>6 DEF NumbersInv
      <4> QED BY <3>2, <4>1, <4>2
    <3> QED BY <3>1, <3>2
  <2> QED BY <1>5, <2>3, <2>4 DEF Conns
<1>7. CASE n > 0 /\ Head(toClient[d]) # Piece
  <2>1. PICK q, i : q = toClient[d] /\ i = Head(q)
    OBVIOUS
  <2>2. PICK h : h = Append(IF Len(priceHistory[d]) = Trend THEN Tail(priceHistory[d])
                            ELSE priceHistory[d], prices[Head(toClient[d])])
    OBVIOUS
  <2>3. n \in 1 .. Len(q) /\ q \in Seq(Ids \cup {Piece})
    <3>1. q \in Seq(Ids \cup {Piece})
      BY <2>1, <1>3 DEF MessageTypes
    <3> QED BY <1>1, <1>7, <2>1, <3>1
  <2>4. i \in Ids /\ i \in 0 .. MaxPrices /\ prices[i] \in Values
    <3>1. Head(q) = q[1] /\ 1 \in DOMAIN q /\ q[1] \in Ids \cup {Piece}
      BY ONLY <2>3, HeadFacts
    <3>2. i = q[1] /\ i # Piece
      BY <1>7, <2>1, <3>1
    <3>3. i \in 1 .. announced /\ i \in Ids
      BY <1>3, <2>1, <3>1, <3>2 DEF Queued
    <3>4. i \in DOMAIN prices /\ prices \in Seq(Values)
      <4>1. prices \in Seq(Values) /\ announced \in 0 .. Len(prices)
        BY DEF ServerTypes
      <4> QED BY ONLY <3>3, <4>1
    <3> QED BY <3>3, <3>4, SeqElement DEF Ids
  <2>5. Respond(d, i, prices[i]) /\ misread' = misread
    BY <1>1, <1>7, <2>1
  <2>6. h = Append(IF Len(priceHistory[d]) = Trend THEN Tail(priceHistory[d])
                   ELSE priceHistory[d], prices[i])
    BY <2>1, <2>2
  <2>7. /\ h \in Seq(Values) /\ Len(h) \in 1 .. Trend
        /\ priceHistory' \in [Conns -> Seq(Values)] /\ priceHistory'[d] = h
        /\ \A c \in Conns : c # d => /\ priceHistory'[c] = priceHistory[c]
                                     /\ toServer'[c] = toServer[c]
        /\ toServer' \in [Conns -> Seq(Messages)]
        /\ \A k \in DOMAIN toServer'[d] :
             \/ \E l \in DOMAIN toServer[d] : toServer'[d][k] = toServer[d][l]
             \/ toServer'[d][k] = i /\ Momentum(h)
    <3>1. Responded(d, i, h)
      BY ONLY <1>3, <2>4, <2>5, <2>6, RespondFacts
    <3> QED BY <3>1 DEF Responded
  <2>8. ASSUME d \notin misread' PROVE Seen(d)' /\ NumbersInv(d)'
    <3>1. Seen(d) /\ NumbersInv(d) /\ d \notin misread
      BY <2>5, <2>8 DEF ClientInv
    <3>2. Retraced(d, h)
      <4>1. n \in 1 .. Len(toClient[d]) /\ Head(toClient[d]) # Piece /\ ServerTypes
        BY <1>7, <2>1, <2>3
      <4> QED BY ONLY <1>3, <2>2, <3>1, <4>1, HistoryGrows
    <3>3. PICK g \in [1 .. Len(h) -> Ids] :
            /\ g[Len(h)] = i
            /\ \A k, l \in 1 .. Len(h) : k < l => g[k] <= g[l]
            /\ \A k \in 1 .. Len(h) :
                 /\ g[k] <= announced /\ delivered[d][g[k]] > 0 /\ prices[g[k]] = h[k]
                 /\ Before(d, g[k])
      BY <2>1, <3>2 DEF Retraced
    <3>4. Seen(d)'
      <4>1. DOMAIN h = 1 .. Len(h)
        BY <2>7
      <4>2. priceHistory'[d] = h /\ Ids' = Ids /\ g \in [DOMAIN h -> Ids]
        BY <2>7, <3>3, <4>1 DEF Ids
      <4>3. ASSUME NEW k \in DOMAIN h PROVE Before(d, g[k])'
        <5>1. PICK j \in Ids : j = g[k]
          BY <3>3, <4>1
        <5>2. Before(d, j)'
          BY <1>4, <3>3, <4>1, <5>1
        <5> QED BY <5>1, <5>2 DEF Before
      <4>4. \A k, l \in DOMAIN h : k < l => g[k] <= g[l]
        BY <3>3, <4>1
      <4>5. \A k \in DOMAIN h :
              g[k] <= announced' /\ delivered'[d][g[k]] > 0 /\ prices'[g[k]] = h[k]
        BY <1>2, <3>3, <4>1
      <4> QED BY ONLY <4>2, <4>3, <4>4, <4>5 DEF Seen
    <3>5. NumbersInv(d)'
      <4>1. Momentum(h) => i \in Justified(d)
        <5>1. ASSUME Momentum(h) PROVE i \in Justified(d)
          <6>1. \A k \in 1 .. Len(h) :
                  g[k] <= announced /\ delivered[d][g[k]] > 0 /\ prices[g[k]] = h[k]
            BY <3>3
          <6>2. h \in Seq(Values) /\ i \in Ids /\ d \in Conns /\ ServerTypes
            BY <2>4, <2>7
          <6> QED BY ONLY <3>3, <5>1, <6>1, <6>2, MomentumBacks
        <5> QED BY <5>1
      <4>2. Justified(d) \subseteq Justified(d)'
        BY BackedStays
      <4>3. \A k \in DOMAIN toServer'[d] : toServer'[d][k] \in Justified(d) \cup {Piece}
        BY <2>7, <3>1, <4>1 DEF NumbersInv
      <4>4. handler'[d] = "judge" => number'[d] \in Justified(d)
        BY <1>2, <3>1 DEF NumbersInv
      <4> QED BY <4>2, <4>3, <4>4 DEF NumbersInv, Piece
    <3> QED BY <3>4, <3>5
  <2>9. Len(priceHistory'[d]) <= Trend
    BY <2>7
  <2> QED BY <1>6, <2>7, <2>8, <2>9
<1>8. CASE UNCHANGED <<priceHistory, toServer, misread>>
  <2>1. /\ priceHistory' \in [Conns -> Seq(Values)] /\ toServer' \in [Conns -> Seq(Messages)]
        /\ Len(priceHistory'[d]) <= Trend
    BY <1>8 DEF MessageTypes
  <2>2. ASSUME d \notin misread' PROVE Seen(d)' /\ NumbersInv(d)'
    <3>1. Seen(d)
      BY <1>8, <2>2 DEF ClientInv
    <3>2. Seen(d)'
      BY <1>4, <1>8, <3>1, SeenStays
    <3>3. NumbersInv(d)'
      BY <1>2, <1>8, NumbersStay
    <3> QED BY <3>2, <3>3
  <2> QED BY <1>6, <1>8, <2>1, <2>2
<1>9. CASE /\ \E i \in Ids \cup {NoPrice}, v \in Values : Respond(d, i, v)
           /\ misread' = misread \cup {d}
  <2>1. PICK i \in Ids \cup {NoPrice}, v \in Values : Respond(d, i, v)
    BY <1>9
  <2>2. PICK h : h = Append(IF Len(priceHistory[d]) = Trend THEN Tail(priceHistory[d])
                            ELSE priceHistory[d], v)
    OBVIOUS
  <2>3. i \in 0 .. MaxPrices
    BY PriceServerAssumption DEF Ids, NoPrice
  <2>4. /\ h \in Seq(Values) /\ Len(h) \in 1 .. Trend
        /\ priceHistory' \in [Conns -> Seq(Values)] /\ priceHistory'[d] = h
        /\ \A c \in Conns : c # d => /\ priceHistory'[c] = priceHistory[c]
                                     /\ toServer'[c] = toServer[c]
        /\ toServer' \in [Conns -> Seq(Messages)]
        /\ \A k \in DOMAIN toServer'[d] :
             \/ \E l \in DOMAIN toServer[d] : toServer'[d][k] = toServer[d][l]
             \/ toServer'[d][k] = i /\ Momentum(h)
    <3>1. Responded(d, i, h)
      BY ONLY <1>3, <2>1, <2>2, <2>3, RespondFacts
    <3> QED BY <3>1 DEF Responded
  <2>5. d \in misread'
    BY <1>9
  <2> QED BY <1>6, <2>4, <2>5
<1> QED BY <1>1, <1>7, <1>8, <1>9

LEMMA LeaveKeepsMessages ==
  ASSUME ServerTypes, ServerTypes', MessagesInv, Grown, NEW d \in Conns, Leave(d)
  PROVE  MessagesInv'
<1> USE DEF MessagesInv
<1>1. /\ toServer' \in {toServer, [toServer EXCEPT ![d] = <<>>]}
      /\ toClient' = [toClient EXCEPT ![d] = <<>>]
      /\ priceHistory' = [priceHistory EXCEPT ![d] = <<>>]
      /\ number' = number /\ hits' = hits /\ handler' = handler
  BY DEF Leave, judging
<1>2. DOMAIN <<>> = {} /\ Len(<<>>) = 0
  <2>1. DOMAIN <<>> = {}
    OBVIOUS
  <2>2. Len(<<>>) = 0
    BY SMT
  <2> QED BY <2>1, <2>2
<1>3. /\ toClient' \in [Conns -> Seq(Ids \cup {Piece})] /\ priceHistory' \in [Conns -> Seq(Values)]
      /\ toClient'[d] = <<>> /\ priceHistory'[d] = <<>>
      /\ \A c \in Conns : c # d => /\ toClient'[c] = toClient[c]
                                   /\ priceHistory'[c] = priceHistory[c]
  BY <1>1 DEF MessageTypes
<1>4. /\ toServer' \in [Conns -> Seq(Messages)]
      /\ \A c \in Conns : toServer'[c] = toServer[c] \/ toServer'[c] = <<>>
  <2>1. toServer \in [Conns -> Seq(Messages)] /\ <<>> \in Seq(Messages)
    BY DEF MessageTypes
  <2>2. CASE toServer' = toServer
    BY <2>1, <2>2
  <2>3. CASE toServer' = [toServer EXCEPT ![d] = <<>>]
    BY <2>1, <2>3
  <2> QED BY <1>1, <2>2, <2>3
<1>5. MessageTypes'
  <2>1. \A c \in Conns : Len(priceHistory'[c]) <= Trend
    <3>1. \A c \in Conns : Len(priceHistory[c]) <= Trend
      BY DEF MessageTypes
    <3>2. Len(priceHistory'[d]) = 0 /\ Trend \in Nat
      BY <1>2, <1>3, PriceServerAssumption
    <3> SUFFICES ASSUME NEW c \in Conns PROVE Len(priceHistory'[c]) <= Trend
      OBVIOUS
    <3>3. CASE c = d
      BY <3>2, <3>3
    <3>4. CASE c # d
      <4>1. priceHistory'[c] = priceHistory[c]
        BY <1>3, <3>4
      <4> QED BY <3>1, <4>1
    <3> QED BY <3>3, <3>4
  <2>2. /\ number \in [Conns -> Messages]
        /\ hits \subseteq [client : Conns, price : Ids, read : {"judge", "guess"}]
    BY DEF MessageTypes
  <2> QED BY <1>1, <1>3, <1>4, <2>1, <2>2 DEF MessageTypes, Messages, Conns, Ids, Piece
<1>6. ASSUME NEW c \in Conns PROVE NumbersInv(c)'
  <2>1. \A k \in DOMAIN toServer'[c] :
          \E l \in DOMAIN toServer[c] : toServer'[c][k] = toServer[c][l]
    BY <1>2, <1>4
  <2> QED BY <1>1, <2>1, NumbersStay
<1>7. ClientInv(d)'
  <2>1. Queued(d)'
    BY <1>2, <1>3 DEF Queued
  <2>2. \E f : f \in [{} -> Ids]
    <3>1. [x \in {} |-> 1] \in [{} -> Ids]
      OBVIOUS
    <3> QED BY <3>1
  <2>3. Seen(d)'
    BY <1>2, <1>3, <2>2 DEF Seen, Ids
  <2> QED BY <2>1, <2>3 DEF ClientInv
<1>8. ASSUME NEW c \in Conns PROVE ClientInv(c)'
  <2>1. CASE c # d
    BY <1>3, <2>1, ClientStays
  <2> QED BY <1>7, <2>1
<1>9. HitsInv'
  BY <1>1, HitsStay
<1> QED BY <1>5, <1>6, <1>8, <1>9 DEF Conns

LEMMA MessagesInit == PricesInit => MessagesInv
<1> SUFFICES ASSUME PricesInit PROVE MessagesInv
  OBVIOUS
<1>1. /\ toClient = [c \in Conns |-> <<>>] /\ toServer = [c \in Conns |-> <<>>]
      /\ number = [c \in Conns |-> 0] /\ priceHistory = [c \in Conns |-> <<>>] /\ hits = {}
      /\ handler = [c \in Conns |-> "none"]
  BY DEF PricesInit, NoPrice
<1>2. DOMAIN <<>> = {} /\ Len(<<>>) = 0
  <2>1. DOMAIN <<>> = {}
    OBVIOUS
  <2>2. Len(<<>>) = 0
    BY SMT
  <2> QED BY <2>1, <2>2
<1>3. MessageTypes
  <2>1. \A S : <<>> \in Seq(S)
    OBVIOUS
  <2>2. 0 \in Messages
    BY PriceServerAssumption DEF Messages
  <2> QED BY <1>1, <1>2, <2>1, <2>2, PriceServerAssumption DEF MessageTypes
<1>4. ASSUME NEW c \in Conns PROVE ClientInv(c) /\ NumbersInv(c)
  <2>1. toClient[c] = <<>> /\ toServer[c] = <<>> /\ priceHistory[c] = <<>> /\ handler[c] # "judge"
    BY <1>1
  <2>2. NumbersInv(c)
    BY <1>2, <2>1 DEF NumbersInv
  <2>3. [x \in {} |-> 1] \in [{} -> Ids]
    OBVIOUS
  <2>4. Seen(c)
    BY <1>2, <2>1, <2>3 DEF Seen
  <2>5. Queued(c)
    BY <1>2, <2>1 DEF Queued
  <2> QED BY <2>2, <2>4, <2>5 DEF ClientInv
<1>5. HitsInv
  BY <1>1 DEF HitsInv
<1> QED BY <1>3, <1>4, <1>5 DEF MessagesInv

LEMMA MessagesStep == ServerInv /\ MessagesInv /\ [PricesNext]_pvars => MessagesInv'
<1> SUFFICES ASSUME ServerInv, MessagesInv, [PricesNext]_pvars PROVE MessagesInv'
  OBVIOUS
<1>1. ServerTypes /\ ServerTypes'
  BY ServerStep DEF ServerInv
<1>2. Grown
  BY <1>1, StepGrows
<1>3. CASE /\ UNCHANGED <<toClient, toServer, number, priceHistory, hits>>
           /\ \A c \in Conns : handler'[c] = "judge" => handler[c] = "judge"
  BY <1>1, <1>2, <1>3, SameMessages
<1>4. CASE SendPrice
  BY <1>1, <1>2, <1>4, SendKeepsMessages
<1>5. CASE Accept
  BY <1>1, <1>2, <1>5, AcceptKeepsMessages
<1>6. ASSUME NEW c \in Conns, ReceiveName(c) \/ ReceiveOrder(c) PROVE MessagesInv'
  BY <1>1, <1>2, <1>6, ReceiveKeepsMessages
<1>7. ASSUME NEW c \in Conns, Judge(c) PROVE MessagesInv'
  BY <1>1, <1>2, <1>7, JudgeKeepsMessages
<1>8. ASSUME NEW c \in Conns, ReceivePrice(c) PROVE MessagesInv'
  BY <1>1, <1>2, <1>8, PriceKeepsMessages
<1>9. ASSUME NEW c \in Conns, Leave(c) PROVE MessagesInv'
  BY <1>1, <1>2, <1>9, LeaveKeepsMessages
<1>10. ASSUME \/ \E v \in Values : StampPrice(v)
              \/ LockClients \/ Killed \/ UnlockClients \/ Register \/ UNCHANGED pvars
              \/ \E c \in Conns : CloseSocket(c)
       PROVE  MessagesInv'
  <2>1. UNCHANGED <<toClient, toServer, number, priceHistory, hits>>
    BY <1>10 DEF StampPrice, LockClients, Killed, UnlockClients, Register, CloseSocket, pvars,
                 clientVars, judging
  <2>2. handler \in [Conns -> {"none", "name", "orders", "judge", "guess", "done"}]
    BY <1>1 DEF ServerTypes
  <2>3. \A c \in Conns : handler'[c] = "judge" => handler[c] = "judge"
    <3>1. CASE Register
      <4>1. PICK n : handler' = [handler EXCEPT ![n] = "name"]
        BY <3>1 DEF Register
      <4> QED BY <2>2, <4>1
    <3>2. ASSUME NEW d \in Conns, CloseSocket(d)
          PROVE  \A c \in Conns : handler'[c] = "judge" => handler[c] = "judge"
      <4>1. handler' = [handler EXCEPT ![d] = "done"]
        BY <3>2 DEF CloseSocket
      <4> QED BY <2>2, <4>1
    <3>3. CASE \/ \E v \in Values : StampPrice(v)
               \/ LockClients \/ Killed \/ UnlockClients \/ UNCHANGED pvars
      BY <3>3 DEF StampPrice, LockClients, Killed, UnlockClients, pvars, judging
    <3> QED BY <1>10, <3>1, <3>2, <3>3
  <2> QED BY <1>3, <2>1, <2>3
<1> QED
  BY <1>4, <1>5, <1>6, <1>7, <1>8, <1>9, <1>10 DEF PricesNext, Broadcast, Handle

\* What backs a hit are Trend different prices.
LEMMA BackedIsRight ==
  ASSUME ServerTypes, NEW c \in Conns, NEW i \in Ids, Backed(c, i)
  PROVE  Justifies(c, i)
<1>1. PICK f \in [1 .. Trend -> Ids] :
        /\ f[Trend] = i
        /\ \A k, l \in 1 .. Trend : k < l => f[k] < f[l]
        /\ \/ \A k, l \in 1 .. Trend : k < l => prices[f[k]] < prices[f[l]]
           \/ \A k, l \in 1 .. Trend : k < l => prices[f[k]] > prices[f[l]]
        /\ \A k \in 1 .. Trend : f[k] \in DOMAIN prices /\ delivered[c][f[k]] > 0
  BY DEF Backed
<1> DEFINE ids == {f[k] : k \in 1 .. Trend}
<1>2. Trend \in Nat \ {0} /\ Trend \in 1 .. Trend
  BY PriceServerAssumption
<1>3. \A k \in 1 .. Trend : f[k] \in Nat /\ f[k] >= 1
  BY DEF Ids
<1>4. ids \in SUBSET {j \in 1 .. i : delivered[c][j] > 0}
  <2>1. ASSUME NEW k \in 1 .. Trend PROVE f[k] \in 1 .. i /\ delivered[c][f[k]] > 0
    <3>1. k < Trend \/ k = Trend
      BY <1>2
    <3>2. f[k] < i \/ f[k] = i
      BY <1>1, <1>2, <3>1
    <3> QED BY <1>1, <1>2, <1>3, <3>2
  <2> QED BY <2>1
<1>5. i \in ids
  BY <1>1, <1>2
<1>6. Cardinality(ids) = Trend
  <2>1. f \in Bijection(1 .. Trend, ids)
    <3>1. f \in [1 .. Trend -> ids]
      OBVIOUS
    <3>2. \A k, l \in 1 .. Trend : f[k] = f[l] => k = l
      <4>1. \A k, l \in 1 .. Trend : k < l => f[k] # f[l]
        BY <1>1, <1>3
      <4>2. \A k, l \in 1 .. Trend : k = l \/ k < l \/ l < k
        BY <1>2
      <4> QED BY <4>1, <4>2
    <3>3. \A x \in ids : \E k \in 1 .. Trend : f[k] = x
      OBVIOUS
    <3> HIDE DEF ids
    <3> QED BY <3>1, <3>2, <3>3 DEF Bijection, Injection, Surjection, IsInjective
  <2>2. ExistsBijection(1 .. Trend, ids)
    BY <2>1 DEF ExistsBijection
  <2> HIDE DEF ids
  <2> QED BY <1>2, <2>2, FS_CountingElements
<1>7. Strict(ids)
  <2>1. \A k, l \in 1 .. Trend : f[k] < f[l] => k < l
    <3>1. \A k, l \in 1 .. Trend : k = l \/ k < l \/ l < k
      BY <1>2
    <3> QED BY <1>1, <1>3, <3>1
  <2>2. CASE \A k, l \in 1 .. Trend : k < l => prices[f[k]] < prices[f[l]]
    <3>1. \A x, y \in ids : x < y => prices[x] < prices[y]
      BY <2>1, <2>2
    <3> HIDE DEF ids
    <3> QED BY <3>1 DEF Strict
  <2>3. CASE \A k, l \in 1 .. Trend : k < l => prices[f[k]] > prices[f[l]]
    <3>1. \A x, y \in ids : x < y => prices[x] > prices[y]
      BY <2>1, <2>3
    <3> HIDE DEF ids
    <3> QED BY <3>1 DEF Strict
  <2> QED BY <1>1, <2>2, <2>3
<1> HIDE DEF ids
<1> QED BY <1>4, <1>5, <1>6, <1>7 DEF Justifies

\* priceAlreadyHit under priceMutex: one hit for a price at most, and for a
\* price that is stamped; by a client that never took a part of a message for
\* a price, with an order that was read whole, only for a price that was sent
\* to it after others that make a momentum with it.  For any number of
\* clients and prices, any momentum, and however recv cuts and glues.
THEOREM HitsJustified == PricesSpec => []HitsAreRight
<1>1. PricesInit => MessagesInv
  BY MessagesInit
<1>2. ServerInv /\ MessagesInv /\ [PricesNext]_pvars => MessagesInv'
  BY MessagesStep
<1>3. ServerInv /\ MessagesInv => HitsAreRight
  <2> SUFFICES ASSUME ServerInv, MessagesInv PROVE HitsAreRight
    OBVIOUS
  <2>1. /\ ServerTypes /\ HitsInv
        /\ hits \subseteq [client : Conns, price : Ids, read : {"judge", "guess"}]
    BY DEF ServerInv, MessagesInv, MessageTypes
  <2>2. ASSUME NEW h \in hits, h.read = "judge", h.client \notin misread
        PROVE  Justifies(h.client, h.price)
    <3>1. h.client \in Conns /\ h.price \in Ids
      BY <2>1
    <3>2. Backed(h.client, h.price)
      <4>1. h.price # 0
        BY <3>1 DEF Ids
      <4> QED BY <2>1, <2>2, <3>1, <4>1 DEF HitsInv, Justified
    <3> QED BY <2>1, <3>1, <3>2, BackedIsRight
  <2> QED BY <2>1, <2>2 DEF HitsAreRight, HitsInv
<1> QED BY <1>1, <1>2, <1>3, ServerHolds, PTL DEF PricesSpec

-----------------------------------------------------------------------------
(***************************************************************************)
(* LatencyLogger: the inductive invariant                                  *)
(***************************************************************************)

Records == 1 .. claimed
Cells == [rec : Records, full : BOOLEAN]

LogTypeOK ==
  /\ claimed \in Nat /\ before \in 0 .. claimed
  /\ queue \in Seq(Cells) /\ batch \in Seq(Records) /\ file \in Seq(Records)
  /\ filling \in [Producers -> Nat]
  /\ stale \in BOOLEAN /\ seen \in 0 .. claimed

Ascending(s) == \A i, j \in DOMAIN s : i < j => s[i] < s[j]

\* All records the logger has taken, then the queue, are in order.
OrderInv ==
  /\ Ascending(file \o batch)
  /\ \A i, j \in DOMAIN queue : i < j => queue[i].rec < queue[j].rec
  /\ \A i \in DOMAIN (file \o batch), j \in DOMAIN queue :
       (file \o batch)[i] < queue[j].rec

StopInv == at = "done" => shutdown /\ DrainsItsQueue

LogInv == LogTypeOK /\ OrderInv /\ StopInv

-----------------------------------------------------------------------------
(***************************************************************************)
(* Sequences                                                               *)
(***************************************************************************)

LEMMA WiderSeq ==
  ASSUME NEW S, NEW T, S \subseteq T, NEW s \in Seq(S)
  PROVE  s \in Seq(T)
<1>1. /\ Len(s) \in Nat /\ DOMAIN s = 1 .. Len(s) /\ s = [i \in 1 .. Len(s) |-> s[i]]
      /\ \A i \in 1 .. Len(s) : s[i] \in T
  OBVIOUS
<1> QED
  BY <1>1

LEMMA AppendBehind ==
  ASSUME NEW S, NEW s \in Seq(S), NEW t \in Seq(S), NEW x \in S
  PROVE  s \o Append(t, x) = Append(s \o t, x)
OBVIOUS

LEMMA Emptied ==
  ASSUME NEW S, NEW s \in Seq(S)
  PROVE  s \o <<>> = s
OBVIOUS

LEMMA AppendedRecord ==
  ASSUME NEW S, NEW s \in Seq(S), NEW x \in S
  PROVE  /\ Append(s, x) \in Seq(S) /\ DOMAIN s = 1 .. Len(s) /\ Len(s) \in Nat
         /\ DOMAIN Append(s, x) = 1 .. Len(s) + 1 /\ Append(s, x)[Len(s) + 1] = x
         /\ \A i \in DOMAIN s : Append(s, x)[i] = s[i]
OBVIOUS

LEMMA TailFacts ==
  ASSUME NEW S, NEW s \in Seq(S), s # <<>>
  PROVE  /\ Tail(s) \in Seq(S) /\ Len(s) \in Nat \ {0} /\ DOMAIN s = 1 .. Len(s)
         /\ DOMAIN Tail(s) = 1 .. Len(s) - 1 /\ Head(s) = s[1]
         /\ \A i \in DOMAIN Tail(s) : Tail(s)[i] = s[i + 1]
OBVIOUS

\* Dropping the oldest cell keeps the order.
LEMMA TailInOrder ==
  ASSUME LogInv, queue # <<>>, queue' = Tail(queue),
         UNCHANGED <<file, batch>>
  PROVE  OrderInv'
<1>1. /\ Len(queue) \in Nat \ {0} /\ DOMAIN queue = 1 .. Len(queue)
      /\ DOMAIN queue' = 1 .. Len(queue) - 1
      /\ \A i \in DOMAIN queue' : queue'[i] = queue[i + 1]
  BY TailFacts DEF LogInv, LogTypeOK
<1>2. \A i \in DOMAIN queue' : i + 1 \in DOMAIN queue /\ i \in Int
  BY <1>1
<1>3. \A i, j \in DOMAIN queue' : i < j => queue'[i].rec < queue'[j].rec
  BY <1>1, <1>2 DEF LogInv, OrderInv
<1>4. \A i \in DOMAIN (file \o batch), j \in DOMAIN queue' :
        (file \o batch)[i] < queue'[j].rec
  BY <1>1, <1>2 DEF LogInv, OrderInv
<1> QED
  BY <1>3, <1>4 DEF LogInv, OrderInv

-----------------------------------------------------------------------------
(***************************************************************************)
(* The steps                                                               *)
(***************************************************************************)

LEMMA LogInit == Init => LogInv
<1> SUFFICES ASSUME Init PROVE LogInv
  OBVIOUS
<1>1. LogTypeOK
  BY DEF Init, LogTypeOK, Records, Cells
<1>2. file \o batch = <<>> /\ queue = <<>>
  BY DEF Init
<1>3. OrderInv
  BY <1>2 DEF OrderInv, Ascending
<1> QED
  BY <1>1, <1>3 DEF Init, StopInv, LogInv

LEMMA ClaimInv ==
  ASSUME LogInv, NEW p \in Producers, Claim(p)
  PROVE  LogInv'
<1> DEFINE cell == [rec |-> claimed + 1, full |-> FALSE]
<1>1. /\ claimed' = claimed + 1 /\ queue' = Append(queue, cell)
      /\ filling' = [filling EXCEPT ![p] = claimed + 1]
      /\ UNCHANGED <<batch, file, at, shutdown, before, stale, seen>>
  BY DEF Claim
<1>2. /\ claimed \in Nat /\ before \in 0 .. claimed /\ filling \in [Producers -> Nat]
      /\ queue \in Seq(Cells) /\ batch \in Seq(Records) /\ file \in Seq(Records)
      /\ stale \in BOOLEAN /\ seen \in 0 .. claimed
  BY DEF LogInv, LogTypeOK
<1>3. Records \subseteq Records' /\ claimed + 1 \in Records' /\ Cells \subseteq Cells'
      /\ cell \in Cells'
  BY <1>1, <1>2 DEF Records, Cells
<1>4. queue \in Seq(Cells') /\ batch \in Seq(Records') /\ file \in Seq(Records')
  BY <1>2, <1>3, WiderSeq
<1>5. /\ DOMAIN queue = 1 .. Len(queue) /\ Len(queue) \in Nat /\ queue' \in Seq(Cells')
      /\ DOMAIN queue' = 1 .. Len(queue) + 1 /\ queue'[Len(queue) + 1] = cell
      /\ \A i \in DOMAIN queue : queue'[i] = queue[i]
  BY <1>1, <1>3, <1>4, AppendedRecord
<1>6. LogTypeOK'
  BY <1>1, <1>2, <1>4, <1>5 DEF LogTypeOK
<1>7. \A i \in DOMAIN queue : queue[i].rec \in Records /\ queue[i].rec < claimed + 1
  <2>1. \A i \in DOMAIN queue : queue[i] \in Cells
    BY <1>2
  <2> QED
    BY <1>2, <2>1 DEF Cells, Records
<1>8. \A i \in DOMAIN (file \o batch) : (file \o batch)[i] < claimed + 1
  <2>1. file \o batch \in Seq(Records)
    BY <1>2
  <2>2. \A i \in DOMAIN (file \o batch) : (file \o batch)[i] \in Records
    BY <2>1
  <2>3. \A x \in Records : x < claimed + 1
    <3>1. claimed \in Nat
      BY <1>2
    <3> QED BY ONLY <3>1 DEF Records
  <2> QED
    BY ONLY <2>2, <2>3
<1>9. OrderInv'
  <2>1. ASSUME NEW i \in DOMAIN queue', NEW j \in DOMAIN queue', i < j
        PROVE  queue'[i].rec < queue'[j].rec
    <3>1. i \in DOMAIN queue /\ queue'[i] = queue[i]
      BY <1>5, <2>1
    <3>2. CASE j \in DOMAIN queue
      BY <1>5, <2>1, <3>1, <3>2 DEF LogInv, OrderInv
    <3>3. CASE j = Len(queue) + 1
      BY <1>5, <1>7, <3>1, <3>3
    <3> QED BY <1>5, <3>2, <3>3
  <2>2. \A i \in DOMAIN (file \o batch), j \in DOMAIN queue' :
          (file \o batch)[i] < queue'[j].rec
    BY <1>5, <1>8 DEF LogInv, OrderInv
  <2> QED
    BY <1>1, <2>1, <2>2 DEF LogInv, OrderInv
<1>10. StopInv'
  <2>1. cell.rec > before /\ cell.rec > seen
    BY <1>2
  <2> HIDE DEF cell
  <2>2. \A i \in DOMAIN queue' :
          queue'[i] = cell \/ (i \in DOMAIN queue /\ queue'[i] = queue[i])
    BY <1>5
  <2>3. at' = "done" => /\ shutdown'
                        /\ \A i \in DOMAIN queue : queue[i].rec > IF stale THEN seen ELSE before
    BY <1>1 DEF LogInv, StopInv, DrainsItsQueue
  <2>4. at' = "done" =>
          \A i \in DOMAIN queue' : queue'[i].rec > IF stale THEN seen ELSE before
    BY <2>1, <2>2, <2>3
  <2> QED
    BY <1>1, <2>3, <2>4 DEF StopInv, DrainsItsQueue
<1> QED
  BY <1>6, <1>9, <1>10 DEF LogInv

LEMMA RefusedInv ==
  ASSUME LogInv, NEW p \in Producers, Refused(p)
  PROVE  LogInv'
<1>1. /\ claimed' = claimed + 1
      /\ UNCHANGED <<queue, filling, batch, file, at, shutdown, before, stale, seen>>
  BY DEF Refused
<1>2. /\ claimed \in Nat /\ before \in 0 .. claimed /\ seen \in 0 .. claimed
      /\ queue \in Seq(Cells) /\ batch \in Seq(Records) /\ file \in Seq(Records)
  BY DEF LogInv, LogTypeOK
<1>3. Records \subseteq Records' /\ Cells \subseteq Cells'
  BY <1>1, <1>2 DEF Records, Cells
<1>4. queue \in Seq(Cells') /\ batch \in Seq(Records') /\ file \in Seq(Records')
  BY <1>2, <1>3, WiderSeq
<1> QED
  BY <1>1, <1>2, <1>4 DEF LogInv, LogTypeOK, OrderInv, StopInv, DrainsItsQueue

LEMMA FillInv ==
  ASSUME LogInv, NEW p \in Producers, Fill(p)
  PROVE  LogInv'
<1>1. /\ queue' = [i \in DOMAIN queue |-> IF queue[i].rec = filling[p]
                                          THEN [queue[i] EXCEPT !.full = TRUE] ELSE queue[i]]
      /\ filling' = [filling EXCEPT ![p] = 0]
      /\ UNCHANGED <<claimed, batch, file, at, shutdown, before, stale, seen>>
  BY DEF Fill
<1>2. queue \in Seq(Cells) /\ Len(queue) \in Nat /\ DOMAIN queue = 1 .. Len(queue)
  BY DEF LogInv, LogTypeOK
<1>3. \A i \in DOMAIN queue : queue'[i] \in Cells /\ queue'[i].rec = queue[i].rec
  <2>1. \A i \in DOMAIN queue : queue[i] \in Cells
    BY <1>2
  <2>2. ASSUME NEW x \in Cells
        PROVE  [x EXCEPT !.full = TRUE] \in Cells /\ [x EXCEPT !.full = TRUE].rec = x.rec
    BY DEF Cells
  <2>3. \A i \in DOMAIN queue :
          queue'[i] = queue[i] \/ queue'[i] = [queue[i] EXCEPT !.full = TRUE]
    BY <1>1
  <2> QED
    BY <2>1, <2>2, <2>3
<1>4. DOMAIN queue' = DOMAIN queue /\ queue' \in Seq(Cells)
  BY <1>1, <1>2, <1>3
<1>5. LogTypeOK'
  BY <1>1, <1>4 DEF LogInv, LogTypeOK, Records, Cells
<1>6. OrderInv' /\ StopInv'
  BY <1>1, <1>3, <1>4 DEF LogInv, OrderInv, StopInv, DrainsItsQueue
<1> QED
  BY <1>5, <1>6 DEF LogInv

LEMMA InterruptInv ==
  ASSUME LogInv, Interrupt
  PROVE  LogInv'
<1>1. /\ ~shutdown /\ shutdown' = TRUE /\ before' = claimed
      /\ UNCHANGED <<queue, claimed, filling, batch, file, at, stale, seen>>
  BY DEF Interrupt
<1> QED
  BY <1>1 DEF LogInv, LogTypeOK, Records, Cells, OrderInv, StopInv

\* A pop that says so has taken the first cell, which was filled.
LEMMA Popped ==
  ASSUME NEW popped \in PopAnswers, popped
  PROVE  CanPop
<1>1. popped = CanPop \/ popped = FALSE
  BY DEF PopAnswers
<1> QED BY <1>1

LEMMA PopInv ==
  ASSUME LogInv, Pop
  PROVE  LogInv'
<1>1. at' = "check" /\ UNCHANGED <<claimed, filling, file, shutdown, before, stale, seen>>
  BY DEF Pop
<1>2. CASE UNCHANGED <<batch, queue>>
  BY <1>1, <1>2 DEF LogInv, LogTypeOK, Records, Cells, OrderInv, StopInv
<1>3. CASE CanPop /\ batch' = Append(batch, Head(queue).rec) /\ queue' = Tail(queue)
  <2> DEFINE rows == file \o batch
             rec == Head(queue).rec
  <2>1. queue # <<>> /\ queue' = Tail(queue) /\ batch' = Append(batch, rec)
    BY <1>3 DEF CanPop
  <2>2. /\ queue \in Seq(Cells) /\ batch \in Seq(Records) /\ file \in Seq(Records)
        /\ claimed \in Nat
    BY DEF LogInv, LogTypeOK
  <2>3. /\ queue' \in Seq(Cells) /\ Len(queue) \in Nat \ {0} /\ DOMAIN queue = 1 .. Len(queue)
        /\ DOMAIN queue' = 1 .. Len(queue) - 1 /\ rec = queue[1].rec
        /\ \A i \in DOMAIN queue' : queue'[i] = queue[i + 1]
    BY <2>1, <2>2, TailFacts
  <2>4. rec \in Records
    <3>1. queue[1] \in Cells
      BY <2>2, <2>3
    <3> QED
      BY <2>3, <3>1 DEF Cells
  <2>5. rows \in Seq(Records) /\ (file \o batch)' = Append(rows, rec)
    BY <1>1, <2>1, <2>2, <2>4, AppendBehind
  <2> HIDE DEF rows, rec
  <2>6. /\ DOMAIN rows = 1 .. Len(rows) /\ Len(rows) \in Nat
        /\ DOMAIN (file \o batch)' = 1 .. Len(rows) + 1
        /\ (file \o batch)'[Len(rows) + 1] = rec
        /\ \A i \in DOMAIN rows : (file \o batch)'[i] = rows[i]
    BY <2>4, <2>5, AppendedRecord
  <2>7. \A i \in DOMAIN rows, j \in DOMAIN queue : rows[i] < queue[j].rec
    BY DEF LogInv, OrderInv, rows
  <2>8. 1 \in DOMAIN queue /\ \A j \in DOMAIN queue' : j + 1 \in DOMAIN queue /\ 1 < j + 1
    BY <2>3
  <2>9. \A j \in DOMAIN queue' : rec < queue'[j].rec
    BY <2>3, <2>8 DEF LogInv, OrderInv
  <2>10. \A i, j \in DOMAIN (file \o batch)' :
           i < j => (file \o batch)'[i] < (file \o batch)'[j]
    <3>1. \A i, j \in DOMAIN rows : i < j => rows[i] < rows[j]
      BY DEF LogInv, OrderInv, Ascending, rows
    <3>2. \A i \in DOMAIN rows : rows[i] < queue[1].rec
      BY <2>7, <2>8
    <3>3. \A i \in DOMAIN rows : rows[i] < rec
      BY <2>3, <3>2
    <3>4. ASSUME NEW i \in DOMAIN (file \o batch)', NEW j \in DOMAIN (file \o batch)', i < j
          PROVE  (file \o batch)'[i] < (file \o batch)'[j]
      <4>1. i \in DOMAIN rows /\ (file \o batch)'[i] = rows[i]
        BY <2>6, <3>4
      <4>2. CASE j \in DOMAIN rows
        BY <2>6, <3>1, <3>4, <4>1, <4>2
      <4>3. CASE j = Len(rows) + 1
        BY <2>6, <3>3, <4>1, <4>3
      <4> QED BY <2>6, <4>2, <4>3
    <3> QED
      BY <3>4
  <2>11. \A i \in DOMAIN (file \o batch)', j \in DOMAIN queue' :
           (file \o batch)'[i] < queue'[j].rec
    <3>1. \A i \in DOMAIN rows, j \in DOMAIN queue' : rows[i] < queue'[j].rec
      BY <2>3, <2>7, <2>8
    <3>2. \A i \in DOMAIN (file \o batch)' :
            \/ i \in DOMAIN rows /\ (file \o batch)'[i] = rows[i]
            \/ (file \o batch)'[i] = rec
      BY <2>6
    <3> QED
      BY ONLY <2>9, <3>1, <3>2
  <2>12. \A i, j \in DOMAIN queue' : i < j => queue'[i].rec < queue'[j].rec
    <3>1. \A i \in DOMAIN queue' : i \in Int
      BY <2>3
    <3> QED
      BY <2>3, <2>8, <3>1 DEF LogInv, OrderInv
  <2>13. OrderInv'
    BY <2>10, <2>11, <2>12 DEF OrderInv, Ascending
  <2>14. LogTypeOK'
    BY <1>1, <2>1, <2>2, <2>3, <2>4 DEF LogInv, LogTypeOK, Records, Cells
  <2> QED
    BY <1>1, <2>13, <2>14 DEF LogInv, StopInv
<1>4. PICK popped \in PopAnswers :
        IF popped THEN batch' = Append(batch, Head(queue).rec) /\ queue' = Tail(queue)
                  ELSE UNCHANGED <<batch, queue>>
  BY DEF Pop
<1>5. CASE popped
  BY <1>3, <1>4, <1>5, Popped
<1>6. CASE ~popped
  BY <1>2, <1>4, <1>6
<1> QED
  BY <1>5, <1>6

LEMMA SecondPopInv ==
  ASSUME LogInv, SecondPop
  PROVE  LogInv'
<1>1. /\ (CanPop /\ queue' = Tail(queue)) \/ queue' = queue
      /\ at' = "break" /\ UNCHANGED <<claimed, filling, batch, file, shutdown, before, stale, seen>>
  <2>1. PICK popped \in PopAnswers : queue' = IF popped THEN Tail(queue) ELSE queue
    BY DEF SecondPop
  <2>2. CASE popped
    BY <2>1, <2>2, Popped DEF SecondPop
  <2>3. CASE ~popped
    BY <2>1, <2>3 DEF SecondPop
  <2> QED BY <2>2, <2>3
<1>2. CASE CanPop /\ queue' = Tail(queue)
  <2>1. queue # <<>> /\ queue' = Tail(queue) /\ queue \in Seq(Cells)
    BY <1>1, <1>2 DEF CanPop, LogInv, LogTypeOK
  <2>2. queue' \in Seq(Cells)
    BY <2>1, TailFacts
  <2>3. OrderInv'
    BY <1>1, <2>1, TailInOrder
  <2> QED
    BY <1>1, <2>2, <2>3 DEF LogInv, LogTypeOK, Records, Cells, StopInv
<1>3. CASE queue' = queue
  BY <1>1, <1>3 DEF LogInv, LogTypeOK, Records, Cells, OrderInv, StopInv
<1> QED
  BY <1>1, <1>2, <1>3

\* What is_empty has shown is a claim.
LEMMA SeenType ==
  ASSUME LogInv, NEW n \in Views, See(n)
  PROVE  seen' \in 0 .. claimed
<1>1. queue \in Seq(Cells) /\ seen \in 0 .. claimed /\ claimed \in Nat
  BY DEF LogInv, LogTypeOK
<1>2. n \in 0 .. Len(queue)
  BY DEF Views
<1>3. CASE n = 0
  BY <1>1, <1>3 DEF See
<1>4. CASE n # 0
  <2>1. queue[n] \in Cells
    BY <1>1, <1>2, <1>4
  <2>2. queue[n].rec \in Records
    BY <2>1 DEF Cells
  <2> QED BY <1>1, <1>4, <2>2 DEF See, Records
<1> QED BY <1>3, <1>4

\* An empty view hides no cell that has been seen, and none at all if loads
\* return the newest values.
LEMMA NothingSeen ==
  ASSUME LogInv, 0 \in Views, See(0)
  PROVE  /\ seen' = seen
         /\ \A i \in DOMAIN queue : queue[i].rec > IF stale THEN seen ELSE before
<1>1. queue \in Seq(Cells) /\ seen \in Nat /\ stale \in BOOLEAN /\ claimed \in Nat
  BY DEF LogInv, LogTypeOK
<1>2. DOMAIN queue = 1 .. Len(queue) /\ Len(queue) \in Nat
  BY <1>1
<1>3. CASE stale
  <2>1. \A i \in DOMAIN queue : ~(queue[i].rec <= seen)
    BY <1>2, <1>3 DEF Views
  <2>2. \A i \in DOMAIN queue : queue[i].rec \in Nat
    <3>1. \A i \in DOMAIN queue : queue[i] \in Cells
      BY <1>1
    <3> QED BY <1>1, <3>1 DEF Cells, Records
  <2>3. \A i \in DOMAIN queue : queue[i].rec > seen
    BY <1>1, <2>1, <2>2
  <2> QED BY <1>3, <2>3 DEF See
<1>4. CASE ~stale
  <2>1. Len(queue) = 0
    BY <1>4 DEF Views
  <2>2. DOMAIN queue = {}
    BY <1>2, <2>1
  <2> QED BY <2>2 DEF See
<1> QED BY <1>3, <1>4

LEMMA LookType ==
  ASSUME LogInv, NEW n, Look(n)
  PROVE  seen' \in 0 .. claimed
<1>1. seen \in 0 .. claimed
  BY DEF LogInv, LogTypeOK
<1>2. CASE Asks
  BY <1>2, SeenType DEF Look
<1>3. CASE ~Asks
  BY <1>1, <1>3 DEF Look
<1> QED BY <1>2, <1>3

LEMMA WriteInv ==
  ASSUME LogInv, Write
  PROVE  LogInv'
<1>1. /\ file' = file \o batch /\ batch' = <<>> /\ at' = "break"
      /\ UNCHANGED <<queue, claimed, filling, shutdown, before, stale>>
  BY DEF Write
<1>2. file \in Seq(Records) /\ batch \in Seq(Records) /\ file \o batch \in Seq(Records)
  BY DEF LogInv, LogTypeOK
<1>3. (file \o batch)' = file \o batch
  BY <1>1, <1>2, Emptied
<1>4. LogTypeOK'
  <2>1. seen' \in 0 .. claimed
    BY LookType DEF Write
  <2> QED BY <1>1, <1>2, <2>1 DEF LogInv, LogTypeOK, Records, Cells
<1>5. OrderInv'
  BY <1>1, <1>3 DEF LogInv, OrderInv
<1> QED
  BY <1>1, <1>4, <1>5 DEF LogInv, StopInv

LEMMA KeepInv ==
  ASSUME LogInv, Keep
  PROVE  LogInv'
<1>1. at' # "done" /\ UNCHANGED <<queue, claimed, filling, batch, file, shutdown, before, stale>>
  BY DEF Keep
<1>2. seen' \in 0 .. claimed
  BY LookType DEF Keep
<1> QED
  BY <1>1, <1>2 DEF LogInv, LogTypeOK, Records, Cells, OrderInv, StopInv

\* The two tests that end the loop.
LEMMA LoopInv ==
  ASSUME LogInv, Loop \/ Break
  PROVE  LogInv'
<1>1. UNCHANGED <<queue, claimed, filling, batch, file, shutdown, before, stale>>
  BY DEF Loop, Break
<1>2. CASE ~shutdown
  BY <1>1, <1>2 DEF Loop, Break, LogInv, LogTypeOK, Records, Cells, OrderInv, StopInv
<1>3. CASE shutdown
  <2>1. PICK n \in Views : See(n) /\ (at' = "done" => n = 0)
    BY <1>3 DEF Loop, Break
  <2>2. seen' \in 0 .. claimed
    BY <2>1, SeenType
  <2>3. LogTypeOK' /\ OrderInv'
    BY <1>1, <2>2 DEF LogInv, LogTypeOK, Records, Cells, OrderInv
  <2>4. StopInv'
    <3>1. ASSUME at' = "done" PROVE shutdown' /\ DrainsItsQueue'
      <4>1. 0 \in Views /\ See(0)
        BY <2>1, <3>1
      <4>2. /\ seen' = seen
            /\ \A i \in DOMAIN queue : queue[i].rec > IF stale THEN seen ELSE before
        BY <4>1, NothingSeen
      <4> QED BY <1>1, <1>3, <4>2 DEF DrainsItsQueue
    <3> QED BY <3>1 DEF StopInv
  <2> QED BY <2>3, <2>4 DEF LogInv
<1> QED BY <1>2, <1>3

LEMMA LogStep ==
  ASSUME LogInv, [Next]_vars
  PROVE  LogInv'
<1>1. CASE Logger
  BY <1>1, LoopInv, PopInv, WriteInv, KeepInv, SecondPopInv DEF Logger
<1>2. CASE \E p \in Producers : Claim(p) \/ Refused(p) \/ Fill(p)
  BY <1>2, ClaimInv, RefusedInv, FillInv
<1>3. CASE UNCHANGED vars
  BY <1>3 DEF vars, LogInv, LogTypeOK, Records, Cells, OrderInv, StopInv, DrainsItsQueue
<1> QED
  BY <1>1, <1>2, <1>3, InterruptInv DEF Next

-----------------------------------------------------------------------------
\* Whatever the second pop drops and the full queue refuses, what reaches the
\* file is in the order of the claims and there once.
THEOREM LogIsInOrder == Spec => []LoggedInOrder
<1>1. LogInv => LoggedInOrder
  BY DEF LogInv, OrderInv, Ascending, LoggedInOrder
<1> QED
  BY <1>1, LogInit, LogStep, PTL DEF Spec

\* A logger that has stopped has emptied the queue of what was claimed before
\* the interrupt; where loads may be stale, of what is_empty has shown it.
THEOREM LogIsDrained == Spec => []DrainsItsQueue
<1>1. LogInv => DrainsItsQueue
  BY DEF LogInv, StopInv, DrainsItsQueue
<1> QED
  BY <1>1, LogInit, LogStep, PTL DEF Spec

-----------------------------------------------------------------------------
(***************************************************************************)
(* TradeEngine: ticks and their windows                                    *)
(***************************************************************************)

\* The tick j ticks of its instrument before u.
Back(u, j) == u - j * Instruments

LEMMA BackFacts ==
  ASSUME NEW u \in Int, NEW j \in Int, NEW l \in Int
  PROVE  /\ Back(u, j) \in Int /\ Back(u, 0) = u
         /\ Back(u, 1) = u - Instruments /\ Back(u, 2) = u - 2 * Instruments
         /\ Back(u + Instruments, j + 1) = Back(u, j)
         /\ j < l => Back(u, l) < Back(u, j)
         /\ u - Back(u, j) = j * Instruments
<1>1. Instruments \in Int /\ Instruments > 0
  BY TradeEngineAssumption
<1>2. j * Instruments \in Int /\ l * Instruments \in Int
  BY <1>1
<1>3. j < l => j * Instruments < l * Instruments
  <2>1. j < l => (l - j) * Instruments > 0
    BY <1>1
  <2>2. (l - j) * Instruments = l * Instruments - j * Instruments
    BY <1>1
  <2> QED BY <1>2, <2>1, <2>2
<1>4. (j + 1) * Instruments = j * Instruments + Instruments
  BY <1>1
<1> QED BY <1>1, <1>2, <1>3, <1>4 DEF Back

LEMMA InstrumentFacts ==
  ASSUME NEW t \in Nat \ {0}, NEW u \in Nat \ {0}
  PROVE  /\ instrument(t) \in 0 .. Instruments - 1
         /\ instrument(t + Instruments) = instrument(t)
         /\ t <= Instruments => instrument(t) = t - 1
         /\ u < t /\ instrument(u) = instrument(t) => t - u >= Instruments
<1> DEFINE a == t - 1
           b == u - 1
<1>1. a \in Nat /\ b \in Nat /\ (t + Instruments) - 1 = a + Instruments
  BY TradeEngineAssumption
<1>2. instrument(t) = a % Instruments /\ instrument(u) = b % Instruments
      /\ instrument(t + Instruments) = (a + Instruments) % Instruments
  BY <1>1 DEF instrument
<1>3. t - u = a - b /\ (u < t <=> b < a) /\ (t <= Instruments <=> a < Instruments)
  BY TradeEngineAssumption
<1> HIDE DEF a, b
<1>4. Instruments \in Nat \ {0}
  BY TradeEngineAssumption
<1>5. /\ a % Instruments \in 0 .. Instruments - 1
      /\ (a + Instruments) % Instruments = a % Instruments
      /\ a < Instruments => a % Instruments = a
  BY <1>1, <1>4, Remainders
<1>6. b < a /\ b % Instruments = a % Instruments => a - b >= Instruments
  BY <1>1, <1>4, Remainders
<1>7. a = t - 1
  BY DEF a
<1> QED BY <1>2, <1>3, <1>5, <1>6, <1>7

\* The window of the next tick of an instrument.
LEMMA WindowNext ==
  ASSUME NEW u \in Nat \ {0}, NEW t, t = u + Instruments
  PROVE  Window(t) = {t} \cup {v \in Window(u) : t - v < HistorySize * Instruments}
<1>1. t \in Nat \ {0} /\ u < t /\ t - u = Instruments
  BY TradeEngineAssumption
<1>2. instrument(t) = instrument(u)
  BY InstrumentFacts
<1>3. HistorySize * Instruments > 0
  BY TradeEngineAssumption
<1>4. t \in Window(t)
  BY <1>1, <1>3 DEF Window
<1>5. ASSUME NEW v \in Window(t), v # t
      PROVE  v \in Window(u) /\ t - v < HistorySize * Instruments
  <2>1. v \in Nat \ {0} /\ v < t /\ instrument(v) = instrument(t)
        /\ t - v < HistorySize * Instruments
    BY <1>1, <1>5 DEF Window
  <2>2. t - v >= Instruments
    BY <1>1, <2>1, InstrumentFacts
  <2>3. v \in 1 .. u
    BY <1>1, <2>1, <2>2
  <2>4. u - v < HistorySize * Instruments
    BY <1>1, <1>3, <2>1, <2>3, TradeEngineAssumption
  <2> QED BY <1>2, <2>1, <2>3, <2>4 DEF Window
<1>6. ASSUME NEW v \in Window(u), t - v < HistorySize * Instruments PROVE v \in Window(t)
  BY <1>1, <1>2, <1>6 DEF Window
<1> QED BY <1>4, <1>5, <1>6

LEMMA WindowFirst ==
  ASSUME NEW t \in Nat \ {0}, t <= Instruments
  PROVE  Window(t) = {t}
<1>1. HistorySize * Instruments > 0
  BY TradeEngineAssumption
<1>2. t \in Window(t)
  BY <1>1 DEF Window
<1>3. ASSUME NEW v \in Window(t), v # t PROVE FALSE
  <2>1. v \in Nat \ {0} /\ v < t /\ instrument(v) = instrument(t)
    BY <1>3 DEF Window
  <2>2. t - v >= Instruments
    BY <2>1, InstrumentFacts
  <2> QED BY <2>1, <2>2, TradeEngineAssumption
<1> QED BY <1>2, <1>3

-----------------------------------------------------------------------------
(***************************************************************************)
(* The histories                                                           *)
(***************************************************************************)

\* The history h is the window of the tick u of the feed, in the order of the
\* ticks.
IsWindow(h, feed, u) ==
  /\ Len(h) \in 1 .. HistorySize
  /\ Window(u) = {Back(u, j) : j \in 0 .. Len(h) - 1}
  /\ \A j \in 0 .. Len(h) - 1 : h[Len(h) - j] = feed[Back(u, j)]

\* The last Instruments ticks are the last of their instruments; the others
\* have had none.
HistoriesAreWindows ==
  /\ \A u \in 1 .. Len(market_data) :
       Len(market_data) - u < Instruments
         => IsWindow(price_history[instrument(u)], market_data, u)
  /\ \A i \in 0 .. Instruments - 1 : Len(market_data) <= i => price_history[i] = <<>>

\* A window that moves on.
LEMMA WindowMoves ==
  ASSUME NEW u \in Nat \ {0}, NEW n \in 1 .. HistorySize, NEW t, t = u + Instruments,
         Window(u) = {Back(u, j) : j \in 0 .. n - 1},
         NEW m, m = IF n < HistorySize THEN n + 1 ELSE n
  PROVE  Window(t) = {Back(t, j) : j \in 0 .. m - 1}
<1>1. Window(t) = {t} \cup {v \in Window(u) : t - v < HistorySize * Instruments}
  BY WindowNext
<1>2. u \in Int /\ t \in Int /\ n \in Int /\ HistorySize \in Int
  BY TradeEngineAssumption
<1>3. Back(t, 0) = t
  BY <1>2, BackFacts
<1>4. \A j \in Int : /\ Back(t, j + 1) = Back(u, j)
                     /\ t - Back(t, j) = j * Instruments
  <2>1. ASSUME NEW j \in Int
        PROVE  Back(t, j + 1) = Back(u, j) /\ t - Back(t, j) = j * Instruments
    <3>1. Back(u + Instruments, j + 1) = Back(u, j)
      BY <1>2, BackFacts
    <3>2. t - Back(t, j) = j * Instruments
      BY <1>2, BackFacts
    <3> QED BY <3>1, <3>2
  <2> QED BY <2>1
<1>5. \A j \in Int : j * Instruments < HistorySize * Instruments <=> j < HistorySize
  <2>1. ASSUME NEW j \in Int
        PROVE  j * Instruments < HistorySize * Instruments <=> j < HistorySize
    <3>1. Instruments \in Int /\ Instruments > 0
      BY TradeEngineAssumption
    <3>2. (HistorySize - j) * Instruments = HistorySize * Instruments - j * Instruments
      BY <1>2, <3>1
    <3>3. PICK d \in Int : d = HistorySize - j
      BY <1>2
    <3>4. d * Instruments > 0 <=> d > 0
      BY <3>1
    <3> QED BY <1>2, <3>1, <3>2, <3>3, <3>4
  <2> QED BY <2>1
<1> HIDE DEF Back
<1>6. ASSUME NEW v
      PROVE  v \in Window(t) <=> \E j \in 0 .. n : v = Back(t, j) /\ j < HistorySize
  <2>1. ASSUME v \in Window(t)
        PROVE  \E j \in 0 .. n : v = Back(t, j) /\ j < HistorySize
    <3>1. CASE v = t
      <4>1. 0 \in 0 .. n /\ 0 < HistorySize
        BY <1>2
      <4> QED BY <1>3, <3>1, <4>1
    <3>2. CASE v # t
      <4>1. PICK j \in 0 .. n - 1 : v = Back(u, j) /\ t - v < HistorySize * Instruments
        BY <1>1, <2>1, <3>2
      <4>2. j + 1 \in 0 .. n /\ j \in Int /\ j + 1 \in Int
        BY <1>2
      <4>3. v = Back(t, j + 1) /\ j + 1 < HistorySize
        BY <1>4, <1>5, <4>1, <4>2
      <4> QED BY <4>2, <4>3
    <3> QED BY <3>1, <3>2
  <2>2. ASSUME NEW j \in 0 .. n, v = Back(t, j), j < HistorySize
        PROVE  v \in Window(t)
    <3>1. CASE j = 0
      BY <1>1, <1>3, <2>2, <3>1
    <3>2. CASE j # 0
      <4>1. j - 1 \in 0 .. n - 1 /\ j \in Int /\ j - 1 \in Int /\ (j - 1) + 1 = j
        BY <3>2, <1>2
      <4>2. v = Back(u, j - 1) /\ t - v < HistorySize * Instruments
        BY <1>4, <1>5, <2>2, <4>1
      <4> QED BY <1>1, <4>1, <4>2
    <3> QED BY <3>1, <3>2
  <2> QED BY <2>1, <2>2
<1>7. \A j \in Int : j \in 0 .. m - 1 <=> j \in 0 .. n /\ j < HistorySize
  BY <1>2
<1>8. \A v : v \in Window(t) <=> \E j \in 0 .. m - 1 : v = Back(t, j)
  BY <1>6, <1>7
<1> QED BY <1>8

LEMMA AppendedTick ==
  ASSUME NEW S, NEW q \in Seq(S), NEW p \in S
  PROVE  /\ Append(q, p) \in Seq(S) /\ Len(Append(q, p)) = Len(q) + 1
         /\ Append(q, p)[Len(q) + 1] = p
         /\ \A k \in 1 .. Len(q) : Append(q, p)[k] = q[k]
OBVIOUS

\* The prices of the window follow, without the oldest when there are too many.
IsUpdated(g, h, price) ==
  /\ g \in Seq(TickPrices)
  /\ Len(g) = IF Len(h) < HistorySize THEN Len(h) + 1 ELSE Len(h)
  /\ \A j \in 0 .. Len(g) - 1 : g[Len(g) - j] = Append(h, price)[(Len(h) + 1) - j]

LEMMA UpdateFacts ==
  ASSUME NEW h \in Seq(TickPrices), NEW price \in TickPrices, Len(h) <= HistorySize
  PROVE  IsUpdated(updateHistory(h, price), h, price)
<1>0. Append(h, price) \in Seq(TickPrices)
  OBVIOUS
<1>1. PICK q \in Seq(TickPrices) : q = Append(h, price)
  BY <1>0
<1>2. Len(q) = Len(h) + 1 /\ Len(h) \in Nat /\ HistorySize \in Nat
  BY <1>1, AppendedTick, TradeEngineAssumption
<1>3. updateHistory(h, price) = IF Len(q) > HistorySize THEN Tail(q) ELSE q
  BY <1>1 DEF updateHistory
<1>4. CASE Len(h) < HistorySize
  <2>1. updateHistory(h, price) = q
    BY <1>2, <1>3, <1>4
  <2>2. Len(q) = IF Len(h) < HistorySize THEN Len(h) + 1 ELSE Len(h)
    BY <1>2, <1>4
  <2>3. \A j \in 0 .. Len(q) - 1 : q[Len(q) - j] = q[(Len(h) + 1) - j]
    BY <1>2
  <2>4. IsUpdated(q, h, price)
    BY <1>1, <2>2, <2>3 DEF IsUpdated
  <2> QED BY <2>1, <2>4
<1>5. CASE Len(h) = HistorySize
  <2>1. PICK r : r = Tail(q)
    OBVIOUS
  <2>2. q # <<>>
    BY <1>2
  <2>3. r \in Seq(TickPrices) /\ Len(r) = Len(h) /\ \A k \in 1 .. Len(r) : r[k] = q[k + 1]
    BY <1>2, <2>1, <2>2
  <2>4. updateHistory(h, price) = r
    BY <1>2, <1>3, <1>5, <2>1
  <2>5. \A j \in 0 .. Len(r) - 1 : r[Len(r) - j] = q[(Len(h) + 1) - j]
    <3>1. ASSUME NEW j \in 0 .. Len(r) - 1 PROVE r[Len(r) - j] = q[(Len(h) + 1) - j]
      <4>1. Len(r) - j \in 1 .. Len(r) /\ (Len(r) - j) + 1 = (Len(h) + 1) - j
        BY <1>2, <2>3
      <4> QED BY <2>3, <4>1
    <3> QED BY <3>1
  <2>6. Len(r) = IF Len(h) < HistorySize THEN Len(h) + 1 ELSE Len(h)
    BY <1>2, <1>5, <2>3
  <2>7. IsUpdated(r, h, price)
    BY <1>1, <2>3, <2>5, <2>6 DEF IsUpdated
  <2> QED BY <2>4, <2>7
<1> QED BY <1>2, <1>4, <1>5

LEMMA WindowStays ==
  ASSUME NEW feed \in Seq(TickPrices), NEW price \in TickPrices, NEW h,
         NEW u \in 1 .. Len(feed), IsWindow(h, feed, u)
  PROVE  IsWindow(h, Append(feed, price), u)
<1>1. \A v \in Window(u) : v \in 1 .. Len(feed)
  BY DEF Window
<1>2. \A j \in 0 .. Len(h) - 1 : Back(u, j) \in 1 .. Len(feed)
  BY <1>1 DEF IsWindow
<1>3. \A k \in 1 .. Len(feed) : Append(feed, price)[k] = feed[k]
  BY AppendedTick
<1> QED BY <1>2, <1>3 DEF IsWindow

LEMMA FirstWindow ==
  ASSUME NEW feed \in Seq(TickPrices), NEW price \in TickPrices,
         NEW t, t = Len(feed) + 1, t <= Instruments
  PROVE  IsWindow(updateHistory(<<>>, price), Append(feed, price), t)
<1>1. t \in Nat \ {0} /\ Append(feed, price)[t] = price
  BY AppendedTick
<1>2. Window(t) = {t}
  BY <1>1, WindowFirst
<1>3. updateHistory(<<>>, price) = <<price>>
  <2>1. Append(<<>>, price) = <<price>> /\ Len(<<price>>) = 1
    BY SMT
  <2> QED BY <2>1, TradeEngineAssumption DEF updateHistory
<1>4. Back(t, 0) = t
  BY <1>1, BackFacts
<1>5. Len(<<price>>) = 1 /\ <<price>>[1] = price /\ 1 \in 1 .. HistorySize
  BY TradeEngineAssumption
<1>6. PICK h : h = <<price>>
  OBVIOUS
<1>7. IsWindow(h, Append(feed, price), t)
  <2>1. 0 .. Len(h) - 1 = {0} /\ Len(h) - 0 = 1 /\ h[1] = price /\ Len(h) \in 1 .. HistorySize
    BY <1>5, <1>6
  <2> QED BY <1>1, <1>2, <1>4, <2>1 DEF IsWindow
<1> QED BY <1>3, <1>6, <1>7

LEMMA NextWindow ==
  ASSUME NEW feed \in Seq(TickPrices), NEW price \in TickPrices, NEW h \in Seq(TickPrices),
         NEW t, t = Len(feed) + 1, NEW u \in Nat \ {0}, t = u + Instruments,
         IsWindow(h, feed, u)
  PROVE  IsWindow(updateHistory(h, price), Append(feed, price), t)
<1>1. PICK n : n = Len(h)
  OBVIOUS
<1>2. /\ n \in 1 .. HistorySize /\ n \in Int /\ HistorySize \in Nat
      /\ Window(u) = {Back(u, j) : j \in 0 .. n - 1}
      /\ \A j \in 0 .. n - 1 : h[n - j] = feed[Back(u, j)]
  BY <1>1, TradeEngineAssumption DEF IsWindow
<1>3. PICK g : g = updateHistory(h, price)
  OBVIOUS
<1>10. IsUpdated(g, h, price)
  <2>1. Len(h) <= HistorySize
    BY <1>1, <1>2
  <2>2. IsUpdated(updateHistory(h, price), h, price)
    BY <2>1, UpdateFacts
  <2> QED BY ONLY <1>3, <2>2
<1>4. /\ Len(g) = IF n < HistorySize THEN n + 1 ELSE n
      /\ \A j \in 0 .. Len(g) - 1 : g[Len(g) - j] = Append(h, price)[(n + 1) - j]
  BY <1>1, <1>10 DEF IsUpdated
<1>5. Len(g) \in 1 .. HistorySize /\ Len(g) <= n + 1
  <2>1. n \in 1 .. HistorySize /\ HistorySize \in Nat
    BY <1>2
  <2>2. Len(g) = IF n < HistorySize THEN n + 1 ELSE n
    BY <1>4
  <2> QED BY ONLY <2>1, <2>2
<1>6. Window(t) = {Back(t, j) : j \in 0 .. Len(g) - 1}
  <2>1. Window(u) = {Back(u, j) : j \in 0 .. n - 1} /\ n \in 1 .. HistorySize
    BY <1>2
  <2>2. Len(g) = IF n < HistorySize THEN n + 1 ELSE n
    BY <1>4
  <2> QED BY <2>1, <2>2, WindowMoves
<1>7. ASSUME NEW j \in 0 .. Len(g) - 1
      PROVE  g[Len(g) - j] = Append(feed, price)[Back(t, j)]
  <2>1. g[Len(g) - j] = Append(h, price)[(n + 1) - j]
    BY <1>4
  <2>2. CASE j = 0
    <3>1. Back(t, 0) = t
      BY BackFacts
    <3>2. Append(feed, price)[t] = price
      BY AppendedTick
    <3>3. Append(h, price)[n + 1] = price
      <4>1. Append(h, price)[Len(h) + 1] = price
        BY AppendedTick
      <4> QED BY <1>1, <4>1
    <3>4. (n + 1) - j = n + 1
      BY <1>2, <2>2
    <3> QED BY <2>1, <2>2, <3>1, <3>2, <3>3, <3>4
  <2>3. CASE j # 0
    <3>1. j \in Int /\ j - 1 \in 0 .. n - 1 /\ (j - 1) + 1 = j /\ (n + 1) - j = n - (j - 1)
          /\ n - (j - 1) \in 1 .. n
      <4>1. j \in Nat /\ j # 0 /\ j <= n /\ n \in Nat
        <5>1. Len(g) \in Int /\ Len(g) <= n + 1 /\ n \in 1 .. HistorySize
          BY <1>2, <1>5
        <5>2. j \in 0 .. Len(g) - 1
          OBVIOUS
        <5> QED BY <2>3, <5>1, <5>2
      <4> QED BY ONLY <4>1
    <3>2. Back(t, j) = Back(u, j - 1)
      <4>1. u \in Int /\ j - 1 \in Int
        BY <3>1
      <4>2. Back(u + Instruments, (j - 1) + 1) = Back(u, j - 1)
        BY <4>1, BackFacts
      <4> QED BY <3>1, <4>2
    <3>3. Append(h, price)[n - (j - 1)] = feed[Back(u, j - 1)]
      <4>1. Append(h, price)[n - (j - 1)] = h[n - (j - 1)]
        BY <1>1, <3>1, AppendedTick
      <4> QED BY <1>2, <3>1, <4>1
    <3>4. Back(u, j - 1) \in 1 .. Len(feed)
      <4>1. Back(u, j - 1) \in Window(u)
        BY <1>2, <3>1
      <4>2. Instruments \in Nat \ {0}
        BY TradeEngineAssumption
      <4> QED BY <4>1, <4>2 DEF Window
    <3>5. Append(feed, price)[Back(u, j - 1)] = feed[Back(u, j - 1)]
      BY <3>4, AppendedTick
    <3> QED BY <2>1, <3>1, <3>2, <3>3, <3>5
  <2> QED BY <2>2, <2>3
<1>8. IsWindow(g, Append(feed, price), t)
  BY <1>5, <1>6, <1>7 DEF IsWindow
<1> QED BY <1>3, <1>8

HistoryTypeOK ==
  /\ market_data \in Seq(TickPrices)
  /\ price_history \in [0 .. Instruments - 1 -> Seq(TickPrices)]

LEMMA HistoriesStep ==
  ASSUME HistoryTypeOK, HistoriesAreWindows, NEW price \in TickPrices, Process(price)
  PROVE  HistoryTypeOK' /\ HistoriesAreWindows'
<1>1. PICK t : t = Len(market_data) + 1
  OBVIOUS
<1>2. PICK i : i = instrument(t)
  OBVIOUS
<1>3. PICK h : h = price_history[i]
  OBVIOUS
<1>4. PICK g : g = updateHistory(h, price)
  OBVIOUS
<1>5. PICK old : old = Len(market_data)
  OBVIOUS
<1>6. /\ market_data' = Append(market_data, price)
      /\ price_history' = [price_history EXCEPT ![i] = g]
  BY <1>1, <1>2, <1>3, <1>4 DEF Process
<1>7. old \in Nat /\ t = old + 1 /\ t \in Nat \ {0} /\ market_data \in Seq(TickPrices)
  BY <1>1, <1>5 DEF HistoryTypeOK
<1>8. i \in 0 .. Instruments - 1 /\ h \in Seq(TickPrices)
  BY <1>2, <1>3, <1>7, InstrumentFacts DEF HistoryTypeOK
<1>9. Len(market_data') = t /\ market_data' \in Seq(TickPrices)
  BY <1>1, <1>6, AppendedTick DEF HistoryTypeOK
<1>10. Instruments \in Nat \ {0} /\ HistorySize \in Nat \ {0}
  BY TradeEngineAssumption
<1>11. ASSUME NEW u \in 1 .. t, u < t, t - u < Instruments
       PROVE  /\ instrument(u) # i /\ instrument(u) \in 0 .. Instruments - 1
              /\ u \in 1 .. old
  <2>1. u \in Nat \ {0} /\ t \in Nat \ {0} /\ u \in 1 .. old
    BY <1>7, <1>11
  <2>2. instrument(u) \in 0 .. Instruments - 1
    BY <2>1, InstrumentFacts
  <2>3. instrument(u) = instrument(t) => t - u >= Instruments
    BY <1>11, <2>1, InstrumentFacts
  <2> QED BY <1>2, <1>10, <1>11, <2>1, <2>2, <2>3
<1>12. IsWindow(g, market_data', t) /\ g \in Seq(TickPrices)
  <2>1. CASE t <= Instruments
    <3>1. i = t - 1 /\ old <= i
      BY <1>2, <1>7, <2>1, InstrumentFacts
    <3>2. h = <<>>
      BY <1>3, <1>5, <1>8, <3>1 DEF HistoriesAreWindows
    <3>3. IsWindow(updateHistory(<<>>, price), Append(market_data, price), t)
      BY <1>1, <1>7, <2>1, FirstWindow
    <3>4. Len(h) <= HistorySize
      BY <1>10, <3>2
    <3>5. IsUpdated(g, h, price)
      BY <1>4, <1>8, <3>4, UpdateFacts
    <3> QED BY <1>4, <1>6, <3>2, <3>3, <3>5 DEF IsUpdated
  <2>2. CASE ~(t <= Instruments)
    <3>1. PICK u \in Nat \ {0} : t = u + Instruments
      <4>1. t - Instruments \in Nat \ {0} /\ t = (t - Instruments) + Instruments
        BY <1>7, <1>10, <2>2
      <4> QED BY <4>1
    <3>2. instrument(u) = i
      BY <1>2, <3>1, InstrumentFacts
    <3>3. u \in 1 .. old /\ old - u < Instruments
      BY <1>7, <1>10, <3>1
    <3>4. IsWindow(h, market_data, u)
      BY <1>3, <1>5, <3>2, <3>3 DEF HistoriesAreWindows
    <3>5. IsWindow(updateHistory(h, price), Append(market_data, price), t)
      BY <1>1, <1>7, <1>8, <3>1, <3>4, NextWindow
    <3>6. Len(h) <= HistorySize
      BY <1>10, <3>4 DEF IsWindow
    <3>7. IsUpdated(g, h, price)
      BY <1>4, <1>8, <3>6, UpdateFacts
    <3> QED BY <1>4, <1>6, <3>5, <3>7 DEF IsUpdated
  <2> QED BY <2>1, <2>2
<1>13. \A j \in 0 .. Instruments - 1 :
         price_history'[j] = IF j = i THEN g ELSE price_history[j]
  BY <1>6, <1>8 DEF HistoryTypeOK
<1>14. HistoryTypeOK'
  BY <1>6, <1>8, <1>9, <1>12 DEF HistoryTypeOK
<1>15. ASSUME NEW u \in 1 .. Len(market_data'), Len(market_data') - u < Instruments
       PROVE  IsWindow(price_history'[instrument(u)], market_data', u)
  <2>0. u \in 1 .. t /\ t - u < Instruments
    BY <1>9, <1>15
  <2>1. CASE u = t
    BY <1>2, <1>8, <1>12, <1>13, <2>1
  <2>2. CASE u # t
    <3>1. /\ instrument(u) # i /\ instrument(u) \in 0 .. Instruments - 1
          /\ u \in 1 .. old
      <4>1. u < t
        BY <1>7, <2>0, <2>2
      <4> QED BY <1>11, <2>0, <4>1
    <3>2. old - u < Instruments
      BY <1>7, <1>10, <2>0
    <3>3. IsWindow(price_history[instrument(u)], market_data, u)
      BY <1>5, <3>1, <3>2 DEF HistoriesAreWindows
    <3>4. IsWindow(price_history[instrument(u)], Append(market_data, price), u)
      BY <1>5, <1>7, <3>1, <3>3, WindowStays
    <3> QED BY <1>6, <1>13, <3>1, <3>4
  <2> QED BY <2>1, <2>2
<1>16. ASSUME NEW j \in 0 .. Instruments - 1, Len(market_data') <= j
       PROVE  price_history'[j] = <<>>
  <2>1. old <= j /\ t <= j /\ t <= Instruments
    BY <1>7, <1>9, <1>10, <1>16
  <2>2. i # j
    <3>1. i = t - 1
      BY <1>2, <1>7, <2>1, InstrumentFacts
    <3> QED BY <1>7, <2>1, <3>1
  <2> QED BY <1>5, <1>13, <2>1, <2>2 DEF HistoriesAreWindows
<1>17. HistoriesAreWindows'
  BY <1>15, <1>16 DEF HistoriesAreWindows
<1> QED BY <1>14, <1>17

-----------------------------------------------------------------------------
(***************************************************************************)
(* The votes                                                               *)
(***************************************************************************)

\* What speaks for buying and selling at tick t of a feed, with the sum of the
\* prices in its window.
BuyingWith(feed, t, sum) ==
  {s \in 1 .. 3 :
     \/ s = 1 /\ feed[t] < 10500
     \/ s = 2 /\ Cardinality(Window(t)) >= AverageFrom
              /\ 100 * Cardinality(Window(t)) * feed[t] < 98 * sum
     \/ s = 3 /\ {t - 2 * Instruments, t - Instruments} \subseteq Window(t)
              /\ feed[t - 2 * Instruments] < feed[t - Instruments]
              /\ feed[t - Instruments] < feed[t]}

SellingWith(feed, t, sum) ==
  {s \in 1 .. 2 :
     \/ s = 1 /\ feed[t] > 19500
     \/ s = 2 /\ Cardinality(Window(t)) >= AverageFrom
              /\ 100 * Cardinality(Window(t)) * feed[t] > 102 * sum}

ForBuying(feed, t)  == BuyingWith(feed, t, SumOver(feed, Window(t)))
ForSelling(feed, t) == SellingWith(feed, t, SumOver(feed, Window(t)))

OpinionsAreOfFeed ==
  \A t \in Nat : /\ Opinions(t).buy = ForBuying(market_data, t)
                 /\ Opinions(t).sell = ForSelling(market_data, t)

LEMMA OpinionsOfFeed == OpinionsAreOfFeed
<1>1. ASSUME NEW t \in Nat
      PROVE  MapThenSumSet(LAMBDA u : market_data[u], Window(t)) = SumOver(market_data, Window(t))
  BY Zenon DEF MapThenSumSet, MapThenFoldSet, SumOver
<1>2. ASSUME NEW t \in Nat
      PROVE  /\ Opinions(t).buy = ForBuying(market_data, t)
             /\ Opinions(t).sell = ForSelling(market_data, t)
  <2>1. /\ Opinions(t).buy =
             BuyingWith(market_data, t,
                        MapThenSumSet(LAMBDA u : market_data[u], Window(t)))
        /\ Opinions(t).sell =
             SellingWith(market_data, t,
                         MapThenSumSet(LAMBDA u : market_data[u], Window(t)))
    BY DEF Opinions, BuyingWith, SellingWith
  <2> QED BY <1>1, <2>1, Zenon DEF ForBuying, ForSelling
<1> QED BY <1>2 DEF OpinionsAreOfFeed

LEMMA TotalIsSum ==
  ASSUME NEW h
  PROVE  Total(h) = SumOver(h, DOMAIN h)
BY Zenon DEF Total, FoldFunction, FoldFunctionOnSet, MapThenFoldSet, SumOver

LEMMA WindowInFeed ==
  ASSUME NEW feed \in Seq(TickPrices), NEW t \in 1 .. Len(feed)
  PROVE  /\ IsFiniteSet(Window(t)) /\ t \in Window(t)
         /\ \A v \in Window(t) : v \in 1 .. Len(feed) /\ feed[v] \in Nat
<1>1. IsFiniteSet(1 .. t)
  BY FS_Interval
<1>2. Window(t) \subseteq 1 .. t
  BY DEF Window
<1>3. IsFiniteSet(Window(t))
  BY <1>1, <1>2, FS_Subset
<1>4. \A v \in 1 .. Len(feed) : feed[v] \in Nat
  <2>1. \A v \in 1 .. Len(feed) : feed[v] \in TickPrices
    OBVIOUS
  <2> QED BY <2>1, TradeEngineAssumption
<1>5. HistorySize * Instruments > 0
  <2>1. HistorySize \in Nat \ {0} /\ Instruments \in Nat \ {0}
    BY TradeEngineAssumption
  <2> QED BY ONLY <2>1
<1>6. t \in Window(t)
  BY <1>5 DEF Window
<1> QED BY <1>2, <1>3, <1>4, <1>6

\* What is wanted at a tick does not depend on the later ones.
LEMMA OpinionsStay ==
  ASSUME NEW feed \in Seq(TickPrices), NEW price \in TickPrices, NEW t \in 1 .. Len(feed)
  PROVE  /\ ForBuying(Append(feed, price), t) = ForBuying(feed, t)
         /\ ForSelling(Append(feed, price), t) = ForSelling(feed, t)
<1>1. PICK m : m = Append(feed, price)
  OBVIOUS
<1>2. \A v \in 1 .. Len(feed) : m[v] = feed[v]
  BY <1>1, AppendedTick
<1>3. IsFiniteSet(Window(t))
  BY WindowInFeed
<1>4. \A v \in Window(t) : v \in 1 .. Len(feed) /\ feed[v] \in Nat
  BY WindowInFeed
<1>5. SumOver(m, Window(t)) = SumOver(feed, Window(t))
  <2>1. \A v \in Window(t) : feed[v] \in Int /\ m[v] = feed[v]
    BY <1>2, <1>4
  <2> QED BY <1>3, <2>1, SumOfSame
<1>6. m[t] = feed[t]
  BY <1>2
<1>7. ForSelling(m, t) = ForSelling(feed, t)
  BY <1>5, <1>6 DEF ForSelling, SellingWith
<1>8. {t - 2 * Instruments, t - Instruments} \subseteq Window(t) =>
        /\ m[t - 2 * Instruments] = feed[t - 2 * Instruments]
        /\ m[t - Instruments] = feed[t - Instruments]
  BY <1>2, <1>4
<1>9. ForBuying(m, t) = ForBuying(feed, t)
  BY <1>5, <1>6, <1>8 DEF ForBuying, BuyingWith
<1> QED BY <1>1, <1>7, <1>9

\* The history of a tick against its window.
LEMMA HistoryIsWindow ==
  ASSUME NEW feed \in Seq(TickPrices), NEW h \in Seq(TickPrices), NEW t \in 1 .. Len(feed),
         IsWindow(h, feed, t), NEW n, n = Len(h)
  PROVE  /\ n \in Nat /\ Cardinality(Window(t)) = n
         /\ Total(h) = SumOver(feed, Window(t))
         /\ {t - 2 * Instruments, t - Instruments} \subseteq Window(t) <=> n >= 3
         /\ n >= 3 => /\ h[n - 1] = feed[t - Instruments]
                      /\ h[n - 2] = feed[t - 2 * Instruments]
<1>1. /\ n \in 1 .. HistorySize /\ n \in Nat
      /\ Window(t) = {Back(t, j) : j \in 0 .. n - 1}
      /\ \A j \in 0 .. n - 1 : h[n - j] = feed[Back(t, j)]
  <2>1. Len(h) \in 1 .. HistorySize
    BY DEF IsWindow
  <2>2. Window(t) = {Back(t, j) : j \in 0 .. Len(h) - 1}
    BY DEF IsWindow
  <2>3. \A j \in 0 .. Len(h) - 1 : h[Len(h) - j] = feed[Back(t, j)]
    BY DEF IsWindow
  <2> QED BY <2>1, <2>2, <2>3, TradeEngineAssumption
<1>2. PICK e : e = [k \in 1 .. n |-> Back(t, n - k)]
  OBVIOUS
<1>3. \A j, l \in Int : Back(t, j) = Back(t, l) => j = l
  <2>1. ASSUME NEW j \in Int, NEW l \in Int, j < l PROVE Back(t, j) # Back(t, l)
    <3>1. Back(t, l) < Back(t, j) /\ Back(t, l) \in Int
      <4>1. t \in Int
        OBVIOUS
      <4> QED BY <2>1, <4>1, BackFacts
    <3> QED BY <3>1
  <2> QED BY <2>1
<1>4. \A k \in 1 .. n : n - k \in 0 .. n - 1 /\ n - (n - k) = k
  BY <1>1
<1>5. \A k, l \in 1 .. n : e[k] = e[l] => k = l
  <2>1. ASSUME NEW k \in 1 .. n, NEW l \in 1 .. n, e[k] = e[l] PROVE k = l
    <3>0. Back(t, n - k) = Back(t, n - l) /\ n - k \in Int /\ n - l \in Int
      BY <1>1, <1>2, <2>1
    <3>1. n - k = n - l
      BY <1>3, <3>0
    <3> QED BY <1>1, <3>1
  <2> QED BY <2>1
<1>6. Window(t) = {e[k] : k \in 1 .. n}
  <2>1. ASSUME NEW v \in Window(t) PROVE \E k \in 1 .. n : v = e[k]
    <3>1. PICK j \in 0 .. n - 1 : v = Back(t, j)
      BY <1>1
    <3>2. n - j \in 1 .. n /\ n - (n - j) = j
      BY <1>1
    <3> QED BY <1>2, <3>1, <3>2
  <2>2. ASSUME NEW k \in 1 .. n PROVE e[k] \in Window(t)
    BY <1>1, <1>2, <1>4
  <2> QED BY <2>1, <2>2
<1>7. Cardinality(Window(t)) = n
  <2>1. e \in Bijection(1 .. n, Window(t))
    <3>1. e \in [1 .. n -> Window(t)]
      BY <1>2, <1>6
    <3> QED BY <1>5, <1>6, <3>1 DEF Bijection, Injection, Surjection, IsInjective
  <2>2. ExistsBijection(1 .. n, Window(t))
    BY <2>1 DEF ExistsBijection
  <2> QED BY <1>1, <2>2, FS_CountingElements
<1>8. Total(h) = SumOver(feed, Window(t))
  <2>1. \A k \in 1 .. n : h[k] \in Int /\ feed[e[k]] = h[k]
    <3>1. ASSUME NEW k \in 1 .. n PROVE h[k] \in Int /\ feed[e[k]] = h[k]
      <4>1. h[k] \in TickPrices
        OBVIOUS
      <4>2. h[n - (n - k)] = feed[Back(t, n - k)]
        BY <1>1, <1>4
      <4>3. n - (n - k) = k /\ e[k] = Back(t, n - k)
        BY <1>2, <1>4
      <4>4. h[k] \in Int
        <5>1. TickPrices \subseteq Nat
          BY TradeEngineAssumption
        <5>2. h[k] \in Nat
          BY <4>1, <5>1, Zenon
        <5> QED BY <5>2
      <4> QED BY <4>2, <4>3, <4>4
    <3> QED BY <3>1
  <2>2. SameSum(h, n, feed, e)
    <3>1. n \in Nat
      BY <1>1
    <3> QED BY ONLY <1>5, <2>1, <3>1, SumOfImage
  <2>3. DOMAIN h = 1 .. n
    OBVIOUS
  <2>4. Total(h) = SumOver(h, DOMAIN h)
    BY TotalIsSum
  <2>5. SumOver(feed, {e[k] : k \in 1 .. n}) = SumOver(h, 1 .. n)
    BY <2>2 DEF SameSum
  <2> QED BY <1>6, <2>3, <2>4, <2>5
<1>9. Back(t, 1) = t - Instruments /\ Back(t, 2) = t - 2 * Instruments
  <2>1. t \in Int
    OBVIOUS
  <2> QED BY <2>1, BackFacts
<1>10. {t - 2 * Instruments, t - Instruments} \subseteq Window(t) <=> n >= 3
  <2>1. ASSUME t - 2 * Instruments \in Window(t) PROVE n >= 3
    <3>1. PICK j \in 0 .. n - 1 : Back(t, j) = Back(t, 2)
      BY <1>1, <1>9, <2>1
    <3>2. j = 2
      BY <1>3, <3>1
    <3> QED BY <1>1, <3>2
  <2>2. ASSUME n >= 3
        PROVE  t - 2 * Instruments \in Window(t) /\ t - Instruments \in Window(t)
    <3>1. 1 \in 0 .. n - 1 /\ 2 \in 0 .. n - 1
      BY <1>1, <2>2
    <3> QED BY <1>1, <1>9, <3>1
  <2> QED BY <2>1, <2>2
<1>11. ASSUME n >= 3
       PROVE  h[n - 1] = feed[t - Instruments] /\ h[n - 2] = feed[t - 2 * Instruments]
  <2>1. 1 \in 0 .. n - 1 /\ 2 \in 0 .. n - 1
    BY <1>1, <1>11
  <2> QED BY <1>1, <1>9, <2>1
<1> QED BY <1>1, <1>7, <1>8, <1>10, <1>11

\* The signals vote as the feed has it.
VotesAre(h, feed, t) ==
  /\ For(Votes(feed[t], h), "BUY") = ForBuying(feed, t)
  /\ For(Votes(feed[t], h), "SELL") = ForSelling(feed, t)

LEMMA VotesAreRight ==
  ASSUME NEW feed \in Seq(TickPrices), NEW h \in Seq(TickPrices), NEW t \in 1 .. Len(feed),
         IsWindow(h, feed, t)
  PROVE  VotesAre(h, feed, t)
<1>1. PICK n : n = Len(h)
  OBVIOUS
<1>2. /\ n \in Nat /\ Cardinality(Window(t)) = n
      /\ Total(h) = SumOver(feed, Window(t))
      /\ {t - 2 * Instruments, t - Instruments} \subseteq Window(t) <=> n >= 3
      /\ n >= 3 => /\ h[n - 1] = feed[t - Instruments]
                   /\ h[n - 2] = feed[t - 2 * Instruments]
  BY <1>1, HistoryIsWindow
<1>3. PICK p : p = feed[t]
  OBVIOUS
<1>4. PICK sum : sum = SumOver(feed, Window(t))
  OBVIOUS
<1>5. p \in Nat /\ sum \in Nat /\ p <= sum
  <2>1. IsFiniteSet(Window(t)) /\ t \in Window(t)
    BY WindowInFeed
  <2>2. \A v \in Window(t) : feed[v] \in Nat
    BY WindowInFeed
  <2>3. SumOver(feed, Window(t)) \in Nat /\ \A v \in Window(t) : feed[v] <= SumOver(feed, Window(t))
    BY <2>1, <2>2, SumOfNats
  <2> QED BY <1>3, <1>4, <2>1, <2>2, <2>3
<1>6. AverageFrom \in Nat
  BY TradeEngineAssumption
<1>7. PICK m \in Nat : m = n * p
  BY <1>2, <1>5
<1>8. n * p * 100 = 100 * m /\ 100 * n * p = 100 * m
  BY <1>2, <1>5, <1>7
<1>9. sum = 0 => m = 0
  BY <1>2, <1>5, <1>7
<1>10. /\ evaluateSignal2(p, h) = "BUY" <=> n >= AverageFrom /\ 100 * m < 98 * sum
       /\ evaluateSignal2(p, h) = "SELL" <=> n >= AverageFrom /\ 100 * m > 102 * sum
  <2>1. evaluateSignal2(p, h) =
          IF n < AverageFrom \/ sum = 0 THEN "NONE"
          ELSE IF 100 * m < sum * 98    THEN "BUY"
          ELSE IF 100 * m > sum * 102   THEN "SELL"
          ELSE "NONE"
    BY <1>1, <1>2, <1>4, <1>8 DEF evaluateSignal2
  <2>2. CASE n < AverageFrom \/ sum = 0
    <3>1. evaluateSignal2(p, h) = "NONE"
      BY <2>1, <2>2
    <3>2. ~(n >= AverageFrom) \/ (~(100 * m < 98 * sum) /\ ~(100 * m > 102 * sum))
      <4>1. n \in Nat /\ sum \in Nat
        BY <1>2, <1>5
      <4> QED BY <1>6, <1>7, <1>9, <2>2, <4>1
    <3> QED BY <3>1, <3>2
  <2>3. CASE ~(n < AverageFrom) /\ sum # 0
    BY <1>2, <1>5, <1>6, <2>1, <2>3
  <2> QED BY <2>2, <2>3
<1>11. /\ evaluateSignal1(p) = "BUY" <=> p < 10500
       /\ evaluateSignal1(p) = "SELL" <=> p > 19500
  BY <1>5 DEF evaluateSignal1
<1>12. /\ evaluateSignal3(p, h) = "BUY"
           <=> n >= 3 /\ h[n - 1] > h[n - 2] /\ p > h[n - 1]
       /\ evaluateSignal3(p, h) # "SELL"
  BY <1>1 DEF evaluateSignal3
<1>13. PICK s1, s2, s3 : s1 = evaluateSignal1(p) /\ s2 = evaluateSignal2(p, h)
                         /\ s3 = evaluateSignal3(p, h)
  OBVIOUS
<1>14. \A a : For(<<s1, s2, s3>>, a) =
                {s \in 1 .. 3 : (s = 1 /\ s1 = a) \/ (s = 2 /\ s2 = a) \/ (s = 3 /\ s3 = a)}
  BY DEF For
<1>15. Votes(p, h) = <<s1, s2, s3>>
  BY <1>13 DEF Votes
<1>16. For(Votes(p, h), "SELL") = ForSelling(feed, t)
  <2>1. ForSelling(feed, t) =
          {s \in 1 .. 2 : (s = 1 /\ p > 19500)
                          \/ (s = 2 /\ n >= AverageFrom /\ 100 * m > 102 * sum)}
    BY <1>2, <1>3, <1>4, <1>8 DEF ForSelling, SellingWith
  <2>2. For(<<s1, s2, s3>>, "SELL") =
          {s \in 1 .. 3 : (s = 1 /\ s1 = "SELL") \/ (s = 2 /\ s2 = "SELL")
                          \/ (s = 3 /\ s3 = "SELL")}
    BY <1>14
  <2>3. /\ s1 = "SELL" <=> p > 19500
        /\ s2 = "SELL" <=> n >= AverageFrom /\ 100 * m > 102 * sum
        /\ s3 # "SELL"
    <3>1. s1 = "SELL" <=> p > 19500
      BY <1>11, <1>13
    <3>2. s2 = "SELL" <=> n >= AverageFrom /\ 100 * m > 102 * sum
      BY <1>10, <1>13
    <3>3. s3 # "SELL"
      BY <1>12, <1>13
    <3> QED BY <3>1, <3>2, <3>3
  <2>4. ForSelling(feed, t) = {s \in 1 .. 2 : (s = 1 /\ s1 = "SELL") \/ (s = 2 /\ s2 = "SELL")}
    BY <2>1, <2>3
  <2>5. For(<<s1, s2, s3>>, "SELL")
          = {s \in 1 .. 2 : (s = 1 /\ s1 = "SELL") \/ (s = 2 /\ s2 = "SELL")}
    <3>1. s3 # "SELL"
      BY <2>3
    <3> QED BY ONLY <2>2, <3>1
  <2> QED BY <1>15, <2>4, <2>5, Zenon
<1>17. For(Votes(p, h), "BUY") = ForBuying(feed, t)
  <2>1. ForBuying(feed, t) =
          {s \in 1 .. 3 : (s = 1 /\ p < 10500)
                          \/ (s = 2 /\ n >= AverageFrom /\ 100 * m < 98 * sum)
                          \/ (s = 3 /\ n >= 3 /\ feed[t - 2 * Instruments] < feed[t - Instruments]
                                    /\ feed[t - Instruments] < p)}
    BY <1>2, <1>3, <1>4, <1>8 DEF ForBuying, BuyingWith
  <2>2. For(<<s1, s2, s3>>, "BUY") =
          {s \in 1 .. 3 : (s = 1 /\ s1 = "BUY") \/ (s = 2 /\ s2 = "BUY")
                          \/ (s = 3 /\ s3 = "BUY")}
    BY <1>14
  <2>3. s3 = "BUY" <=> n >= 3 /\ feed[t - 2 * Instruments] < feed[t - Instruments]
                       /\ feed[t - Instruments] < p
    BY <1>2, <1>12, <1>13
  <2>4. s1 = "BUY" <=> p < 10500
    BY <1>11, <1>13
  <2>5. s2 = "BUY" <=> n >= AverageFrom /\ 100 * m < 98 * sum
    BY <1>10, <1>13
  <2>6. ForBuying(feed, t) = {s \in 1 .. 3 : (s = 1 /\ s1 = "BUY") \/ (s = 2 /\ s2 = "BUY")
                                             \/ (s = 3 /\ s3 = "BUY")}
    BY <2>1, <2>3, <2>4, <2>5
  <2> QED BY <1>15, <2>2, <2>6, Zenon
<1> QED BY <1>3, <1>16, <1>17 DEF VotesAre

-----------------------------------------------------------------------------
(***************************************************************************)
(* The orders                                                              *)
(***************************************************************************)

TradeOrders == [tick : Nat, price : Int, is_buy : BOOLEAN, signal_source : 1 .. 3]

\* How many signals speak for buying and selling.
Buyers(feed, t)  == Cardinality(ForBuying(feed, t))
Sellers(feed, t) == Cardinality(ForSelling(feed, t))

Wanted(feed) == {t \in DOMAIN feed : Buyers(feed, t) # Sellers(feed, t)}

IsWanted(o, feed) ==
  /\ o.is_buy = (Buyers(feed, o.tick) > Sellers(feed, o.tick))
  /\ o.signal_source \in IF Buyers(feed, o.tick) > Sellers(feed, o.tick)
                         THEN ForBuying(feed, o.tick) ELSE ForSelling(feed, o.tick)

AreWanted(made, feed) ==
  /\ {made[k].tick : k \in DOMAIN made} = Wanted(feed)
  /\ \A j, k \in DOMAIN made : j < k => made[j].tick < made[k].tick
  /\ \A k \in DOMAIN made : IsWanted(made[k], feed)

LEMMA WantedAreJustified ==
  ASSUME market_data \in Seq(TickPrices), AreWanted(placed, market_data)
  PROVE  OrdersAreJustified
<1>1. \A t \in DOMAIN market_data :
        /\ Opinions(t).buy = ForBuying(market_data, t)
        /\ Opinions(t).sell = ForSelling(market_data, t)
  BY OpinionsOfFeed DEF OpinionsAreOfFeed
<1>2. {t \in DOMAIN market_data :
         Cardinality(Opinions(t).buy) # Cardinality(Opinions(t).sell)} = Wanted(market_data)
  BY <1>1 DEF Wanted, Buyers, Sellers
<1>3. \A k \in DOMAIN placed : placed[k].tick \in DOMAIN market_data
  BY DEF AreWanted, Wanted
<1>4. ASSUME NEW k \in DOMAIN placed
      PROVE  LET opinions == Opinions(placed[k].tick)
                 buy      == Cardinality(opinions.buy) > Cardinality(opinions.sell)
             IN  /\ placed[k].is_buy = buy
                 /\ placed[k].signal_source \in IF buy THEN opinions.buy ELSE opinions.sell
  <2>1. IsWanted(placed[k], market_data)
    BY DEF AreWanted
  <2>2. /\ Opinions(placed[k].tick).buy = ForBuying(market_data, placed[k].tick)
        /\ Opinions(placed[k].tick).sell = ForSelling(market_data, placed[k].tick)
    BY <1>1, <1>3
  <2> QED BY <2>1, <2>2 DEF IsWanted, Buyers, Sellers
<1>5. {placed[k].tick : k \in DOMAIN placed} = Wanted(market_data)
  BY DEF AreWanted
<1>6. \A j, k \in DOMAIN placed : j < k => placed[j].tick < placed[k].tick
  BY DEF AreWanted
<1> QED BY <1>2, <1>4, <1>5, <1>6 DEF OrdersAreJustified

LEMMA OpinionCounts ==
  ASSUME NEW feed, NEW t
  PROVE  /\ Buyers(feed, t) \in Nat /\ Sellers(feed, t) \in Nat
         /\ ForBuying(feed, t) \subseteq 1 .. 3 /\ ForSelling(feed, t) \subseteq 1 .. 3
<1>1. ForBuying(feed, t) \subseteq 1 .. 3 /\ ForSelling(feed, t) \subseteq 1 .. 2
  BY DEF ForBuying, ForSelling, BuyingWith, SellingWith
<1>2. \A n \in Int : IsFiniteSet(1 .. n)
  BY FS_Interval
<1>3. IsFiniteSet(ForBuying(feed, t)) /\ IsFiniteSet(ForSelling(feed, t))
  <2>0. 3 \in Int /\ 2 \in Int
    OBVIOUS
  <2>1. IsFiniteSet(1 .. 3) /\ IsFiniteSet(1 .. 2)
    BY <1>2, <2>0, Zenon
  <2> QED BY <1>1, <2>1, FS_Subset
<1>4. Buyers(feed, t) \in Nat /\ Sellers(feed, t) \in Nat
  BY <1>3, FS_CardinalityType DEF Buyers, Sellers
<1> QED BY <1>1, <1>4

\* The next tick changes what is wanted at that tick only.
OnlyNew(made, feed, m, t) ==
  /\ Wanted(m) = Wanted(feed) \cup (IF Buyers(m, t) # Sellers(m, t) THEN {t} ELSE {})
  /\ \A k \in DOMAIN made : made[k].tick < t /\ IsWanted(made[k], m)

LEMMA WantedNext ==
  ASSUME NEW feed \in Seq(TickPrices), NEW price \in TickPrices, NEW made,
         NEW t, t = Len(feed) + 1, NEW m, m = Append(feed, price), AreWanted(made, feed)
  PROVE  OnlyNew(made, feed, m, t)
<1>1. \A u \in 1 .. Len(feed) : /\ ForBuying(m, u) = ForBuying(feed, u)
                                /\ ForSelling(m, u) = ForSelling(feed, u)
  BY OpinionsStay
<1>2. \A u \in 1 .. Len(feed) : /\ Buyers(m, u) = Buyers(feed, u)
                                /\ Sellers(m, u) = Sellers(feed, u)
  BY <1>1 DEF Buyers, Sellers
<1>3. DOMAIN feed = 1 .. Len(feed) /\ DOMAIN m = (1 .. Len(feed)) \cup {t}
  OBVIOUS
<1>4. Wanted(m) = Wanted(feed) \cup (IF Buyers(m, t) # Sellers(m, t) THEN {t} ELSE {})
  BY <1>2, <1>3 DEF Wanted
<1>5. ASSUME NEW k \in DOMAIN made PROVE made[k].tick < t /\ IsWanted(made[k], m)
  <2>1. made[k].tick \in 1 .. Len(feed)
    BY <1>3 DEF AreWanted, Wanted
  <2>2. IsWanted(made[k], feed)
    BY DEF AreWanted
  <2>3. IsWanted(made[k], m)
    BY <1>1, <1>2, <2>1, <2>2 DEF IsWanted
  <2> QED BY <2>1, <2>3
<1> QED BY <1>4, <1>5 DEF OnlyNew

LEMMA NoneWanted ==
  ASSUME NEW feed \in Seq(TickPrices), NEW price \in TickPrices, NEW made,
         AreWanted(made, feed), NEW t, t = Len(feed) + 1, NEW m, m = Append(feed, price),
         Buyers(m, t) = Sellers(m, t)
  PROVE  AreWanted(made, m)
<1>1. OnlyNew(made, feed, m, t)
  BY WantedNext
<1> QED BY <1>1 DEF AreWanted, OnlyNew

LEMMA OneWanted ==
  ASSUME NEW feed \in Seq(TickPrices), NEW price \in TickPrices, NEW made \in Seq(TradeOrders),
         AreWanted(made, feed), NEW t, t = Len(feed) + 1, NEW m, m = Append(feed, price),
         Buyers(m, t) # Sellers(m, t), NEW o \in TradeOrders, o.tick = t, IsWanted(o, m)
  PROVE  AreWanted(Append(made, o), m)
<1>0. OnlyNew(made, feed, m, t)
  BY WantedNext
<1>1. Wanted(m) = Wanted(feed) \cup {t}
  BY <1>0 DEF OnlyNew
<1>2. \A k \in DOMAIN made : made[k].tick < t /\ IsWanted(made[k], m)
  BY <1>0 DEF OnlyNew
<1>3. PICK q : q = Append(made, o)
  OBVIOUS
<1>4. PICK n \in Nat : n = Len(made)
  OBVIOUS
<1>5. /\ DOMAIN made = 1 .. n /\ DOMAIN q = 1 .. n + 1
      /\ q[n + 1] = o /\ \A k \in 1 .. n : q[k] = made[k]
  BY <1>3, <1>4
<1>6. \A k \in 1 .. n + 1 : k \in 1 .. n \/ k = n + 1
  OBVIOUS
<1>7. /\ {made[k].tick : k \in 1 .. n} = Wanted(feed)
      /\ \A j, k \in 1 .. n : j < k => made[j].tick < made[k].tick
  BY <1>5 DEF AreWanted
<1>8. {q[k].tick : k \in 1 .. n + 1} = Wanted(m)
  <2>1. ASSUME NEW k \in 1 .. n + 1 PROVE q[k].tick \in Wanted(m)
    BY <1>1, <1>5, <1>6, <1>7
  <2>2. ASSUME NEW u \in Wanted(m) PROVE \E k \in 1 .. n + 1 : u = q[k].tick
    <3>1. CASE u = t
      <4>1. n + 1 \in 1 .. n + 1
        OBVIOUS
      <4> QED BY <1>5, <3>1, <4>1
    <3>2. CASE u # t
      <4>1. PICK k \in 1 .. n : u = made[k].tick
        BY <1>1, <1>7, <3>2
      <4>2. k \in 1 .. n + 1
        OBVIOUS
      <4> QED BY <1>5, <4>1, <4>2
    <3> QED BY <3>1, <3>2
  <2> QED BY <2>1, <2>2
<1>9. ASSUME NEW j \in 1 .. n + 1, NEW k \in 1 .. n + 1, j < k PROVE q[j].tick < q[k].tick
  <2>1. j \in 1 .. n
    BY <1>9
  <2>2. CASE k \in 1 .. n
    BY <1>5, <1>7, <1>9, <2>1, <2>2
  <2>3. CASE k = n + 1
    BY <1>2, <1>5, <2>1, <2>3
  <2> QED BY <1>6, <2>2, <2>3
<1>10. \A k \in 1 .. n + 1 : IsWanted(q[k], m)
  BY <1>2, <1>5, <1>6
<1>11. AreWanted(q, m)
  BY <1>5, <1>8, <1>9, <1>10 DEF AreWanted
<1> QED BY <1>3, <1>11

TradeInv ==
  /\ HistoryTypeOK /\ HistoriesAreWindows
  /\ placed \in Seq(TradeOrders) /\ AreWanted(placed, market_data)

LEMMA TradeInit == EngineInit => TradeInv
<1> SUFFICES ASSUME EngineInit PROVE TradeInv
  OBVIOUS
<1>1. Len(<<>>) = 0 /\ \A S : <<>> \in Seq(S)
  BY SMT
<1>2. HistoryTypeOK
  BY <1>1 DEF EngineInit, HistoryTypeOK
<1>3. HistoriesAreWindows
  BY <1>1 DEF EngineInit, HistoriesAreWindows
<1>4. DOMAIN <<>> = {}
  OBVIOUS
<1>5. DOMAIN placed = {} /\ DOMAIN market_data = {}
  BY <1>4, Zenon DEF EngineInit
<1>6. AreWanted(placed, market_data)
  BY <1>5 DEF AreWanted, Wanted
<1>7. placed \in Seq(TradeOrders)
  BY <1>1 DEF EngineInit
<1> QED BY <1>2, <1>3, <1>6, <1>7 DEF TradeInv

LEMMA OrdersStep ==
  ASSUME TradeInv, NEW price \in TickPrices, Process(price)
  PROVE  TradeInv'
<1>1. HistoryTypeOK /\ HistoriesAreWindows
  BY DEF TradeInv
<1>2. HistoryTypeOK' /\ HistoriesAreWindows'
  BY <1>1, HistoriesStep
<1>3. PICK t : t = Len(market_data) + 1
  OBVIOUS
<1>4. PICK i : i = instrument(t)
  OBVIOUS
<1>5. PICK g : g = updateHistory(price_history[i], price)
  OBVIOUS
<1>6. /\ market_data' = Append(market_data, price)
      /\ price_history' = [price_history EXCEPT ![i] = g]
  BY <1>3, <1>4, <1>5 DEF Process
<1>7. market_data \in Seq(TickPrices) /\ t \in Nat \ {0} /\ Instruments \in Nat \ {0}
  BY <1>1, <1>3, TradeEngineAssumption DEF HistoryTypeOK
<1>8. PICK m : m = market_data'
  OBVIOUS
<1>9. /\ m = Append(market_data, price) /\ m \in Seq(TickPrices) /\ Len(m) = t
      /\ t \in 1 .. Len(m) /\ m[t] = price
  BY <1>3, <1>6, <1>7, <1>8, AppendedTick
<1>10. i \in 0 .. Instruments - 1
  BY <1>4, <1>7, InstrumentFacts
<1>11. price_history'[i] = g /\ g \in Seq(TickPrices)
  BY <1>1, <1>2, <1>6, <1>10 DEF HistoryTypeOK
<1>12. IsWindow(g, m, t)
  BY <1>2, <1>4, <1>7, <1>8, <1>9, <1>11 DEF HistoriesAreWindows
<1>13. VotesAre(g, m, t)
  BY <1>9, <1>11, <1>12, VotesAreRight
<1>14. PICK buys : buys = For(Votes(price, g), "BUY")
  OBVIOUS
<1>15. PICK sells : sells = For(Votes(price, g), "SELL")
  OBVIOUS
<1>16. buys = ForBuying(m, t) /\ sells = ForSelling(m, t)
  BY <1>9, <1>13, <1>14, <1>15 DEF VotesAre
<1>17. /\ Cardinality(buys) = Buyers(m, t) /\ Cardinality(sells) = Sellers(m, t)
       /\ buys \subseteq 1 .. 3 /\ sells \subseteq 1 .. 3
       /\ Buyers(m, t) \in Nat /\ Sellers(m, t) \in Nat
  BY <1>16, OpinionCounts DEF Buyers, Sellers
<1>18. /\ Cardinality(buys) > Cardinality(sells) => PlaceOrder(t, price, TRUE, buys)
       /\ Cardinality(sells) > Cardinality(buys) => PlaceOrder(t, price, FALSE, sells)
       /\ ~(Cardinality(buys) > Cardinality(sells)) /\ ~(Cardinality(sells) > Cardinality(buys))
            => placed' = placed
  <2>1. ~(Cardinality(buys) > Cardinality(sells) /\ Cardinality(sells) > Cardinality(buys))
    BY <1>17
  <2>2. Cardinality(buys) > Cardinality(sells) => PlaceOrder(t, price, TRUE, buys)
    BY <1>3, <1>4, <1>5, <1>14, <1>15, <2>1, Zenon DEF Process
  <2>3. Cardinality(sells) > Cardinality(buys) => PlaceOrder(t, price, FALSE, sells)
    BY <1>3, <1>4, <1>5, <1>14, <1>15, <2>1, Zenon DEF Process
  <2>4. ~(Cardinality(buys) > Cardinality(sells)) /\ ~(Cardinality(sells) > Cardinality(buys))
            => placed' = placed
    BY <1>3, <1>4, <1>5, <1>14, <1>15, <2>1, Zenon DEF Process
  <2> QED BY <2>2, <2>3, <2>4
<1>19. placed \in Seq(TradeOrders) /\ AreWanted(placed, market_data)
  BY DEF TradeInv
<1>20. price \in Nat
  BY TradeEngineAssumption
<1>21. ASSUME NEW o \in TradeOrders, o.tick = t, IsWanted(o, m), Buyers(m, t) # Sellers(m, t),
              placed' = Append(placed, o)
       PROVE  placed' \in Seq(TradeOrders) /\ AreWanted(placed', m)
  <2>1. AreWanted(Append(placed, o), m)
    BY <1>3, <1>7, <1>9, <1>19, <1>21, OneWanted
  <2>2. Append(placed, o) \in Seq(TradeOrders)
    BY <1>19, <1>21
  <2> QED BY <1>21, <2>1, <2>2
<1>22. placed' \in Seq(TradeOrders) /\ AreWanted(placed', m)
  <2>1. CASE Buyers(m, t) > Sellers(m, t)
    <3>1. PlaceOrder(t, price, TRUE, buys)
      BY <1>17, <1>18, <2>1
    <3>2. PICK s \in buys :
            placed' = Append(placed, [tick |-> t, price |-> price + 1,
                                      is_buy |-> TRUE, signal_source |-> s])
      BY <3>1 DEF PlaceOrder
    <3>3. PICK o : o = [tick |-> t, price |-> price + 1, is_buy |-> TRUE, signal_source |-> s]
      OBVIOUS
    <3>4. o \in TradeOrders /\ o.tick = t /\ o.is_buy = TRUE /\ o.signal_source = s
      BY <1>7, <1>17, <1>20, <3>2, <3>3 DEF TradeOrders
    <3>5. IsWanted(o, m)
      BY <1>16, <2>1, <3>2, <3>4 DEF IsWanted
    <3>6. Buyers(m, t) # Sellers(m, t)
      BY <1>17, <2>1
    <3> QED BY <1>21, <3>2, <3>3, <3>4, <3>5, <3>6
  <2>2. CASE Sellers(m, t) > Buyers(m, t)
    <3>0. ~(Buyers(m, t) > Sellers(m, t))
      BY <1>17, <2>2
    <3>1. PlaceOrder(t, price, FALSE, sells)
      BY <1>17, <1>18, <2>2, <3>0
    <3>2. PICK s \in sells :
            placed' = Append(placed, [tick |-> t, price |-> price - 1,
                                      is_buy |-> FALSE, signal_source |-> s])
      BY <3>1 DEF PlaceOrder
    <3>3. PICK o : o = [tick |-> t, price |-> price - 1, is_buy |-> FALSE, signal_source |-> s]
      OBVIOUS
    <3>4. o \in TradeOrders /\ o.tick = t /\ o.is_buy = FALSE /\ o.signal_source = s
      BY <1>7, <1>17, <1>20, <3>2, <3>3 DEF TradeOrders
    <3>5. IsWanted(o, m)
      <4>1. (Buyers(m, t) > Sellers(m, t)) = FALSE
        BY <3>0
      <4>2. o.signal_source \in ForSelling(m, t)
        BY <1>16, <3>2, <3>4
      <4> QED BY <3>0, <3>4, <4>1, <4>2, Zenon DEF IsWanted
    <3>6. Buyers(m, t) # Sellers(m, t)
      BY <1>17, <2>2
    <3> QED BY <1>21, <3>2, <3>3, <3>4, <3>5, <3>6
  <2>3. CASE Buyers(m, t) = Sellers(m, t)
    <3>1. ~(Buyers(m, t) > Sellers(m, t)) /\ ~(Sellers(m, t) > Buyers(m, t))
      BY <1>17, <2>3
    <3>2. placed' = placed
      BY <1>17, <1>18, <3>1
    <3>3. AreWanted(placed, m)
      BY <1>3, <1>7, <1>9, <1>19, <2>3, NoneWanted
    <3> QED BY <1>19, <3>2, <3>3
  <2> QED BY <1>17, <2>1, <2>2, <2>3
<1> QED BY <1>2, <1>8, <1>22 DEF TradeInv

\* In every reachable state the orders are those that a majority of the
\* signals asks for, read off the whole feed: process, which keeps the short
\* histories only, decides what the feed says, for any prices, number of
\* instruments and size of the histories.
THEOREM TradesJustified == EngineSpec => []OrdersAreJustified
<1>1. TradeInv /\ [EngineNext]_evars => TradeInv'
  <2> SUFFICES ASSUME TradeInv, [EngineNext]_evars PROVE TradeInv'
    OBVIOUS
  <2>1. CASE EngineNext
    BY <2>1, OrdersStep DEF EngineNext
  <2>2. CASE UNCHANGED evars
    BY <2>2 DEF evars, TradeInv, HistoryTypeOK, HistoriesAreWindows
  <2> QED BY <2>1, <2>2
<1>2. TradeInv => OrdersAreJustified
  BY WantedAreJustified DEF TradeInv, HistoryTypeOK
<1> QED BY <1>1, <1>2, TradeInit, PTL DEF EngineSpec

-----------------------------------------------------------------------------
(***************************************************************************)
(* The kernels: loops that add no term twice add up what they name, which  *)
(* leaves the sets of terms to compare; the blocked product by the one     *)
(* block that has an index, the pairs of lanes by parity, the transposed   *)
(* product by the one place in the flat array.                             *)
(***************************************************************************)

\* The place of an element in a flat array says its row and its column.
LEMMA OnePlace ==
  ASSUME NEW n \in Nat \ {0}, NEW i \in Nat, NEW j \in To(n), NEW k \in Nat, NEW l \in To(n),
         i * n + j = k * n + l
  PROVE  i = k /\ j = l
<1>1. j \in 0 .. n - 1 /\ l \in 0 .. n - 1
  BY DEF To
<1>2. n * i + j = n * k + l /\ i \in Int /\ k \in Int
  BY <1>1
<1>3. j = l
  BY <1>1, <1>2, OneRemainder
<1>4. PICK d \in Int : d = i - k
  OBVIOUS
<1>5. n * d = n * i - n * k
  BY <1>4
<1>6. n * d = 0
  BY <1>1, <1>2, <1>3, <1>5
<1>7. d = 0
  BY <1>6
<1> QED BY <1>3, <1>4, <1>7

LEMMA ToFinite ==
  ASSUME NEW n \in Int
  PROVE  IsFiniteSet(To(n))
BY FS_Interval DEF To

\* What a function has on a finite set is finite.
LEMMA FiniteImage ==
  ASSUME NEW S, IsFiniteSet(S), NEW f
  PROVE  IsFiniteSet({f[x] : x \in S})
<1> DEFINE T == {f[x] : x \in S}
           g == [x \in S |-> f[x]]
<1>1. g \in Surjection(S, T)
  BY DEF Surjection
<1> HIDE DEF g, T
<1>2. IsFiniteSet(T)
  BY <1>1, FS_Surjection
<1> QED BY <1>2 DEF T

\* Every term goes where one is expected to, and every one expected is there.
Covers(T, E) ==
  /\ \A t \in T : <<t.at, t.a, t.b>> \in E
  /\ \A e \in E : \E t \in T : e = <<t.at, t.a, t.b>>

\* Terms that differ go to different places or have different factors: then
\* there are as many as expected.
LEMMA TermsAddUp ==
  ASSUME NEW T, NEW E, IsFiniteSet(T), Covers(T, E),
         \A t, u \in T : t.at = u.at /\ t.a = u.a /\ t.b = u.b => t = u
  PROVE  AddsUp(T, E)
<1> DEFINE f == [t \in T |-> <<t.at, t.a, t.b>>]
<1>1. f \in Bijection(T, E)
  <2>1. f \in [T -> E]
    BY DEF Covers
  <2>2. \A t, u \in T : f[t] = f[u] => t = u
    OBVIOUS
  <2>3. \A e \in E : \E t \in T : f[t] = e
    BY DEF Covers
  <2> HIDE DEF f
  <2> QED BY <2>1, <2>2, <2>3 DEF Bijection, Injection, Surjection, IsInjective
<1>2. ExistsBijection(T, E)
  BY <1>1 DEF ExistsBijection
<1>3. Cardinality(E) = Cardinality(T)
  BY <1>2, FS_Bijection, Zenon
<1>4. {<<t.at, t.a, t.b>> : t \in T} = E
  BY DEF Covers
<1> QED BY <1>3, <1>4 DEF AddsUp

\* Where no loop adds a term again, there is nothing more to show.
LEMMA PlainTerms ==
  ASSUME NEW T, NEW E, IsFiniteSet(T), Covers(T, E),
         \A t \in T : t = Term(0, t.at, t.a, t.b)
  PROVE  AddsUp(T, E)
<1>1. ASSUME NEW t \in T, NEW u \in T, t.at = u.at, t.a = u.a, t.b = u.b PROVE t = u
  <2>1. t = Term(0, t.at, t.a, t.b) /\ u = Term(0, u.at, u.a, u.b)
    OBVIOUS
  <2> QED BY <1>1, <2>1
<1> QED BY <1>1, TermsAddUp

\* What is made from the elements of a finite set, or from pairs or triples of
\* indices, is finite.
LEMMA FiniteFrom ==
  ASSUME NEW S, IsFiniteSet(S), NEW f, NEW T, \A t \in T : \E x \in S : t = f[x]
  PROVE  IsFiniteSet(T)
<1>1. PICK U : U = {f[x] : x \in S}
  OBVIOUS
<1>2. IsFiniteSet(U)
  BY <1>1, FiniteImage
<1>3. T \in SUBSET U
  BY <1>1
<1> QED BY <1>2, <1>3, FS_Subset

LEMMA FinitePairs ==
  ASSUME NEW A, NEW B, IsFiniteSet(A), IsFiniteSet(B)
  PROVE  IsFiniteSet(A \X B)
BY FS_Product

LEMMA FiniteTriples ==
  ASSUME NEW A, NEW B, NEW C, IsFiniteSet(A), IsFiniteSet(B), IsFiniteSet(C)
  PROVE  IsFiniteSet(A \X B \X C)
<1>1. PICK D, S : D = B \X C /\ S = A \X D
  OBVIOUS
<1>2. IsFiniteSet(S)
  BY <1>1, FS_Product
<1>3. PICK g : g = [x \in S |-> <<x[1], x[2][1], x[2][2]>>]
  OBVIOUS
<1>4. ASSUME NEW i \in A, NEW j \in B, NEW k \in C
      PROVE  <<i, <<j, k>>>> \in S /\ g[<<i, <<j, k>>>>] = <<i, j, k>>
  BY <1>1, <1>3
<1>5. ASSUME NEW t \in A \X B \X C PROVE \E x \in S : t = g[x]
  <2>1. PICK i \in A, j \in B, k \in C : t = <<i, j, k>>
    OBVIOUS
  <2>2. PICK x : x = <<i, <<j, k>>>>
    OBVIOUS
  <2> QED BY <1>4, <2>1, <2>2
<1> QED BY <1>2, <1>5, FiniteFrom

LEMMA TermFields ==
  ASSUME NEW v, NEW x, NEW y, NEW z
  PROVE  /\ Term(v, x, y, z).loops = v /\ Term(v, x, y, z).at = x
         /\ Term(v, x, y, z).a = y /\ Term(v, x, y, z).b = z
BY DEF Term

FromPairs(T, f, A, B) == \A t \in T : \E i \in A, j \in B : t = f[<<i, j>>]

FromTriples(T, f, A, B, C) == \A t \in T : \E i \in A, j \in B, k \in C : t = f[<<i, j, k>>]

LEMMA PairsFinite ==
  ASSUME NEW A, NEW B, IsFiniteSet(A), IsFiniteSet(B), NEW f, NEW T,
         FromPairs(T, f, A, B)
  PROVE  IsFiniteSet(T)
<1>1. PICK S : S = A \X B
  OBVIOUS
<1>2. IsFiniteSet(S)
  BY <1>1, FinitePairs
<1>3. \A t \in T : \E x \in S : t = f[x]
  BY <1>1 DEF FromPairs
<1> QED BY <1>2, <1>3, FiniteFrom

LEMMA TriplesFinite ==
  ASSUME NEW A, NEW B, NEW C, IsFiniteSet(A), IsFiniteSet(B), IsFiniteSet(C), NEW f, NEW T,
         FromTriples(T, f, A, B, C)
  PROVE  IsFiniteSet(T)
<1>1. PICK S : S = A \X B \X C
  OBVIOUS
<1>2. IsFiniteSet(S)
  BY <1>1, FiniteTriples
<1>3. ASSUME NEW t \in T PROVE \E x \in S : t = f[x]
  <2>1. PICK i \in A, j \in B, k \in C : t = f[<<i, j, k>>]
    BY DEF FromTriples
  <2>2. <<i, j, k>> \in S
    BY <1>1
  <2> QED BY <2>1, <2>2
<1> QED BY <1>2, <1>3, FiniteFrom

\* What is expected of the term f[x] is that it is plain, and in T, and its
\* place and factors in E.
IsExpected(x, f, T, E) ==
  /\ f[x] \in T
  /\ <<f[x].at, f[x].a, f[x].b>> \in E
  /\ f[x] = Term(0, f[x].at, f[x].a, f[x].b)

OfPairs(T, E, f, A, B) ==
  /\ \A i \in A, j \in B : IsExpected(<<i, j>>, f, T, E)
  /\ FromPairs(T, f, A, B)
  /\ \A e \in E : \E i \in A, j \in B : e = <<f[<<i, j>>].at, f[<<i, j>>].a, f[<<i, j>>].b>>

OfTriples(T, E, f, A, B, C) ==
  /\ \A i \in A, j \in B, k \in C : IsExpected(<<i, j, k>>, f, T, E)
  /\ FromTriples(T, f, A, B, C)
  /\ \A e \in E : \E i \in A, j \in B, k \in C :
       e = <<f[<<i, j, k>>].at, f[<<i, j, k>>].a, f[<<i, j, k>>].b>>

\* Loops over pairs, or triples, of indices that add no term twice.
LEMMA OncePairs ==
  ASSUME NEW T, NEW E, NEW f, NEW A, NEW B, IsFiniteSet(A), IsFiniteSet(B),
         OfPairs(T, E, f, A, B)
  PROVE  AddsUp(T, E)
<1>1. IsFiniteSet(T)
  BY PairsFinite DEF OfPairs
<1>2. ASSUME NEW t \in T PROVE t = Term(0, t.at, t.a, t.b) /\ <<t.at, t.a, t.b>> \in E
  <2>1. PICK i \in A, j \in B : t = f[<<i, j>>]
    BY DEF OfPairs, FromPairs
  <2>2. IsExpected(<<i, j>>, f, T, E)
    BY DEF OfPairs
  <2> QED BY <2>1, <2>2 DEF IsExpected
<1>3. ASSUME NEW e \in E PROVE \E t \in T : e = <<t.at, t.a, t.b>>
  <2>1. PICK i \in A, j \in B :
          e = <<f[<<i, j>>].at, f[<<i, j>>].a, f[<<i, j>>].b>>
    BY DEF OfPairs
  <2>2. IsExpected(<<i, j>>, f, T, E)
    BY DEF OfPairs
  <2> QED BY <2>1, <2>2 DEF IsExpected
<1>4. Covers(T, E)
  BY <1>2, <1>3 DEF Covers
<1> QED BY <1>1, <1>2, <1>4, PlainTerms

LEMMA OnceTriples ==
  ASSUME NEW T, NEW E, NEW f, NEW A, NEW B, NEW C,
         IsFiniteSet(A), IsFiniteSet(B), IsFiniteSet(C), OfTriples(T, E, f, A, B, C)
  PROVE  AddsUp(T, E)
<1>1. IsFiniteSet(T)
  BY TriplesFinite DEF OfTriples
<1>2. ASSUME NEW t \in T PROVE t = Term(0, t.at, t.a, t.b) /\ <<t.at, t.a, t.b>> \in E
  <2>1. PICK i \in A, j \in B, k \in C : t = f[<<i, j, k>>]
    BY DEF OfTriples, FromTriples
  <2>2. IsExpected(<<i, j, k>>, f, T, E)
    BY DEF OfTriples
  <2> QED BY <2>1, <2>2 DEF IsExpected
<1>3. ASSUME NEW e \in E PROVE \E t \in T : e = <<t.at, t.a, t.b>>
  <2>1. PICK i \in A, j \in B, k \in C :
          e = <<f[<<i, j, k>>].at, f[<<i, j, k>>].a, f[<<i, j, k>>].b>>
    BY DEF OfTriples
  <2>2. IsExpected(<<i, j, k>>, f, T, E)
    BY DEF OfTriples
  <2> QED BY <2>1, <2>2 DEF IsExpected
<1>4. Covers(T, E)
  BY <1>2, <1>3 DEF Covers
<1> QED BY <1>1, <1>2, <1>4, PlainTerms

\* A row and a column are a place within the flat array, and a place is one of a
\* row and a column.
LEMMA InRange ==
  ASSUME NEW m \in Nat, NEW n \in Nat, NEW i \in To(m), NEW j \in To(n)
  PROVE  i * n + j \in To(m * n)
<1>1. i \in Nat /\ j \in Nat /\ i <= m - 1 /\ j <= n - 1 /\ n >= 1
  BY DEF To
<1>2. PICK d \in Nat : d = m - 1 - i
  BY <1>1
<1>3. m * n = i * n + d * n + n
  BY <1>1, <1>2
<1>4. d * n \in Nat /\ i * n \in Nat
  BY <1>1, <1>2
<1> QED BY <1>1, <1>3, <1>4 DEF To

LEMMA AtPlace ==
  ASSUME NEW m \in Nat, NEW n \in Nat, NEW e \in To(m * n)
  PROVE  \E i \in To(m), j \in To(n) : e = i * n + j
<1>1. e \in Nat /\ e <= m * n - 1 /\ n \in Nat \ {0} /\ m * n \in Nat
  <2>1. m * n \in Nat
    OBVIOUS
  <2>2. e \in Nat /\ e <= m * n - 1
    BY <2>1 DEF To
  <2>3. n # 0
    <3>1. m * n >= 1
      BY <2>1, <2>2
    <3> QED BY <3>1
  <2> QED BY <2>1, <2>2, <2>3
<1>2. PICK i, j : i = e \div n /\ j = e % n
  OBVIOUS
<1>3. i \in Int /\ j \in 0 .. n - 1 /\ e = n * i + j
  BY <1>1, <1>2, DivisionIs
<1>4. i >= 0
  <2>1. SUFFICES ASSUME i <= -1 PROVE FALSE
    BY <1>3
  <2>2. PICK d \in Nat : d = -1 - i
    BY <1>3, <2>1
  <2>3. n * i = 0 - n - n * d
    BY <1>1, <1>3, <2>2
  <2>4. n * d \in Nat
    BY <1>1, <2>2
  <2> QED BY <1>1, <1>3, <2>3, <2>4
<1>5. i <= m - 1
  <2>1. SUFFICES ASSUME i >= m PROVE FALSE
    BY <1>3
  <2>2. PICK d \in Nat : d = i - m
    BY <1>3, <2>1
  <2>3. n * i = m * n + n * d
    BY <1>1, <1>3, <2>2
  <2>4. n * d \in Nat
    BY <1>1, <2>2
  <2> QED BY <1>1, <1>3, <2>3, <2>4
<1>6. n * i = i * n
  BY <1>1, <1>3
<1> QED BY <1>1, <1>3, <1>4, <1>5, <1>6 DEF To


LEMMA RowMajorAddsUp ==
  ASSUME NEW m \in Nat, NEW n \in Nat
  PROVE  AddsUp(multiply_mv_row_major(m, n), RowTerms(m, n))
<1> DEFINE T == multiply_mv_row_major(m, n)
           E == RowTerms(m, n)
<1>1. PICK f : f = [x \in To(m) \X To(n) |->
                     Term(0, x[1], x[1] * n + x[2], x[2])]
  OBVIOUS
<1>2. \A i \in To(m), k \in To(n) :
        /\ f[<<i, k>>] = Term(0, i, i * n + k, k)
        /\ f[<<i, k>>].at = i /\ f[<<i, k>>].a = i * n + k /\ f[<<i, k>>].b = k
  BY <1>1 DEF Term
<1>3. /\ \A t \in T : \E i \in To(m), k \in To(n) : t = Term(0, i, i * n + k, k)
      /\ \A i \in To(m), k \in To(n) : Term(0, i, i * n + k, k) \in T
  BY DEF multiply_mv_row_major
<1>4. /\ \A e \in E : \E i \in To(m), k \in To(n) : e = <<i, i * n + k, k>>
      /\ \A i \in To(m), k \in To(n) : <<i, i * n + k, k>> \in E
  BY DEF RowTerms
<1> HIDE DEF T, E
<1>5. OfPairs(T, E, f, To(m), To(n))
  <2>1. ASSUME NEW i \in To(m), NEW k \in To(n)
        PROVE  /\ IsExpected(<<i, k>>, f, T, E)
               /\ <<f[<<i, k>>].at, f[<<i, k>>].a, f[<<i, k>>].b>> = <<i, i * n + k, k>>
    <3>1. /\ f[<<i, k>>] = Term(0, i, i * n + k, k)
          /\ f[<<i, k>>].at = i /\ f[<<i, k>>].a = i * n + k /\ f[<<i, k>>].b = k
      BY <1>2
    <3>2. Term(0, i, i * n + k, k) \in T /\ <<i, i * n + k, k>> \in E
      BY <1>3, <1>4
    <3> QED BY <3>1, <3>2 DEF IsExpected
  <2>2. FromPairs(T, f, To(m), To(n))
    BY <1>2, <1>3 DEF FromPairs
  <2>3. \A e \in E : \E i \in To(m), k \in To(n) :
          e = <<f[<<i, k>>].at, f[<<i, k>>].a, f[<<i, k>>].b>>
    BY <2>1, <1>4
  <2> QED BY <2>1, <2>2, <2>3 DEF OfPairs
<1>6. IsFiniteSet(To(m)) /\ IsFiniteSet(To(n))
  BY ToFinite
<1> QED BY <1>5, <1>6, OncePairs DEF T, E


LEMMA ColMajorAddsUp ==
  ASSUME NEW m \in Nat, NEW n \in Nat
  PROVE  AddsUp(multiply_mv_col_major(m, n), ColTerms(m, n))
<1> DEFINE T == multiply_mv_col_major(m, n)
           E == ColTerms(m, n)
<1>1. PICK f : f = [x \in To(m) \X To(n) |->
                     Term(0, x[1], x[2] * m + x[1], x[2])]
  OBVIOUS
<1>2. \A i \in To(m), k \in To(n) :
        /\ f[<<i, k>>] = Term(0, i, k * m + i, k)
        /\ f[<<i, k>>].at = i /\ f[<<i, k>>].a = k * m + i /\ f[<<i, k>>].b = k
  BY <1>1 DEF Term
<1>3. /\ \A t \in T : \E i \in To(m), k \in To(n) : t = Term(0, i, k * m + i, k)
      /\ \A i \in To(m), k \in To(n) : Term(0, i, k * m + i, k) \in T
  BY DEF multiply_mv_col_major
<1>4. /\ \A e \in E : \E i \in To(m), k \in To(n) : e = <<i, k * m + i, k>>
      /\ \A i \in To(m), k \in To(n) : <<i, k * m + i, k>> \in E
  BY DEF ColTerms
<1> HIDE DEF T, E
<1>5. OfPairs(T, E, f, To(m), To(n))
  <2>1. ASSUME NEW i \in To(m), NEW k \in To(n)
        PROVE  /\ IsExpected(<<i, k>>, f, T, E)
               /\ <<f[<<i, k>>].at, f[<<i, k>>].a, f[<<i, k>>].b>> = <<i, k * m + i, k>>
    <3>1. /\ f[<<i, k>>] = Term(0, i, k * m + i, k)
          /\ f[<<i, k>>].at = i /\ f[<<i, k>>].a = k * m + i /\ f[<<i, k>>].b = k
      BY <1>2
    <3>2. Term(0, i, k * m + i, k) \in T /\ <<i, k * m + i, k>> \in E
      BY <1>3, <1>4
    <3> QED BY <3>1, <3>2 DEF IsExpected
  <2>2. FromPairs(T, f, To(m), To(n))
    BY <1>2, <1>3 DEF FromPairs
  <2>3. \A e \in E : \E i \in To(m), k \in To(n) :
          e = <<f[<<i, k>>].at, f[<<i, k>>].a, f[<<i, k>>].b>>
    BY <2>1, <1>4
  <2> QED BY <2>1, <2>2, <2>3 DEF OfPairs
<1>6. IsFiniteSet(To(m)) /\ IsFiniteSet(To(n))
  BY ToFinite
<1> QED BY <1>5, <1>6, OncePairs DEF T, E


LEMMA NaiveAddsUp ==
  ASSUME NEW m \in Nat, NEW l \in Nat, NEW n \in Nat
  PROVE  AddsUp(multiply_mm_naive(m, l, n), ProductTerms(m, l, n))
<1> DEFINE T == multiply_mm_naive(m, l, n)
           E == ProductTerms(m, l, n)
<1>1. PICK f : f = [x \in To(m) \X To(n) \X To(l) |->
                     Term(0, x[1] * n + x[2], x[1] * l + x[3], x[3] * n + x[2])]
  OBVIOUS
<1>2. \A i \in To(m), j \in To(n), k \in To(l) :
        /\ f[<<i, j, k>>] = Term(0, i * n + j, i * l + k, k * n + j)
        /\ f[<<i, j, k>>].at = i * n + j /\ f[<<i, j, k>>].a = i * l + k /\ f[<<i, j, k>>].b = k * n + j
  BY <1>1 DEF Term
<1>3. /\ \A t \in T : \E i \in To(m), j \in To(n), k \in To(l) : t = Term(0, i * n + j, i * l + k, k * n + j)
      /\ \A i \in To(m), j \in To(n), k \in To(l) : Term(0, i * n + j, i * l + k, k * n + j) \in T
  BY DEF multiply_mm_naive
<1>4. /\ \A e \in E : \E i \in To(m), j \in To(n), k \in To(l) : e = <<i * n + j, i * l + k, k * n + j>>
      /\ \A i \in To(m), j \in To(n), k \in To(l) : <<i * n + j, i * l + k, k * n + j>> \in E
  BY DEF ProductTerms
<1> HIDE DEF T, E
<1>5. OfTriples(T, E, f, To(m), To(n), To(l))
  <2>1. ASSUME NEW i \in To(m), NEW j \in To(n), NEW k \in To(l)
        PROVE  /\ IsExpected(<<i, j, k>>, f, T, E)
               /\ <<f[<<i, j, k>>].at, f[<<i, j, k>>].a, f[<<i, j, k>>].b>> = <<i * n + j, i * l + k, k * n + j>>
    <3>1. /\ f[<<i, j, k>>] = Term(0, i * n + j, i * l + k, k * n + j)
          /\ f[<<i, j, k>>].at = i * n + j /\ f[<<i, j, k>>].a = i * l + k /\ f[<<i, j, k>>].b = k * n + j
      BY <1>2
    <3>2. Term(0, i * n + j, i * l + k, k * n + j) \in T /\ <<i * n + j, i * l + k, k * n + j>> \in E
      BY <1>3, <1>4
    <3> QED BY <3>1, <3>2 DEF IsExpected
  <2>2. FromTriples(T, f, To(m), To(n), To(l))
    BY <1>2, <1>3 DEF FromTriples
  <2>3. \A e \in E : \E i \in To(m), j \in To(n), k \in To(l) :
          e = <<f[<<i, j, k>>].at, f[<<i, j, k>>].a, f[<<i, j, k>>].b>>
    BY <2>1, <1>4
  <2> QED BY <2>1, <2>2, <2>3 DEF OfTriples
<1>6. IsFiniteSet(To(m)) /\ IsFiniteSet(To(n)) /\ IsFiniteSet(To(l))
  BY ToFinite
<1> QED BY <1>5, <1>6, OnceTriples DEF T, E

LEMMA Transposed ==
  ASSUME NEW l \in Nat, NEW n \in Nat, NEW j \in To(n), NEW k \in To(l)
  PROVE  BackOf(l, n, j * l + k) = k * n + j
<1>1. ASSUME NEW c \in To(l), NEW d \in To(n), d * l + c = j * l + k
      PROVE  d = j /\ c = k
  <2>1. l \in Nat \ {0} /\ d \in Nat /\ j \in Nat
    BY DEF To
  <2> QED BY <1>1, <2>1, OnePlace
<1>2. k * n + j \in To(l * n)
  BY InRange
<1>3. transpose_matrix(l, n, k, j) = j * l + k
  BY DEF transpose_matrix
<1>4. ASSUME NEW e \in To(l * n), NEW c \in To(l), NEW d \in To(n),
             e = c * n + d, transpose_matrix(l, n, c, d) = j * l + k
      PROVE  e = k * n + j
  BY <1>1, <1>4 DEF transpose_matrix
<1>5. \E c \in To(l), d \in To(n) :
        k * n + j = c * n + d /\ transpose_matrix(l, n, c, d) = j * l + k
  BY <1>3
<1> QED BY <1>2, <1>4, <1>5 DEF BackOf


\* The product by a transposed matrix adds the terms of the product.
LEMMA TransposedAddsUp ==
  ASSUME NEW m \in Nat, NEW l \in Nat, NEW n \in Nat
  PROVE  AddsUp(TransposedBack(m, l, n), ProductTerms(m, l, n))
<1> DEFINE T == TransposedBack(m, l, n)
           E == ProductTerms(m, l, n)
<1>1. PICK f : f = [x \in To(m) \X To(n) \X To(l) |->
                     Term(0, x[1] * n + x[2], x[1] * l + x[3], x[3] * n + x[2])]
  OBVIOUS
<1>2. \A i \in To(m), j \in To(n), k \in To(l) :
        /\ f[<<i, j, k>>] = Term(0, i * n + j, i * l + k, k * n + j)
        /\ f[<<i, j, k>>].at = i * n + j /\ f[<<i, j, k>>].a = i * l + k /\ f[<<i, j, k>>].b = k * n + j
  BY <1>1 DEF Term
<1>3. /\ \A t \in T : \E i \in To(m), j \in To(n), k \in To(l) : t = Term(0, i * n + j, i * l + k, k * n + j)
      /\ \A i \in To(m), j \in To(n), k \in To(l) : Term(0, i * n + j, i * l + k, k * n + j) \in T
  <2>1. /\ \A u \in T : \E t \in multiply_mm_transposed_b(m, l, n) :
             u = Term(0, t.at, t.a, BackOf(l, n, t.b))
        /\ \A t \in multiply_mm_transposed_b(m, l, n) :
             Term(0, t.at, t.a, BackOf(l, n, t.b)) \in T
    BY DEF TransposedBack
  <2>2. ASSUME NEW i \in To(m), NEW j \in To(n), NEW k \in To(l), NEW t,
               t = Term(0, i * n + j, i * l + k, j * l + k)
        PROVE  t.at = i * n + j /\ t.a = i * l + k /\ BackOf(l, n, t.b) = k * n + j
    <3>1. t.at = i * n + j /\ t.a = i * l + k /\ t.b = j * l + k
      BY <2>2 DEF Term
    <3> QED BY <3>1, Transposed
  <2>3. /\ \A t \in multiply_mm_transposed_b(m, l, n) :
             \E i \in To(m), j \in To(n), k \in To(l) :
               t = Term(0, i * n + j, i * l + k, j * l + k)
        /\ \A i \in To(m), j \in To(n), k \in To(l) :
             Term(0, i * n + j, i * l + k, j * l + k) \in multiply_mm_transposed_b(m, l, n)
    BY DEF multiply_mm_transposed_b
  <2> HIDE DEF T
  <2>4. ASSUME NEW u \in T
        PROVE  \E i \in To(m), j \in To(n), k \in To(l) :
                 u = Term(0, i * n + j, i * l + k, k * n + j)
    <3>1. PICK t \in multiply_mm_transposed_b(m, l, n) :
            u = Term(0, t.at, t.a, BackOf(l, n, t.b))
      BY <2>1
    <3>2. PICK i \in To(m), j \in To(n), k \in To(l) :
            t = Term(0, i * n + j, i * l + k, j * l + k)
      BY <2>3
    <3>3. t.at = i * n + j /\ t.a = i * l + k /\ BackOf(l, n, t.b) = k * n + j
      BY <2>2, <3>2
    <3> QED BY <3>1, <3>3
  <2>5. ASSUME NEW i \in To(m), NEW j \in To(n), NEW k \in To(l)
        PROVE  Term(0, i * n + j, i * l + k, k * n + j) \in T
    <3>1. PICK t : t = Term(0, i * n + j, i * l + k, j * l + k)
      OBVIOUS
    <3>2. t \in multiply_mm_transposed_b(m, l, n)
      BY <2>3, <3>1
    <3>3. t.at = i * n + j /\ t.a = i * l + k /\ BackOf(l, n, t.b) = k * n + j
      BY <2>2, <3>1
    <3> QED BY <2>1, <3>2, <3>3
  <2> QED BY <2>4, <2>5
<1>4. /\ \A e \in E : \E i \in To(m), j \in To(n), k \in To(l) : e = <<i * n + j, i * l + k, k * n + j>>
      /\ \A i \in To(m), j \in To(n), k \in To(l) : <<i * n + j, i * l + k, k * n + j>> \in E
  BY DEF ProductTerms
<1> HIDE DEF T, E
<1>5. OfTriples(T, E, f, To(m), To(n), To(l))
  <2>1. ASSUME NEW i \in To(m), NEW j \in To(n), NEW k \in To(l)
        PROVE  /\ IsExpected(<<i, j, k>>, f, T, E)
               /\ <<f[<<i, j, k>>].at, f[<<i, j, k>>].a, f[<<i, j, k>>].b>> = <<i * n + j, i * l + k, k * n + j>>
    <3>1. /\ f[<<i, j, k>>] = Term(0, i * n + j, i * l + k, k * n + j)
          /\ f[<<i, j, k>>].at = i * n + j /\ f[<<i, j, k>>].a = i * l + k /\ f[<<i, j, k>>].b = k * n + j
      BY <1>2
    <3>2. Term(0, i * n + j, i * l + k, k * n + j) \in T /\ <<i * n + j, i * l + k, k * n + j>> \in E
      BY <1>3, <1>4
    <3> QED BY <3>1, <3>2 DEF IsExpected
  <2>2. FromTriples(T, f, To(m), To(n), To(l))
    BY <1>2, <1>3 DEF FromTriples
  <2>3. \A e \in E : \E i \in To(m), j \in To(n), k \in To(l) :
          e = <<f[<<i, j, k>>].at, f[<<i, j, k>>].a, f[<<i, j, k>>].b>>
    BY <2>1, <1>4
  <2> QED BY <2>1, <2>2, <2>3 DEF OfTriples
<1>6. IsFiniteSet(To(m)) /\ IsFiniteSet(To(n)) /\ IsFiniteSet(To(l))
  BY ToFinite
<1> QED BY <1>5, <1>6, OnceTriples DEF T, E


LEMMA SumAddsUp ==
  ASSUME NEW n \in Nat
  PROVE  AddsUp(sumMatrix(n), SumTerms(n))
<1> DEFINE T == sumMatrix(n)
           E == SumTerms(n)
<1>1. PICK f : f = [x \in To(n) \X To(n) |->
                     Term(0, 0, x[1] * n + x[2], 0)]
  OBVIOUS
<1>2. \A i \in To(n), j \in To(n) :
        /\ f[<<i, j>>] = Term(0, 0, i * n + j, 0)
        /\ f[<<i, j>>].at = 0 /\ f[<<i, j>>].a = i * n + j /\ f[<<i, j>>].b = 0
  BY <1>1 DEF Term
<1>3. /\ \A t \in T : \E i \in To(n), j \in To(n) : t = Term(0, 0, i * n + j, 0)
      /\ \A i \in To(n), j \in To(n) : Term(0, 0, i * n + j, 0) \in T
  BY DEF sumMatrix
<1>4. /\ \A e \in E : \E i \in To(n), j \in To(n) : e = <<0, i * n + j, 0>>
      /\ \A i \in To(n), j \in To(n) : <<0, i * n + j, 0>> \in E
  <2>1. ASSUME NEW e \in E PROVE \E i \in To(n), j \in To(n) : e = <<0, i * n + j, 0>>
    <3>1. PICK p \in To(n * n) : e = <<0, p, 0>>
      BY DEF SumTerms
    <3>2. PICK i \in To(n), j \in To(n) : p = i * n + j
      BY AtPlace
    <3> QED BY <3>1, <3>2
  <2>2. ASSUME NEW i \in To(n), NEW j \in To(n) PROVE <<0, i * n + j, 0>> \in E
    BY InRange DEF SumTerms
  <2> QED BY <2>1, <2>2
<1> HIDE DEF T, E
<1>5. OfPairs(T, E, f, To(n), To(n))
  <2>1. ASSUME NEW i \in To(n), NEW j \in To(n)
        PROVE  /\ IsExpected(<<i, j>>, f, T, E)
               /\ <<f[<<i, j>>].at, f[<<i, j>>].a, f[<<i, j>>].b>> = <<0, i * n + j, 0>>
    <3>1. /\ f[<<i, j>>] = Term(0, 0, i * n + j, 0)
          /\ f[<<i, j>>].at = 0 /\ f[<<i, j>>].a = i * n + j /\ f[<<i, j>>].b = 0
      BY <1>2
    <3>2. Term(0, 0, i * n + j, 0) \in T
      BY <1>3
    <3>3. <<0, i * n + j, 0>> \in E
      BY <1>4
    <3> QED BY <3>1, <3>2, <3>3 DEF IsExpected
  <2>2. FromPairs(T, f, To(n), To(n))
    <3>1. ASSUME NEW t \in T PROVE \E i \in To(n), j \in To(n) : t = f[<<i, j>>]
      <4>1. PICK i \in To(n), j \in To(n) : t = Term(0, 0, i * n + j, 0)
        BY <1>3
      <4>2. t = f[<<i, j>>]
        BY <1>2, <4>1
      <4> QED BY <4>2
    <3> QED BY <3>1 DEF FromPairs
  <2>3. \A e \in E : \E i \in To(n), j \in To(n) :
          e = <<f[<<i, j>>].at, f[<<i, j>>].a, f[<<i, j>>].b>>
    <3>1. ASSUME NEW e \in E
          PROVE  \E i \in To(n), j \in To(n) :
                   e = <<f[<<i, j>>].at, f[<<i, j>>].a, f[<<i, j>>].b>>
      <4>1. PICK i \in To(n), j \in To(n) : e = <<0, i * n + j, 0>>
        BY <1>4
      <4>2. e = <<f[<<i, j>>].at, f[<<i, j>>].a, f[<<i, j>>].b>>
        BY <2>1, <4>1
      <4> QED BY <4>2
    <3> QED BY <3>1
  <2> QED BY <2>1, <2>2, <2>3 DEF OfPairs
<1>6. IsFiniteSet(To(n))
  BY ToFinite
<1> QED BY <1>5, <1>6, OncePairs DEF T, E


LEMMA InAverage ==
  ASSUME NEW l \in Nat, NEW n \in Nat \ {0}, NEW i \in To(Averages(l, n)), NEW j \in To(n)
  PROVE  <<i, i + j, 0>> \in AverageTerms(l, n)
<1>1. i \in To(l) /\ i + j \in To(l) /\ i + n <= l /\ i + j \in i .. i + n - 1
  BY DEF To, Averages
<1>2. PICK w : w = <<i, i + j, 0>>
  OBVIOUS
<1> QED BY <1>1, <1>2 DEF AverageTerms

LEMMA InWindow ==
  ASSUME NEW l \in Nat, NEW n \in Nat \ {0}, NEW e \in AverageTerms(l, n)
  PROVE  \E i \in To(Averages(l, n)), j \in To(n) : e = <<i, i + j, 0>>
<1>1. PICK i \in To(l), k \in To(l) : e = <<i, k, 0>>
  BY DEF AverageTerms
<1>2. i + n <= l /\ k \in i .. i + n - 1
  BY <1>1 DEF AverageTerms
<1>3. i \in To(Averages(l, n)) /\ k - i \in To(n) /\ k = i + (k - i)
  BY <1>2 DEF To, Averages
<1> QED BY <1>1, <1>3

LEMMA AveragesAddUp ==
  ASSUME NEW l \in Nat, NEW n \in Nat \ {0}
  PROVE  AddsUp(compute_moving_average_standard(l, n), AverageTerms(l, n))
<1> DEFINE T == compute_moving_average_standard(l, n)
           E == AverageTerms(l, n)
<1>1. PICK f : f = [x \in To(Averages(l, n)) \X To(n) |->
                     Term(0, x[1], x[1] + x[2], 0)]
  OBVIOUS
<1>2. \A i \in To(Averages(l, n)), j \in To(n) :
        /\ f[<<i, j>>] = Term(0, i, i + j, 0)
        /\ f[<<i, j>>].at = i /\ f[<<i, j>>].a = i + j /\ f[<<i, j>>].b = 0
  BY <1>1 DEF Term
<1>3. /\ \A t \in T : \E i \in To(Averages(l, n)), j \in To(n) : t = Term(0, i, i + j, 0)
      /\ \A i \in To(Averages(l, n)), j \in To(n) : Term(0, i, i + j, 0) \in T
  BY DEF compute_moving_average_standard
<1>4. /\ \A e \in E : \E i \in To(Averages(l, n)), j \in To(n) : e = <<i, i + j, 0>>
      /\ \A i \in To(Averages(l, n)), j \in To(n) : <<i, i + j, 0>> \in E
  <2>1. ASSUME NEW e \in E
        PROVE  \E i \in To(Averages(l, n)), j \in To(n) : e = <<i, i + j, 0>>
    BY InWindow
  <2>2. ASSUME NEW i \in To(Averages(l, n)), NEW j \in To(n) PROVE <<i, i + j, 0>> \in E
    BY InAverage
  <2> QED BY <2>1, <2>2
<1> HIDE DEF T, E
<1>5. OfPairs(T, E, f, To(Averages(l, n)), To(n))
  <2>1. ASSUME NEW i \in To(Averages(l, n)), NEW j \in To(n)
        PROVE  /\ IsExpected(<<i, j>>, f, T, E)
               /\ <<f[<<i, j>>].at, f[<<i, j>>].a, f[<<i, j>>].b>> = <<i, i + j, 0>>
    <3>1. /\ f[<<i, j>>] = Term(0, i, i + j, 0)
          /\ f[<<i, j>>].at = i /\ f[<<i, j>>].a = i + j /\ f[<<i, j>>].b = 0
      BY <1>2
    <3>2. Term(0, i, i + j, 0) \in T /\ <<i, i + j, 0>> \in E
      BY <1>3, <1>4
    <3> QED BY <3>1, <3>2 DEF IsExpected
  <2>2. FromPairs(T, f, To(Averages(l, n)), To(n))
    BY <1>2, <1>3 DEF FromPairs
  <2>3. \A e \in E : \E i \in To(Averages(l, n)), j \in To(n) :
          e = <<f[<<i, j>>].at, f[<<i, j>>].a, f[<<i, j>>].b>>
    BY <2>1, <1>4
  <2> QED BY <2>1, <2>2, <2>3 DEF OfPairs
<1>6. IsFiniteSet(To(Averages(l, n))) /\ IsFiniteSet(To(n))
  BY ToFinite DEF Averages
<1> QED BY <1>5, <1>6, OncePairs DEF T, E

PlaceIn(n, i, j) == i * n + j

PlacesDiffer(n) ==
  \A i, k \in Nat : \A j, l \in To(n) : PlaceIn(n, i, j) = PlaceIn(n, k, l) => i = k /\ j = l

LEMMA EveryPlace ==
  ASSUME NEW n \in Nat \ {0}
  PROVE  PlacesDiffer(n)
BY OnePlace DEF PlacesDiffer, PlaceIn

LEMMA MinOfTwo ==
  ASSUME NEW a \in Int, NEW b \in Int
  PROVE  Min({a, b}) \in Int /\ Min({a, b}) <= a /\ Min({a, b}) <= b
         /\ (Min({a, b}) = a \/ Min({a, b}) = b)
<1>1. \E x \in {a, b} : \A y \in {a, b} : x <= y
  OBVIOUS
<1>2. /\ Min({a, b}) \in {a, b}
      /\ \A y \in {a, b} : Min({a, b}) <= y
  BY <1>1 DEF Min
<1> QED BY <1>2

\* The block an index is in.
StartOf(i) == i - (i % BlockSize)

\* An index is in one block only, the one that begins at StartOf, and that one is
\* among the blocks.
LEMMA InOneBlock ==
  ASSUME BlockSize \in Nat \ {0}, NEW n \in Nat, NEW s \in Starts(n), NEW i \in Block(s, n)
  PROVE  i \in To(n) /\ s = StartOf(i)
<1>1. PICK B \in Nat \ {0} : B = BlockSize
  OBVIOUS
<1>2. s \in Nat /\ s <= n - 1 /\ s % B = 0
  BY <1>1 DEF Starts, To
<1>3. i \in Int /\ s <= i /\ i <= n - 1 /\ i <= s + B - 1
  <2>1. s + B \in Int /\ n \in Int
    BY <1>2
  <2>2. PICK e \in Int : e = Min({s + B, n}) /\ e <= s + B /\ e <= n
    BY <2>1, MinOfTwo
  <2>3. i \in s .. e - 1
    BY <1>1, <2>2 DEF Block
  <2> QED BY <1>2, <2>2, <2>3
<1>4. PICK q \in Int : s = B * q
  <2>0. s % B \in 0 .. B - 1 /\ s \div B \in Int /\ s = B * (s \div B) + (s % B)
    BY <1>2, DivisionIs
  <2>1. PICK q \in Int, w \in 0 .. B - 1 : w = s % B /\ s = B * q + w
    BY <2>0
  <2>2. s = B * q
    BY <1>2, <2>1
  <2> QED BY <2>2
<1>5. PICK r \in Int, v \in 0 .. B - 1 : v = i % B /\ i = B * r + v
  <2>1. i \in Nat
    BY <1>2, <1>3
  <2> QED BY <2>1, DivisionIs
<1>6. i - s = v
  <2>1. i - s \in 0 .. B - 1
    BY <1>2, <1>3
  <2>2. B * q + (i - s) = B * r + v
    BY <1>2, <1>3, <1>4, <1>5
  <2> QED BY <1>5, <2>1, <2>2, OneRemainder
<1>7. i \in To(n)
  BY <1>2, <1>3 DEF To
<1> QED BY <1>1, <1>2, <1>3, <1>5, <1>6, <1>7 DEF StartOf

LEMMA EveryIndexInBlock ==
  ASSUME BlockSize \in Nat \ {0}, NEW n \in Nat, NEW i \in To(n)
  PROVE  StartOf(i) \in Starts(n) /\ i \in Block(StartOf(i), n)
<1>1. PICK B \in Nat \ {0} : B = BlockSize
  OBVIOUS
<1>2. i \in Nat /\ i <= n - 1
  BY DEF To
<1>3. PICK r \in Int, v \in 0 .. B - 1 : v = i % B /\ i = B * r + v
  BY <1>2, DivisionIs
<1>4. PICK s \in Int : s = StartOf(i) /\ s = i - v
  BY <1>1, <1>2, <1>3 DEF StartOf
<1>5. s = B * r
  BY <1>2, <1>3, <1>4
<1>6. s >= 0
  <2>1. SUFFICES ASSUME s < 0 PROVE FALSE
    BY <1>4
  <2>2. PICK d \in Int : d = 0 - r
    BY <1>3
  <2>3. B * d = 0 - s
    <3>1. B * d = 0 - B * r
      BY <1>3, <2>2
    <3> QED BY <1>5, <3>1
  <2>4. B * d >= B
    BY <1>4, <2>1, <2>3, AtLeastOne
  <2> QED BY <1>2, <1>3, <1>4, <2>3, <2>4
<1>7. s % B = 0
  <2>1. s \in Nat
    BY <1>4, <1>6
  <2>2. /\ s % B \in 0 .. B - 1 /\ s \div B \in Int
        /\ s = B * (s \div B) + (s % B)
    BY <2>1, DivisionIs
  <2>3. PICK q \in Int, w \in 0 .. B - 1 : w = s % B /\ s = B * q + w
    BY <2>2
  <2>4. B * r + 0 = B * q + w /\ 0 \in 0 .. B - 1
    BY <1>3, <1>4, <1>5, <2>3
  <2>5. 0 = w
    BY <1>3, <2>3, <2>4, OneRemainder
  <2> QED BY <2>3, <2>5
<1>8. s \in Starts(n)
  BY <1>1, <1>2, <1>3, <1>4, <1>6, <1>7 DEF Starts, To
<1>9. i \in Block(s, n)
  <2>1. PICK e \in Int : e = Min({s + B, n}) /\ (e = s + B \/ e = n)
    <3>1. s + B \in Int /\ n \in Int
      BY <1>4
    <3> QED BY <3>1, MinOfTwo
  <2>2. i \in s .. e - 1
    BY <1>2, <1>3, <1>4, <2>1
  <2> QED BY <1>1, <2>1, <2>2 DEF Block
<1> QED BY <1>4, <1>8, <1>9

BlockTerms(m, l, n, b) ==
  {Term(b, i * n + j, i * l + k, k * n + j) :
     i \in Block(b[1], m), j \in Block(b[2], n), k \in Block(b[3], l)}

BlockSets(m, l, n) ==
  {BlockTerms(m, l, n, <<i0, j0, k0>>) :
     i0 \in Starts(m), j0 \in Starts(n), k0 \in Starts(l)}

InBlock(m, l, n, i0, j0, k0, u) ==
  \E i \in Block(i0, m), j \in Block(j0, n), k \in Block(k0, l) :
    u = Term(<<i0, j0, k0>>, i * n + j, i * l + k, k * n + j)

LEMMA TermsOfBlock ==
  ASSUME NEW m, NEW l, NEW n, NEW i0, NEW j0, NEW k0, NEW u
  PROVE  u \in BlockTerms(m, l, n, <<i0, j0, k0>>) <=> InBlock(m, l, n, i0, j0, k0, u)
<1>1. PICK b : b = <<i0, j0, k0>>
  OBVIOUS
<1>2. b[1] = i0 /\ b[2] = j0 /\ b[3] = k0
  BY <1>1
<1>3. u \in BlockTerms(m, l, n, b)
        <=> \E i \in Block(i0, m), j \in Block(j0, n), k \in Block(k0, l) :
              u = Term(b, i * n + j, i * l + k, k * n + j)
  BY <1>2 DEF BlockTerms
<1> QED BY <1>1, <1>3 DEF InBlock

\* The blocks of multiply_mm_optimized add each term of the product once.
LEMMA BlockedAddsUp ==
  ASSUME BlockSize \in Nat \ {0}, NEW m \in Nat, NEW l \in Nat, NEW n \in Nat
  PROVE  AddsUp(multiply_mm_optimized(m, l, n), ProductTerms(m, l, n))
<1> DEFINE T == multiply_mm_optimized(m, l, n)
           E == ProductTerms(m, l, n)
           t(i, j, k) == Term(<<StartOf(i), StartOf(j), StartOf(k)>>,
                              i * n + j, i * l + k, k * n + j)
<1>1. PICK f : f = [x \in To(m) \X To(n) \X To(l) |-> t(x[1], x[2], x[3])]
  OBVIOUS
<1>2. \A i \in To(m), j \in To(n), k \in To(l) :
        /\ t(i, j, k).at = i * n + j /\ t(i, j, k).a = i * l + k /\ t(i, j, k).b = k * n + j
        /\ f[<<i, j, k>>] = t(i, j, k)
  BY <1>1 DEF Term
<1>3. /\ \A u \in T : \E i0 \in Starts(m), j0 \in Starts(n), k0 \in Starts(l) :
           u \in BlockTerms(m, l, n, <<i0, j0, k0>>)
      /\ \A i0 \in Starts(m), j0 \in Starts(n), k0 \in Starts(l) :
           BlockTerms(m, l, n, <<i0, j0, k0>>) \subseteq T
  <2>1. T = UNION BlockSets(m, l, n)
    BY DEF multiply_mm_optimized, BlockSets, BlockTerms
  <2>2. /\ \A U \in BlockSets(m, l, n) :
             \E i0 \in Starts(m), j0 \in Starts(n), k0 \in Starts(l) :
               U = BlockTerms(m, l, n, <<i0, j0, k0>>)
        /\ \A i0 \in Starts(m), j0 \in Starts(n), k0 \in Starts(l) :
             BlockTerms(m, l, n, <<i0, j0, k0>>) \in BlockSets(m, l, n)
    BY DEF BlockSets
  <2>3. /\ \A u \in T : \E U \in BlockSets(m, l, n) : u \in U
        /\ \A U \in BlockSets(m, l, n) : U \subseteq T
    BY <2>1
  <2> HIDE DEF T
  <2>4. ASSUME NEW u \in T
        PROVE  \E i0 \in Starts(m), j0 \in Starts(n), k0 \in Starts(l) :
                 u \in BlockTerms(m, l, n, <<i0, j0, k0>>)
    <3>1. PICK U \in BlockSets(m, l, n) : u \in U
      BY <2>3
    <3>2. PICK i0 \in Starts(m), j0 \in Starts(n), k0 \in Starts(l) :
            U = BlockTerms(m, l, n, <<i0, j0, k0>>)
      BY <2>2
    <3> QED BY <3>1, <3>2
  <2>5. ASSUME NEW i0 \in Starts(m), NEW j0 \in Starts(n), NEW k0 \in Starts(l)
        PROVE  BlockTerms(m, l, n, <<i0, j0, k0>>) \subseteq T
    BY <2>2, <2>3
  <2> QED BY <2>4, <2>5
<1>4. /\ \A e \in E : \E i \in To(m), j \in To(n), k \in To(l) :
           e = <<i * n + j, i * l + k, k * n + j>>
      /\ \A i \in To(m), j \in To(n), k \in To(l) :
           <<i * n + j, i * l + k, k * n + j>> \in E
  BY DEF ProductTerms
<1> HIDE DEF T, E
<1>5. ASSUME NEW u \in T
      PROVE  \E i \in To(m), j \in To(n), k \in To(l) : u = t(i, j, k)
  <2>0. PICK i0 \in Starts(m), j0 \in Starts(n), k0 \in Starts(l) :
          u \in BlockTerms(m, l, n, <<i0, j0, k0>>)
    BY <1>3
  <2>1. PICK i \in Block(i0, m), j \in Block(j0, n), k \in Block(k0, l) :
          u = Term(<<i0, j0, k0>>, i * n + j, i * l + k, k * n + j)
    <3>1. InBlock(m, l, n, i0, j0, k0, u)
      BY <2>0, TermsOfBlock
    <3> QED BY <3>1 DEF InBlock
  <2>2. i \in To(m) /\ i0 = StartOf(i)
    BY InOneBlock
  <2>3. j \in To(n) /\ j0 = StartOf(j)
    BY InOneBlock
  <2>4. k \in To(l) /\ k0 = StartOf(k)
    BY InOneBlock
  <2> QED BY <2>1, <2>2, <2>3, <2>4
<1>6. ASSUME NEW i \in To(m), NEW j \in To(n), NEW k \in To(l)
      PROVE  t(i, j, k) \in T
  <2>1. StartOf(i) \in Starts(m) /\ i \in Block(StartOf(i), m)
    BY EveryIndexInBlock
  <2>2. StartOf(j) \in Starts(n) /\ j \in Block(StartOf(j), n)
    BY EveryIndexInBlock
  <2>3. StartOf(k) \in Starts(l) /\ k \in Block(StartOf(k), l)
    BY EveryIndexInBlock
  <2>4. t(i, j, k) \in BlockTerms(m, l, n, <<StartOf(i), StartOf(j), StartOf(k)>>)
    <3>1. PICK u : u = t(i, j, k)
      OBVIOUS
    <3>2. InBlock(m, l, n, StartOf(i), StartOf(j), StartOf(k), u)
      BY <2>1, <2>2, <2>3, <3>1 DEF InBlock
    <3> QED BY <3>1, <3>2, TermsOfBlock
  <2>5. BlockTerms(m, l, n, <<StartOf(i), StartOf(j), StartOf(k)>>) \subseteq T
    BY <1>3, <2>1, <2>2, <2>3
  <2> QED BY <2>4, <2>5
<1> HIDE DEF t
<1>7. IsFiniteSet(T)
  <2>1. FromTriples(T, f, To(m), To(n), To(l))
    BY <1>2, <1>5 DEF FromTriples
  <2>2. IsFiniteSet(To(m)) /\ IsFiniteSet(To(n)) /\ IsFiniteSet(To(l))
    BY ToFinite
  <2> QED BY <2>1, <2>2, TriplesFinite
<1>8. ASSUME NEW i \in To(m), NEW j \in To(n), NEW k \in To(l)
      PROVE  <<t(i, j, k).at, t(i, j, k).a, t(i, j, k).b>> = <<i * n + j, i * l + k, k * n + j>>
  BY <1>2
<1>9. Covers(T, E)
  <2>1. ASSUME NEW u \in T PROVE <<u.at, u.a, u.b>> \in E
    BY <1>4, <1>5, <1>8
  <2>2. ASSUME NEW e \in E PROVE \E u \in T : e = <<u.at, u.a, u.b>>
    <3>1. PICK i \in To(m), j \in To(n), k \in To(l) :
            e = <<i * n + j, i * l + k, k * n + j>>
      BY <1>4
    <3> QED BY <1>6, <1>8, <3>1
  <2> QED BY <2>1, <2>2 DEF Covers
<1>10. ASSUME NEW u \in T, NEW v \in T, u.at = v.at, u.a = v.a, u.b = v.b
       PROVE  u = v
  <2>1. PICK i \in To(m), j \in To(n), k \in To(l) : u = t(i, j, k)
    BY <1>5
  <2>2. PICK c \in To(m), d \in To(n), e \in To(l) : v = t(c, d, e)
    BY <1>5
  <2>3. i * n + j = c * n + d /\ i * l + k = c * l + e
    <3>1. u.at = i * n + j /\ u.a = i * l + k
      BY <1>2, <2>1
    <3>2. v.at = c * n + d /\ v.a = c * l + e
      BY <1>2, <2>2
    <3> QED BY <1>10, <3>1, <3>2
  <2>4. i \in Nat /\ c \in Nat /\ n \in Nat \ {0} /\ l \in Nat \ {0}
    BY DEF To
  <2>5. PlacesDiffer(n) /\ PlacesDiffer(l)
    BY ONLY <2>4, EveryPlace
  <2>6. i = c /\ j = d
    <3>1. PlaceIn(n, i, j) = PlaceIn(n, c, d)
      BY <2>3 DEF PlaceIn
    <3>2. PlacesDiffer(n)
      BY <2>5
    <3>3. j \in To(n) /\ d \in To(n)
      OBVIOUS
    <3> QED BY ONLY <2>4, <3>1, <3>2, <3>3 DEF PlacesDiffer
  <2>7. k = e
    <3>1. PlaceIn(l, i, k) = PlaceIn(l, c, e)
      BY <2>3 DEF PlaceIn
    <3>2. PlacesDiffer(l)
      BY <2>5
    <3>3. k \in To(l) /\ e \in To(l)
      OBVIOUS
    <3> QED BY ONLY <2>4, <3>1, <3>2, <3>3 DEF PlacesDiffer
  <2> QED BY <2>1, <2>2, <2>6, <2>7
<1> QED BY <1>7, <1>9, <1>10, TermsAddUp DEF T, E

\* The indices of a window that go in pairs, and the one left of an odd window.
PairStarts(n) == {j \in To(n) : j % 2 = 0 /\ j + 2 <= n}

OddOne(n) == {j \in To(n) : \A p \in PairStarts(n) : j > p + 1}

LEMMA PairedOrLeft ==
  ASSUME NEW n \in Nat
  PROVE  /\ \A p \in PairStarts(n), lane \in 0 .. 1 : p + lane \in To(n) /\ p + lane \notin OddOne(n)
         /\ \A j \in To(n) : j \in OddOne(n) \/ \E p \in PairStarts(n), lane \in 0 .. 1 : j = p + lane
<1>1. ASSUME NEW p \in PairStarts(n), NEW lane \in 0 .. 1
      PROVE  p + lane \in To(n) /\ p + lane \notin OddOne(n)
  BY DEF PairStarts, OddOne, To
<1>2. ASSUME NEW j \in To(n), j \notin OddOne(n)
      PROVE  \E p \in PairStarts(n), lane \in 0 .. 1 : j = p + lane
  <2>1. j \in Nat /\ j <= n - 1
    BY DEF To
  <2>2. PICK p \in PairStarts(n) : ~(j > p + 1)
    BY <1>2 DEF OddOne
  <2>3. p \in Nat /\ p + 2 <= n /\ p % 2 = 0
    BY DEF PairStarts, To
  <2>4. CASE j % 2 = 0
    <3>1. j + 2 <= n
      BY <2>1, <2>2, <2>3, <2>4
    <3>2. j \in PairStarts(n) /\ j = j + 0
      BY <2>1, <2>4, <3>1 DEF PairStarts
    <3> QED BY <3>2
  <2>5. CASE j % 2 # 0
    <3>1. (j - 1) % 2 = 0 /\ j - 1 \in Nat /\ (j - 1) + 2 <= n
      BY <2>1, <2>2, <2>3, <2>5
    <3>2. j - 1 \in PairStarts(n) /\ j = (j - 1) + 1
      BY <2>1, <3>1 DEF PairStarts, To
    <3> QED BY <3>2
  <2> QED BY <2>4, <2>5
<1> QED BY <1>1, <1>2

\* The lanes and the scalar of an odd window add each term of it once.
LEMMA SimdAddsUp ==
  ASSUME NEW l \in Nat, NEW n \in Nat \ {0}
  PROVE  AddsUp(compute_moving_average_simd(l, n), AverageTerms(l, n))
<1> DEFINE T == compute_moving_average_simd(l, n)
           E == AverageTerms(l, n)
           t(i, j) == Term(IF j \in OddOne(n) THEN "rest" ELSE "lanes", i, i + j, 0)
<1>1. PICK A : A = To(Averages(l, n))
  OBVIOUS
<1>2. PICK f : f = [x \in A \X To(n) |-> t(x[1], x[2])]
  OBVIOUS
<1>3. \A i \in A, j \in To(n) :
        t(i, j).at = i /\ t(i, j).a = i + j /\ t(i, j).b = 0 /\ f[<<i, j>>] = t(i, j)
  BY <1>2 DEF Term
<1>4. \A u : u \in T <=>
        \/ \E i \in A, p \in PairStarts(n), lane \in 0 .. 1 : u = Term("lanes", i, i + p + lane, 0)
        \/ \E i \in A, j \in OddOne(n) : u = Term("rest", i, i + j, 0)
  BY <1>1 DEF compute_moving_average_simd, PairStarts, OddOne
<1>5. A \subseteq Nat /\ IsFiniteSet(A) /\ IsFiniteSet(To(n)) /\ To(n) \subseteq Nat
  <2>1. Averages(l, n) \in Int /\ n \in Int
    BY DEF Averages
  <2> QED BY <1>1, <2>1, ToFinite DEF To
<1>6. OddOne(n) \subseteq To(n) /\ PairStarts(n) \subseteq To(n)
  BY DEF OddOne, PairStarts
<1> HIDE DEF T, E
<1>7. ASSUME NEW u \in T PROVE \E i \in A, j \in To(n) : u = t(i, j)
  <2>1. CASE \E i \in A, j \in OddOne(n) : u = Term("rest", i, i + j, 0)
    BY <1>6, <2>1
  <2>2. ASSUME NEW i \in A, NEW p \in PairStarts(n), NEW lane \in 0 .. 1,
               u = Term("lanes", i, i + p + lane, 0)
        PROVE  \E c \in A, j \in To(n) : u = t(c, j)
    <3>1. p + lane \in To(n) /\ p + lane \notin OddOne(n)
      BY PairedOrLeft
    <3>2. i + p + lane = i + (p + lane)
      BY <1>5, <1>6
    <3>3. u = t(i, p + lane)
      BY <2>2, <3>1, <3>2
    <3> QED BY <3>1, <3>3
  <2> QED BY <1>4, <2>1, <2>2
<1>8. ASSUME NEW i \in A, NEW j \in To(n) PROVE t(i, j) \in T
  <2>1. CASE j \in OddOne(n)
    BY <1>4, <2>1
  <2>2. CASE j \notin OddOne(n)
    <3>1. PICK p \in PairStarts(n), lane \in 0 .. 1 : j = p + lane
      BY <2>2, PairedOrLeft
    <3>2. i + p + lane = i + j
      BY <1>5, <1>6, <3>1
    <3>3. t(i, j) = Term("lanes", i, i + p + lane, 0)
      BY <2>2, <3>2
    <3> QED BY <1>4, <3>3
  <2> QED BY <2>1, <2>2
<1> HIDE DEF t
<1>9. IsFiniteSet(T)
  <2>1. FromPairs(T, f, A, To(n))
    BY <1>3, <1>7 DEF FromPairs
  <2> QED BY <1>5, <2>1, PairsFinite
<1>10. /\ \A e \in E : \E i \in A, j \in To(n) : e = <<i, i + j, 0>>
       /\ \A i \in A, j \in To(n) : <<i, i + j, 0>> \in E
  <2>1. ASSUME NEW e \in E PROVE \E i \in A, j \in To(n) : e = <<i, i + j, 0>>
    BY <1>1, InWindow DEF E
  <2>2. ASSUME NEW i \in A, NEW j \in To(n) PROVE <<i, i + j, 0>> \in E
    BY <1>1, InAverage DEF E
  <2> QED BY <2>1, <2>2
<1>11. ASSUME NEW i \in A, NEW j \in To(n)
       PROVE  <<t(i, j).at, t(i, j).a, t(i, j).b>> = <<i, i + j, 0>>
  BY <1>3
<1>12. Covers(T, E)
  <2>1. ASSUME NEW u \in T PROVE <<u.at, u.a, u.b>> \in E
    BY <1>7, <1>10, <1>11
  <2>2. ASSUME NEW e \in E PROVE \E u \in T : e = <<u.at, u.a, u.b>>
    <3>1. PICK i \in A, j \in To(n) : e = <<i, i + j, 0>>
      BY <1>10
    <3> QED BY <1>8, <1>11, <3>1
  <2> QED BY <2>1, <2>2 DEF Covers
<1>13. ASSUME NEW u \in T, NEW v \in T, u.at = v.at, u.a = v.a, u.b = v.b
       PROVE  u = v
  <2>1. PICK i \in A, j \in To(n) : u = t(i, j)
    BY <1>7
  <2>2. PICK c \in A, d \in To(n) : v = t(c, d)
    BY <1>7
  <2>3. i = c /\ i + j = c + d
    <3>1. u.at = i /\ u.a = i + j
      BY <1>3, <2>1
    <3>2. v.at = c /\ v.a = c + d
      BY <1>3, <2>2
    <3> QED BY <1>13, <3>1, <3>2
  <2>4. j = d
    BY <1>5, <2>3
  <2> QED BY <2>1, <2>2, <2>3, <2>4
<1> QED BY <1>9, <1>12, <1>13, TermsAddUp DEF T, E

AtShare(p, n) == idx(p, n) \in To(n) /\ 1000 * (idx(p, n) + 1) >= p * n

LEMMA PercentilesRight ==
  ASSUME NEW n \in Nat \ {0}
  PROVE  \A p \in {500, 900, 950, 990, 999} : AtShare(p, n)
<1>1. AtShare(500, n)
  BY DEF AtShare, idx, To
<1>2. AtShare(900, n)
  BY DEF AtShare, idx, To
<1>3. AtShare(950, n)
  BY DEF AtShare, idx, To
<1>4. AtShare(990, n)
  BY DEF AtShare, idx, To
<1>5. AtShare(999, n)
  BY DEF AtShare, idx, To
<1> QED BY <1>1, <1>2, <1>3, <1>4, <1>5

\* The sizes are those that the matrices were generated with.
ShapeInv == shape \in [rows : Sizes, inner : Sizes, cols : Sizes]

\* In every state the kernels agree: the products, sums and averages, however
\* their loops are ordered, blocked or paired, add exactly the terms that their
\* results are defined by, and the printed percentiles are in the data, for
\* every size of the arguments and of the blocks.
THEOREM KernelsAddUp == KernelsSpec => []KernelsAgree
<1>1. ASSUME ShapeInv PROVE KernelsAgree
  <2>1. PICK m, l, n : m = shape.rows /\ l = shape.inner /\ n = shape.cols
    OBVIOUS
  <2>2. m \in Nat /\ l \in Nat /\ n \in Nat \ {0}
    BY <1>1, <2>1, KernelsAssumption DEF ShapeInv, Sizes
  <2>3. AddsUp(multiply_mv_row_major(m, n), RowTerms(m, n))
    BY <2>2, RowMajorAddsUp
  <2>4. AddsUp(multiply_mv_col_major(m, n), ColTerms(m, n))
    BY <2>2, ColMajorAddsUp
  <2>5. AddsUp(multiply_mm_naive(m, l, n), ProductTerms(m, l, n))
    BY <2>2, NaiveAddsUp
  <2>6. AddsUp(TransposedBack(m, l, n), ProductTerms(m, l, n))
    BY <2>2, TransposedAddsUp
  <2>7. AddsUp(multiply_mm_optimized(m, l, n), ProductTerms(m, l, n))
    BY <2>2, BlockedAddsUp, KernelsAssumption
  <2>8. AddsUp(sumMatrix(n), SumTerms(n))
    BY <2>2, SumAddsUp
  <2>9. AddsUp(compute_moving_average_standard(l, n), AverageTerms(l, n))
    BY <2>2, AveragesAddUp
  <2>10. AddsUp(compute_moving_average_simd(l, n), AverageTerms(l, n))
    BY <2>2, SimdAddsUp
  <2>11. \A p \in {500, 900, 950, 990, 999} : AtShare(p, n)
    <3>1. n \in Nat \ {0}
      BY <2>2
    <3> QED BY <3>1, PercentilesRight
  <2> QED BY <2>1, <2>3, <2>4, <2>5, <2>6, <2>7, <2>8, <2>9, <2>10, <2>11
          DEF KernelsAgree, AtShare
<1>2. KernelsInit => ShapeInv
  BY DEF KernelsInit, ShapeInv
<1>3. ShapeInv /\ [KernelsNext]_shape => ShapeInv'
  BY DEF ShapeInv, KernelsNext, Sizes
<1> QED BY <1>1, <1>2, <1>3, PTL DEF KernelsSpec
=============================================================================
