---------------------------- MODULE TradeEngine ----------------------------
(***************************************************************************)
(* The trade engine of week_2/hw2 (trade_engine.cpp) over the generated    *)
(* feed (market_data_feed.cpp): each tick joins the short price history of *)
(* its instrument, three signals vote, and a majority places an order.     *)
(*                                                                         *)
(* Prices are in cents.  market_data is generated before it is processed;  *)
(* here a tick is chosen when the engine reaches it.  Time stamps and      *)
(* latencies are left out.                                                 *)
(***************************************************************************)
EXTENDS Integers, Sequences, FiniteSets, FiniteSetsExt, Folds

CONSTANTS TickPrices,     \* the prices of ticks
          Instruments,    \* 10 in generateData
          HistorySize,    \* 10 in updateHistory
          AverageFrom,    \* 5 in evaluateSignal2
          MaxTicks        \* num_ticks

ASSUME TradeEngineAssumption ==
  /\ TickPrices \subseteq Nat /\ Instruments \in Nat \ {0}
  /\ HistorySize \in Nat \ {0} /\ AverageFrom \in Nat \ {0} /\ MaxTicks \in Nat

VARIABLES market_data,   \* the prices of the ticks so far
          price_history, \* price_history[i]: the last prices of instrument i
          placed         \* the vector orders

evars == <<market_data, price_history, placed>>

instrument(t) == (t - 1) % Instruments

EngineInit ==
  /\ market_data = <<>>
  /\ price_history = [i \in 0 .. Instruments - 1 |-> <<>>]
  /\ placed = <<>>

\* Mutant: the newest price is dropped in place of the oldest.
updateHistoryNewest(history, price) ==
  LET prices == Append(history, price)
  IN  IF Len(prices) > HistorySize THEN SubSeq(prices, 1, HistorySize) ELSE prices

updateHistory(history, price) ==
  LET prices == Append(history, price)
  IN  IF Len(prices) > HistorySize THEN Tail(prices) ELSE prices

Total(prices) == FoldFunction(LAMBDA p, sum : p + sum, 0, prices)

\* The signals; history already ends with price.
evaluateSignal1(price) ==
  IF price < 10500 THEN "BUY" ELSE IF price > 19500 THEN "SELL" ELSE "NONE"

evaluateSignal2(price, history) ==
  LET n == Len(history)
  IN  IF n < AverageFrom \/ Total(history) = 0        THEN "NONE"
      ELSE IF n * price * 100 < Total(history) * 98  THEN "BUY"
      ELSE IF n * price * 100 > Total(history) * 102 THEN "SELL"
      ELSE "NONE"

evaluateSignal3(price, history) ==
  LET n == Len(history)
  IN  IF n >= 3 /\ history[n - 1] > history[n - 2] /\ price > history[n - 1]
      THEN "BUY" ELSE "NONE"

Votes(price, history) ==
  <<evaluateSignal1(price), evaluateSignal2(price, history), evaluateSignal3(price, history)>>

For(votes, action) == {s \in DOMAIN votes : votes[s] = action}

\* placeOrder, one cent on the far side of the tick's price; the signal the
\* order is attributed to is drawn from those that voted for it.
PlaceOrder(tick, price, is_buy, signals) ==
  \E s \in signals :
    placed' = Append(placed, [tick |-> tick, price |-> IF is_buy THEN price + 1 ELSE price - 1,
                              is_buy |-> is_buy, signal_source |-> s])

\* One pass of the loop in process.
Process(price) ==
  LET tick    == Len(market_data) + 1
      i       == instrument(tick)
      history == updateHistory(price_history[i], price)
      buys    == For(Votes(price, history), "BUY")
      sells   == For(Votes(price, history), "SELL")
  IN  /\ tick <= MaxTicks
      /\ market_data' = Append(market_data, price)
      /\ price_history' = [price_history EXCEPT ![i] = history]
      /\ CASE Cardinality(buys) > Cardinality(sells) -> PlaceOrder(tick, price, TRUE, buys)
           [] Cardinality(sells) > Cardinality(buys) -> PlaceOrder(tick, price, FALSE, sells)
           [] OTHER                                  -> UNCHANGED placed

EngineNext == \E price \in TickPrices : Process(price)

EngineSpec == EngineInit /\ [][EngineNext]_evars

-----------------------------------------------------------------------------
(***************************************************************************)
(* The same decisions, read off the whole feed.                            *)
(***************************************************************************)

\* The ticks of tick t's instrument that count for it: at most HistorySize.
Window(t) ==
  {u \in 1 .. t : instrument(u) = instrument(t) /\ t - u < HistorySize * Instruments}

\* What speaks for buying and for selling at tick t.
Opinions(t) ==
  LET p       == market_data[t]
      w       == Window(t)
      n       == Cardinality(w)
      average == MapThenSumSet(LAMBDA u : market_data[u], w)   \* times n
      b       == t - Instruments
      a       == t - 2 * Instruments
  IN  [buy  |-> {s \in 1 .. 3 :
                   \/ s = 1 /\ p < 10500
                   \/ s = 2 /\ n >= AverageFrom /\ 100 * n * p < 98 * average
                   \/ s = 3 /\ {a, b} \subseteq w /\ market_data[a] < market_data[b]
                            /\ market_data[b] < p},
       sell |-> {s \in 1 .. 2 :
                   \/ s = 1 /\ p > 19500
                   \/ s = 2 /\ n >= AverageFrom /\ 100 * n * p > 102 * average}]

\* The orders are those a majority of the signals asks for, one for its tick,
\* in the order of the ticks and attributed to a signal that asked for it,
\* where the signals are evaluated over the feed and not over the histories
\* that process keeps.
OrdersAreJustified ==
  LET wanted == {t \in DOMAIN market_data :
                   Cardinality(Opinions(t).buy) # Cardinality(Opinions(t).sell)}
  IN  /\ {placed[k].tick : k \in DOMAIN placed} = wanted
      /\ \A j, k \in DOMAIN placed : j < k => placed[j].tick < placed[k].tick
      /\ \A k \in DOMAIN placed :
           LET opinions == Opinions(placed[k].tick)
               buy      == Cardinality(opinions.buy) > Cardinality(opinions.sell)
           IN  /\ placed[k].is_buy = buy
               /\ placed[k].signal_source \in IF buy THEN opinions.buy ELSE opinions.sell
=============================================================================
