----------------------------- MODULE OrderBooks -----------------------------
(***************************************************************************)
(* The books of week 5 side by side, given the same calls: the pooled one  *)
(* (OptimizedOrderBook of phase_5 and of hw_5) and the two it is compared  *)
(* with, phase_5's OrderBook and hw_5's UnoptimizedOrderBook.  The tests,  *)
(* the drivers and the benchmarks of both projects run the same sequence   *)
(* of operations on the books of a pair.                                   *)
(***************************************************************************)
EXTENDS OptimizedOrderBook

CONSTANT MaxMisuses   \* bound: calls after which the books differ

ASSUME MisusesAssumption == MaxMisuses \in Nat

VARIABLES
  plainLevels, plainLookup,           \* phase_5's OrderBook
  unoptLevels, unoptLookup, unoptCount,  \* hw_5's UnoptimizedOrderBook
  duplicates,  \* history: how often an id was added that was in the book
  overflows    \* history: how often the pool was exhausted

Plain == INSTANCE OrderBook WITH levels <- plainLevels, lookup <- plainLookup
Unopt == INSTANCE UnoptimizedOrderBook
           WITH levels <- unoptLevels, lookup <- unoptLookup, count <- unoptCount

booksVars == <<vars, plainLevels, plainLookup, unoptLevels, unoptLookup, unoptCount,
               duplicates, overflows>>

BooksInit ==
  /\ Init /\ Plain!Init /\ Unopt!Init
  /\ duplicates = 0
  /\ overflows = 0

IsDuplicate(id, price, quantity) ==
  ValidInput(price, quantity) /\ id \in DOMAIN plainLookup
Overflows(id, price, quantity) ==
  Unopt!CanAdd(id, price, quantity) /\ id \notin DOMAIN lookup /\ free = <<>>

Count(b) == IF b THEN 1 ELSE 0

Add(id, price, quantity, isBuy) ==
  /\ AddOrder(id, price, quantity, isBuy)
  /\ Plain!AddOrder(id, price, quantity, isBuy)
  /\ Unopt!AddOrder(id, price, quantity, isBuy)
  /\ duplicates' = duplicates + Count(IsDuplicate(id, price, quantity))
  /\ overflows' = overflows + Count(Overflows(id, price, quantity))
  /\ duplicates' + overflows' <= MaxMisuses

Modify(id, price, quantity) ==
  /\ ModifyOrder(id, price, quantity)
  /\ Plain!ModifyOrder(id, price, quantity)
  /\ Unopt!ModifyOrder(id, price, quantity)
  /\ UNCHANGED <<duplicates, overflows>>

Delete(id) ==
  /\ DeleteOrder(id)
  /\ Plain!DeleteOrder(id)
  /\ Unopt!DeleteOrder(id)
  /\ UNCHANGED <<duplicates, overflows>>

BooksNext ==
  \E id \in Ids :
    \/ \E p \in Prices, q \in Quantities :
         \/ \E b \in BOOLEAN : Add(id, p, q, b)
         \/ Modify(id, p, q)
    \/ Delete(id)

BooksSpec == BooksInit /\ [][BooksNext]_booksVars

-----------------------------------------------------------------------------
(***************************************************************************)
(* What callers see of the levels                                          *)
(***************************************************************************)

\* The levels with copies of the orders, as the other two books keep them.
Copies ==
  [p \in DOMAIN levels |->
     [id \in DOMAIN levels[p] |->
        [price |-> pool[levels[p][id]].price, quantity |-> pool[levels[p][id]].quantity,
         isBuy |-> pool[levels[p][id]].isBuy]]]

-----------------------------------------------------------------------------
(***************************************************************************)
(* Properties                                                              *)
(***************************************************************************)

\* The plain book's lookup agrees with its levels, whatever ids are added
\* twice.
LookupIsAtLevel == Plain!LookupIsAtLevel

\* As long as no id has been added twice and the pool has not been exhausted,
\* the three books cannot be told apart: getOrder, the levels (and so their
\* best bid and ask), and the count of active orders are the same.  Refusing
\* duplicates, hw_5's pair agrees without the first condition.
BooksAgree ==
  overflows = 0 =>
    /\ Orders = unoptLookup /\ Copies = unoptLevels /\ count = unoptCount
    /\ duplicates = 0 => Orders = plainLookup /\ Copies = plainLevels
=============================================================================
