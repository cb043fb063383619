# HFT-Project: specifications and proofs

TLA+ specifications of the programs in this repository, the TLC runs that
check them on small instances, and TLAPS proofs. Every definition is
translated from the source; `PROJECT.json` maps each one to its file and
lines. The programs are a course project in weekly parts, most of which are
independent of each other. The parts in which threads, processes or messages
meet have modules, runs and proofs of their own; the parts that stand alone
share one run.

Contents: 1. inventory, 2. modules and their correspondence to the code,
3. runs, 4. proofs, 5. abstractions and what is not modelled,
6. disagreements between code and text, 7. plan.

## 1. Inventory

### Week 7: order pipeline over a lock-free queue

| part | state | operations | meets others through |
|---|---|---|---|
| `ConcurrentQueue.hpp` | `head`, `tail`, one `seq` and one item per cell, the global memory policy | `push`, `pop`, `size`, `is_empty`, `reset` | atomics; the item copies are plain |
| `OrderProcessing.cpp` | queue, book, latency store, counter, latch, barrier, semaphore (all global) | `orderProducer`, `orderConsumer`, `startOrderProcessing`, `reset_all` | all of the above |
| `main.cpp`, `BenchmarkMain.cpp` | none | one run; three runs with `reset_all` | |
| `Analytics.cpp` | none | averages and percentiles of the finished store | reads the store after the joins |

Hard: stale relaxed loads, threads delayed between a load and a
compare_exchange, refusals at the capacity, the exit test of the consumers
(a counter that lags behind the queue), one-shot synchronisers reused by the
next run. Correct means: the queue is a bounded FIFO whose cells have one
owner at a time; each order is booked and recorded once; no consumer leaves
while an order is on its way; every run ends.

### Challenge: UDP broadcaster, TCP judge and a racing client

| part | state | operations | meets others through |
|---|---|---|---|
| `server/main_server.cpp` | `current_challenge`, sessions | generate, multicast in fragments, accept, read, judge, reply | two threads share the challenge under a mutex |
| `client/client.cpp` | packet queue, current id, target and market, flags | receive, parse, apply, answer, reset, shut down | UDP thread to workers by queue; workers by shared variables |
| `client/ConcurrentQueue.h` | as in week 7 | as in week 7 | |
| loggers in `client.cpp` | queue, batch, file | pop, flush, stop | workers and the UDP thread push |
| `analysis.py` | none | plots | reads the log files |

Hard: datagrams lost, repeated and reordered; a challenge cut over several
datagrams; answers to an old challenge judged after the next is installed;
reads of the client's variables after its mutex has been released; shutdown
between a test and a push. Correct means: the first right answer judged wins;
the client loses a challenge only by being late; nothing queued before an
interrupt is left behind; everything stops. That each answer of the client is
right for the challenge it names would be wished for too, and is not so (6).

### Week 5: order books, pool, heap, hash table

`phase_5`: `OrderBook` (levels by price and a lookup by id, both holding
copies), `OptimizedOrderBook` (both holding pointers into an `ObjectPool`, and
a count). One caller. Hard: two indexes that have to agree over long sequences
of legal calls, ids added twice, the pool at its limit, slots used twice.
Correct means: both indexes describe the same orders, and a slot is free or
belongs to one order. `phase_5/src/main.cpp`, `tests.cpp` and
`real_time_processing.cpp` drive the books and keep no state.

`hw_5` has a second pair of books and three structures:

| part | state | operations | hard |
|---|---|---|---|
| `robinhood_hash_table.cpp` | a vector of entries with distances, a count | `insert`, `find`, `erase`, `clear`, `rehash` | entries displace each other, a rehash in the middle of an insert, holes left by `erase` |
| `order_priority_queue.cpp` | a heap in a vector | `push`, `pop`, `clear` | the two children of an inner place, equal prices |
| `time_series_processor.cpp` | none | two moving averages | lanes of four, the tail of the loop |

Correct means: the table is a map, what is popped is always an order of the
best price, and each average adds up its own window.

### Week 4: matching engine and feed

`phase_4`: `OrderBook` (bids, asks, `ordersById_`), `MatchingEngine`,
`MemoryPool`, `OrderManager`, `MarketDataFeed` (a thread with a callback).
Hard: orders owned by several containers, filled orders that one of them
keeps, the pool running out, stopping the feed while it calls back.

`hw_4`: `OrderBookBuffer`, an object that owns raw memory and constructs orders
in it (constructor, move constructor, move assignment, destructor,
`add_order`). Hard: moves onto objects that own something, self-assignment,
and the count of orders to destroy. Correct means: a block of memory has one
owner, which knows what was constructed in it. `StaticVector` and the
compile-time headers have no such state.

### Week 3: strategy

`phase_3`: `MarketSnapshot` (two maps of levels), `OrderManager` (a map of own
orders) and the event loop in `main.cpp`, which reads updates and executions
from the feed, answers a better bid or ask than any before with an order, and
cancels and replaces an order when its level changes. Hard: partial fills,
removals and replacements in any order, a side that becomes empty. Correct
means: every own order matches a level of the market and all of it. `hw_3` is
an ownership exercise.

### Week 2: price server and trade engine

| part | state | operations | meets others through |
|---|---|---|---|
| `phase2/hft_server.cpp` | `clients`, the time stamps of prices, the prices already hit | broadcast, accept, one handler thread per client | `clientsMutex`, `priceMutex`, sockets |
| `phase2/hft_client.cpp` | the last three prices | receive, answer on a momentum | TCP |
| `hw2/trade_engine.cpp` | a short history for each instrument, orders | `process`: three signals, a vote | called by main over the generated feed |

Hard: sockets closed by one thread and written by another, socket numbers that
are used again, messages glued together or lost with a connection. Correct
means: one hit for each price, by a client that saw a momentum, and each
client that stays is sent every price; for the engine, that the orders are
those the feed justifies.

### Week 1: matrix kernels

`phase1/matrix_ops.cpp` and `hw1`: five products, a transpose and two sums over
flat arrays. Hard: indices in two layouts and blocks that do not divide the
sizes.

`PROJECT.json` lists every component with its status, and every hazard at the
line where it bites.

## 2. Modules

    BoundedFifo  <==  ConcurrentQueue  <--  ConcurrentQueueProofs
         |                 (refinement checked and proved)
         |  used as the queue of
         +-- OrderProcessing
         +-- ChallengeClient --+
         +-- LatencyLogger     |
    ChallengeFeed -------------+-- ChallengeSystem
                 ChallengeServer --+

    OrderMap  <==  OptimizedOrderBook  <--  OrderBooksProofs
       |                 (refinement checked and proved)
    PriceLevels        +-- OrderBooks --+
       |                                |
       +-- OrderBook -------------------+
       +-- UnoptimizedOrderBook --------+

    Maps  -->  MatchingBook  -->  MatchingEngine
     +----->  PriceLevels
     +----->  MarketStrategy --------+
     +----->  RobinHoodHashTable ----+
              OrderPriorityQueue ----+
              OrderBookBuffer -------+-- MCPrograms
              PriceServer -----------+
              TradeEngine -----------+
              NumericKernels --------+

    Loops  -->  RobinHoodHashTable, OrderPriorityQueue

    OrderBooks,
    RobinHoodHashTable,
    OrderPriorityQueue  <--  OrderBooksProofs  ----+
    OrderProcessing  <--  OrderProcessingProofs  --+-->  FiniteSums  -->  Loops
    MarketStrategy, OrderBookBuffer,               |
    PriceServer, LatencyLogger,                    |
    TradeEngine,                                   |
    NumericKernels   <--  ProgramProofs  ----------+
    MatchingEngine   <--  MatchingEngineProofs
    ChallengeClient  <--  ChallengeClientProofs
    ChallengeSystem  <--  ChallengeSystemProofs

(`A <-- AProofs`: the second holds the theorems about the first. `FiniteSums`
has the lemmas on sums, least elements, loops and remainders that they share.)

**BoundedFifo** is what the queue promises: a push that returns true appends,
a pop that returns true removes the oldest item, and at most `Capacity` items
are in it.

**ConcurrentQueue** is `ConcurrentQueue.hpp`. Each access to an atomic and each
copy of an item is an action: `PushCall` (the load of `tail`), `PushCheck`
(the load of `seq` and the test of the difference), `PushReload`, `PushClaim`
and `PushCASFails` (the two outcomes of `compare_exchange_weak`, which may
fail spuriously), `PushWrite`, `PushPublish`; the same seven for `pop`;
`SizeLoadHead` and `SizeLoadTail`; `Reset`, which its caller makes only while
no thread is inside. `Policy` is the memory policy. Under SeqCst a load
returns the current value. Under the other two, loads of `head`, `tail` and
`seq` may return *any* value the variable has held, which is more than C++
allows, so what holds here holds there. A successful compare_exchange acts on
the latest value under every policy, and the acquire/release pair on `seq`
orders the item copies, which is why data is read at its current value.
`log` is a history variable that names the item at each position.

**OrderProcessing** is the pipeline with the main thread of either program.
`pc[c]` walks through `orderConsumer` in the code's order; `ResetAll`,
`StartThreads`, `OpenLatch`, `JoinThreads`, `NextRun` are the main thread. The
loop in `reset_all` that drains the semaphore is part of `ResetAll`: no other
thread exists then, and `try_acquire` of libstdc++ and libc++ answers false only
at zero or when another thread gets in between (the standard would let it fail
for no reason, which no build shows). The
queue is the FIFO of `BoundedFifo`, with the one addition that a pop may fail
although items are queued (`PopFails`), as the refinement allows.

**ChallengeFeed** holds the packets: a challenge is a text of lines, cut into
datagrams anywhere; a packet is modelled by the complete lines in it. The real
server writes 1000 lines, about 36 KB, cut into some 26 datagrams, of which the
last has the `CHALLENGE_ID` and the `TARGET` line.
**ChallengeServer** has the broadcasting thread (`Install`, `Multicast`) and
the io thread (`Accept`, `SkipLine`, `Judge`, `Reply`, `Disconnect`).
`AcceptThrows` is the `remote_endpoint()` of the accept handler when the peer
has already reset the connection: nothing catches the exception below `main`,
which ends the program (`io = Down`); an accept that fails only accepts again.
**ChallengeClient** has the UDP handler in two steps (before and after its
test of `shutdown_requested`), the workers in one per critical section and one
per access to the shared variables outside the mutex (the id and the price of
an answer are read apart, in either order, as the arguments of a call are),
and the interrupt. `heard` remembers whether the network has kept the order of
the packets received. **ChallengeSystem** connects them: what is multicast may
be received any number of times in any order or not at all; what the client
sends arrives in order at its session; another client sends what it likes, and
leaves or is reset when it likes.

**LatencyLogger** is the body both logger threads share. A record is claimed
before it is filled, as in the lock-free queue, so that `is_empty()` and a
failing `pop` may disagree. On a machine that is `stale`, chosen at the start,
loads may return older values, as C++ permits where nothing orders them: a
filled cell looks unfilled, a queue with room looks full, and `is_empty()`, a
load of `head` and one of `tail` without order to the producers' relaxed
compare_exchange, sees no claim or some (`Views`), but never fewer than it has
seen before (`seen`).

**OptimizedOrderBook** is the pooled book of `phase_5`, which `hw_5` repeats:
`AddOrder`, `ModifyOrder`, `DeleteOrder`, each one step since the book has one
caller, over the levels, the lookup, the pool with its free list
(`Allocate`, `Deallocate`) and the two counters. A pointer to an order is the
index of its slot, so a pointer to a slot that was given back can be told from
a good one. An argument that the code refuses, a duplicate and an exhausted
pool are steps that change nothing. **OrderMap** is what it promises: a map
from ids to orders with a limit. **OrderBook** and **UnoptimizedOrderBook** are
the books with copies of `phase_5` and `hw_5`, **PriceLevels** the containers
all three use, and **OrderBooks** gives the three the same calls, as the
tests, drivers and benchmarks of both projects do.

**MatchingBook** is week 4's `OrderBook`, `MemoryPool` and `OrderManager`.
`side[TRUE]` and `side[FALSE]` are the two multimaps, sequences in iteration
order into which `Emplace` inserts behind equal prices. Ownership through
`shared_ptr` is one operator: `Owned` is the set of blocks that some container
points to, and `Release` returns the blocks that were owned before a step and
are not after it. **MatchingEngine** has the feed's thread (`NextTick`,
`AddBuy`, `AddSell`, one `MatchOrders` step for each trade, `BuyCheap`,
`FeedEnds`), main (`Start`, `Stop`, `Join`, `Exit` with the destructors) and a
listener that may use the rest of the public interface between ticks.

**PriceServer** is week 2's server with its clients. The broadcasting thread
stamps a price, takes `clientsMutex` (`nextClient` is its place in the list
while it holds the mutex), sends to each entry and lets go; the accepting
thread accepts and registers; each handler receives a name, then orders, judges
one under `priceMutex`, and closes its socket when the client is gone. Entries
of the list are socket numbers, `holder` says whose connection a number is at
the moment, and nothing is taken off the list, as in the code. A `recv` may
return several messages, and the first part of one, the rest of which is a
`Piece` for the next `recv` (`Read`, `Unread`); `cuts` bounds how often it does.
Of an order that is glued or cut `atoi` makes any number, a stamped price
included; of the part of a price the client makes nothing, or any price and
value, which `misread` remembers. The clients keep `Trend` prices and answer a strictly
rising or falling history. `Killed` is the SIGPIPE of a send to a client that
has left.

**MarketStrategy** is week 3's event loop. `levels` is the snapshot, `orders`
the manager's map, `best` the two `prev_best` of `main.cpp`. An update of an
own order's level is `Replace`, any other `Follow` (which may place an order);
`Execute` fills. The removal of a side's last level, when no own order is at
it, ends in `main = "crashed"` (6).

**TradeEngine** is `process` for one tick: history, three signals, the vote and
the order. Prices are in cents, so that the comparisons of the code are exact.

**NumericKernels** describes a loop by the set of terms it adds up, with their
places in the flat arrays, and compares it with the definition of the product,
sum or average; the percentile's index of `Analytics.cpp` is here too.

**Loops** says what a loop is: `Passes(body, s)[n]` is the state after `n`
passes of a loop that begins in `s`, `body` a function that maps a state in
which the loop is over to itself. **RobinHoodHashTable** has the loops of
`find`, `erase`, `insert` and `rehash` this way (`SeekPass`, `ProbePass`,
`RehashPass`), over the vector of entries, with the distance that `insert`
writes, and a hash that is any function to `HashValues`. Calls go on behind the
holes that `erase` leaves: there a key may get a second slot, and a displaced
entry is lost when its pass ends at a second slot of the key being inserted,
as in the code. `behind` counts the calls since the first hole and bounds
them (only `clear` brings the table back), `given` remembers the pairs inserted.
**OrderPriorityQueue** is the heap with its sift-up and sift-down loops
(`UpPass`, `DownPass`). Each is given as many passes as the code can need: the
loops of the heap end after as many as there are places, that of `insert`
after fewer than there are slots, since one of them is free.
**OrderBookBuffer** follows the blocks of memory: `buffer_`, `size_` and
`capacity_` of each object, which blocks are allocated and how many orders are
constructed in each. **MCPrograms** puts these seven side by side, see 3.

The `MC...` modules give the instances for TLC. A definition marked `Mutant`
is a plausible slip in the definition that follows it; no specification uses
it. Each property is known to fail when its mutant takes the definition's
place.

## 3. Runs

| run | instance | shows |
|---|---|---|
| `queue_relaxed` | 2 producers with 2 pushes each, 2 consumers, 2 cells, stale loads | the inductive invariant `QueueInv`, `ExclusiveCell` and the refinement `IsBoundedFifo` |
| `queue_seqcst` | 2 producers, 1 consumer, 1 observer, 2 cells | `RefusalsAreTrue`: a push refuses only while the position it needs is not yet free again, a pop only while the queue is empty or its oldest item is still being written; `SizeIsHonest`: `size` never wraps and `is_empty` is true only of a queue that was empty; calls return |
| `queue_capacity_one` | 1 cell | violation, see 6 |
| `pipeline` | 2 producers with 3 orders, 2 consumers, 2 cells, 2 runs | each order once, the book adds up, nobody leaves early, the barrier, termination |
| `challenge_system` | server with 2 challenges of 2 packets, 2 markets, our client with 1 worker, a queue of 1 packet and 2 receives, another client with 1 line | first right answer wins, our client loses only by being late while the network keeps the order, a packet that suffices is answered rightly and judged, lines are served |
| `client_workers` | 2 workers, a challenge in 3 packets, 2 challenges, an interrupt | answers per worker, what shutdown may leave, that it ends |
| `client_quotes_apart` | 1 worker, reliable network, id in a later packet than the quotes | violation, see 6 |
| `logger` | 2 producers, 6 records, 3 cells, batches of 2 | rows in order and once, the queue drained before the stop (with loads that may be older: nothing left that was seen), stops |
| `order_books` | 3 ids, 2 prices, 3 quantities of which one is invalid, 2 slots, at most one duplicate or overflow | indexes, slots and counters of the pooled book agree, it is a map, the plain book's lookup agrees with its levels, the books cannot be told apart |
| `matching_engine` | 3 prices, 3 ticks, 5 blocks, orders of 2, a listener with 2 calls | pool, maps, sides and manager agree to the exit, nothing that could trade is left, price-time priority, stop and exit finish |
| `matching_filled_kept` | the same without the listener | violation, see 6 |
| `programs` | seven programs, one of which is chosen at the start and takes all the steps | see below |

`programs` asks one question of each program that stands alone; `program` names
the one that runs, so the state space is the sum of theirs and not the product:

- `HitsAreRight`, `EveryClientEveryPrice` (PriceServer): a price that is hit
  was stamped and is hit once, and if client and server have read whole
  messages, by a client that was sent a momentum ending in it; a client that
  stays is sent each price, as often as its socket number is on the list;
- `OrdersMatchMarket` (MarketStrategy): every own order is for a level on the
  market and all of it, no level has two, no order is filled and still there;
- `OrdersAreJustified` (TradeEngine): the orders are those of a majority of the
  signals, evaluated over the whole feed and not over the kept histories;
- `KernelsAgree` (NumericKernels): each term once and none from outside;
- `TableIsMap` (RobinHoodHashTable): the table is a map as long as `erase` has
  left no hole; with holes too, `find` answers only what was given to the key
  since the last `clear`, and `size()` is the number of slots taken;
- `TopIsBest` (OrderPriorityQueue), `BlocksHaveOneOwner` (OrderBookBuffer).

**Bounds.** Two cells and four pushes make both counters pass the end of the
ring twice, so that cells are reused while late threads still hold an old
position; two threads on each side are what a race for a position needs, and
the proofs remove the bound altogether. Three orders per producer exceed the
queue's two cells, so producers wait, and two runs are what `reset_all` needs.
Three orders per producer also reach all three symbols and both sides. Two
challenges make an answer late; two markets that differ in both quotes make a
wrong price visible; one line of another client is enough to win before us, to
be wrong, or to be ignored. Challenges are cut as the server cuts them, the id,
the target and the last quotes in the last packet and the other quotes before
it, in two packets where the server has 26: what matters is whether the quote of
the target is in the packet of the id or not, and both happen. Two receives of
the four packets are enough for an answer with the next challenge's quote (the
last packet of one and the first of the other), for a packet received twice or
out of order, and for one dropped at the full queue. Six records fill three cells twice.
Three ids exceed the pool's two slots and two prices let orders share a level
or move between levels; `MaxMisuses` bounds how often the books are made to
differ, since from then on they stay apart. Ids are used for nothing but
equality, which makes the symmetry sound.
Three ticks make up to nine orders, more than the five blocks, so the pool runs
out in the middle of a tick as well as between ticks; bids and asks overlap at
one price and at two; orders of 2 and of 1 (the engine's own) fill each other
in part. Two calls let a listener drop an order that the manager still holds,
in either order.

In `programs`: two clients, who take the same socket number if the first leaves
before the second connects; two prices of two values and a momentum of two
(three in the code) let a client hit, hit a price that is hit already, and see
no momentum. One message may be cut, on either side, which is enough for a
client to misread and for the server to guess; glued messages have no bound.
The theorems hold for any number of all these. Three price
levels with quantities 0 to 2 (0 removes a level) and three own orders reach
replacements of replacements. Prices below 105, between and above 195 cross the
first signal's thresholds and the 2 % of the second; seven ticks of two
instruments exceed a history of three. Sizes 1 to 5 with blocks of 2 have
every remainder. Three keys with two hash values in a table of initially three
slots, where they have different homes, and after a rehash in one of six,
collide, displace each other and rehash; the hashes are in the order of the
keys, since keys are used for nothing but equality. Six calls behind the first
hole are enough for a key in two slots, for a stale answer and for a lost
entry. Seven heap
orders are three full levels, in pairs of equal price. Three buffers over three
blocks are what a move onto an owner needs. The counters
of the code are 64 bits wide and are not wrapped here.
`CHECK_DEADLOCK FALSE` stands where the program may rightly be quiet: the
bounds on challenges and records have been used up, or one of the `programs`
has ended or reached its bounds.

**Fairness.** `ConcurrentQueue`: weak fairness on each step of a thread inside
a call, strong fairness on a succeeding compare_exchange, which excludes that
the scheduler lets one thread lose every race and that `compare_exchange_weak`
fails spuriously for ever. Nobody has to call. `OrderProcessing`: threads are
scheduled; some consumer's pop succeeds when orders are queued again and again
(the counterpart of `EveryCallReturns`), and a consumer that loads the counter
for ever sees its value, as C++ asks of atomics ("in a reasonable amount of
time"). `LatencyLogger` likewise: a pop that is tried for ever and finds a
filled cell again and again takes it once. `ChallengeSystem`: the threads of both programs run, `io_context.run()`
serves every session (strong, since the io thread is shared), and TCP delivers;
nothing is assumed of UDP, and nothing obliges the server to issue a challenge
or a client to connect. `MatchingEngine`: both threads run; main sleeps for ten
seconds and always stops. `ChallengeClient`, `LatencyLogger`: threads run; an
interrupt may never come.

## 4. Proofs

`ConcurrentQueueProofs` proves, for every capacity of at least two, all sets
of threads, every number of pushes and every memory policy:

- `TypeCorrect`: `Spec => []TypeOK` (any capacity);
- `QueueCorrect`: `Spec => []QueueInv`;
- `NoDataRace`: `Spec => []ExclusiveCell`;
- `QueueImplementsFifo`: `Spec => Fifo!Spec`;
- under SeqCst, `RefusalsHaveReasons` (`RefusalsAreTrue`) and `SizeNeverWraps`
  (`SizeIsHonest`).

The inductive invariant is `TypeOK /\ QueueInv`. None of the properties is
inductive alone. `CountersInv` bounds `tail - head` by the capacity and gives
every claimed position an entry in `log`. `WindowInv` says what the sequence
number of each of the `Capacity` positions from `head` on can be: for a claimed
position it is `n` (being written) or `n + 1` (published, and then the cell
holds `log[n + 1]`); for a free one it is `n`, or still `n - Capacity + 1`
because the reader of the previous round has not finished. `WriterInv` and
`ReaderInv` tie threads to their cells, `OwnersInv` makes their positions
distinct. `CheckedInv` carries the step from a stale load to a sound
compare_exchange: sequence numbers only grow, so a producer that once read
`seq = pos` knows `seq >= pos`, and if `tail = pos` still holds at the
compare_exchange, `WindowInv` leaves only `seq = pos`. The lemmas on
`Slot` (two positions less than `Capacity` apart have different cells)
are stated once. With one cell, `n + 1` marks both position `n` published and
position `n + 1` free, which is why capacity two is assumed and why
`queue_capacity_one` finds a violation.

The last two add to it what a thread knows when its loads are current.
`OccupiedInv`: a sequence number that lags behind belongs to a thread that is
still writing or reading there, which is the reason for a refusal; `LoadedInv`:
a thread whose position is out of date finds a sequence number that has moved
on, so it retries and does not refuse; `SizeInv`: `head` as an observer has
loaded it is not ahead of `tail`. With stale loads a refusal may have no reason
any more (TLC finds `RefusalsAreTrue` violated under RAR and Fence), so SeqCst
is an assumption of these two theorems, and of the run.

For the refinement, `Queued` is the part of `log` between `head` and `tail`;
`PushClaim` and `PopClaim` are the enqueue and the dequeue, `Reset` the
clearing, and all other steps are stutters.

`OrderBooksProofs` proves, for all ids, prices, quantities and pool
capacities:

- `BookCorrect`: `Spec => []BookInv`;
- `BookIsOrderMap`: `Spec => Map!Spec`;
- of the three books driven together, `PlainLookupIsAtLevel`
  (`LookupIsAtLevel`), `BooksBookInv` (`BookInv`) and `BooksAlwaysAgree`
  (`BooksAgree`).

`BookInv` is inductive as it stands, but none of its parts is. A delete keeps
`PoolInv` only because the lookup's slot is not on the free list, and
`IndexInv` only because no other level has the id and no other order the slot;
an add keeps `IndexInv` only because the slot it writes belongs to no order,
which is `PoolInv`. `InsertFacts` and `EraseFacts` say what happens to every
entry of the levels, and are all the proof uses of them. For the refinement,
`used + Len(free) = PoolCapacity` turns a free list that is not empty into a
map below its limit.

`BooksAgree` compares levels, which are nested maps, and is not inductive:
books with the same levels may look up different orders. `AgreeInv` says that
the levels of a book are a function of what it looks up, `ByPrice`; then the
books have the same levels because they have the same orders, and each
operation is shown to turn `ByPrice` of a map into `ByPrice` of the changed map
(`InsertByPrice` and the lemmas after it). For `phase_5`'s plain book that stops
with the first id that is added twice, for all of them with the first order that
finds the pool empty; `LookupIsAtLevel` needs neither condition.

Its second half is about `hw_5`'s heap and hash table, which are driven by
loops. What a loop leaves behind is proved by an invariant of its passes:
`LoopInvariant` (in `FiniteSums`) takes a function `J` from numbers of passes to
sets of states, and its own proof is a least counterexample.

`TopOfQueueIsBest` (`TopIsBest`) holds for any number of orders and all prices.
The inductive invariant, `HeapInv`, is that the vector has each order held once
and that no order beats the one above it. While an order rises this is true but
for itself (`HeapButAt`), while one sinks but for those below it
(`HeapButBelow`); both also say that the orders below the hole do not beat
the one above it, without which a swap would repair one place and break
another. That the loops have ended when their passes are used up follows from
the index, which halves or doubles. `TopOfHeap` goes from parents and children
to the root by a least counterexample.

`TableIsAMap` (`TableIsMap`) holds for all keys, values, hash functions and
initial capacities. The invariant of the table, `TableOK`, is that each key is
in one slot (`Once`) and that a search from its home comes to that slot before
an unoccupied one, past entries whose distances are no smaller than the passes
that it takes to come to them, and after no more passes than the entry's own
distance (`Reached`, `Chain`). Distances may be larger than the true ones, as the
code leaves them, but never smaller, and this is all that `insert` relies on:
an entry that is on the search of a key is only displaced by one with a larger
distance, so the searches that go through its slot still do (`PlaceOK`). For a
key that is there (`PutPresent`) it follows that the loop comes to its slot
before it displaces anything; otherwise the loop would insert it twice. For a
new key (`PutAbsent`), `Carried` says after each pass that the table is in order,
that the entry looking for a place is reached by its own search at the current
slot, and that table and entry together are the old table and the new one; the
first unoccupied slot (`RoomAhead`, by least element) ends it. `RehashFacts` is
the same for the loop over the old slots, and `EraseOK` says that a freed slot
whose successor is unoccupied is on no search, which is where the condition
`behind = 0` comes from. Between calls the entries are those of `contents`
(`Agrees`), and the load factor keeps a slot free for the next `insert`.

Behind a hole all of this is lost, and `Loose` remains: every entry is a pair
that was given (`Known`), and `num_elements` counts the occupied slots. It is
proved by a second, weaker invariant of the same loops: after each pass the
same slots are occupied as before, so the loop of `insert` comes to the slot that
is free (`Probing`, `ProbingEnds`) and takes one slot or none (`PutKept`), also
when the entry in hand is lost; and `rehash` takes at most as many slots as it
has passed (`Moving`, `RehashKept`). `TableInv` has `Loose` always and `TableOK`
until the first hole.

`OrderProcessingProofs` proves, for any numbers of producers and consumers,
orders and runs, `PipelineTypes`, `EachOrderProcessedOnce`, `NoOrderLeftBehind`
and `AllLeaveTogether` (the invariants `TypeOK`, `EachOrderOnce`,
`NobodyLeavesEarly` and `BarrierHolds` of the run). The inductive invariant is
`PipelineInv`: `PlacesInv` has no order in two places (the queue, a consumer's
hands, the store), `PushedInv` says that those pushed are in one, `CountsInv`
says that `processed` and the consumers about to count make up the recorded
orders, that the semaphore and its holders make up its permits, and that
`arrived` counts who waits at the barrier, `PhasesInv` follows main, and
`LeavingInv` is the key to the exit test: a consumer that has read `processed
>= Total` knows, by the count, that every order is recorded, so none can be
left in the queue or in a hand. The lemmas on cardinalities are what turn a set
that gains or loses a member into a counter that moves by one.

`BookAddsUp` (`BookMatchesOrders`) is about sums over the orders booked.
`FiniteSums` has what it needs: a fold over a set is a `CHOOSE` of a recursive
function on its subsets, of which there is one and only one (`SumsExist`,
`SumsAgree`) and which may take the elements in any order (`SumsAnyOrder`), so a
sum grows by the quantity of the order that joins (`TotalGrows`). The
invariant, `BookSums`, is the property without its condition on the phase of
the run; it rests on `PlacesInv`, since an order in two places could be booked
twice but would be in the sum once. Where induction is needed it is by a least
counterexample in a set of numbers (`LeastNat`, from the library's theorem on
well-founded relations), which unlike the induction theorems takes no operator.

`MatchingEngineProofs` proves `EngineCorrect` (`EngineInv`), `NeverCrossed`
(`NotCrossed`) and `PriorityKept` (`PriceTimePriority`) for all prices,
quantities, pool sizes and sequences of ticks and calls. The inductive
invariant is `BookInv /\ ThreadInv`, which consists of the parts of `EngineInv`
and of the two other properties. The pool's part is what keeps a block from
being given out while something points to it (`Release`), the order of the
sides what `Emplace` keeps, and the rest of `MatchOrders` follows from where the
two best orders are: a trade changes the heads of the sides only. `NotCrossed`
is inductive only together with the thread's position: in `"match"` the sides
may cross, and the loop ends where the heads do not, which by the order of the
sides means that no two orders do (`SidesApart`). `PriceTimePriority` needs that
ids grow, so that an order emplaced behind equal prices is also the later one.

`ProgramProofs` is about six programs, each by itself. `StrategyCorrect`
(`OrdersMatchMarket`) holds for all
prices, quantities and fills. The strengthening `NoneIsBetter` is the reason
that a better price never meets an own order at its level: no own order is
better than the best price that was ever answered, since `best` only improves.
`IdsAreNew` keeps a placed order from overwriting another.

`BufferCorrect` (`BlocksHaveOneOwner`) holds for any objects, blocks and
capacities, by induction with the types alone.

`EveryPriceSent` (`EveryClientEveryPrice`) and `HitsJustified` (`HitsAreRight`)
are about the price server, for any clients, sockets, prices, cuts and length
of a momentum. `SocketsInv` says whose connection a socket number in the list is: a
thread that still runs has its number to itself, so what is sent to a number
that is used again reaches its new owner and nobody else. `DeliveredInv` is
`EveryClientEveryPrice` in the middle of a broadcast, when the price has been
sent to the entries before `nextClient`. For the hits, `MessagesInv` follows the
data once around: what is on the way to a client was sent to it and is in the
order of the prices (`Queued`); the values in its history are those of prices
sent to it before all that is on the way, which is a statement about some
numbers of prices, since the client keeps values only (`Seen`); so an order
that leaves a client names a price that, with earlier ones, makes a momentum
(`Backed`), and a price stays backed (`Grown`). All of it is said of the whole
messages among those on the way and of clients that have not misread a part.
That a hit price was stamped and is hit once is said of every number, also of
those that `atoi` makes of digits.

`LogIsInOrder` and `LogIsDrained` (`LoggedInOrder`, `DrainsItsQueue`) hold of
the logger for any producers and sizes: `OrderInv`
says that rows, batch and queue, one after the other, are increasing in the
order of the claims, and `StopInv` that a logger that has left its loop leaves
nothing in its queue that was claimed before the interrupt or, if loads may be
out of date, nothing that it has seen.

`TradesJustified` (`OrdersAreJustified`) holds of the trade engine for any
prices, number of instruments, length of the histories and number of ticks.
`HistoriesAreWindows` says that each history is the window of its instrument's
last tick, oldest price first; `NextWindow`, the heart of it, that appending a
price and dropping the oldest is what happens to the window, by arithmetic modulo the number of instruments (`Remainders`).
`VotesAreRight` then equates the votes with the opinions the property reads off
the feed: the sum over the history is the sum over the window (`SumOfImage`),
and the code's test for an average of zero changes no vote, since a sum of zero
leaves nothing to be above or below it (`SumOfNats`). `OpinionsStay` says that
later ticks change nothing about earlier ones.

`KernelsAddUp` (`KernelsAgree`) holds for all sizes of the arguments and all
block sizes. Most loops add no term twice by the shape of the term, and only
their sets of terms have to be compared (`OncePairs`, `OnceTriples`), with
`OnePlace` (a place in a flat array is of one row and one column) where the
place has to tell the indices. The blocked product adds each term once because
an index is in one block (`InOneBlock`, `EveryIndexInBlock`), the pairs of
lanes because of parity (`PairedOrLeft`), and the transposed product is the
product because the element of B at a place of its transpose is the only one
there (`Transposed`).

`ChallengeSystemProofs` proves `WinnerWasFirst` and `NothingIsHeardTooEarly`
(`FirstCorrectWins`, `HeardIsInstalled`) for any tickers, markets, cuts of the
text, clients and lines. `CurrentInv` says what a current challenge is,
`PacketsInv` that no packet is of a later challenge than the current one, and
`JudgedInv` relates the history of judgements to the winner, so that a second
right line of the same challenge finds a winner already set.

It goes on to prove `OnlyLate` (`OnlyLateLoses`), for any cut of the challenges,
the server's included, and any loss. The answers of the client may be wrong
(`client_quotes_apart`), and the argument is not that they are right but that
the wrong ones are late. `OrderInv`: while the network keeps the order of the
packets, their challenges are in order all the way from the server's socket
through the handler, the queue and the worker, and none of them is earlier than
the id that is stored. `DataInv`, `WorkersInv`, `SentInv` and `InboxInv` follow
the target and the quotes from there: what is stored, read by a worker, sent
and waiting at our session is of the challenge whose id goes with it, *or of a
later one*. `FeedInv`: the target in a packet is that of its challenge. So when
an answer is judged that names the current challenge, later ones do not exist,
its target and its quote are those of the current challenge, and it wins unless
there is a winner (`CurrentWins`). Without the order, quotes of a challenge that
is over can arrive behind the next id, and the client does lose by being wrong;
this is the condition `heard # Jumbled`. The other condition,
`SystemAssumption`, is one worker, as on a machine with two or three cores: with
two, the target read again may be another worker's, and the iterator dangles.

`ChallengeClientProofs` proves, for any number of workers, any packets and any
queue, `OneAnswerPerTarget` (`AnswersPerWorker`) and, if there is a worker,
`OnePacketLeft` (`AtMostOneLeft`). `CountInv` says that a worker that may still
answer (there is a target, or it has seen one) has a `TARGET` line left to
answer, and that one that has answered has its own reset before it; `LeftInv`
that once a worker has stopped, queue and handler together hold one packet at
most. The lemmas ending in `Goes` say where a step takes a worker: clearing the
map leaves iterators dangling but moves nobody.

Only model-checked: liveness, with the fairness of section 3 (`ENABLED` is
beyond the prover used). All invariants and safety properties of the passing
runs are theorems.

## 5. Abstractions, and what is not modelled

- Formatting, console output, latencies and sleeps. A price is a member of a
  small set; two prices differ by more than the server's tolerance.
- The wrap of 64-bit counters.
- Data races inside `std::string` and `unordered_map` in the challenge client
  (two threads in the same map at once): the model reads whole values between
  steps, and an iterator into a map that has been cleared yields `Garbage`.
- Lines of `CHALLENGE_RESPONSE` with missing fields, which read an
  uninitialised local.
- The lifetime of the reply string in `do_write`.
- The challenge client's own `size()`, which is not called; and a load of
  `udp_packet_queue.is_empty()` that is older than the flag read before it. A
  worker that has seen the interrupt is taken to see the pushes made before it,
  as on processors that keep the order of the two loads; C++ alone promises it
  only if the signal is handled by the UDP thread. (The loggers' loads may be
  older.)
- Empty ids in the order books (every operation returns early), printing of a
  book, and the lifetime of pooled objects: `deallocate` runs a destructor that
  the pool's vector runs again.
- The symbols and the random walk of week 4's ticks; the intrusive links of the
  free list, which overlay the blocks' memory.
- Order ids and prices of the pipeline; no decision of it depends on them.
- Empty and null arguments of the matrix kernels, rounding, and the order of
  additions.
- In the price server: failing accepts.
- The moves of `OrderBookBuffer` for the allocators with which they do not
  compile.
- Of `Analytics.cpp`, the averages (single sums) and the report.
- The components of status `not_modelled`: drivers, tests and benchmarks of
  weeks 4 and 5, which make one call after another and whose calls the models
  cover; `analysis.py`, input and output; the trade handles of `hw_3` and, of
  `hw_4`, `StaticVector` and the compile-time headers, which have one owner and
  nothing that interacts.

## 6. Disagreements between code and text

With a run:

- `queue_capacity_one`: the static_assert admits a capacity of one, for which
  a published cell looks free; a second push overwrites the first item.
- `client_quotes_apart`: the client means to answer "if we now have both a
  challenge and the target's quote", but the id arrives after the quotes and
  clears them, so the next challenge's quote is sent for this challenge's id.
- `matching_filled_kept`: the README of `phase_4` says that the book "maintains
  the current state of resting limit orders", but filled orders are never taken
  out of `ordersById_`; they are found, and their blocks are never reused.

Met while reading, without a run:

- the same README says that the manager tracks `PartiallyFilled` and `Filled`;
  the engine never calls `updateOrderFill`, so the orders it tracks stay `New`;
- the server's `correct` (`main_server.cpp:159`) is never set, so the winner is
  told `INCORRECT`; `Verdict` is a constant of the model;
- two workers can answer the same target twice (`client.cpp:253`);
- a client that resets its connection before the accept handler runs ends the
  challenge server (`main_server.cpp:218`);
- a logger drops the record its second pop takes (`client.cpp:327`) and can
  stop with an unwritten batch, while `analysis.py` takes the rows for all
  packets;
- orders of the pipeline share ids (`OrderProcessing.cpp:65`);
- `phase_5`'s `OrderBook` accepts an id twice and keeps the first order at its
  level, where it stays until the id is added at that price again;
- an order that is replaced after a partial fill loses how much of it was
  filled (`order_manager.cpp:57`);
- when the last level of a side is removed and no own order was at it,
  `get_best_bid` or `get_best_ask` returns null, which `main.cpp:24-25` of
  `phase_3` dereferences; the model ends in `crashed`;
- `prev_best` of `phase_3` only ever improves, so once the best level is gone a
  new best that is worse than it is not answered, while its README (line 8)
  says "we check if the most recent event resulted in a new best bid/ask, and
  we place an order for a sell/buy accordingly";
- `erase` of the hash table (`robinhood_hash_table.cpp:45`) frees a slot in the
  middle of a probe sequence, behind which keys are no longer found; a key
  inserted again gets a second slot, its old value can come back when the new
  slot is erased, and a displaced entry can be lost. The
  distance that `insert` leaves in a displaced entry can be larger than its
  own, which is harmless as long as there are no holes (`TableIsMap`);
- a client of the price server on a socket number that was used before gets
  every price several times, since entries are never removed
  (`hft_server.cpp:38`), and a send to a client that has left can end the
  server with SIGPIPE; orders that arrive together run into one number, which
  from ten prices on can name another price, and so can the parts of one that
  is cut; the client counts every order it sends as a hit;
- the challenge server hands `async_write` a buffer over a local string
  (`main_server.cpp:194`), and the challenge client's `size()`
  (`client/ConcurrentQueue.h:80`) subtracts from the capacity although its
  counters are not reduced by it; neither decides anything modelled.

## 7. Plan

Done: the queue, the pipeline, the challenge and its loggers; the order books,
hash table, heap and averages of week 5; the matching engine, feed and buffer
of week 4; the strategy of week 3; the server, client and trade engine of
week 2; the kernels of week 1; the proofs of section 4.

What could follow: the abstraction of `OrderProcessing` and `LatencyLogger`, the
queue as a FIFO whose pop may fail, derived from `ConcurrentQueue` by a
refinement of the composition.
