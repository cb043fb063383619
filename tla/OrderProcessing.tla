-------------------------- MODULE OrderProcessing --------------------------
(***************************************************************************)
(* The order pipeline of week_7: producers push orders into the queue,     *)
(* consumers pop, process, book and record them, and the main thread runs  *)
(* the pipeline once (main.cpp) or once per memory policy with reset_all   *)
(* in between (BenchmarkMain.cpp).                                         *)
(*                                                                         *)
(* The queue is the bounded FIFO that ConcurrentQueue is proved to         *)
(* implement.  A pop may return false although items are queued (the       *)
(* oldest may be unpublished, or a load stale), so PopFails is always      *)
(* possible; a push that returns false is repeated and changes nothing.    *)
(***************************************************************************)
EXTENDS Integers, Sequences, FiniteSetsExt

CONSTANTS NumProducers,       \* argument of startOrderProcessing
          Consumers,          \* the consumer threads
          OrdersPerProducer,  \* argument of startOrderProcessing
          QueueCapacity,      \* ORDER_QUEUE_CAPACITY
          Runs                \* the policies BenchmarkMain runs

ASSUME OPAssumption ==
  /\ NumProducers \in Nat \ {0} /\ OrdersPerProducer \in Nat
  /\ QueueCapacity \in Nat \ {0} /\ Runs \in Nat \ {0}
  /\ IsFiniteSet(Consumers) /\ Consumers # {}

Producers == 0 .. NumProducers - 1
NumConsumers == Cardinality(Consumers)   \* NUM_CONSUMERS_FOR_BARRIER

\* The i-th order of producer p, and the fields the consumers use.
Orders == Producers \X (0 .. OrdersPerProducer - 1)
Symbols == {"AAPL", "GOOGL", "MSFT"}
Symbol(o) == CASE o[2] % 3 = 0 -> "AAPL" [] o[2] % 3 = 1 -> "GOOGL" [] OTHER -> "MSFT"
Quantity(o) == 10 + (o[2] % 10)
IsBuy(o) == (o[1] + o[2]) % 2 = 0
NoOrder == <<>>

VARIABLES
  main,       \* where the main thread is
  runsLeft,   \* runs main has not started
  made,       \* made[p]: orders producer p has pushed in this run
  queue,      \* orderQueue
  pc,         \* pc[c]: where consumer c is in orderConsumer
  order,      \* order[c]: its local variable order
  latchOpen,  \* startLatch
  arrived,    \* the consumers at consumerSyncBarrier
  sem,        \* processingSemaphore
  book,       \* orderBook
  store,      \* latencyDataStore: how often each order is recorded
  processed,  \* ordersProcessed
  expected    \* totalExpectedOrders

vars == <<main, runsLeft, made, queue, pc, order, latchOpen, arrived, sem,
          book, store, processed, expected>>
mainVars   == <<main, runsLeft, latchOpen, expected>>
sharedVars == <<sem, book, store, processed>>

EmptyBook  == [s \in Symbols |-> [buy |-> 0, sell |-> 0]]
EmptyStore == [o \in Orders |-> 0]

\* BenchmarkMain begins with reset_all, main.cpp with the static
\* initialisers and a single run.
Init ==
  /\ \/ main = "reset" /\ runsLeft = Runs
     \/ main = "start" /\ runsLeft = 1
  /\ made = [p \in Producers |-> 0]
  /\ queue = <<>>
  /\ pc = [c \in Consumers |-> "none"]
  /\ order = [c \in Consumers |-> NoOrder]
  /\ latchOpen = FALSE
  /\ arrived = {}
  /\ sem = NumConsumers
  /\ book = EmptyBook
  /\ store = EmptyStore
  /\ processed = 0
  /\ expected = 0

(***************************************************************************)
(* The main thread                                                         *)
(***************************************************************************)

\* reset_all with the values it gives the semaphore, the book, the store and
\* the counter.
ResetWith(newSem, newBook, newStore, newProcessed) ==
  /\ main = "reset"
  /\ main' = "start"
  /\ queue' = <<>>
  /\ book' = newBook
  /\ store' = newStore
  /\ processed' = newProcessed
  /\ expected' = NumProducers * OrdersPerProducer
  /\ latchOpen' = FALSE
  /\ arrived' = {}
  /\ sem' = newSem
  /\ UNCHANGED <<runsLeft, made, pc, order>>

\* Mutants: the semaphore is refilled without being drained, or something is
\* not cleared.
ResetUndrained  == ResetWith(sem + NumConsumers, EmptyBook, EmptyStore, 0)
ResetKeepsBook  == ResetWith(NumConsumers, book, EmptyStore, 0)
ResetKeepsStore == ResetWith(NumConsumers, EmptyBook, store, 0)
ResetKeepsCount == ResetWith(NumConsumers, EmptyBook, EmptyStore, processed)

\* reset_all.  The loop around try_acquire drains the semaphore before it is
\* refilled: no other thread exists here, and the try_acquire of libstdc++ and
\* libc++ answers false only at zero or when another thread gets in between.
\* (The standard would also let it fail for no reason, and the refill could
\* then exceed the semaphore's maximum.)
ResetAll == ResetWith(NumConsumers, EmptyBook, EmptyStore, 0)

\* startOrderProcessing up to the last emplace_back.  A thread that has been
\* created and has not run yet is like one that has not been created.
StartThreads ==
  /\ main = "start"
  /\ main' = "spawned"
  /\ runsLeft' = runsLeft - 1
  /\ expected' = NumProducers * OrdersPerProducer
  /\ made' = [p \in Producers |-> 0]
  /\ pc' = [c \in Consumers |-> "latch"]
  /\ UNCHANGED <<queue, order, latchOpen, arrived, sharedVars>>

\* startLatch.count_down()
OpenLatch ==
  /\ main = "spawned"
  /\ main' = "join"
  /\ latchOpen' = TRUE
  /\ UNCHANGED <<runsLeft, made, queue, pc, order, arrived, sharedVars, expected>>

\* Every thread has been joined; runTradeAnalytics reads the store.
JoinThreads ==
  /\ main = "join"
  /\ \A p \in Producers : made[p] = OrdersPerProducer
  /\ \A c \in Consumers : pc[c] = "left"
  /\ main' = "analyse"
  /\ pc' = [c \in Consumers |-> "none"]
  /\ UNCHANGED <<runsLeft, made, queue, order, latchOpen, arrived, sharedVars, expected>>

NextRun ==
  /\ main = "analyse"
  /\ main' = IF runsLeft > 0 THEN "reset" ELSE "exit"
  /\ UNCHANGED <<runsLeft, made, queue, pc, order, latchOpen, arrived, sharedVars, expected>>

(***************************************************************************)
(* orderProducer                                                           *)
(***************************************************************************)

\* The loop around push ends when it returns true.
Produce(p) ==
  /\ main \in {"spawned", "join"}
  /\ made[p] < OrdersPerProducer
  /\ Len(queue) < QueueCapacity
  /\ queue' = Append(queue, <<p, made[p]>>)
  /\ made' = [made EXCEPT ![p] = @ + 1]
  /\ UNCHANGED <<mainVars, pc, order, arrived, sharedVars>>

(***************************************************************************)
(* orderConsumer                                                           *)
(***************************************************************************)

Goto(c, from, to) == pc[c] = from /\ pc' = [pc EXCEPT ![c] = to]

PassLatch(c) ==
  /\ latchOpen
  /\ Goto(c, "latch", "pop")
  /\ UNCHANGED <<mainVars, made, queue, order, arrived, sharedVars>>

Pop(c) ==
  /\ queue # <<>>
  /\ Goto(c, "pop", "acquire")
  /\ order' = [order EXCEPT ![c] = Head(queue)]
  /\ queue' = Tail(queue)
  /\ UNCHANGED <<mainVars, made, arrived, sharedVars>>

PopFails(c) ==
  /\ Goto(c, "pop", "check")
  /\ UNCHANGED <<mainVars, made, queue, order, arrived, sharedVars>>

\* The load of ordersProcessed may lag behind the other consumers' counts.
Retry(c) ==
  /\ \E seen \in 0 .. processed : seen < expected
  /\ Goto(c, "check", "pop")
  /\ UNCHANGED <<mainVars, made, queue, order, arrived, sharedVars>>

\* Mutant: > for >=.
LeaveLoopTooLate(c) ==
  /\ processed > expected
  /\ Goto(c, "check", "arrive")
  /\ UNCHANGED <<mainVars, made, queue, order, arrived, sharedVars>>

LeaveLoop(c) ==
  /\ processed >= expected
  /\ Goto(c, "check", "arrive")
  /\ UNCHANGED <<mainVars, made, queue, order, arrived, sharedVars>>

Acquire(c) ==
  /\ sem > 0
  /\ Goto(c, "acquire", "process")
  /\ sem' = sem - 1
  /\ UNCHANGED <<mainVars, made, queue, order, arrived, book, store, processed>>

Release(c) ==
  /\ Goto(c, "process", "book")
  /\ sem' = sem + 1
  /\ UNCHANGED <<mainVars, made, queue, order, arrived, book, store, processed>>

\* Under the unique lock of orderBookMutex.
Book(c) ==
  /\ Goto(c, "book", "record")
  /\ LET o == order[c]
     IN  book' = IF IsBuy(o) THEN [book EXCEPT ![Symbol(o)].buy = @ + Quantity(o)]
                             ELSE [book EXCEPT ![Symbol(o)].sell = @ + Quantity(o)]
  /\ UNCHANGED <<mainVars, made, queue, order, arrived, sem, store, processed>>

\* Under latencyDataMutex.
Record(c) ==
  /\ Goto(c, "record", "count")
  /\ store' = [store EXCEPT ![order[c]] = @ + 1]
  /\ UNCHANGED <<mainVars, made, queue, order, arrived, sem, book, processed>>

\* ordersProcessed.fetch_add(1), and back to the loop.
Count(c) ==
  /\ Goto(c, "count", "pop")
  /\ processed' = processed + 1
  /\ UNCHANGED <<mainVars, made, queue, order, arrived, sem, book, store>>

\* Mutant: arrive without the wait.
ArriveOnly(c) ==
  /\ Goto(c, "arrive", "left")
  /\ UNCHANGED <<mainVars, made, queue, order, arrived, sharedVars>>

\* arrive_and_wait: the last to arrive releases everybody.
Arrive(c) ==
  /\ pc[c] = "arrive"
  /\ IF Cardinality(arrived) + 1 = NumConsumers
     THEN /\ pc' = [k \in Consumers |-> IF k \in arrived \cup {c} THEN "left" ELSE pc[k]]
          /\ arrived' = {}
     ELSE /\ pc' = [pc EXCEPT ![c] = "barrier"]
          /\ arrived' = arrived \cup {c}
  /\ UNCHANGED <<mainVars, made, queue, order, sharedVars>>

Main == ResetAll \/ StartThreads \/ OpenLatch \/ JoinThreads \/ NextRun

Consume(c) == \/ PassLatch(c) \/ Pop(c) \/ PopFails(c) \/ Retry(c) \/ LeaveLoop(c)
              \/ Acquire(c) \/ Release(c) \/ Book(c) \/ Record(c) \/ Count(c) \/ Arrive(c)

\* main() has returned.
Exited == main = "exit" /\ UNCHANGED vars

Next == \/ Main
        \/ \E p \in Producers : Produce(p)
        \/ \E c \in Consumers : Consume(c)
        \/ Exited

Spec == Init /\ [][Next]_vars

\* Threads are scheduled; while orders are queued some pop succeeds in the
\* end (the retries of a false answer stop when the oldest item is
\* published); and a consumer that keeps loading the counter sees its value.
Fairness ==
  /\ WF_vars(Main)
  /\ \A p \in Producers : WF_vars(Produce(p))
  /\ SF_vars(\E c \in Consumers : Pop(c))
  /\ \A c \in Consumers :
       /\ WF_vars(PassLatch(c)) /\ WF_vars(PopFails(c)) /\ WF_vars(Retry(c))
       /\ SF_vars(LeaveLoop(c)) /\ WF_vars(Acquire(c)) /\ WF_vars(Release(c))
       /\ WF_vars(Book(c)) /\ WF_vars(Record(c)) /\ WF_vars(Count(c)) /\ WF_vars(Arrive(c))

FairSpec == Spec /\ Fairness

-----------------------------------------------------------------------------
(***************************************************************************)
(* Properties                                                              *)
(***************************************************************************)

\* Every shared variable of the pipeline keeps its type and its range.
TypeOK ==
  /\ main \in {"reset", "start", "spawned", "join", "analyse", "exit"}
  /\ runsLeft \in 0 .. Runs
  /\ made \in [Producers -> 0 .. OrdersPerProducer]
  /\ queue \in Seq(Orders) /\ Len(queue) <= QueueCapacity
  /\ pc \in [Consumers -> {"none", "latch", "pop", "check", "acquire", "process", "book",
                           "record", "count", "arrive", "barrier", "left"}]
  /\ order \in [Consumers -> Orders \cup {NoOrder}]
  /\ latchOpen \in BOOLEAN
  /\ arrived \subseteq Consumers
  /\ sem \in 0 .. NumConsumers
  /\ book \in [Symbols -> [buy : Nat, sell : Nat]]
  /\ store \in [Orders -> Nat]
  /\ processed \in 0 .. NumProducers * OrdersPerProducer
  /\ expected \in {0, NumProducers * OrdersPerProducer}

Running == main \in {"spawned", "join"}

\* The consumers that hold an order that is not recorded yet.
Holders == {c \in Consumers : pc[c] \in {"acquire", "process", "book", "record"}}

\* An order that has been pushed is in exactly one place: in the queue, in
\* one consumer's hands, or recorded once; an order that has not been pushed
\* is in none (in particular nothing is left of an earlier run).
EachOrderOnce ==
  Running \/ main = "analyse" =>
    \A o \in Orders :
      Cardinality({i \in DOMAIN queue : queue[i] = o})
        + Cardinality({c \in Holders : order[c] = o}) + store[o]
      = IF o[2] < made[o[1]] THEN 1 ELSE 0

\* The orders that have been added to the book.
Booked == {o \in Orders : store[o] > 0} \cup
          {order[c] : c \in {k \in Consumers : pc[k] = "record"}}
Total(s, buy) ==
  MapThenSumSet(Quantity, {o \in Booked : Symbol(o) = s /\ IsBuy(o) = buy})

\* The book holds, per symbol and side, the quantities of the orders booked
\* in this run: no update is lost and none is carried over.
BookMatchesOrders ==
  Running \/ main = "analyse" =>
    \A s \in Symbols : book[s] = [buy |-> Total(s, TRUE), sell |-> Total(s, FALSE)]

\* A consumer leaves its loop only when every order of the run has been
\* pushed, booked and recorded by somebody, so that no order can be left
\* behind in the queue.
NobodyLeavesEarly ==
  \A c \in Consumers : pc[c] \in {"arrive", "barrier", "left"} =>
    /\ queue = <<>>
    /\ \A o \in Orders : store[o] = 1

\* No consumer is past the barrier while another one can still touch the
\* book or the store.
BarrierHolds ==
  [][\A c, k \in Consumers : pc[c] = "left" => pc'[k] \in {"left", "none"}]_vars

\* The program ends: producers are not stuck on a full queue, consumers not
\* in their loop or at the barrier, in any of the runs.
Termination == <>(main = "exit")

-----------------------------------------------------------------------------
(***************************************************************************)
(* The inductive invariant behind these properties (proved in              *)
(* OrderProcessingProofs).                                                 *)
(***************************************************************************)

At(state) == {c \in Consumers : pc[c] = state}
Recorded == {o \in Orders : store[o] = 1}
IsQueued(o) == \E i \in DOMAIN queue : queue[i] = o
IsHeld(o) == \E c \in Holders : order[c] = o

\* Where the threads can be, given where main is.
PhasesInv ==
  /\ ~Running => \A c \in Consumers : pc[c] = "none"
  /\ Running => expected = NumProducers * OrdersPerProducer
  /\ main = "start" => queue = <<>> /\ store = EmptyStore
  /\ main = "start" => runsLeft > 0
  /\ main = "reset" => runsLeft > 0

\* No order is in two places.
PlacesInv ==
  /\ \A i, j \in DOMAIN queue : queue[i] = queue[j] => i = j
  /\ \A i \in DOMAIN queue : store[queue[i]] = 0
  /\ \A c, k \in Holders : order[c] = order[k] => c = k
  /\ \A c \in Holders :
       order[c] \in Orders /\ store[order[c]] = 0 /\ ~IsQueued(order[c])
  /\ \A o \in Orders : store[o] \in {0, 1}

\* The orders pushed in this run are those that are somewhere.
PushedInv ==
  main # "start" =>
    \A o \in Orders : o[2] < made[o[1]] <=> IsQueued(o) \/ IsHeld(o) \/ store[o] = 1

\* What the counters and the barrier count.
CountsInv ==
  /\ processed + Cardinality(At("count")) = Cardinality(Recorded)
  /\ sem + Cardinality(At("process")) = NumConsumers
  /\ arrived = At("barrier")

\* Who has left its loop knows that all is done, and all leave at once.
LeavingInv ==
  /\ \A c \in Consumers :
       pc[c] \in {"arrive", "barrier", "left"} => \A o \in Orders : store[o] = 1
  /\ \A c, k \in Consumers : pc[c] = "left" => pc[k] = "left"

PipelineInv ==
  TypeOK /\ PhasesInv /\ PlacesInv /\ PushedInv /\ CountsInv /\ LeavingInv
=============================================================================
