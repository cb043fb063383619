----------------------- MODULE OrderProcessingProofs -----------------------
(***************************************************************************)
(* Proofs about OrderProcessing: every order is in one place only, nobody  *)
(* leaves before the last is recorded, all leave at once, and the book     *)
(* adds up, for any number of producers, consumers, orders and runs and    *)
(* any queue capacity.                                                     *)
(***************************************************************************)
EXTENDS OrderProcessing, FiniteSums

-----------------------------------------------------------------------------
(***************************************************************************)
(* Finite sets                                                             *)
(***************************************************************************)

LEMMA OrdersFinite ==
  /\ IsFiniteSet(Orders)
  /\ Cardinality(Orders) = NumProducers * OrdersPerProducer
<1>1. /\ IsFiniteSet(0 .. NumProducers - 1)
      /\ Cardinality(0 .. NumProducers - 1) = NumProducers
  BY OPAssumption, FS_Interval
<1>2. /\ IsFiniteSet(0 .. OrdersPerProducer - 1)
      /\ Cardinality(0 .. OrdersPerProducer - 1) = OrdersPerProducer
  BY OPAssumption, FS_Interval
<1>3. /\ IsFiniteSet((0 .. NumProducers - 1) \X (0 .. OrdersPerProducer - 1))
      /\ Cardinality((0 .. NumProducers - 1) \X (0 .. OrdersPerProducer - 1))
         = Cardinality(0 .. NumProducers - 1) * Cardinality(0 .. OrdersPerProducer - 1)
  BY <1>1, <1>2, FS_Product, Zenon
<1>4. Orders = (0 .. NumProducers - 1) \X (0 .. OrdersPerProducer - 1)
  BY DEF Orders, Producers
<1> QED
  BY <1>1, <1>2, <1>3, <1>4

LEMMA TotalIsNat == NumProducers * OrdersPerProducer \in Nat
BY OPAssumption

LEMMA NumConsumersIsNat == NumConsumers \in Nat \ {0}
BY OPAssumption, FS_EmptySet, FS_CardinalityType DEF NumConsumers

\* The fields of an order that consumers use.
LEMMA OrderFields ==
  ASSUME NEW o \in Orders
  PROVE  /\ Symbol(o) \in Symbols /\ Quantity(o) \in Nat
         /\ o = <<o[1], o[2]>> /\ o[1] \in Producers /\ o[2] \in Nat
BY OPAssumption DEF Orders, Producers, Symbol, Symbols, Quantity

LEMMA AtFinite ==
  ASSUME NEW s
  PROVE  IsFiniteSet(At(s)) /\ Cardinality(At(s)) \in Nat
<1>1. At(s) \in SUBSET Consumers
  BY DEF At
<1> QED
  BY <1>1, OPAssumption, FS_Subset, FS_CardinalityType

LEMMA RecordedFinite ==
  /\ IsFiniteSet(Recorded) /\ Cardinality(Recorded) \in Nat
  /\ Cardinality(Recorded) <= NumProducers * OrdersPerProducer
  /\ Cardinality(Recorded) = NumProducers * OrdersPerProducer => Recorded = Orders
<1>1. Recorded \in SUBSET Orders
  BY DEF Recorded
<1> QED
  BY <1>1, OrdersFinite, FS_Subset, FS_CardinalityType

\* How many consumers are somewhere after one of them has gone on.
LEMMA Moved ==
  ASSUME TypeOK, NEW c \in Consumers, NEW a, NEW b, a # b, Goto(c, a, b), NEW s
  PROVE  Cardinality(At(s))' = IF s = b THEN Cardinality(At(s)) + 1
                               ELSE IF s = a THEN Cardinality(At(s)) - 1
                               ELSE Cardinality(At(s))
<1>1. pc[c] = a /\ c \in Consumers /\ pc' = [pc EXCEPT ![c] = b] /\ DOMAIN pc = Consumers
  BY DEF Goto, TypeOK
<1>2. CASE s = b
  <2>1. At(s)' = At(s) \cup {c} /\ c \notin At(s)
    BY <1>1, <1>2 DEF At
  <2> QED
    BY <1>2, <2>1, AtFinite, FS_AddElement
<1>3. CASE s # b /\ s = a
  <2>1. At(s)' = At(s) \ {c} /\ c \in At(s)
    BY <1>1, <1>3 DEF At
  <2> QED
    BY <1>3, <2>1, AtFinite, FS_RemoveElement
<1>4. CASE s # b /\ s # a
  <2>1. At(s)' = At(s)
    BY <1>1, <1>4 DEF At
  <2> QED
    BY <1>4, <2>1
<1> QED
  BY <1>2, <1>3, <1>4

-----------------------------------------------------------------------------
(***************************************************************************)
(* The initial states, the main thread and the producers                   *)
(***************************************************************************)

LEMMA PipelineInit == Init => PipelineInv
<1> SUFFICES ASSUME Init PROVE PipelineInv
  OBVIOUS
<1>1. TypeOK
  <2>1. 0 \in 0 .. OrdersPerProducer /\ 0 \in 0 .. NumProducers * OrdersPerProducer
    BY OPAssumption, TotalIsNat
  <2>2. runsLeft \in 0 .. Runs /\ sem \in 0 .. NumConsumers
    BY OPAssumption, NumConsumersIsNat DEF Init
  <2>3. queue \in Seq(Orders) /\ Len(queue) <= QueueCapacity
    BY OPAssumption DEF Init
  <2>4. book \in [Symbols -> [buy : Nat, sell : Nat]] /\ store \in [Orders -> Nat]
    BY DEF Init, EmptyBook, EmptyStore
  <2> QED
    BY <2>1, <2>2, <2>3, <2>4 DEF Init, TypeOK
<1>2. PhasesInv
  BY OPAssumption DEF Init, PhasesInv, Running
<1>3. PlacesInv /\ PushedInv
  BY OrderFields DEF Init, PlacesInv, PushedInv, IsQueued, IsHeld, Holders, EmptyStore
<1>4. CountsInv
  <2>1. At("count") = {} /\ At("process") = {} /\ At("barrier") = {} /\ Recorded = {}
    BY DEF Init, At, Recorded, EmptyStore
  <2>2. Cardinality(At("count")) = 0 /\ Cardinality(At("process")) = 0 /\ Cardinality(Recorded) = 0
    BY <2>1, FS_EmptySet
  <2> QED
    BY <2>1, <2>2, NumConsumersIsNat DEF Init, CountsInv
<1>5. LeavingInv
  BY DEF Init, LeavingInv
<1> QED
  BY <1>1, <1>2, <1>3, <1>4, <1>5 DEF PipelineInv

LEMMA ResetAllInv ==
  ASSUME PipelineInv, ResetAll
  PROVE  PipelineInv'
<1> USE DEF PipelineInv
<1>1. /\ main = "reset" /\ main' = "start" /\ queue' = <<>> /\ book' = EmptyBook
      /\ store' = EmptyStore /\ processed' = 0
      /\ expected' = NumProducers * OrdersPerProducer /\ latchOpen' = FALSE
      /\ arrived' = {} /\ sem' = NumConsumers
      /\ runsLeft' = runsLeft /\ made' = made /\ pc' = pc /\ order' = order
  BY DEF ResetAll, ResetWith
<1>2. \A c \in Consumers : pc[c] = "none"
  BY <1>1 DEF PhasesInv, Running
<1>3. TypeOK'
  <2>1. processed' \in 0 .. NumProducers * OrdersPerProducer /\ sem' \in 0 .. NumConsumers
    BY <1>1, TotalIsNat, NumConsumersIsNat
  <2>2. queue' \in Seq(Orders) /\ Len(queue') <= QueueCapacity
    BY <1>1, OPAssumption
  <2>3. book' \in [Symbols -> [buy : Nat, sell : Nat]] /\ store' \in [Orders -> Nat]
    BY <1>1 DEF EmptyBook, EmptyStore
  <2> QED
    BY <1>1, <2>1, <2>2, <2>3 DEF TypeOK
<1>4. PhasesInv'
  BY <1>1, <1>2 DEF PhasesInv, Running
<1>5. PlacesInv' /\ PushedInv'
  BY <1>1, <1>2 DEF PlacesInv, PushedInv, IsQueued, Holders, EmptyStore
<1>6. CountsInv'
  <2>1. /\ At("count")' = {} /\ At("process")' = {} /\ At("barrier")' = {}
        /\ Recorded' = {}
    BY <1>1, <1>2 DEF At, Recorded, EmptyStore
  <2>2. /\ Cardinality(At("count"))' = 0 /\ Cardinality(At("process"))' = 0
        /\ Cardinality(Recorded)' = 0
    BY <2>1, FS_EmptySet
  <2> QED
    BY <1>1, <2>1, <2>2, NumConsumersIsNat DEF CountsInv
<1>7. LeavingInv'
  BY <1>1, <1>2 DEF LeavingInv
<1> QED
  BY <1>3, <1>4, <1>5, <1>6, <1>7

LEMMA StartThreadsInv ==
  ASSUME PipelineInv, StartThreads
  PROVE  PipelineInv'
<1> USE DEF PipelineInv
<1>1. /\ main = "start" /\ main' = "spawned" /\ runsLeft' = runsLeft - 1
      /\ expected' = NumProducers * OrdersPerProducer
      /\ made' = [p \in Producers |-> 0] /\ pc' = [c \in Consumers |-> "latch"]
      /\ queue' = queue /\ order' = order /\ latchOpen' = latchOpen /\ arrived' = arrived
      /\ sem' = sem /\ book' = book /\ store' = store /\ processed' = processed
  BY DEF StartThreads, sharedVars
<1>2. /\ \A c \in Consumers : pc[c] = "none"
      /\ runsLeft > 0 /\ queue = <<>> /\ store = EmptyStore
  BY <1>1 DEF PhasesInv, Running
<1>3. TypeOK'
  BY <1>1, <1>2, OPAssumption, TotalIsNat DEF TypeOK
<1>4. PhasesInv'
  BY <1>1 DEF PhasesInv, Running
<1>5. PlacesInv'
  BY <1>1, <1>2 DEF PlacesInv, IsQueued, Holders, EmptyStore
<1>6. PushedInv'
  <2>1. \A o \in Orders : ~(o[2] < made'[o[1]])
    BY <1>1, OrderFields
  <2>2. \A o \in Orders : store'[o] = 0
    BY <1>1, <1>2 DEF EmptyStore
  <2> QED
    BY <1>1, <1>2, <2>1, <2>2 DEF PushedInv, IsQueued, IsHeld, Holders
<1>7. CountsInv'
  <2>1. /\ At("count")' = At("count") /\ At("process")' = At("process")
        /\ At("barrier")' = At("barrier") /\ Recorded' = Recorded
    BY <1>1, <1>2 DEF At, Recorded
  <2> QED
    BY <1>1, <2>1 DEF CountsInv
<1>8. LeavingInv'
  BY <1>1 DEF LeavingInv
<1> QED
  BY <1>3, <1>4, <1>5, <1>6, <1>7, <1>8

LEMMA OpenLatchInv ==
  ASSUME PipelineInv, OpenLatch
  PROVE  PipelineInv'
<1> USE DEF PipelineInv
<1>1. /\ main = "spawned" /\ main' = "join" /\ latchOpen' = TRUE
      /\ UNCHANGED <<runsLeft, made, queue, pc, order, arrived, sem, book, store,
                     processed, expected>>
  BY DEF OpenLatch, sharedVars
<1>2. TypeOK' /\ PhasesInv'
  BY <1>1 DEF TypeOK, PhasesInv, Running
<1>3. PlacesInv' /\ PushedInv' /\ LeavingInv'
  BY <1>1 DEF PlacesInv, PushedInv, LeavingInv, IsQueued, IsHeld, Holders
<1>4. CountsInv'
  BY <1>1 DEF CountsInv, At, Recorded
<1> QED
  BY <1>2, <1>3, <1>4

LEMMA JoinThreadsInv ==
  ASSUME PipelineInv, JoinThreads
  PROVE  PipelineInv'
<1> USE DEF PipelineInv
<1>1. /\ main = "join" /\ main' = "analyse"
      /\ \A c \in Consumers : pc[c] = "left"
      /\ pc' = [c \in Consumers |-> "none"]
      /\ UNCHANGED <<runsLeft, made, queue, order, latchOpen, arrived, sem, book, store,
                     processed, expected>>
  BY DEF JoinThreads, sharedVars
<1>2. TypeOK' /\ PhasesInv'
  BY <1>1 DEF TypeOK, PhasesInv, Running
<1>3. PlacesInv' /\ PushedInv' /\ LeavingInv'
  BY <1>1 DEF PlacesInv, PushedInv, LeavingInv, IsQueued, IsHeld, Holders
<1>4. CountsInv'
  <2>1. /\ At("count")' = At("count") /\ At("process")' = At("process")
        /\ At("barrier")' = At("barrier") /\ Recorded' = Recorded
    BY <1>1 DEF At, Recorded
  <2> QED
    BY <1>1, <2>1 DEF CountsInv
<1> QED
  BY <1>2, <1>3, <1>4

LEMMA NextRunInv ==
  ASSUME PipelineInv, NextRun
  PROVE  PipelineInv'
<1> USE DEF PipelineInv
<1>1. /\ main = "analyse" /\ main' = IF runsLeft > 0 THEN "reset" ELSE "exit"
      /\ UNCHANGED <<runsLeft, made, queue, pc, order, latchOpen, arrived, sem, book, store,
                     processed, expected>>
  BY DEF NextRun, sharedVars
<1>2. TypeOK' /\ PhasesInv'
  BY <1>1 DEF TypeOK, PhasesInv, Running
<1>3. PlacesInv' /\ PushedInv' /\ LeavingInv'
  BY <1>1 DEF PlacesInv, PushedInv, LeavingInv, IsQueued, IsHeld, Holders
<1>4. CountsInv'
  BY <1>1 DEF CountsInv, At, Recorded
<1> QED
  BY <1>2, <1>3, <1>4

LEMMA ProduceInv ==
  ASSUME PipelineInv, NEW p \in Producers, Produce(p)
  PROVE  PipelineInv'
<1> USE DEF PipelineInv
<1> DEFINE new == <<p, made[p]>>
<1>1. /\ Running /\ made[p] < OrdersPerProducer /\ Len(queue) < QueueCapacity
      /\ queue' = Append(queue, new) /\ made' = [made EXCEPT ![p] = @ + 1]
      /\ UNCHANGED <<main, runsLeft, latchOpen, expected, pc, order, arrived, sem, book,
                     store, processed>>
  BY DEF Produce, mainVars, sharedVars, Running
<1>2. made[p] \in Nat /\ made \in [Producers -> 0 .. OrdersPerProducer] /\ new \in Orders
  BY <1>1, OPAssumption DEF TypeOK, Orders
<1>3. /\ queue \in Seq(Orders) /\ Len(queue) \in Nat /\ DOMAIN queue = 1 .. Len(queue)
      /\ DOMAIN queue' = 1 .. Len(queue) + 1 /\ queue'[Len(queue) + 1] = new
      /\ \A i \in 1 .. Len(queue) : queue'[i] = queue[i]
  BY <1>1, <1>2 DEF TypeOK
<1>4. ~IsQueued(new) /\ ~IsHeld(new) /\ store[new] = 0
  <2>1. main # "start" /\ new[1] = p /\ new[2] = made[p] /\ ~(made[p] < made[p])
    BY <1>1, <1>2 DEF Running
  <2>2. ~(IsQueued(new) \/ IsHeld(new) \/ store[new] = 1)
    BY <1>2, <2>1 DEF PushedInv
  <2> QED
    BY <1>2, <2>2 DEF PlacesInv
<1>5. \A o \in Orders : IsQueued(o)' <=> IsQueued(o) \/ o = new
  <2> HIDE DEF new
  <2>1. DOMAIN queue' = DOMAIN queue \cup {Len(queue) + 1}
    BY <1>3
  <2>2. \A i \in DOMAIN queue : queue'[i] = queue[i]
    BY <1>3
  <2> QED
    BY <1>3, <2>1, <2>2, Zenon DEF IsQueued
<1>6. TypeOK'
  <2>1. queue' \in Seq(Orders) /\ Len(queue') <= QueueCapacity
    BY <1>1, <1>2, <1>3, OPAssumption
  <2>2. made' \in [Producers -> 0 .. OrdersPerProducer]
    BY <1>1, <1>2, OPAssumption
  <2> QED
    BY <1>1, <2>1, <2>2 DEF TypeOK
<1>7. PhasesInv'
  BY <1>1 DEF PhasesInv, Running
<1>8. PlacesInv'
  <2>1. \A i, j \in DOMAIN queue' : queue'[i] = queue'[j] => i = j
    BY <1>3, <1>4 DEF PlacesInv, IsQueued
  <2>2. \A i \in DOMAIN queue' : store'[queue'[i]] = 0
    BY <1>1, <1>3, <1>4 DEF PlacesInv
  <2>3. \A c \in Holders' : order'[c] \in Orders /\ store'[order'[c]] = 0 /\ ~IsQueued(order[c])'
    BY <1>1, <1>4, <1>5 DEF PlacesInv, Holders, IsHeld
  <2> QED
    BY <1>1, <2>1, <2>2, <2>3 DEF PlacesInv, Holders
<1>9. PushedInv'
  <2> SUFFICES ASSUME NEW o \in Orders
               PROVE  (o[2] < made[o[1]])' <=> IsQueued(o)' \/ IsHeld(o)' \/ store'[o] = 1
    BY DEF PushedInv
  <2>1. o[2] < made[o[1]] <=> IsQueued(o) \/ IsHeld(o) \/ store[o] = 1
    BY <1>1 DEF PushedInv, Running
  <2>2. IsHeld(o)' <=> IsHeld(o)
    BY <1>1 DEF IsHeld, Holders
  <2>3. o[2] < made'[o[1]] <=> o[2] < made[o[1]] \/ o = new
    <3>1. CASE o[1] = p
      <4>1. made'[o[1]] = made[p] + 1 /\ (o = new <=> o[2] = made[p])
        BY <1>1, <1>2, <3>1, OrderFields
      <4> QED
        BY <1>2, <3>1, <4>1, OrderFields
    <3>2. CASE o[1] # p
      BY <1>1, <1>2, <3>2, OrderFields
    <3> QED
      BY <3>1, <3>2
  <2> QED
    BY <1>1, <1>5, <2>1, <2>2, <2>3
<1>10. CountsInv' /\ LeavingInv'
  BY <1>1 DEF CountsInv, LeavingInv, At, Recorded
<1> QED
  BY <1>6, <1>7, <1>8, <1>9, <1>10

-----------------------------------------------------------------------------
(***************************************************************************)
(* The consumers                                                           *)
(***************************************************************************)

Holding == {"acquire", "process", "book", "record"}
Leaving == {"arrive", "barrier", "left"}

\* A consumer that goes on without taking or giving up an order.
LEMMA GoesOn ==
  ASSUME PipelineInv, NEW c \in Consumers, NEW a, NEW b, Goto(c, a, b),
         a # "none", b # "none", a \notin Leaving, b \notin {"barrier", "left"},
         a \in Holding <=> b \in Holding,
         b = "arrive" => \A o \in Orders : store[o] = 1,
         UNCHANGED <<main, runsLeft, expected, made, queue, order, store>>
  PROVE  PhasesInv' /\ PlacesInv' /\ PushedInv' /\ LeavingInv' /\ Running
<1> USE DEF PipelineInv
<1>1. pc[c] = a /\ pc' = [pc EXCEPT ![c] = b] /\ DOMAIN pc = Consumers
  BY DEF Goto, TypeOK
<1>2. Holders' = Holders
  BY <1>1 DEF Holders, Holding
<1>3. Running
  BY <1>1 DEF PhasesInv
<1>4. PhasesInv'
  BY <1>3 DEF PhasesInv, Running
<1>5. PlacesInv' /\ PushedInv'
  BY <1>2 DEF PlacesInv, PushedInv, IsQueued, IsHeld
<1>6. LeavingInv'
  <2>1. \A k \in Consumers : pc[k] # "left"
    BY <1>1 DEF LeavingInv, Leaving
  <2>2. \A k \in Consumers : pc'[k] # "left"
    BY <1>1, <2>1
  <2>3. \A k \in Consumers : pc'[k] \in Leaving => \A o \in Orders : store'[o] = 1
    BY <1>1 DEF LeavingInv, Leaving
  <2> QED
    BY <2>2, <2>3 DEF LeavingInv, Leaving
<1> QED
  BY <1>3, <1>4, <1>5, <1>6

\* A consumer's new place is one of TypeOK's.
LEMMA GoesOnType ==
  ASSUME TypeOK, NEW c \in Consumers, NEW a, NEW b, Goto(c, a, b),
         b \in {"none", "latch", "pop", "check", "acquire", "process", "book",
                "record", "count", "arrive", "barrier", "left"}
  PROVE  pc' \in [Consumers -> {"none", "latch", "pop", "check", "acquire", "process", "book",
                                "record", "count", "arrive", "barrier", "left"}]
BY DEF TypeOK, Goto

\* A consumer that goes on between the places that no counter counts.
LEMMA Uncounted ==
  ASSUME PipelineInv, NEW c \in Consumers, NEW a, NEW b, a # b, Goto(c, a, b),
         a \notin {"count", "process", "barrier"}, b \notin {"count", "process", "barrier"},
         UNCHANGED <<arrived, sem, store, processed>>
  PROVE  CountsInv'
<1> USE DEF PipelineInv
<1>1. pc[c] = a /\ pc' = [pc EXCEPT ![c] = b] /\ DOMAIN pc = Consumers
  BY DEF Goto, TypeOK
<1>2. /\ At("count")' = At("count") /\ At("process")' = At("process")
      /\ At("barrier")' = At("barrier") /\ Recorded' = Recorded
  BY <1>1 DEF At, Recorded
<1> QED
  BY <1>2 DEF CountsInv

\* When all orders have been counted, all have been recorded.
LEMMA AllCounted ==
  ASSUME PipelineInv, Running, processed >= expected
  PROVE  \A o \in Orders : store[o] = 1
<1> USE DEF PipelineInv
<1>1. expected = NumProducers * OrdersPerProducer
  BY DEF PhasesInv
<1>2. /\ processed + Cardinality(At("count")) = Cardinality(Recorded)
      /\ processed \in Nat /\ Cardinality(At("count")) \in Nat
  BY AtFinite, TotalIsNat DEF CountsInv, TypeOK
<1>3. Cardinality(Recorded) = NumProducers * OrdersPerProducer
  BY <1>1, <1>2, RecordedFinite, TotalIsNat
<1> QED
  BY <1>3, RecordedFinite DEF Recorded

LEMMA LoopInv ==
  ASSUME PipelineInv, NEW c \in Consumers,
         PassLatch(c) \/ PopFails(c) \/ Retry(c) \/ LeaveLoop(c)
  PROVE  PipelineInv'
<1> USE DEF PipelineInv
<1>1. /\ \/ Goto(c, "latch", "pop") \/ Goto(c, "pop", "check") \/ Goto(c, "check", "pop")
         \/ Goto(c, "check", "arrive") /\ processed >= expected
      /\ UNCHANGED <<main, runsLeft, latchOpen, expected, made, queue, order, arrived,
                     sem, book, store, processed>>
  BY DEF PassLatch, PopFails, Retry, LeaveLoop, mainVars, sharedVars
<1>2. CASE Goto(c, "latch", "pop")
  <2>1. PhasesInv' /\ PlacesInv' /\ PushedInv' /\ LeavingInv'
    BY <1>1, <1>2, GoesOn DEF Holding, Leaving
  <2>2. CountsInv'
    BY <1>1, <1>2, Uncounted
  <2> QED
    BY <1>1, <1>2, <2>1, <2>2, GoesOnType DEF TypeOK
<1>3. CASE Goto(c, "pop", "check")
  <2>1. PhasesInv' /\ PlacesInv' /\ PushedInv' /\ LeavingInv'
    BY <1>1, <1>3, GoesOn DEF Holding, Leaving
  <2>2. CountsInv'
    BY <1>1, <1>3, Uncounted
  <2> QED
    BY <1>1, <1>3, <2>1, <2>2, GoesOnType DEF TypeOK
<1>4. CASE Goto(c, "check", "pop")
  <2>1. PhasesInv' /\ PlacesInv' /\ PushedInv' /\ LeavingInv'
    BY <1>1, <1>4, GoesOn DEF Holding, Leaving
  <2>2. CountsInv'
    BY <1>1, <1>4, Uncounted
  <2> QED
    BY <1>1, <1>4, <2>1, <2>2, GoesOnType DEF TypeOK
<1>5. CASE Goto(c, "check", "arrive") /\ processed >= expected
  <2>1. Running
    BY <1>5 DEF PhasesInv, Goto
  <2>2. \A o \in Orders : store[o] = 1
    BY <1>5, <2>1, AllCounted
  <2>3. PhasesInv' /\ PlacesInv' /\ PushedInv' /\ LeavingInv'
    BY <1>1, <1>5, <2>2, GoesOn DEF Holding, Leaving
  <2>4. CountsInv'
    BY <1>1, <1>5, Uncounted
  <2> QED
    BY <1>1, <1>5, <2>3, <2>4, GoesOnType DEF TypeOK
<1> QED
  BY <1>1, <1>2, <1>3, <1>4, <1>5

LEMMA PopInv ==
  ASSUME PipelineInv, NEW c \in Consumers, Pop(c)
  PROVE  PipelineInv'
<1> USE DEF PipelineInv
<1> DEFINE old == Head(queue)
<1>1. /\ queue # <<>> /\ Goto(c, "pop", "acquire") /\ queue' = Tail(queue)
      /\ order' = [order EXCEPT ![c] = old]
      /\ UNCHANGED <<main, runsLeft, latchOpen, expected, made, arrived, sem, book,
                     store, processed>>
  BY DEF Pop, mainVars, sharedVars
<1>2. /\ queue \in Seq(Orders) /\ Len(queue) \in Nat \ {0}
      /\ DOMAIN queue = 1 .. Len(queue) /\ old = queue[1] /\ old \in Orders
      /\ queue' \in Seq(Orders) /\ Len(queue') = Len(queue) - 1
      /\ DOMAIN queue' = 1 .. Len(queue) - 1
      /\ \A i \in 1 .. Len(queue) - 1 : queue'[i] = queue[i + 1]
  BY <1>1 DEF TypeOK
<1>3. /\ pc[c] = "pop" /\ pc' = [pc EXCEPT ![c] = "acquire"] /\ DOMAIN pc = Consumers
      /\ order'[c] = old /\ \A k \in Consumers \ {c} : order'[k] = order[k]
  BY <1>1 DEF Goto, TypeOK
<1> HIDE DEF old
<1>4. Holders' = Holders \cup {c} /\ c \notin Holders
  BY <1>3 DEF Holders
<1>5. IsQueued(old) /\ store[old] = 0 /\ \A k \in Holders : order[k] # old
  BY <1>2 DEF PlacesInv, IsQueued
<1>6. \A o \in Orders : IsQueued(o)' <=> IsQueued(o) /\ o # old
  <2>1. ASSUME NEW i \in DOMAIN queue' PROVE IsQueued(queue'[i]) /\ queue'[i] # old
    <3>1. i + 1 \in DOMAIN queue /\ 1 \in DOMAIN queue /\ i + 1 # 1 /\ queue'[i] = queue[i + 1]
      BY <1>2
    <3> QED
      BY <1>2, <3>1 DEF PlacesInv, IsQueued
  <2>2. ASSUME NEW j \in DOMAIN queue, queue[j] # old
        PROVE  j - 1 \in DOMAIN queue' /\ queue'[j - 1] = queue[j]
    BY <1>2, <2>2
  <2> QED
    BY <2>1, <2>2 DEF IsQueued
<1>7. \A o \in Orders : IsHeld(o)' <=> IsHeld(o) \/ o = old
  BY <1>3, <1>4 DEF IsHeld, Holders
<1>8. Running
  BY <1>3 DEF PhasesInv
<1>9. TypeOK'
  <2>1. order' \in [Consumers -> Orders \cup {NoOrder}]
    BY <1>1, <1>2 DEF TypeOK
  <2>2. Len(queue') <= QueueCapacity
    BY <1>2, OPAssumption DEF TypeOK
  <2> QED
    BY <1>1, <1>2, <2>1, <2>2, GoesOnType DEF TypeOK
<1>10. PhasesInv'
  BY <1>1, <1>8 DEF PhasesInv, Running
<1>11. PlacesInv'
  <2>1. \A i, j \in DOMAIN queue' : queue'[i] = queue'[j] => i = j
    <3> SUFFICES ASSUME NEW i \in DOMAIN queue', NEW j \in DOMAIN queue',
                        queue'[i] = queue'[j]
                 PROVE  i = j
      OBVIOUS
    <3>1. i + 1 \in DOMAIN queue /\ j + 1 \in DOMAIN queue /\ queue[i + 1] = queue[j + 1]
      BY <1>2
    <3>2. i + 1 = j + 1
      BY <3>1 DEF PlacesInv
    <3> QED
      BY <1>2, <3>2
  <2>2. \A i \in DOMAIN queue' : store'[queue'[i]] = 0
    <3> SUFFICES ASSUME NEW i \in DOMAIN queue' PROVE store[queue'[i]] = 0
      BY <1>1
    <3>1. i + 1 \in DOMAIN queue /\ queue'[i] = queue[i + 1]
      BY <1>2
    <3> QED
      BY <3>1 DEF PlacesInv
  <2>3. \A k, l \in Holders' : order'[k] = order'[l] => k = l
    BY <1>3, <1>4, <1>5 DEF PlacesInv, Holders
  <2>4. ASSUME NEW k \in Holders'
        PROVE  order'[k] \in Orders /\ store'[order'[k]] = 0 /\ ~IsQueued(order[k])'
    <3>1. CASE k = c
      BY <1>1, <1>2, <1>3, <1>5, <1>6, <3>1
    <3>2. CASE k # c
      <4>1. k \in Holders /\ order'[k] = order[k]
        BY <1>3, <1>4, <3>2 DEF Holders
      <4>2. order[k] \in Orders /\ store[order[k]] = 0 /\ ~IsQueued(order[k])
        BY <4>1 DEF PlacesInv
      <4> QED
        BY <1>1, <1>6, <4>1, <4>2
    <3> QED
      BY <3>1, <3>2
  <2> QED
    BY <1>1, <2>1, <2>2, <2>3, <2>4 DEF PlacesInv
<1>12. PushedInv'
  <2>1. ASSUME NEW o \in Orders
        PROVE  IsQueued(o)' \/ IsHeld(o)' <=> IsQueued(o) \/ IsHeld(o)
    BY <1>5, <1>6, <1>7
  <2> QED
    BY <1>1, <1>8, <2>1 DEF PushedInv, Running
<1>13. CountsInv'
  BY <1>1, Uncounted
<1>14. LeavingInv'
  BY <1>1, <1>3 DEF LeavingInv
<1> QED
  BY <1>9, <1>10, <1>11, <1>12, <1>13, <1>14

LEMMA SemaphoreInv ==
  ASSUME PipelineInv, NEW c \in Consumers, Acquire(c) \/ Release(c)
  PROVE  PipelineInv'
<1> USE DEF PipelineInv
<1>1. UNCHANGED <<main, runsLeft, latchOpen, expected, made, queue, order, arrived,
                  book, store, processed>>
  BY DEF Acquire, Release, mainVars
<1>2. /\ sem \in Nat /\ sem <= NumConsumers /\ NumConsumers \in Nat
      /\ sem + Cardinality(At("process")) = NumConsumers
      /\ IsFiniteSet(At("process")) /\ Cardinality(At("process")) \in Nat
  BY AtFinite, NumConsumersIsNat DEF TypeOK, CountsInv
<1>3. Recorded' = Recorded
  BY <1>1 DEF Recorded
<1>4. CASE Acquire(c)
  <2>1. Goto(c, "acquire", "process") /\ sem > 0 /\ sem' = sem - 1
    BY <1>4 DEF Acquire
  <2>2. PhasesInv' /\ PlacesInv' /\ PushedInv' /\ LeavingInv'
    BY <1>1, <2>1, GoesOn DEF Holding, Leaving
  <2>3. /\ Cardinality(At("process"))' = Cardinality(At("process")) + 1
        /\ Cardinality(At("count"))' = Cardinality(At("count"))
    BY <2>1, Moved
  <2>4. At("barrier")' = At("barrier")
    BY <2>1 DEF At, Goto, TypeOK
  <2>5. CountsInv'
    BY <1>1, <1>2, <1>3, <2>1, <2>3, <2>4 DEF CountsInv
  <2>6. sem' \in 0 .. NumConsumers
    BY <1>2, <2>1
  <2> QED
    BY <1>1, <2>1, <2>2, <2>5, <2>6, GoesOnType DEF TypeOK
<1>5. CASE Release(c)
  <2>1. Goto(c, "process", "book") /\ sem' = sem + 1
    BY <1>5 DEF Release
  <2>2. PhasesInv' /\ PlacesInv' /\ PushedInv' /\ LeavingInv'
    BY <1>1, <2>1, GoesOn DEF Holding, Leaving
  <2>3. /\ Cardinality(At("process"))' = Cardinality(At("process")) - 1
        /\ Cardinality(At("count"))' = Cardinality(At("count"))
    BY <2>1, Moved
  <2>4. At("barrier")' = At("barrier") /\ c \in At("process")
    BY <2>1 DEF At, Goto, TypeOK
  <2>5. CountsInv'
    BY <1>1, <1>2, <1>3, <2>1, <2>3, <2>4 DEF CountsInv
  <2>6. Cardinality(At("process")) # 0
    BY <1>2, <2>4, FS_EmptySet
  <2>7. sem' \in 0 .. NumConsumers
    BY <1>2, <2>1, <2>6
  <2> QED
    BY <1>1, <2>1, <2>2, <2>5, <2>7, GoesOnType DEF TypeOK
<1> QED
  BY <1>4, <1>5

LEMMA BookInv ==
  ASSUME PipelineInv, NEW c \in Consumers, Book(c)
  PROVE  PipelineInv'
<1> USE DEF PipelineInv
<1>1. /\ Goto(c, "book", "record")
      /\ book' = IF IsBuy(order[c])
                 THEN [book EXCEPT ![Symbol(order[c])].buy = @ + Quantity(order[c])]
                 ELSE [book EXCEPT ![Symbol(order[c])].sell = @ + Quantity(order[c])]
      /\ UNCHANGED <<main, runsLeft, latchOpen, expected, made, queue, order, arrived,
                     sem, store, processed>>
  BY DEF Book, mainVars
<1>2. order[c] \in Orders
  BY <1>1 DEF PlacesInv, Holders, Goto
<1>3. Symbol(order[c]) \in Symbols /\ Quantity(order[c]) \in Nat
  BY <1>2, OrderFields
<1>4. book' \in [Symbols -> [buy : Nat, sell : Nat]]
  <2>1. book \in [Symbols -> [buy : Nat, sell : Nat]]
    BY DEF TypeOK
  <2> QED
    BY <1>1, <1>3, <2>1
<1>5. PhasesInv' /\ PlacesInv' /\ PushedInv' /\ LeavingInv'
  BY <1>1, GoesOn DEF Holding, Leaving
<1>6. CountsInv'
  BY <1>1, Uncounted
<1> QED
  BY <1>1, <1>4, <1>5, <1>6, GoesOnType DEF TypeOK

LEMMA RecordInv ==
  ASSUME PipelineInv, NEW c \in Consumers, Record(c)
  PROVE  PipelineInv'
<1> USE DEF PipelineInv
<1> DEFINE done == order[c]
<1>1. /\ Goto(c, "record", "count") /\ store' = [store EXCEPT ![done] = @ + 1]
      /\ UNCHANGED <<main, runsLeft, latchOpen, expected, made, queue, order, arrived,
                     sem, book, processed>>
  BY DEF Record, mainVars
<1>2. /\ pc[c] = "record" /\ pc' = [pc EXCEPT ![c] = "count"] /\ DOMAIN pc = Consumers
  BY <1>1 DEF Goto, TypeOK
<1>3. /\ c \in Holders /\ Holders' = Holders \ {c}
      /\ done \in Orders /\ store[done] = 0 /\ ~IsQueued(done)
  BY <1>2 DEF PlacesInv, Holders
<1> HIDE DEF done
<1>4. /\ store \in [Orders -> Nat] /\ store' \in [Orders -> Nat]
      /\ store'[done] = 1 /\ \A o \in Orders \ {done} : store'[o] = store[o]
  BY <1>1, <1>3 DEF TypeOK
<1>5. \A k \in Holders' : order[k] # done
  BY <1>3 DEF PlacesInv, done
<1>6. \A o \in Orders : IsHeld(o)' <=> IsHeld(o) /\ o # done
  BY <1>1, <1>3, <1>5 DEF IsHeld, done
<1>7. Running
  BY <1>2 DEF PhasesInv
<1>8. TypeOK' /\ PhasesInv'
  BY <1>1, <1>4, <1>7, GoesOnType DEF TypeOK, PhasesInv, Running
<1>9. PlacesInv'
  <2>1. \A i \in DOMAIN queue' : store'[queue'[i]] = 0
    <3> SUFFICES ASSUME NEW i \in DOMAIN queue PROVE store'[queue[i]] = 0
      BY <1>1
    <3>1. queue[i] \in Orders /\ queue[i] # done /\ store[queue[i]] = 0
      BY <1>3 DEF PlacesInv, IsQueued, TypeOK
    <3> QED
      BY <1>4, <3>1
  <2>2. \A k \in Holders' :
          order'[k] \in Orders /\ store'[order'[k]] = 0 /\ ~IsQueued(order[k])'
    <3> SUFFICES ASSUME NEW k \in Holders'
                 PROVE  order[k] \in Orders /\ store'[order[k]] = 0 /\ ~IsQueued(order[k])
      BY <1>1 DEF IsQueued
    <3>1. order[k] \in Orders /\ store[order[k]] = 0 /\ ~IsQueued(order[k])
      BY <1>3 DEF PlacesInv
    <3> QED
      BY <1>4, <1>5, <3>1
  <2>3. \A o \in Orders : store'[o] \in {0, 1}
    BY <1>4 DEF PlacesInv
  <2> QED
    BY <1>1, <1>3, <2>1, <2>2, <2>3 DEF PlacesInv
<1>10. PushedInv'
  <2>1. ASSUME NEW o \in Orders
        PROVE  IsHeld(o)' \/ store'[o] = 1 <=> IsHeld(o) \/ store[o] = 1
    <3>1. IsHeld(done)
      BY <1>3 DEF IsHeld, done
    <3> QED
      BY <1>4, <1>6, <3>1
  <2>2. \A o : IsQueued(o)' <=> IsQueued(o)
    BY <1>1 DEF IsQueued
  <2> QED
    BY <1>1, <1>7, <2>1, <2>2 DEF PushedInv, Running
<1>11. CountsInv'
  <2>1. Recorded' = Recorded \cup {done} /\ done \notin Recorded
    BY <1>3, <1>4 DEF Recorded
  <2>2. Cardinality(Recorded)' = Cardinality(Recorded) + 1
    BY <2>1, RecordedFinite, FS_AddElement
  <2>3. /\ Cardinality(At("process"))' = Cardinality(At("process"))
        /\ Cardinality(At("count"))' = Cardinality(At("count")) + 1
    BY <1>1, Moved
  <2>4. At("barrier")' = At("barrier")
    BY <1>2 DEF At
  <2>5. processed \in Nat /\ Cardinality(At("count")) \in Nat /\ Cardinality(Recorded) \in Nat
    BY AtFinite, RecordedFinite, TotalIsNat DEF TypeOK
  <2> QED
    BY <1>1, <2>2, <2>3, <2>4, <2>5 DEF CountsInv
<1>12. LeavingInv'
  <2>1. \A k \in Consumers : pc[k] \notin {"arrive", "barrier", "left"}
    BY <1>3 DEF LeavingInv
  <2> QED
    BY <1>2, <2>1 DEF LeavingInv
<1> QED
  BY <1>8, <1>9, <1>10, <1>11, <1>12

LEMMA CountInv ==
  ASSUME PipelineInv, NEW c \in Consumers, Count(c)
  PROVE  PipelineInv'
<1> USE DEF PipelineInv
<1>1. /\ Goto(c, "count", "pop") /\ processed' = processed + 1
      /\ UNCHANGED <<main, runsLeft, latchOpen, expected, made, queue, order, arrived,
                     sem, book, store>>
  BY DEF Count, mainVars
<1>2. PhasesInv' /\ PlacesInv' /\ PushedInv' /\ LeavingInv'
  BY <1>1, GoesOn DEF Holding, Leaving
<1>3. /\ processed + Cardinality(At("count")) = Cardinality(Recorded)
      /\ processed \in Nat /\ Cardinality(At("count")) \in Nat
  BY AtFinite, TotalIsNat DEF TypeOK, CountsInv
<1>4. /\ Cardinality(At("process"))' = Cardinality(At("process"))
      /\ Cardinality(At("count"))' = Cardinality(At("count")) - 1
  BY <1>1, Moved
<1>5. At("barrier")' = At("barrier") /\ c \in At("count") /\ Recorded' = Recorded
  BY <1>1 DEF At, Recorded, Goto, TypeOK
<1>6. Cardinality(At("count")) # 0
  BY <1>5, AtFinite, FS_EmptySet
<1>7. processed' \in 0 .. NumProducers * OrdersPerProducer
  BY <1>1, <1>3, <1>6, RecordedFinite, TotalIsNat
<1>8. CountsInv'
  BY <1>1, <1>3, <1>4, <1>5 DEF CountsInv
<1> QED
  BY <1>1, <1>2, <1>7, <1>8, GoesOnType DEF TypeOK

LEMMA ArriveInv ==
  ASSUME PipelineInv, NEW c \in Consumers, Arrive(c)
  PROVE  PipelineInv'
<1> USE DEF PipelineInv
<1>1. /\ pc[c] = "arrive"
      /\ UNCHANGED <<main, runsLeft, latchOpen, expected, made, queue, order, sem, book,
                     store, processed>>
  BY DEF Arrive, mainVars, sharedVars
<1>2. Running
  BY <1>1 DEF PhasesInv
<1>3. /\ \A o \in Orders : store[o] = 1
      /\ \A k \in Consumers : pc[k] # "left"
  BY <1>1 DEF LeavingInv
<1>4. PhasesInv'
  BY <1>1, <1>2 DEF PhasesInv, Running
<1>5. ASSUME Holders' = Holders PROVE PlacesInv' /\ PushedInv'
  BY <1>1, <1>5 DEF PlacesInv, PushedInv, IsQueued, IsHeld
<1>6. CASE Cardinality(arrived) + 1 = NumConsumers
  <2>1. arrived \subseteq Consumers /\ c \notin arrived /\ IsFiniteSet(arrived)
    BY <1>1, OPAssumption, FS_Subset DEF TypeOK, CountsInv, At
  <2>2. Cardinality(arrived \cup {c}) = Cardinality(Consumers)
    BY <1>6, <2>1, FS_AddElement DEF NumConsumers
  <2>3. arrived \cup {c} = Consumers
    BY <2>1, <2>2, OPAssumption, FS_Subset
  <2>4. arrived' = {} /\ pc' = [k \in Consumers |-> "left"]
    BY <1>6, <2>3 DEF Arrive
  <2>5. \A k \in Consumers : pc[k] = "arrive" \/ pc[k] = "barrier"
    BY <1>1, <2>3 DEF CountsInv, At
  <2>6. Holders' = Holders
    BY <2>4, <2>5 DEF Holders
  <2>7. /\ At("count")' = At("count") /\ At("process")' = At("process")
        /\ At("barrier")' = {} /\ Recorded' = Recorded
    BY <1>1, <2>4, <2>5 DEF At, Recorded
  <2>8. CountsInv'
    BY <1>1, <2>4, <2>7 DEF CountsInv
  <2>9. LeavingInv'
    BY <1>1, <1>3, <2>4 DEF LeavingInv
  <2>10. TypeOK'
    BY <1>1, <2>4 DEF TypeOK
  <2> QED
    BY <1>4, <1>5, <2>6, <2>8, <2>9, <2>10
<1>7. CASE Cardinality(arrived) + 1 # NumConsumers
  <2>1. /\ Goto(c, "arrive", "barrier") /\ arrived' = arrived \cup {c}
        /\ pc' = [pc EXCEPT ![c] = "barrier"] /\ DOMAIN pc = Consumers
    BY <1>1, <1>7 DEF Arrive, Goto, TypeOK
  <2>2. Holders' = Holders
    BY <1>1, <2>1 DEF Holders
  <2>3. /\ At("count")' = At("count") /\ At("process")' = At("process")
        /\ At("barrier")' = At("barrier") \cup {c} /\ Recorded' = Recorded
    BY <1>1, <2>1 DEF At, Recorded
  <2>4. CountsInv'
    BY <1>1, <2>1, <2>3 DEF CountsInv
  <2>5. LeavingInv'
    BY <1>1, <1>3, <2>1 DEF LeavingInv
  <2>6. TypeOK'
    BY <1>1, <2>1, GoesOnType DEF TypeOK
  <2> QED
    BY <1>4, <1>5, <2>2, <2>4, <2>5, <2>6
<1> QED
  BY <1>6, <1>7

-----------------------------------------------------------------------------
(***************************************************************************)
(* The theorems                                                            *)
(***************************************************************************)

LEMMA PipelineStep ==
  ASSUME PipelineInv, [Next]_vars
  PROVE  PipelineInv'
<1>1. CASE Main
  BY <1>1, ResetAllInv, StartThreadsInv, OpenLatchInv, JoinThreadsInv, NextRunInv DEF Main
<1>2. CASE \E p \in Producers : Produce(p)
  BY <1>2, ProduceInv
<1>3. CASE \E c \in Consumers : Consume(c)
  BY <1>3, LoopInv, PopInv, SemaphoreInv, BookInv, RecordInv, CountInv, ArriveInv
  DEF Consume
<1>4. CASE UNCHANGED vars
  BY <1>4 DEF vars, PipelineInv, TypeOK, PhasesInv, PlacesInv, PushedInv, CountsInv,
              LeavingInv, Running, Holders, IsQueued, IsHeld, At, Recorded
<1> QED
  BY <1>1, <1>2, <1>3, <1>4 DEF Next, Exited

\* The strengthening itself: in every reachable state an order is in one place
\* only, the counters count what they should, and all consumers leave together.
THEOREM PipelineInvariant == Spec => []PipelineInv
<1> QED
  BY PipelineInit, PipelineStep, PTL DEF Spec

\* The semaphore never exceeds the consumers, the counter never the orders of
\* the run, and the queue never its capacity.
THEOREM PipelineTypes == Spec => []TypeOK
<1>1. PipelineInv => TypeOK
  BY DEF PipelineInv
<1> QED
  BY <1>1, PipelineInvariant, PTL

LEMMA AtMostOne ==
  ASSUME NEW S, \A x, y \in S : x = y
  PROVE  Cardinality(S) = IF S = {} THEN 0 ELSE 1
<1>1. CASE S = {}
  BY <1>1, FS_EmptySet
<1>2. CASE S # {}
  <2>1. PICK x : S = {x}
    BY <1>2
  <2> QED
    BY <1>2, <2>1, FS_Singleton
<1> QED
  BY <1>1, <1>2

\* No order is lost, processed twice or left over from an earlier run: the
\* promise of the pop loop, the lock around the store and reset_all together.
THEOREM EachOrderProcessedOnce == Spec => []EachOrderOnce
<1>1. PipelineInv => EachOrderOnce
  <2> SUFFICES ASSUME PipelineInv, Running \/ main = "analyse", NEW o \in Orders
               PROVE  Cardinality({i \in DOMAIN queue : queue[i] = o})
                        + Cardinality({c \in Holders : order[c] = o}) + store[o]
                      = IF o[2] < made[o[1]] THEN 1 ELSE 0
    BY DEF EachOrderOnce
  <2> USE DEF PipelineInv
  <2> DEFINE places == {i \in DOMAIN queue : queue[i] = o}
             hands  == {c \in Holders : order[c] = o}
  <2>1. Cardinality(places) = IF IsQueued(o) THEN 1 ELSE 0
    <3>1. \A i, j \in places : i = j
      BY DEF PlacesInv
    <3>2. places = {} <=> ~IsQueued(o)
      BY DEF IsQueued
    <3> HIDE DEF places
    <3> QED
      BY <3>1, <3>2, AtMostOne
  <2>2. Cardinality(hands) = IF IsHeld(o) THEN 1 ELSE 0
    <3>1. \A c, k \in hands : c = k
      BY DEF PlacesInv
    <3>2. hands = {} <=> ~IsHeld(o)
      BY DEF IsHeld
    <3> HIDE DEF hands
    <3> QED
      BY <3>1, <3>2, AtMostOne
  <2>3. /\ store[o] \in {0, 1}
        /\ IsQueued(o) => ~IsHeld(o) /\ store[o] = 0
        /\ IsHeld(o) => store[o] = 0
    BY DEF PlacesInv, IsQueued, IsHeld
  <2>4. o[2] < made[o[1]] <=> IsQueued(o) \/ IsHeld(o) \/ store[o] = 1
    BY DEF PushedInv, Running
  <2> HIDE DEF places, hands
  <2>5. Cardinality(places) + Cardinality(hands) + store[o]
        = IF o[2] < made[o[1]] THEN 1 ELSE 0
    BY <2>1, <2>2, <2>3, <2>4
  <2> QED
    BY <2>5 DEF places, hands
<1> QED
  BY <1>1, PipelineInvariant, PTL

\* The loop condition ordersProcessed < totalExpectedOrders is enough: a
\* consumer that stops leaves no order in the queue or in other hands.
THEOREM NoOrderLeftBehind == Spec => []NobodyLeavesEarly
<1>1. PipelineInv => NobodyLeavesEarly
  <2> SUFFICES ASSUME PipelineInv, NEW c \in Consumers, pc[c] \in Leaving
               PROVE  queue = <<>> /\ \A o \in Orders : store[o] = 1
    BY DEF NobodyLeavesEarly, Leaving
  <2> USE DEF PipelineInv
  <2>1. \A o \in Orders : store[o] = 1
    BY DEF LeavingInv, Leaving
  <2>2. queue = <<>>
    <3> SUFFICES ASSUME queue # <<>> PROVE FALSE
      OBVIOUS
    <3>1. 1 \in DOMAIN queue /\ queue[1] \in Orders
      BY DEF TypeOK
    <3> QED
      BY <2>1, <3>1 DEF PlacesInv
  <2> QED
    BY <2>1, <2>2
<1> QED
  BY <1>1, PipelineInvariant, PTL

\* consumerSyncBarrier: nobody is past it while another consumer can still
\* touch the book or the store.
THEOREM AllLeaveTogether == Spec => BarrierHolds
<1> DEFINE Together ==
      \A c, k \in Consumers : pc[c] = "left" => pc'[k] \in {"left", "none"}
<1>1. ASSUME PipelineInv, [Next]_vars PROVE [Together]_vars
  <2> SUFFICES ASSUME Next, NEW c \in Consumers, NEW k \in Consumers, pc[c] = "left"
               PROVE  pc'[k] \in {"left", "none"}
    BY <1>1
  <2>1. \A l \in Consumers : pc[l] = "left"
    BY <1>1 DEF PipelineInv, LeavingInv
  <2>2. CASE Main
    BY <1>1, <2>1, <2>2
    DEF Main, ResetAll, ResetWith, StartThreads, OpenLatch, JoinThreads, NextRun,
        PipelineInv, PhasesInv, Running
  <2>3. CASE \E p \in Producers : Produce(p)
    BY <2>1, <2>3 DEF Produce
  <2>4. \A l \in Consumers : ~Consume(l)
    BY <2>1 DEF Consume, PassLatch, Pop, PopFails, Retry, LeaveLoop, Acquire, Release,
                Book, Record, Count, Arrive, Goto
  <2> QED
    BY <2>1, <2>2, <2>3, <2>4 DEF Next, Exited, vars
<1> QED
  BY <1>1, PipelineInvariant, PTL DEF Spec, BarrierHolds

-----------------------------------------------------------------------------
(***************************************************************************)
(* The sums of quantities, as a function of the orders they are over       *)
(***************************************************************************)

LEMMA TotalSums ==
  \E g \in [SUBSET Orders -> Int] :
    /\ g[{}] = 0
    /\ \A s \in SUBSET Orders : \A o \in s : g[s] = Quantity(o) + g[s \ {o}]
    /\ \A s \in SUBSET Orders : MapThenSumSet(Quantity, s) = g[s]
<1> DEFINE f == [o \in Orders |-> Quantity(o)]
<1>0. IsFiniteSet(Orders) /\ \A o \in Orders : Quantity(o) \in Nat
  <2>1. \A o \in Orders : Quantity(o) \in Nat
    BY OrderFields
  <2> QED BY <2>1, OrdersFinite, Zenon
<1>1. f \in [Orders -> Int] /\ \A o \in Orders : f[o] = Quantity(o)
  BY <1>0
<1> HIDE DEF f
<1>2. PICK g \in [SUBSET Orders -> Int] : Adds(g, f, Orders)
  BY <1>0, <1>1, SumsExist
<1>3. AddsFreely(g, f, Orders)
  <2>1. IsFiniteSet(Orders)
    BY <1>0
  <2>2. f \in [Orders -> Int]
    BY <1>1
  <2> QED BY <1>2, <2>1, <2>2, SumsAnyOrder
<1>4. \A s \in SUBSET Orders : \A o \in s : g[s] = Quantity(o) + g[s \ {o}]
  BY <1>1, <1>3 DEF AddsFreely
<1>5. g[{}] = 0
  BY <1>2 DEF Adds
<1>6. ASSUME NEW S \in SUBSET Orders PROVE MapThenSumSet(Quantity, S) = g[S]
  <2> DEFINE Eq(i) == i = [s \in SUBSET S |-> IF s = {} THEN 0
                             ELSE Quantity(CHOOSE x \in s : TRUE)
                                    + i[s \ {CHOOSE x \in s : TRUE}]]
             k == [s \in SUBSET S |-> g[s]]
             h == CHOOSE i : Eq(i)
  <2>1. MapThenSumSet(Quantity, S) = h[S]
    BY Zenon DEF MapThenSumSet, MapThenFoldSet
  <2>2. \A s \in SUBSET S : s # {} => First(s) \in Orders /\ First(s) \in s
    BY FirstIn
  <2>3. Adds(g, f, S)
    BY <1>2 DEF Adds
  <2>4. Eq(k)
    <3>1. ASSUME NEW s \in SUBSET S
          PROVE  g[s] = IF s = {} THEN 0 ELSE Quantity(First(s)) + k[s \ {First(s)}]
      BY <1>1, <2>2, <2>3 DEF Adds
    <3> QED BY <3>1 DEF First
  <2>5. Eq(h)
    BY <2>4, Zenon
  <2>6. Adds(h, f, S)
    <3>1. \A s \in SUBSET S : h[s] = IF s = {} THEN 0 ELSE Quantity(First(s)) + h[s \ {First(s)}]
      <4> HIDE DEF h
      <4> QED BY <2>5 DEF First
    <3> HIDE DEF h
    <3> QED BY <1>1, <2>2, <3>1 DEF Adds
  <2>7. IsFiniteSet(S)
    BY <1>0, FS_Subset
  <2> HIDE DEF h
  <2>8. g[S] = h[S]
    BY <2>3, <2>6, <2>7, SumsAgree
  <2> QED BY <2>1, <2>8
<1> QED BY <1>4, <1>5, <1>6

-----------------------------------------------------------------------------
(***************************************************************************)
(* The book                                                                *)
(***************************************************************************)

\* An order more.
LEMMA TotalGrows ==
  ASSUME NEW S \in SUBSET Orders, NEW o \in Orders, o \notin S
  PROVE  MapThenSumSet(Quantity, S \cup {o}) = MapThenSumSet(Quantity, S) + Quantity(o)
<1>1. PICK g \in [SUBSET Orders -> Int] :
        /\ g[{}] = 0
        /\ \A s \in SUBSET Orders : \A x \in s : g[s] = Quantity(x) + g[s \ {x}]
        /\ \A s \in SUBSET Orders : MapThenSumSet(Quantity, s) = g[s]
  BY TotalSums
<1>2. S \cup {o} \in SUBSET Orders /\ o \in S \cup {o} /\ (S \cup {o}) \ {o} = S
  OBVIOUS
<1>3. g[S \cup {o}] = Quantity(o) + g[S]
  BY <1>1, <1>2
<1>4. g[S] \in Int /\ Quantity(o) \in Int
  BY OrderFields
<1>5. /\ MapThenSumSet(Quantity, S) = g[S]
      /\ MapThenSumSet(Quantity, S \cup {o}) = g[S \cup {o}]
  <2>1. \A s \in SUBSET Orders : MapThenSumSet(Quantity, s) = g[s]
    BY <1>1
  <2> QED BY <1>2, <2>1, Zenon
<1>6. g[S \cup {o}] = g[S] + Quantity(o)
  BY <1>3, <1>4
<1> QED BY <1>5, <1>6, Zenon

LEMMA TotalOfNone == MapThenSumSet(Quantity, {}) = 0
<1>1. \E g : g[{}] = 0 /\ \A s \in SUBSET Orders : MapThenSumSet(Quantity, s) = g[s]
  BY TotalSums, Zenon
<1>2. {} \in SUBSET Orders
  OBVIOUS
<1> QED BY <1>1, <1>2, Zenon

\* The orders that count for a side of a symbol.
Counting(s, buy) == {o \in Booked : Symbol(o) = s /\ IsBuy(o) = buy}

LEMMA TotalCounts ==
  ASSUME NEW s, NEW buy
  PROVE  Total(s, buy) = MapThenSumSet(Quantity, Counting(s, buy))
BY Zenon DEF Total, Counting

\* BookMatchesOrders, in the steps between the runs too.
BookSums ==
  \A s \in Symbols : book[s] = [buy |-> Total(s, TRUE), sell |-> Total(s, FALSE)]

\* A step that books nothing.
LEMMA NothingBooked ==
  ASSUME BookSums, book' = book, Booked' = Booked
  PROVE  BookSums'
<1>1. \A s, buy : Total(s, buy)' = Total(s, buy)
  BY Zenon DEF Total
<1> QED BY <1>1 DEF BookSums

LEMMA NoneRecords ==
  ASSUME UNCHANGED store,
         \A k \in Consumers : pc'[k] = "record" <=> pc[k] = "record",
         \A k \in Consumers : pc[k] = "record" => order'[k] = order[k]
  PROVE  Booked' = Booked
BY DEF Booked, Orders, Producers

\* Nothing is booked and the book is empty.
LEMMA EmptyBookSums ==
  ASSUME store = EmptyStore, book = EmptyBook, \A c \in Consumers : pc[c] # "record"
  PROVE  BookSums
<1>1. Booked = {}
  BY DEF Booked, EmptyStore
<1>2. ASSUME NEW s, NEW buy PROVE Total(s, buy) = 0
  <2>1. Counting(s, buy) = {}
    BY <1>1 DEF Counting
  <2> QED BY <2>1, TotalCounts, TotalOfNone, Zenon
<1> QED BY <1>2 DEF BookSums, EmptyBook

LEMMA BookKeepsSums ==
  ASSUME PipelineInv, BookSums, NEW c \in Consumers, Book(c)
  PROVE  BookSums'
<1> USE DEF PipelineInv
<1>0. PICK o : o = order[c]
  OBVIOUS
<1>1. /\ pc[c] = "book" /\ pc' = [pc EXCEPT ![c] = "record"] /\ order' = order /\ store' = store
      /\ book' = IF IsBuy(o) THEN [book EXCEPT ![Symbol(o)].buy = @ + Quantity(o)]
                 ELSE [book EXCEPT ![Symbol(o)].sell = @ + Quantity(o)]
  BY <1>0 DEF Book, Goto
<1>2. o \in Orders /\ store[o] = 0 /\ \A k \in Holders : order[k] = o => k = c
  BY <1>0, <1>1 DEF PlacesInv, Holders
<1>3. Booked' = Booked \cup {o} /\ o \notin Booked /\ Booked \in SUBSET Orders
  <2>1. \A k \in Consumers : pc[k] = "record" => order[k] \in Orders /\ order[k] # o
    BY <1>1, <1>2 DEF PlacesInv, Holders
  <2>2. o \notin Booked /\ Booked \in SUBSET Orders
    BY <1>2, <2>1 DEF Booked
  <2>3. /\ pc'[c] = "record" /\ order'[c] = o
        /\ \A k \in Consumers : k # c => pc'[k] = pc[k] /\ order'[k] = order[k]
    BY <1>0, <1>1 DEF TypeOK
  <2>4. {order'[k] : k \in {l \in Consumers : pc'[l] = "record"}}
        = {order[k] : k \in {l \in Consumers : pc[l] = "record"}} \cup {o}
    BY <1>1, <2>3
  <2>5. {x \in Orders' : store'[x] > 0} = {x \in Orders : store[x] > 0}
    BY <1>1 DEF Orders, Producers
  <2> QED BY <2>2, <2>4, <2>5 DEF Booked
<1>4. IsBuy(o) \in BOOLEAN /\ Quantity(o) \in Nat /\ Symbol(o) \in Symbols
  BY <1>2, OrderFields DEF IsBuy
<1>5. ASSUME NEW s, NEW buy \in BOOLEAN
      PROVE  Total(s, buy)' = IF Symbol(o) = s /\ IsBuy(o) = buy
                              THEN Total(s, buy) + Quantity(o) ELSE Total(s, buy)
  <2>1. Counting(s, buy) \in SUBSET Orders /\ o \notin Counting(s, buy)
    BY <1>3 DEF Counting
  <2>2. Counting(s, buy)' = IF Symbol(o) = s /\ IsBuy(o) = buy
                            THEN Counting(s, buy) \cup {o} ELSE Counting(s, buy)
    BY <1>3 DEF Counting
  <2>3. Total(s, buy)' = MapThenSumSet(Quantity, Counting(s, buy)')
    BY Zenon DEF Total, Counting
  <2>4. CASE Symbol(o) = s /\ IsBuy(o) = buy
    <3>1. Counting(s, buy)' = Counting(s, buy) \cup {o}
      BY <2>2, <2>4
    <3>2. MapThenSumSet(Quantity, Counting(s, buy) \cup {o})
          = MapThenSumSet(Quantity, Counting(s, buy)) + Quantity(o)
      BY <1>2, <2>1, TotalGrows
    <3> QED BY <2>3, <2>4, <3>1, <3>2, TotalCounts, Zenon
  <2>5. CASE ~(Symbol(o) = s /\ IsBuy(o) = buy)
    <3>1. Counting(s, buy)' = Counting(s, buy)
      BY <2>2, <2>5
    <3> QED BY <2>3, <2>5, <3>1, TotalCounts, Zenon
  <2> QED BY <2>4, <2>5
<1>6. ASSUME NEW s \in Symbols
      PROVE  book'[s] = [buy |-> Total(s, TRUE)', sell |-> Total(s, FALSE)']
  <2>1. book[s] = [buy |-> Total(s, TRUE), sell |-> Total(s, FALSE)]
    BY DEF BookSums
  <2>2. book \in [Symbols -> [buy : Nat, sell : Nat]]
    BY DEF TypeOK
  <2>3. PICK b : b = book[s]
    OBVIOUS
  <2>4. b \in [buy : Nat, sell : Nat] /\ b.buy = Total(s, TRUE) /\ b.sell = Total(s, FALSE)
    <3>1. b \in [buy : Nat, sell : Nat]
      BY <2>2, <2>3
    <3>2. b = [buy |-> Total(s, TRUE), sell |-> Total(s, FALSE)]
      BY <2>1, <2>3
    <3>3. b.buy = Total(s, TRUE) /\ b.sell = Total(s, FALSE)
      BY ONLY <3>2
    <3> QED BY <3>1, <3>3
  <2>5. /\ book'[s].buy = IF Symbol(o) = s /\ IsBuy(o) = TRUE
                          THEN b.buy + Quantity(o) ELSE b.buy
        /\ book'[s].sell = IF Symbol(o) = s /\ IsBuy(o) = FALSE
                           THEN b.sell + Quantity(o) ELSE b.sell
    <3>1. CASE IsBuy(o) = TRUE
      <4>1. book' = [book EXCEPT ![Symbol(o)].buy = @ + Quantity(o)]
        BY <1>1, <3>1
      <4>2. CASE Symbol(o) = s
        BY <2>2, <2>3, <3>1, <4>1, <4>2
      <4>3. CASE Symbol(o) # s
        BY <2>2, <2>3, <3>1, <4>1, <4>3
      <4> QED BY <4>2, <4>3
    <3>2. CASE IsBuy(o) = FALSE
      <4>1. book' = [book EXCEPT ![Symbol(o)].sell = @ + Quantity(o)]
        BY <1>1, <3>2
      <4>2. CASE Symbol(o) = s
        BY <2>2, <2>3, <3>2, <4>1, <4>2
      <4>3. CASE Symbol(o) # s
        BY <2>2, <2>3, <3>2, <4>1, <4>3
      <4> QED BY <4>2, <4>3
    <3> QED BY <1>4, <3>1, <3>2
  <2>6. book' \in [Symbols -> [buy : Nat, sell : Nat]]
    BY BookInv DEF TypeOK, Symbols
  <2>7. /\ Total(s, TRUE)' = IF Symbol(o) = s /\ IsBuy(o) = TRUE THEN b.buy + Quantity(o) ELSE b.buy
        /\ Total(s, FALSE)' = IF Symbol(o) = s /\ IsBuy(o) = FALSE THEN b.sell + Quantity(o) ELSE b.sell
    BY <1>5, <2>4
  <2> QED BY <2>5, <2>6, <2>7
<1> QED BY <1>6 DEF BookSums, Symbols

\* A consumer that goes on without booking.
LEMMA WorkKeepsSums ==
  ASSUME PipelineInv, BookSums, NEW c \in Consumers,
         \/ PassLatch(c) \/ Pop(c) \/ PopFails(c) \/ Retry(c) \/ LeaveLoop(c)
         \/ Acquire(c) \/ Release(c) \/ Count(c)
  PROVE  BookSums'
<1> USE DEF PipelineInv
<1>1. /\ book' = book /\ store' = store /\ pc[c] # "record"
      /\ \E b : b # "record" /\ pc' = [pc EXCEPT ![c] = b]
      /\ \A k \in Consumers : k # c => order'[k] = order[k]
  BY DEF PassLatch, Pop, PopFails, Retry, LeaveLoop, Acquire, Release, Count, Goto, sharedVars,
         TypeOK
<1>2. /\ \A k \in Consumers : pc'[k] = "record" <=> pc[k] = "record"
      /\ \A k \in Consumers : pc[k] = "record" => order'[k] = order[k]
  BY <1>1 DEF TypeOK
<1> QED BY <1>1, <1>2, NoneRecords, NothingBooked

LEMMA ArriveKeepsSums ==
  ASSUME PipelineInv, BookSums, NEW c \in Consumers, Arrive(c)
  PROVE  BookSums'
<1> USE DEF PipelineInv
<1>1. book' = book /\ store' = store /\ order' = order /\ pc[c] = "arrive"
  BY DEF Arrive, sharedVars
<1>2. ASSUME NEW k \in Consumers PROVE pc'[k] = "record" <=> pc[k] = "record"
  <2>1. k \in arrived \cup {c} => pc[k] # "record"
    BY <1>1 DEF CountsInv, At
  <2> QED BY <1>1, <2>1 DEF Arrive, TypeOK
<1> QED BY <1>1, <1>2, NoneRecords, NothingBooked

LEMMA RecordKeepsSums ==
  ASSUME PipelineInv, BookSums, NEW c \in Consumers, Record(c)
  PROVE  BookSums'
<1> USE DEF PipelineInv
<1>0. PICK o : o = order[c]
  OBVIOUS
<1>1. /\ pc[c] = "record" /\ pc' = [pc EXCEPT ![c] = "count"] /\ order' = order /\ book' = book
      /\ store' = [store EXCEPT ![o] = @ + 1]
  BY <1>0 DEF Record, Goto
<1>2. o \in Orders /\ store[o] = 0
  BY <1>0, <1>1 DEF PlacesInv, Holders
<1>3. /\ store'[o] = 1 /\ \A x \in Orders : x # o => store'[x] = store[x]
      /\ pc'[c] = "count" /\ \A k \in Consumers : k # c => pc'[k] = pc[k]
  BY <1>1, <1>2 DEF TypeOK
<1>4. Booked' = Booked
  <2>1. {order'[k] : k \in {l \in Consumers : pc'[l] = "record"}} \cup {o}
        = {order[k] : k \in {l \in Consumers : pc[l] = "record"}}
    BY <1>0, <1>1, <1>3
  <2>2. {x \in Orders : store'[x] > 0} = {x \in Orders : store[x] > 0} \cup {o}
    BY <1>2, <1>3
  <2>3. Orders' = Orders
    BY DEF Orders, Producers
  <2> QED BY <2>1, <2>2, <2>3 DEF Booked
<1> QED BY <1>1, <1>4, NothingBooked

LEMMA MainKeepsSums ==
  ASSUME PipelineInv, BookSums, Main
  PROVE  BookSums'
<1> USE DEF PipelineInv
<1>1. CASE ResetAll
  <2>1. store' = EmptyStore /\ book' = EmptyBook /\ pc' = pc /\ ~Running
    BY <1>1 DEF ResetAll, ResetWith, Running
  <2>2. \A c \in Consumers : pc'[c] # "record"
    BY <2>1 DEF PhasesInv
  <2>3. (store = EmptyStore)' /\ (book = EmptyBook)'
    BY <2>1 DEF EmptyStore, EmptyBook, Orders, Producers, Symbols
  <2>4. Booked' = {}
    BY <2>2, <2>3 DEF Booked, EmptyStore
  <2>5. ASSUME NEW s, NEW buy PROVE Total(s, buy)' = 0
    <3>1. Counting(s, buy)' = {}
      BY <2>4 DEF Counting
    <3>2. Total(s, buy)' = MapThenSumSet(Quantity, Counting(s, buy)')
      BY Zenon DEF Total, Counting
    <3> QED BY <3>1, <3>2, TotalOfNone, Zenon
  <2> QED BY <2>1, <2>5 DEF BookSums, EmptyBook
<1>2. CASE StartThreads \/ OpenLatch \/ JoinThreads \/ NextRun
  <2>1. book' = book /\ store' = store /\ order' = order
    BY <1>2 DEF StartThreads, OpenLatch, JoinThreads, NextRun, sharedVars
  <2>2. \A k \in Consumers : pc'[k] = "record" <=> pc[k] = "record"
    BY <1>2 DEF StartThreads, OpenLatch, JoinThreads, NextRun, PhasesInv, Running
  <2> QED BY <2>1, <2>2, NoneRecords, NothingBooked
<1> QED BY <1>1, <1>2 DEF Main

LEMMA SumsStep ==
  ASSUME PipelineInv, BookSums, [Next]_vars
  PROVE  BookSums'
<1>1. CASE Main
  BY <1>1, MainKeepsSums
<1>2. ASSUME UNCHANGED <<book, store, pc, order>> PROVE BookSums'
  <2>1. book' = book /\ store' = store /\ pc' = pc /\ order' = order
    BY <1>2
  <2> QED BY <2>1, NoneRecords, NothingBooked
<1>3. CASE \E p \in Producers : Produce(p)
  BY <1>2, <1>3 DEF Produce, sharedVars
<1>4. CASE UNCHANGED vars
  BY <1>2, <1>4 DEF vars
<1>5. CASE \E c \in Consumers : Consume(c)
  BY <1>5, WorkKeepsSums, BookKeepsSums, RecordKeepsSums, ArriveKeepsSums DEF Consume
<1> QED
  BY <1>1, <1>3, <1>4, <1>5 DEF Next, Exited

\* orderBookMutex and reset_all: the book has, per symbol and side, the
\* quantities of all orders booked in this run; no update is lost, none is
\* made twice and none is carried over.
THEOREM BookAddsUp == Spec => []BookMatchesOrders
<1>1. Init => BookSums
  <2> SUFFICES ASSUME Init PROVE BookSums
    OBVIOUS
  <2>1. store = EmptyStore /\ book = EmptyBook /\ \A c \in Consumers : pc[c] # "record"
    BY DEF Init
  <2> QED BY <2>1, EmptyBookSums
<1>2. PipelineInv /\ BookSums /\ [Next]_vars => BookSums'
  BY SumsStep
<1>3. BookSums => BookMatchesOrders
  BY DEF BookSums, BookMatchesOrders
<1> QED
  BY <1>1, <1>2, <1>3, PipelineInvariant, PTL DEF Spec
=============================================================================
