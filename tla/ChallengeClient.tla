-------------------------- MODULE ChallengeClient --------------------------
(***************************************************************************)
(* challenge/client/client.cpp: the UDP thread puts the packets it hears   *)
(* into udp_packet_queue; worker threads take them out, gather the current *)
(* challenge in variables they share, and answer over TCP.  The shared     *)
(* variables are written under client_data_mutex and read without it.      *)
(*                                                                         *)
(* The queue is the abstract one of BoundedFifo, which                     *)
(* ConcurrentQueueProofs shows the lock-free queue to implement.  A worker *)
(* that has seen the interrupt is taken to see the pushes made before it:  *)
(* processors do the two loads in this order, C++ alone promises it only   *)
(* when the signal is handled by the UDP thread.  A worker of this model   *)
(* is between two accesses to the shared variables; accesses that tear a   *)
(* string or the inside of the map are not modelled.                       *)
(***************************************************************************)
EXTENDS ChallengeFeed

CONSTANTS Workers,       \* worker threads
          QueueCapacity, \* UDP_PACKET_QUEUE_CAPACITY
          Reliable,      \* the network delivers every packet once, in order
          MaxChallenges, \* bound: challenges broadcast
          MaxReceives,   \* bound: packets received
          Dangling,      \* an iterator into a map that has been cleared
          Garbage        \* a price read through it

ASSUME ClientAssumption ==
  /\ QueueCapacity \in Nat \ {0} /\ MaxChallenges \in Nat /\ MaxReceives \in Nat
  /\ Reliable \in BOOLEAN
  /\ Dangling \notin Tickers /\ Garbage \notin Prices

VARIABLES
  feed,     \* what the server has multicast: a sequence of packets
  received, \* bound: packets received
  heard,    \* history: the last packet received, if each came after the one before
  udp,      \* the UDP handler: idle, or about to push the packet it holds
  queue,    \* udp_packet_queue
  data,     \* current_challenge_id, current_target_ticker, current_market_data
  wk,       \* wk[w]: where worker w is and its local variables
  sent,     \* the answers written to the socket
  shutdown, \* shutdown_requested
  targets   \* history: TARGET lines applied

vars == <<feed, received, heard, udp, queue, data, wk, sent, shutdown, targets>>

Idle     == <<>>
NoMarket == <<>>
Jumbled  == -1   \* heard when the network has repeated or reordered packets

Worker(at, pkt, it, id, price) == [at |-> at, pkt |-> pkt, it |-> it, id |-> id, price |-> price]
AtPop == Worker("pop", Idle, Idle, -1, Garbage)

Init ==
  /\ feed = <<>>
  /\ received = 0
  /\ heard = 0
  /\ udp = Idle
  /\ queue = <<>>
  /\ data = [id |-> -1, target |-> <<>>, market |-> NoMarket]
  /\ wk = [w \in Workers |-> AtPop]
  /\ sent = <<>>
  /\ shutdown = FALSE
  /\ targets = 0

(***************************************************************************)
(* The server's side of the multicast                                      *)
(***************************************************************************)

Challenges == {feed[i].n : i \in DOMAIN feed}

\* The server broadcasts its next challenge.
Broadcast ==
  /\ Cardinality(Challenges) < MaxChallenges
  /\ \E t \in Tickers, market \in Markets, layout \in Layouts :
       feed' = feed \o Packets(Cardinality(Challenges) + 1, t, market, layout)
  /\ UNCHANGED <<received, heard, udp, queue, data, wk, sent, shutdown, targets>>

(***************************************************************************)
(* The UDP thread                                                          *)
(***************************************************************************)

\* Which packet is received next: unless the network is reliable, one that
\* was multicast at any time before, perhaps received already.
Deliverable == IF Reliable THEN {received + 1} \cap DOMAIN feed ELSE DOMAIN feed

\* handle_udp_receive up to the test of shutdown_requested.
Receive ==
  /\ udp = Idle /\ ~shutdown
  /\ received < MaxReceives
  /\ \E i \in Deliverable :
       /\ udp' = <<feed[i]>>
       /\ heard' = IF heard # Jumbled /\ i > heard THEN i ELSE Jumbled
  /\ received' = received + 1
  /\ UNCHANGED <<feed, queue, data, wk, sent, shutdown, targets>>

\* The rest of the handler: the result of push is not looked at.
Enqueue ==
  /\ udp # Idle
  /\ queue' = IF Len(queue) < QueueCapacity THEN queue \o udp ELSE queue
  /\ udp' = Idle
  /\ UNCHANGED <<feed, received, heard, data, wk, sent, shutdown, targets>>

\* signal_handler.
Interrupt ==
  /\ ~shutdown
  /\ shutdown' = TRUE
  /\ UNCHANGED <<feed, received, heard, udp, queue, data, wk, sent, targets>>

(***************************************************************************)
(* The workers                                                             *)
(***************************************************************************)

\* worker_thread_function takes a packet; its lines are parsed locally.
Pop(w) ==
  /\ wk[w].at = "pop" /\ queue # <<>>
  /\ queue' = Tail(queue)
  /\ wk' = [wk EXCEPT ![w] = [@ EXCEPT !.at = "apply", !.pkt = <<Head(queue)>>]]
  /\ UNCHANGED <<feed, received, heard, udp, data, sent, shutdown, targets>>

\* Mutant: the queue is not drained.
QuitAtOnce(w) ==
  /\ wk[w].at = "pop" /\ shutdown
  /\ wk' = [wk EXCEPT ![w].at = "stopped"]
  /\ UNCHANGED <<feed, received, heard, udp, queue, data, sent, shutdown, targets>>

\* Its loop ends.
Quit(w) ==
  /\ wk[w].at = "pop" /\ shutdown /\ queue = <<>>
  /\ wk' = [wk EXCEPT ![w].at = "stopped"]
  /\ UNCHANGED <<feed, received, heard, udp, queue, data, sent, shutdown, targets>>

\* A worker that has yet to read the price through its iterator.
HasIterator == {"args", "price"}

\* Clearing the map leaves the iterators of the other workers dangling.
Cleared(workers) ==
  [v \in Workers |-> IF workers[v].at \in HasIterator
                     THEN [workers[v] EXCEPT !.it = Dangling] ELSE workers[v]]

\* The market after the quotes of a packet have been stored.
Stored(quotes, market) ==
  [t \in DOMAIN quotes \cup DOMAIN market |->
     IF t \in DOMAIN quotes THEN quotes[t] ELSE market[t]]

\* Mutants: the old quotes stay; the clearing comes last.
ApplyKeepsMarket(w) ==
  LET pkt   == wk[w].pkt[1]
      isNew == pkt.hasId /\ pkt.n # data.id
  IN  /\ wk[w].at = "apply"
      /\ data' = [id |-> IF isNew THEN pkt.n ELSE data.id,
                  market |-> Stored(pkt.secs, data.market),
                  target |-> IF isNew \/ pkt.target # <<>> THEN pkt.target ELSE data.target]
      /\ wk' = [wk EXCEPT ![w].at = "test", ![w].pkt = Idle]
      /\ targets' = targets + Len(pkt.target)
      /\ UNCHANGED <<feed, received, heard, udp, queue, sent, shutdown>>

ApplyClearsLast(w) ==
  LET pkt   == wk[w].pkt[1]
      isNew == pkt.hasId /\ pkt.n # data.id
  IN  /\ wk[w].at = "apply"
      /\ data' = IF isNew THEN [id |-> pkt.n, target |-> <<>>, market |-> NoMarket]
                 ELSE [data EXCEPT !.market = Stored(pkt.secs, @),
                                   !.target = IF pkt.target = <<>> THEN @ ELSE pkt.target]
      /\ wk' = Cleared([wk EXCEPT ![w].at = "test", ![w].pkt = Idle])
      /\ targets' = targets + Len(pkt.target)
      /\ UNCHANGED <<feed, received, heard, udp, queue, sent, shutdown>>

\* The packet is applied under the mutex: another challenge id clears the
\* market and the target, then the quotes and the target are stored.
Apply(w) ==
  LET pkt    == wk[w].pkt[1]
      isNew  == pkt.hasId /\ pkt.n # data.id
      before == IF isNew THEN [id |-> pkt.n, target |-> <<>>, market |-> NoMarket] ELSE data
      at     == [wk EXCEPT ![w].at = "test", ![w].pkt = Idle]
  IN  /\ wk[w].at = "apply"
      /\ data' = [before EXCEPT !.market = Stored(pkt.secs, @),
                                !.target = IF pkt.target = <<>> THEN @ ELSE pkt.target]
      /\ wk' = IF isNew THEN Cleared(at) ELSE at
      /\ targets' = targets + Len(pkt.target)
      /\ UNCHANGED <<feed, received, heard, udp, queue, sent, shutdown>>

\* Without the mutex: is there a challenge and a target?
Test(w) ==
  /\ wk[w].at = "test"
  /\ wk' = [wk EXCEPT ![w] = IF data.id # -1 /\ data.target # <<>>
                             THEN [@ EXCEPT !.at = "find"] ELSE AtPop]
  /\ UNCHANGED <<feed, received, heard, udp, queue, data, sent, shutdown, targets>>

\* The target read again, looked up in the market.
Quoted == data.target # <<>> /\ data.target[1] \in DOMAIN data.market

Find(w) ==
  /\ wk[w].at = "find"
  /\ wk' = [wk EXCEPT ![w] = IF Quoted THEN [@ EXCEPT !.at = "args", !.it = data.target[1]]
                                       ELSE AtPop]
  /\ UNCHANGED <<feed, received, heard, udp, queue, data, sent, shutdown, targets>>

\* The arguments of send_tcp_response: the id and the price are copied, in an
\* order the compiler chooses; the target is passed by reference.  After an
\* interrupt the call returns.
Called == IF shutdown THEN "reset" ELSE "send"

\* Mutant: after an interrupt the call waits.
ReadIdWaits(w) ==
  /\ wk[w].at \in {"args", "id"} /\ ~shutdown
  /\ wk' = [wk EXCEPT ![w] = [@ EXCEPT !.at = IF wk[w].at = "args" THEN "price" ELSE Called,
                                      !.id = data.id]]
  /\ UNCHANGED <<feed, received, heard, udp, queue, data, sent, shutdown, targets>>

ReadId(w) ==
  /\ wk[w].at \in {"args", "id"}
  /\ wk' = [wk EXCEPT ![w] = [@ EXCEPT !.at = IF wk[w].at = "args" THEN "price" ELSE Called,
                                      !.id = data.id]]
  /\ UNCHANGED <<feed, received, heard, udp, queue, data, sent, shutdown, targets>>

ReadPrice(w) ==
  /\ wk[w].at \in HasIterator
  /\ LET price == IF wk[w].it = Dangling THEN Garbage ELSE data.market[wk[w].it]
     IN  wk' = [wk EXCEPT ![w] = Worker(IF @.at = "args" THEN "id" ELSE Called,
                                        Idle, Idle, @.id, price)]
  /\ UNCHANGED <<feed, received, heard, udp, queue, data, sent, shutdown, targets>>

\* send_tcp_response formats its arguments and writes the line.
Send(w) ==
  /\ wk[w].at = "send"
  /\ sent' = Append(sent, [by |-> w, id |-> wk[w].id, ticker |-> data.target,
                           price |-> wk[w].price])
  /\ wk' = [wk EXCEPT ![w].at = "reset"]
  /\ UNCHANGED <<feed, received, heard, udp, queue, data, shutdown, targets>>

\* Mutant: the target stays.
ResetMarketOnly(w) ==
  /\ wk[w].at = "reset"
  /\ data' = [data EXCEPT !.market = NoMarket]
  /\ wk' = Cleared([wk EXCEPT ![w] = AtPop])
  /\ UNCHANGED <<feed, received, heard, udp, queue, sent, shutdown, targets>>

\* The market and the target are cleared under the mutex.
Reset(w) ==
  /\ wk[w].at = "reset"
  /\ data' = [data EXCEPT !.target = <<>>, !.market = NoMarket]
  /\ wk' = Cleared([wk EXCEPT ![w] = AtPop])
  /\ UNCHANGED <<feed, received, heard, udp, queue, sent, shutdown, targets>>

Process(w) == \/ Pop(w) \/ Apply(w) \/ Test(w) \/ Find(w)
              \/ ReadId(w) \/ ReadPrice(w) \/ Send(w) \/ Reset(w)

Next == \/ Broadcast \/ Receive \/ Enqueue \/ Interrupt
        \/ \E w \in Workers : Process(w) \/ Quit(w)

Spec == Init /\ [][Next]_vars

\* The threads run; nothing obliges the server or the user to act.
Fairness == WF_vars(Enqueue) /\ \A w \in Workers : WF_vars(Process(w) \/ Quit(w))

FairSpec == Spec /\ Fairness

-----------------------------------------------------------------------------
(***************************************************************************)
(* Properties                                                              *)
(***************************************************************************)

\* Answer a is what the server accepts for the challenge it names: the
\* challenge's own target and the target's own quote.
RightAnswer(a) ==
  \E i, j \in DOMAIN feed :
    /\ feed[i].n = a.id /\ feed[i].target # <<>> /\ feed[i].target = a.ticker
    /\ feed[j].n = a.id /\ a.ticker[1] \in DOMAIN feed[j].secs
    /\ feed[j].secs[a.ticker[1]] = a.price

\* process_queued_message answers a challenge with its own target and quote
\* ("if we now have both a challenge and the target's quote").
AnswersAreRight == \A i \in DOMAIN sent : RightAnswer(sent[i])

AnswersBy(w) == {i \in DOMAIN sent : sent[i].by = w}

\* However the workers interleave, none of them answers more often than a
\* TARGET line has been applied: its own reset takes the target away.
AnswersPerWorker == \A w \in Workers : Cardinality(AnswersBy(w)) <= targets

Stopped == \A w \in Workers : wk[w].at = "stopped"

\* The handler that passed its shutdown test may still push after the last
\* worker saw an empty queue, so one packet can be left unprocessed; more
\* cannot.
AtMostOneLeft == Stopped => Len(queue) + Len(udp) <= 1

\* After an interrupt every worker drains the queue and stops.
WorkersStop == shutdown ~> Stopped
=============================================================================
