----------------------- MODULE ChallengeClientProofs -----------------------
(***************************************************************************)
(* Proofs about ChallengeClient, for any number of workers, any queue and  *)
(* any feed: how often a worker answers, and what an interrupt leaves in   *)
(* the queue.                                                              *)
(***************************************************************************)
EXTENDS ChallengeClient, FiniteSetTheorems, TLAPS

-----------------------------------------------------------------------------
(***************************************************************************)
(* Types                                                                   *)
(***************************************************************************)

IsSequence(s) == \E S : s \in Seq(S)

Targets == {<<>>} \cup {<<t>> : t \in Tickers}

AnyPacket == [n : Int, secs : UNION {[quoted -> Prices] : quoted \in SUBSET Tickers},
              hasId : BOOLEAN, target : Targets]

Fields == {"at", "pkt", "it", "id", "price"}
Reading == {"args", "id", "price"}
Places == {"pop", "apply", "test", "find", "send", "reset", "stopped"} \cup Reading

WorkerType(k) ==
  /\ DOMAIN k = Fields /\ k.at \in Places
  /\ k.at = "apply" => k.pkt[1] \in AnyPacket

TypeInv ==
  /\ feed \in Seq(AnyPacket) /\ udp \in Seq(AnyPacket) /\ queue \in Seq(AnyPacket)
  /\ Len(udp) <= 1
  /\ IsSequence(sent) /\ targets \in Nat
  /\ DOMAIN data = {"id", "target", "market"}
  /\ wk = [w \in Workers |-> wk[w]] /\ \A w \in Workers : WorkerType(wk[w])

LEMMA PacketsType ==
  ASSUME NEW n \in Int, NEW t \in Tickers, NEW market \in Markets, NEW layout \in Layouts
  PROVE  Packets(n, t, market, layout) \in Seq(AnyPacket)
<1>1. layout \in Seq(SUBSET (Tickers \cup {IdLine, TargetLine})) /\ market \in [Tickers -> Prices]
  BY FeedAssumption
<1>2. ASSUME NEW lines PROVE Packet(n, t, market, lines) \in AnyPacket
  <2>1. [x \in lines \cap Tickers |-> market[x]] \in [lines \cap Tickers -> Prices]
    BY <1>1
  <2>2. [x \in lines \cap Tickers |-> market[x]]
          \in UNION {[quoted -> Prices] : quoted \in SUBSET Tickers}
    BY <2>1
  <2>3. (IF TargetLine \in lines THEN <<t>> ELSE <<>>) \in Targets
    BY DEF Targets
  <2>4. (IdLine \in lines) \in BOOLEAN
    OBVIOUS
  <2> QED
    BY <2>2, <2>3, <2>4 DEF Packet, AnyPacket
<1>3. DOMAIN layout = 1 .. Len(layout) /\ Len(layout) \in Nat
  BY <1>1
<1> QED
  BY <1>2, <1>3 DEF Packets

-----------------------------------------------------------------------------
(***************************************************************************)
(* A worker's step                                                         *)
(***************************************************************************)

\* Worker w goes to one of the places; the others stay where they are, with
\* what they hold, though an iterator may be left dangling.
Goes(w, places) ==
  /\ wk' = [v \in Workers |-> wk'[v]]
  /\ DOMAIN wk'[w] = Fields /\ wk'[w].at \in places
  /\ \A v \in Workers \ {w} :
       DOMAIN wk'[v] = Fields /\ wk'[v].at = wk[v].at /\ wk'[v].pkt = wk[v].pkt

LEMMA EveryoneKeepsPlace ==
  ASSUME TypeInv, NEW w \in Workers, NEW k, NEW places, DOMAIN k = Fields, k.at \in places,
         \/ wk' = [wk EXCEPT ![w] = k]
         \/ wk' = Cleared([wk EXCEPT ![w] = k])
  PROVE  Goes(w, places)
<1> DEFINE f == [wk EXCEPT ![w] = k]
<1>1. /\ f = [v \in Workers |-> f[v]] /\ f[w] = k
      /\ \A v \in Workers \ {w} : f[v] = wk[v]
  BY DEF TypeInv
<1>2. \A v \in Workers : DOMAIN f[v] = Fields
  BY <1>1 DEF TypeInv, WorkerType
<1>3. CASE wk' = f
  BY <1>1, <1>2, <1>3 DEF Goes
<1>4. CASE wk' = Cleared(f)
  <2> HIDE DEF f
  <2>1. \A v \in Workers :
          wk'[v] = IF f[v].at \in HasIterator THEN [f[v] EXCEPT !.it = Dangling] ELSE f[v]
    BY <1>4 DEF Cleared
  <2>2. ASSUME NEW v \in Workers
        PROVE  DOMAIN wk'[v] = Fields /\ wk'[v].at = f[v].at /\ wk'[v].pkt = f[v].pkt
    BY <1>2, <2>1 DEF Fields
  <2>3. wk' = [v \in Workers |-> wk'[v]]
    BY <1>4 DEF Cleared
  <2> QED
    BY <1>1, <2>2, <2>3 DEF Goes
<1> QED
  BY <1>3, <1>4

\* Back at the loop's pop.
LEMMA AtPopFields == DOMAIN AtPop = Fields /\ AtPop.at = "pop"
BY DEF AtPop, Worker, Fields

LEMMA PopGoes ==
  ASSUME TypeInv, NEW w \in Workers, Pop(w)
  PROVE  Goes(w, {"apply"}) /\ wk[w].at = "pop" /\ wk'[w].pkt[1] \in AnyPacket
<1> DEFINE k == [wk[w] EXCEPT !.at = "apply", !.pkt = <<Head(queue)>>]
<1>1. /\ DOMAIN k = Fields /\ k.at = "apply" /\ k.pkt[1] = Head(queue)
  BY DEF TypeInv, WorkerType, Fields
<1>2. wk' = [wk EXCEPT ![w] = k] /\ wk[w].at = "pop" /\ queue # <<>>
  BY DEF Pop
<1> HIDE DEF k
<1>3. Goes(w, {"apply"})
  BY <1>1, <1>2, EveryoneKeepsPlace
<1>4. wk'[w] = k
  BY <1>2 DEF TypeInv
<1>5. Head(queue) \in AnyPacket
  BY <1>2 DEF TypeInv
<1> QED
  BY <1>1, <1>2, <1>3, <1>4, <1>5

LEMMA QuitGoes ==
  ASSUME TypeInv, NEW w \in Workers, Quit(w)
  PROVE  Goes(w, {"stopped"}) /\ wk[w].at = "pop"
<1> DEFINE k == [wk[w] EXCEPT !.at = "stopped"]
<1>1. DOMAIN k = Fields /\ k.at = "stopped"
  BY DEF TypeInv, WorkerType, Fields
<1>2. wk' = [wk EXCEPT ![w] = k] /\ wk[w].at = "pop"
  BY DEF Quit
<1> QED
  BY <1>1, <1>2, EveryoneKeepsPlace

LEMMA ApplyGoes ==
  ASSUME TypeInv, NEW w \in Workers, Apply(w)
  PROVE  Goes(w, {"test"}) /\ wk[w].at = "apply"
<1> DEFINE f == [wk EXCEPT ![w].at = "test", ![w].pkt = Idle]
           k == [[wk[w] EXCEPT !.at = "test"] EXCEPT !.pkt = Idle]
<1>1. DOMAIN k = Fields /\ k.at = "test"
  BY DEF TypeInv, WorkerType, Fields
<1>2. wk[w].at = "apply" /\ (wk' = f \/ wk' = Cleared(f))
  BY DEF Apply
<1>3. f = [wk EXCEPT ![w] = k]
  BY DEF TypeInv
<1> HIDE DEF k
<1> QED
  BY <1>1, <1>2, <1>3, EveryoneKeepsPlace

\* In particular a step that only goes to k's place.
LEMMA GoesThere ==
  ASSUME TypeInv, NEW w \in Workers, NEW k, NEW places, DOMAIN k = Fields, k.at \in places,
         wk' = [wk EXCEPT ![w] = k]
  PROVE  Goes(w, places)
<1>1. wk' = [wk EXCEPT ![w] = k] \/ wk' = Cleared([wk EXCEPT ![w] = k])
  OBVIOUS
<1> QED
  BY <1>1, EveryoneKeepsPlace

LEMMA TestGoes ==
  ASSUME TypeInv, NEW w \in Workers, Test(w)
  PROVE  /\ Goes(w, {"find", "pop"}) /\ wk[w].at = "test"
         /\ wk'[w].at = "find" => data.target # <<>>
<1> DEFINE k == [wk[w] EXCEPT !.at = "find"]
<1>1. DOMAIN k = Fields /\ k.at = "find"
  BY DEF TypeInv, WorkerType, Fields
<1>2. /\ wk[w].at = "test"
      /\ wk' = [wk EXCEPT ![w] = IF data.id # -1 /\ data.target # <<>> THEN k ELSE AtPop]
  BY DEF Test
<1> HIDE DEF k
<1>3. Goes(w, {"find", "pop"})
  <2>1. CASE wk' = [wk EXCEPT ![w] = k]
    <3>1. k.at \in {"find", "pop"}
      BY <1>1
    <3> QED
      BY <1>1, <2>1, <3>1, GoesThere
  <2>2. CASE wk' = [wk EXCEPT ![w] = AtPop]
    <3>1. AtPop.at \in {"find", "pop"} /\ DOMAIN AtPop = Fields
      BY AtPopFields
    <3> QED
      BY <2>2, <3>1, GoesThere
  <2>3. CASE data.id # -1 /\ data.target # <<>>
    BY <1>2, <2>1, <2>3
  <2>4. CASE ~(data.id # -1 /\ data.target # <<>>)
    BY <1>2, <2>2, <2>4
  <2> QED
    BY <2>3, <2>4
<1>4. wk'[w] = IF data.id # -1 /\ data.target # <<>> THEN k ELSE AtPop
  BY <1>2 DEF TypeInv
<1> QED
  BY <1>2, <1>3, <1>4, AtPopFields

LEMMA FindGoes ==
  ASSUME TypeInv, NEW w \in Workers, Find(w)
  PROVE  Goes(w, {"args", "pop"}) /\ wk[w].at = "find"
<1> DEFINE k == [wk[w] EXCEPT !.at = "args", !.it = data.target[1]]
<1>1. DOMAIN k = Fields /\ k.at = "args"
  BY DEF TypeInv, WorkerType, Fields
<1>2. wk[w].at = "find" /\ wk' = [wk EXCEPT ![w] = IF Quoted THEN k ELSE AtPop]
  BY DEF Find
<1> HIDE DEF k
<1>3. ASSUME wk' = [wk EXCEPT ![w] = k] PROVE Goes(w, {"args", "pop"})
  <2>1. k.at \in {"args", "pop"}
    BY <1>1
  <2> QED
    BY <1>1, <1>3, <2>1, GoesThere
<1>4. ASSUME wk' = [wk EXCEPT ![w] = AtPop] PROVE Goes(w, {"args", "pop"})
  <2>1. AtPop.at \in {"args", "pop"} /\ DOMAIN AtPop = Fields
    BY AtPopFields
  <2> QED
    BY <1>4, <2>1, GoesThere
<1>5. CASE Quoted
  BY <1>2, <1>3, <1>5
<1>6. CASE ~Quoted
  BY <1>2, <1>4, <1>6
<1> QED
  BY <1>5, <1>6

LEMMA ReadIdGoes ==
  ASSUME TypeInv, NEW w \in Workers, ReadId(w)
  PROVE  Goes(w, {"id", "price", "send", "reset"}) /\ wk[w].at \in Reading
<1> DEFINE place == IF wk[w].at = "args" THEN "price" ELSE Called
           k     == [wk[w] EXCEPT !.at = place, !.id = data.id]
<1>1. DOMAIN k = Fields /\ k.at \in {"id", "price", "send", "reset"}
  <2>1. place \in {"id", "price", "send", "reset"}
    BY DEF Called
  <2>2. DOMAIN wk[w] = Fields
    BY DEF TypeInv, WorkerType
  <2> HIDE DEF place
  <2> QED
    BY <2>1, <2>2 DEF Fields
<1>2. wk[w].at \in Reading
  BY DEF ReadId, Reading
<1>3. wk' = [wk EXCEPT ![w] = k]
  BY DEF ReadId
<1> HIDE DEF k
<1> QED
  BY <1>1, <1>2, <1>3, GoesThere

LEMMA ReadPriceGoes ==
  ASSUME TypeInv, NEW w \in Workers, ReadPrice(w)
  PROVE  Goes(w, {"id", "price", "send", "reset"}) /\ wk[w].at \in Reading
<1>1. PICK price :
        wk' = [wk EXCEPT ![w] = Worker(IF @.at = "args" THEN "id" ELSE Called,
                                       Idle, Idle, @.id, price)]
  BY DEF ReadPrice
<1> DEFINE k == Worker(IF wk[w].at = "args" THEN "id" ELSE Called, Idle, Idle, wk[w].id, price)
<1>2. DOMAIN k = Fields /\ k.at \in {"id", "price", "send", "reset"}
  BY DEF Worker, Fields, Called
<1>3. wk' = [wk EXCEPT ![w] = k] /\ wk[w].at \in Reading
  BY <1>1 DEF ReadPrice, Reading, HasIterator, TypeInv
<1> HIDE DEF k
<1> QED
  BY <1>2, <1>3, GoesThere

LEMMA SendGoes ==
  ASSUME TypeInv, NEW w \in Workers, Send(w)
  PROVE  Goes(w, {"reset"}) /\ wk[w].at = "send"
<1> DEFINE k == [wk[w] EXCEPT !.at = "reset"]
<1>1. DOMAIN k = Fields /\ k.at = "reset"
  BY DEF TypeInv, WorkerType, Fields
<1>2. wk' = [wk EXCEPT ![w] = k] /\ wk[w].at = "send"
  BY DEF Send
<1> QED
  BY <1>1, <1>2, EveryoneKeepsPlace

LEMMA ResetGoes ==
  ASSUME TypeInv, NEW w \in Workers, Reset(w)
  PROVE  Goes(w, {"pop"}) /\ wk[w].at = "reset"
BY AtPopFields, EveryoneKeepsPlace DEF Reset

LEMMA SequencesIn ==
  ASSUME NEW S, NEW T, NEW s \in Seq(S)
  PROVE  s \in Seq(S \cup T)
<1>1. /\ Len(s) \in Nat /\ s = [i \in 1 .. Len(s) |-> s[i]]
      /\ \A i \in 1 .. Len(s) : s[i] \in S \cup T
  OBVIOUS
<1> QED
  BY <1>1

LEMMA WorkersType ==
  ASSUME TypeInv, NEW w \in Workers, NEW places \in SUBSET Places, Goes(w, places),
         wk'[w].at = "apply" => wk'[w].pkt[1] \in AnyPacket
  PROVE  /\ wk' = [v \in Workers |-> wk'[v]]
         /\ \A v \in Workers : WorkerType(wk[v])'
<1>1. ASSUME NEW v \in Workers PROVE WorkerType(wk[v])'
  BY DEF TypeInv, WorkerType, Goes
<1> QED
  BY <1>1 DEF Goes

LEMMA TypeInvInit == Init => TypeInv
<1> SUFFICES ASSUME Init PROVE TypeInv
  OBVIOUS
<1>1. WorkerType(AtPop)
  BY DEF WorkerType, AtPop, Worker, Fields, Places
<1> QED
  BY <1>1 DEF Init, TypeInv, Idle, IsSequence

LEMMA TypeInvStep ==
  ASSUME TypeInv, [Next]_vars
  PROVE  TypeInv'
<1>1. CASE Broadcast
  <2> DEFINE n == Cardinality(Challenges) + 1
  <2>1. n \in Int
    <3>1. IsFiniteSet(DOMAIN feed)
      <4>1. DOMAIN feed = 1 .. Len(feed) /\ Len(feed) \in Nat
        BY DEF TypeInv
      <4> QED
        BY <4>1, FS_Interval
    <3> DEFINE f == [i \in DOMAIN feed |-> feed[i].n]
    <3>2. f \in Surjection(DOMAIN feed, Challenges)
      BY DEF Surjection, Challenges
    <3> QED
      BY <3>1, <3>2, FS_Surjection, FS_CardinalityType
  <2>2. PICK t \in Tickers, market \in Markets, layout \in Layouts :
          feed' = feed \o Packets(n, t, market, layout)
    BY <1>1 DEF Broadcast
  <2>3. feed' \in Seq(AnyPacket)
    BY <2>1, <2>2, PacketsType DEF TypeInv
  <2> QED
    BY <1>1, <2>3 DEF Broadcast, TypeInv, WorkerType
<1>2. CASE Receive
  <2>1. PICK i \in DOMAIN feed : udp' = <<feed[i]>>
    BY <1>2 DEF Receive, Deliverable
  <2> QED
    BY <1>2, <2>1 DEF Receive, TypeInv, WorkerType
<1>3. CASE Enqueue
  BY <1>3 DEF Enqueue, TypeInv, WorkerType, Idle
<1>4. CASE Interrupt
  BY <1>4 DEF Interrupt, TypeInv, WorkerType
<1>5. ASSUME NEW w \in Workers, Process(w) \/ Quit(w) PROVE TypeInv'
  <2>1. CASE Pop(w)
    <3>1. queue' \in Seq(AnyPacket)
      BY <2>1 DEF Pop, TypeInv
    <3> QED
      BY <2>1, <3>1, PopGoes, WorkersType DEF Pop, TypeInv, Places
  <2>2. CASE Apply(w)
    <3> DEFINE pkt    == wk[w].pkt[1]
               before == IF pkt.hasId /\ pkt.n # data.id
                         THEN [id |-> pkt.n, target |-> <<>>, market |-> NoMarket] ELSE data
    <3>1. /\ data' = [before EXCEPT !.market = Stored(pkt.secs, @),
                                    !.target = IF pkt.target = <<>> THEN @ ELSE pkt.target]
          /\ targets' = targets + Len(pkt.target)
          /\ UNCHANGED <<feed, udp, queue, sent>>
      BY <2>2 DEF Apply
    <3>2. DOMAIN before = {"id", "target", "market"}
      BY DEF TypeInv
    <3>3. DOMAIN data' = {"id", "target", "market"}
      <4> HIDE DEF before
      <4> QED
        BY <3>1, <3>2
    <3>4. Len(pkt.target) \in Nat
      <4>1. pkt \in AnyPacket
        BY <2>2 DEF Apply, TypeInv, WorkerType
      <4> QED
        BY <4>1 DEF AnyPacket, Targets
    <3>5. targets' \in Nat
      <4>1. targets \in Nat
        BY DEF TypeInv
      <4> HIDE DEF pkt, before
      <4> QED
        BY <3>1, <3>4, <4>1
    <3>6. Goes(w, {"test"}) /\ wk'[w].at = "test"
      BY <2>2, ApplyGoes DEF Goes
    <3>7. wk' = [v \in Workers |-> wk'[v]] /\ \A v \in Workers : WorkerType(wk[v])'
      BY <3>6, WorkersType DEF Places
    <3> QED
      BY <3>1, <3>3, <3>5, <3>7 DEF TypeInv
  <2>3. CASE Test(w)
    BY <2>3, TestGoes, WorkersType DEF Test, TypeInv, Places, Goes
  <2>4. CASE Find(w)
    BY <2>4, FindGoes, WorkersType DEF Find, TypeInv, Places, Reading, Goes
  <2>5. CASE ReadId(w) \/ ReadPrice(w)
    <3>1. UNCHANGED <<feed, udp, queue, data, sent, targets>>
      BY <2>5 DEF ReadId, ReadPrice
    <3>2. Goes(w, {"id", "price", "send", "reset"})
      BY <2>5, ReadIdGoes, ReadPriceGoes
    <3> QED
      BY <3>1, <3>2, WorkersType DEF TypeInv, Places, Reading, Goes
  <2>6. CASE Send(w)
    <3>1. IsSequence(sent')
      <4>1. PICK S : sent \in Seq(S)
        BY DEF TypeInv, IsSequence
      <4>2. PICK a : sent' = Append(sent, a)
        BY <2>6 DEF Send
      <4>3. sent' \in Seq(S \cup {a})
        <5>1. sent \in Seq(S \cup {a})
          BY <4>1, SequencesIn
        <5> QED
          BY <4>2, <5>1
      <4> QED
        BY <4>3 DEF IsSequence
    <3> QED
      BY <2>6, <3>1, SendGoes, WorkersType DEF Send, TypeInv, Places, Goes
  <2>7. CASE Reset(w)
    BY <2>7, ResetGoes, WorkersType DEF Reset, TypeInv, Places, Goes
  <2>8. CASE Quit(w)
    BY <2>8, QuitGoes, WorkersType DEF Quit, TypeInv, Places, Goes
  <2> QED
    BY <1>5, <2>1, <2>2, <2>3, <2>4, <2>5, <2>6, <2>7, <2>8 DEF Process
<1>6. CASE UNCHANGED vars
  BY <1>6 DEF vars, TypeInv, WorkerType
<1> QED
  BY <1>1, <1>2, <1>3, <1>4, <1>5, <1>6 DEF Next

-----------------------------------------------------------------------------
(***************************************************************************)
(* What an interrupt leaves in the queue                                   *)
(***************************************************************************)

\* Once a worker has stopped, the handler can push what it holds and no more.
LeftInv ==
  (\E w \in Workers : wk[w].at = "stopped") => shutdown /\ Len(queue) + Len(udp) <= 1

LEMMA LeftInvStep ==
  ASSUME TypeInv, LeftInv, [Next]_vars
  PROVE  LeftInv'
<1>1. /\ Len(queue) \in Nat /\ Len(udp) \in Nat /\ Len(udp) <= 1
      /\ queue \in Seq(AnyPacket) /\ udp \in Seq(AnyPacket)
  BY DEF TypeInv
<1>2. ASSUME wk' = wk, queue' = queue, udp' = udp, shutdown' = shutdown PROVE LeftInv'
  BY <1>2 DEF LeftInv
<1>3. CASE Receive
  BY <1>3 DEF Receive, LeftInv
<1>4. CASE Enqueue
  <2>1. Len(queue') + Len(udp') <= Len(queue) + Len(udp)
    <3>1. Len(queue') <= Len(queue) + Len(udp) /\ Len(udp') = 0
      <4>1. Len(queue \o udp) = Len(queue) + Len(udp)
        BY <1>1
      <4> QED
        BY <1>1, <1>4, <4>1 DEF Enqueue, Idle
    <3>2. Len(queue') \in Nat
      BY <1>1, <1>4 DEF Enqueue
    <3> QED
      BY <1>1, <3>1, <3>2
  <2>2. Len(queue') \in Nat /\ Len(udp') \in Nat
    BY <1>1, <1>4 DEF Enqueue, Idle
  <2>3. wk' = wk /\ shutdown' = shutdown
    BY <1>4 DEF Enqueue
  <2> QED
    BY <1>1, <2>1, <2>2, <2>3 DEF LeftInv
<1>5. CASE Interrupt
  BY <1>5 DEF Interrupt, LeftInv
<1>6. ASSUME NEW w \in Workers, Quit(w) PROVE LeftInv'
  <2>1. shutdown /\ queue = <<>> /\ UNCHANGED <<udp, queue, shutdown>>
    BY <1>6 DEF Quit
  <2>2. Len(queue) = 0
    BY <2>1
  <2> QED
    BY <1>1, <2>1, <2>2 DEF LeftInv
<1>7. ASSUME NEW w \in Workers, Process(w) PROVE LeftInv'
  <2>1. \E places : Goes(w, places) /\ "stopped" \notin places
    <3>1. Goes(w, {"apply"}) \/ Goes(w, {"test"}) \/ Goes(w, {"find", "pop"})
            \/ Goes(w, {"args", "pop"}) \/ Goes(w, {"id", "price", "send", "reset"})
            \/ Goes(w, {"reset"}) \/ Goes(w, {"pop"})
      BY <1>7, PopGoes, ApplyGoes, TestGoes, FindGoes, ReadIdGoes, ReadPriceGoes, SendGoes,
         ResetGoes DEF Process
    <3> QED
      BY <3>1
  <2>2. (\E v \in Workers : wk'[v].at = "stopped") => \E v \in Workers : wk[v].at = "stopped"
    BY <2>1 DEF Goes
  <2>3. shutdown' = shutdown /\ udp' = udp
    BY <1>7 DEF Process, Pop, Apply, Test, Find, ReadId, ReadPrice, Send, Reset
  <2>4. queue' = queue \/ (queue # <<>> /\ queue' = Tail(queue))
    BY <1>7 DEF Process, Pop, Apply, Test, Find, ReadId, ReadPrice, Send, Reset
  <2>5. Len(queue') <= Len(queue) /\ Len(queue') \in Nat
    BY <1>1, <2>4
  <2> QED
    BY <1>1, <2>2, <2>3, <2>5 DEF LeftInv
<1>8. CASE Broadcast \/ UNCHANGED vars
  BY <1>2, <1>8 DEF Broadcast, vars
<1> QED
  BY <1>3, <1>4, <1>5, <1>6, <1>7, <1>8 DEF Next

\* However many workers there are and whenever the interrupt comes, at most
\* one packet is left unprocessed: the one with which handle_udp_receive had
\* passed its test of shutdown_requested.
THEOREM OnePacketLeft ==
  ASSUME Workers # {}
  PROVE  Spec => []AtMostOneLeft
<1>1. Init => TypeInv /\ LeftInv
  <2> SUFFICES ASSUME Init PROVE LeftInv
    BY TypeInvInit
  <2> QED
    BY DEF Init, LeftInv, AtPop, Worker
<1>2. TypeInv /\ LeftInv /\ [Next]_vars => (TypeInv /\ LeftInv)'
  BY TypeInvStep, LeftInvStep
<1>3. LeftInv => AtMostOneLeft
  BY DEF LeftInv, AtMostOneLeft, Stopped
<1> QED
  BY <1>1, <1>2, <1>3, PTL DEF Spec

-----------------------------------------------------------------------------
(***************************************************************************)
(* How often a worker answers                                              *)
(***************************************************************************)

\* A worker that has answered has still to reset; one that may answer has a
\* TARGET line left to answer.
MayAnswer(w) ==
  /\ wk[w].at # "reset"
  /\ data.target # <<>> \/ wk[w].at \in {"find", "send"} \cup Reading

CountInv ==
  \A w \in Workers :
    /\ Cardinality(AnswersBy(w)) <= targets
    /\ MayAnswer(w) => Cardinality(AnswersBy(w)) + 1 <= targets

LEMMA AnswersFinite ==
  ASSUME TypeInv, NEW w
  PROVE  IsFiniteSet(AnswersBy(w)) /\ Cardinality(AnswersBy(w)) \in Nat
<1>1. DOMAIN sent = 1 .. Len(sent) /\ Len(sent) \in Nat
  BY DEF TypeInv, IsSequence
<1>2. IsFiniteSet(DOMAIN sent)
  BY <1>1, FS_Interval
<1>3. AnswersBy(w) \in SUBSET DOMAIN sent
  BY DEF AnswersBy
<1> QED
  BY <1>2, <1>3, FS_Subset, FS_CardinalityType

\* A step that sends nothing.
LEMMA NothingSent ==
  ASSUME TypeInv, CountInv, sent' = sent, targets' \in Nat, targets <= targets',
         \A w \in Workers : \/ MayAnswer(w)' => MayAnswer(w)
                            \/ targets + 1 <= targets'
  PROVE  CountInv'
<1>1. ASSUME NEW w \in Workers
      PROVE  /\ Cardinality(AnswersBy(w))' <= targets'
             /\ MayAnswer(w)' => Cardinality(AnswersBy(w))' + 1 <= targets'
  <2>1. Cardinality(AnswersBy(w))' = Cardinality(AnswersBy(w))
    BY DEF AnswersBy
  <2>2. Cardinality(AnswersBy(w)) \in Nat /\ targets \in Nat
    BY AnswersFinite DEF TypeInv
  <2>3. /\ Cardinality(AnswersBy(w)) <= targets
        /\ MayAnswer(w) => Cardinality(AnswersBy(w)) + 1 <= targets
    BY DEF CountInv
  <2>4. (MayAnswer(w)' => MayAnswer(w)) \/ targets + 1 <= targets'
    OBVIOUS
  <2> QED
    BY <2>1, <2>2, <2>3, <2>4
<1> QED
  BY <1>1 DEF CountInv

LEMMA SendCount ==
  ASSUME TypeInv, CountInv, NEW w \in Workers, Send(w)
  PROVE  CountInv'
<1> DEFINE a == [by |-> w, id |-> wk[w].id, ticker |-> data.target, price |-> wk[w].price]
<1>1. /\ wk[w].at = "send" /\ sent' = Append(sent, a) /\ UNCHANGED <<data, targets>>
      /\ Goes(w, {"reset"})
  BY SendGoes DEF Send
<1>2. a.by = w
  OBVIOUS
<1> HIDE DEF a
<1>3. /\ DOMAIN sent = 1 .. Len(sent) /\ Len(sent) \in Nat
      /\ DOMAIN sent' = 1 .. Len(sent) + 1 /\ sent'[Len(sent) + 1] = a
      /\ \A i \in DOMAIN sent : sent'[i] = sent[i]
  <2>1. PICK S : sent \in Seq(S)
    BY DEF TypeInv, IsSequence
  <2>2. sent \in Seq(S \cup {a})
    BY <2>1, SequencesIn
  <2> QED
    BY <1>1, <2>2
<1>4. AnswersBy(w)' = AnswersBy(w) \cup {Len(sent) + 1} /\ Len(sent) + 1 \notin AnswersBy(w)
  BY <1>2, <1>3 DEF AnswersBy
<1>5. \A v \in Workers \ {w} : AnswersBy(v)' = AnswersBy(v)
  BY <1>2, <1>3 DEF AnswersBy
<1>6. /\ Cardinality(AnswersBy(w))' = Cardinality(AnswersBy(w)) + 1
      /\ Cardinality(AnswersBy(w)) + 1 <= targets
      /\ ~MayAnswer(w)'
  <2>1. Cardinality(AnswersBy(w))' = Cardinality(AnswersBy(w)) + 1
    BY <1>4, AnswersFinite, FS_AddElement
  <2>2. MayAnswer(w) /\ ~MayAnswer(w)'
    BY <1>1 DEF MayAnswer, Goes
  <2> QED
    BY <2>1, <2>2 DEF CountInv
<1>7. \A v \in Workers \ {w} : MayAnswer(v)' => MayAnswer(v)
  BY <1>1 DEF MayAnswer, Goes
<1>8. ASSUME NEW v \in Workers
      PROVE  /\ Cardinality(AnswersBy(v))' <= targets'
             /\ MayAnswer(v)' => Cardinality(AnswersBy(v))' + 1 <= targets'
  <2>1. CASE v = w
    BY <1>1, <1>6, <2>1
  <2>2. CASE v # w
    BY <1>1, <1>5, <1>7, <2>2 DEF CountInv
  <2> QED
    BY <2>1, <2>2
<1> QED
  BY <1>8 DEF CountInv

\* Storing a target comes with a TARGET line; clearing the map moves nobody.
LEMMA ApplyCount ==
  ASSUME TypeInv, CountInv, NEW w \in Workers, Apply(w)
  PROVE  CountInv'
<1> DEFINE pkt    == wk[w].pkt[1]
           before == IF pkt.hasId /\ pkt.n # data.id
                     THEN [id |-> pkt.n, target |-> <<>>, market |-> NoMarket] ELSE data
<1>1. /\ data' = [before EXCEPT !.market = Stored(pkt.secs, @),
                                !.target = IF pkt.target = <<>> THEN @ ELSE pkt.target]
      /\ targets' = targets + Len(pkt.target)
      /\ sent' = sent
  BY DEF Apply
<1>2. targets \in Nat /\ pkt.target \in Targets
  BY DEF Apply, TypeInv, WorkerType, AnyPacket
<1>3. DOMAIN before = {"id", "target", "market"} /\ (before.target # <<>> => data.target # <<>>)
  BY DEF TypeInv
<1>4. Goes(w, {"test"}) /\ wk[w].at = "apply"
  BY ApplyGoes
<1> HIDE DEF pkt, before
<1>5. CASE pkt.target = <<>>
  <2>1. targets' = targets /\ (data'.target # <<>> => data.target # <<>>)
    BY <1>1, <1>2, <1>3, <1>5
  <2>2. \A v \in Workers : MayAnswer(v)' => MayAnswer(v)
    BY <1>4, <2>1 DEF MayAnswer, Goes, Reading
  <2> QED
    BY <1>1, <1>2, <2>1, <2>2, NothingSent
<1>6. CASE pkt.target # <<>>
  <2>1. Len(pkt.target) = 1
    BY <1>2, <1>6 DEF Targets
  <2>2. targets' = targets + 1
    BY <1>1, <2>1
  <2> QED
    BY <1>1, <1>2, <2>2, NothingSent
<1> QED
  BY <1>5, <1>6

LEMMA CountInvStep ==
  ASSUME TypeInv, CountInv, [Next]_vars
  PROVE  CountInv'
<1>1. targets \in Nat
  BY DEF TypeInv
<1>2. ASSUME wk' = wk, data' = data, sent' = sent, targets' = targets PROVE CountInv'
  <2>1. \A w \in Workers : MayAnswer(w)' => MayAnswer(w)
    BY <1>2 DEF MayAnswer
  <2> QED
    BY <1>1, <1>2, <2>1, NothingSent
<1>3. ASSUME NEW w \in Workers, Process(w) \/ Quit(w) PROVE CountInv'
  <2>1. ASSUME UNCHANGED <<sent, targets>>, \A v \in Workers : MayAnswer(v)' => MayAnswer(v)
        PROVE  CountInv'
    BY <1>1, <2>1, NothingSent
  <2>2. CASE Pop(w)
    <3>1. UNCHANGED <<data, sent, targets>> /\ Goes(w, {"apply"}) /\ wk[w].at = "pop"
      BY <2>2, PopGoes DEF Pop
    <3> QED
      BY <2>1, <3>1 DEF MayAnswer, Goes, Reading
  <2>3. CASE Apply(w)
    BY <2>3, ApplyCount
  <2>4. CASE Test(w)
    <3>1. /\ UNCHANGED <<data, sent, targets>> /\ Goes(w, {"find", "pop"}) /\ wk[w].at = "test"
          /\ wk'[w].at = "find" => data.target # <<>>
      BY <2>4, TestGoes DEF Test
    <3> QED
      BY <2>1, <3>1 DEF MayAnswer, Goes, Reading
  <2>5. CASE Find(w)
    <3>1. UNCHANGED <<data, sent, targets>> /\ Goes(w, {"args", "pop"}) /\ wk[w].at = "find"
      BY <2>5, FindGoes DEF Find
    <3> QED
      BY <2>1, <3>1 DEF MayAnswer, Goes, Reading
  <2>6. CASE ReadId(w) \/ ReadPrice(w)
    <3>1. /\ UNCHANGED <<data, sent, targets>> /\ wk[w].at \in Reading
          /\ Goes(w, {"id", "price", "send", "reset"})
      BY <2>6, ReadIdGoes, ReadPriceGoes DEF ReadId, ReadPrice
    <3>2. \A v \in Workers : MayAnswer(v)' => MayAnswer(v)
      BY <3>1 DEF MayAnswer, Goes, Reading
    <3> QED
      BY <2>1, <3>1, <3>2
  <2>7. CASE Send(w)
    BY <2>7, SendCount
  <2>8. CASE Reset(w)
    <3>1. /\ UNCHANGED <<sent, targets>> /\ Goes(w, {"pop"}) /\ wk[w].at = "reset"
          /\ data'.target = <<>>
      BY <2>8, ResetGoes DEF Reset, TypeInv
    <3>2. \A v \in Workers : MayAnswer(v)' => MayAnswer(v)
      BY <3>1 DEF MayAnswer, Goes, Reading
    <3> QED
      BY <2>1, <3>1, <3>2
  <2>9. CASE Quit(w)
    <3>1. UNCHANGED <<data, sent, targets>> /\ Goes(w, {"stopped"}) /\ wk[w].at = "pop"
      BY <2>9, QuitGoes DEF Quit
    <3> QED
      BY <2>1, <3>1 DEF MayAnswer, Goes, Reading
  <2> QED
    BY <1>3, <2>2, <2>3, <2>4, <2>5, <2>6, <2>7, <2>8, <2>9 DEF Process
<1>4. CASE Broadcast \/ Receive \/ Enqueue \/ Interrupt \/ UNCHANGED vars
  BY <1>2, <1>4 DEF Broadcast, Receive, Enqueue, Interrupt, vars
<1> QED
  BY <1>3, <1>4 DEF Next

\* However the workers' unlocked tests interleave with each other's updates,
\* process_queued_message does not let a worker answer more often than TARGET
\* lines have been applied: the worker clears the target after every answer,
\* and whatever it finds set afterwards came with another TARGET line.
THEOREM OneAnswerPerTarget == Spec => []AnswersPerWorker
<1>1. Init => TypeInv /\ CountInv
  <2> SUFFICES ASSUME Init PROVE CountInv
    BY TypeInvInit
  <2>1. /\ sent = <<>> /\ targets = 0 /\ data.target = <<>>
        /\ \A w \in Workers : wk[w].at = "pop"
    BY DEF Init, AtPop, Worker
  <2>2. \A w \in Workers : AnswersBy(w) = {}
    BY <2>1 DEF AnswersBy
  <2>3. Cardinality({}) = 0
    BY FS_EmptySet
  <2> QED
    <3>1. \A w \in Workers : ~MayAnswer(w)
      BY <2>1 DEF MayAnswer, Reading
    <3>2. \A w \in Workers : Cardinality(AnswersBy(w)) = 0
      BY <2>2, <2>3
    <3> QED
      BY <2>1, <3>1, <3>2 DEF CountInv
<1>2. TypeInv /\ CountInv /\ [Next]_vars => (TypeInv /\ CountInv)'
  BY TypeInvStep, CountInvStep
<1>3. CountInv => AnswersPerWorker
  BY DEF CountInv, AnswersPerWorker
<1> QED
  BY <1>1, <1>2, <1>3, PTL DEF Spec
=============================================================================
