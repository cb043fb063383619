----------------------- MODULE ChallengeSystemProofs -----------------------
(***************************************************************************)
(* Proofs about ChallengeSystem, for any tickers, markets, layouts,        *)
(* clients and lines: who wins a challenge, and that nobody hears of a     *)
(* challenge that cannot be won yet (these speak of the server's state,    *)
(* which the clients reach through the lines they send only); then, along  *)
(* the way from the server's packets to the client's answers and back,     *)
(* that the client loses only by being late.                               *)
(***************************************************************************)
EXTENDS ChallengeSystem, TLAPS

-----------------------------------------------------------------------------
(***************************************************************************)
(* The inductive invariant                                                 *)
(***************************************************************************)

IsSequence(s) == \E S : s \in Seq(S)

\* The packet quotes market, or nothing.
Quotes(packet, market) == \A t \in DOMAIN packet.secs : packet.secs[t] = market[t]

CurrentInv ==
  /\ current \in [id : Nat, target : {<<>>} \cup {<<t>> : t \in Tickers},
                  market : {<<>>} \cup Markets, declared : BOOLEAN,
                  winner : Sessions \cup {Nobody}]
  /\ \A t \in Tickers : current.target = <<t>> => t \in DOMAIN current.market

\* The packets that wait belong to the current challenge.
PacketsInv ==
  /\ IsSequence(toSend) /\ IsSequence(wire)
  /\ \A i \in DOMAIN toSend : toSend[i].n = current.id /\ Quotes(toSend[i], current.market)
  /\ \A i \in DOMAIN wire :
       /\ wire[i].n \in Nat /\ wire[i].n <= current.id
       /\ wire[i].n = current.id => Quotes(wire[i], current.market)

\* A challenge without a winner has had no right submission; the winner of
\* one that has was the first.
JudgedInv ==
  /\ IsSequence(judged)
  /\ ~current.declared => \A i \in DOMAIN judged : ~Server!Right(judged[i].sub)
  /\ current.declared =>
       \E k \in DOMAIN judged :
         /\ Server!Right(judged[k].sub) /\ current.winner = judged[k].by
         /\ \A j \in 1 .. k - 1 : ~Server!Right(judged[j].sub)

ServerInv == CurrentInv /\ PacketsInv /\ JudgedInv

-----------------------------------------------------------------------------
(***************************************************************************)
(* Sequences                                                               *)
(***************************************************************************)

LEMMA SequenceDomain ==
  ASSUME NEW s, IsSequence(s)
  PROVE  DOMAIN s = 1 .. Len(s) /\ Len(s) \in Nat
BY DEF IsSequence

LEMMA AppendFacts ==
  ASSUME NEW s, IsSequence(s), NEW x
  PROVE  /\ IsSequence(Append(s, x))
         /\ DOMAIN Append(s, x) = 1 .. Len(s) + 1 /\ Append(s, x)[Len(s) + 1] = x
         /\ \A i \in DOMAIN s : Append(s, x)[i] = s[i]
<1>1. PICK S : s \in Seq(S)
  BY DEF IsSequence
<1>2. s \in Seq(S \cup {x})
  <2>1. /\ Len(s) \in Nat /\ s = [i \in 1 .. Len(s) |-> s[i]]
        /\ \A i \in 1 .. Len(s) : s[i] \in S \cup {x}
    BY <1>1
  <2> QED
    BY <2>1
<1> QED
  BY <1>2 DEF IsSequence

LEMMA TailFacts ==
  ASSUME NEW s, IsSequence(s), s # <<>>
  PROVE  /\ IsSequence(Tail(s)) /\ 1 \in DOMAIN s /\ Head(s) = s[1]
         /\ \A i \in DOMAIN Tail(s) : i + 1 \in DOMAIN s /\ Tail(s)[i] = s[i + 1]
BY DEF IsSequence

-----------------------------------------------------------------------------
(***************************************************************************)
(* The steps                                                               *)
(***************************************************************************)

LEMMA ServerInit == Init => ServerInv
<1> SUFFICES ASSUME Init PROVE ServerInv
  OBVIOUS
<1>1. /\ current = Server!NoChallenge /\ toSend = <<>> /\ wire = <<>> /\ judged = <<>>
  BY DEF Init, Server!Init
<1>2. IsSequence(<<>>)
  BY DEF IsSequence
<1>3. CurrentInv
  BY <1>1 DEF CurrentInv, Server!NoChallenge
<1> QED
  BY <1>1, <1>2, <1>3 DEF ServerInv, PacketsInv, JudgedInv, Server!NoChallenge

LEMMA InstallInv ==
  ASSUME ServerInv, Server!Install
  PROVE  ServerInv'
<1>1. PICK t \in Tickers, market \in Markets, layout \in Layouts :
        /\ current' = [id |-> current.id + 1, target |-> <<t>>, market |-> market,
                       declared |-> FALSE, winner |-> Nobody]
        /\ toSend' = Server!Packets(current.id + 1, t, market, layout)
  BY DEF Server!Install
<1>2. judged' = <<>> /\ wire' = wire
  BY DEF Server!Install
<1>3. current.id \in Nat /\ DOMAIN market = Tickers
  BY FeedAssumption DEF ServerInv, CurrentInv
<1>4. CurrentInv'
  BY <1>1, <1>3 DEF CurrentInv
<1>5. JudgedInv'
  BY <1>1, <1>2 DEF JudgedInv, IsSequence
<1>6. layout \in Seq(SUBSET (Tickers \cup {IdLine, TargetLine}))
  BY FeedAssumption
<1>7. /\ DOMAIN layout = 1 .. Len(layout) /\ Len(layout) \in Nat
      /\ toSend' = [i \in DOMAIN layout |-> Server!Packet(current.id + 1, t, market, layout[i])]
  BY <1>1, <1>6 DEF Server!Packets
<1>8. IsSequence(toSend')
  <2>1. toSend' \in Seq({Server!Packet(current.id + 1, t, market, layout[i]) : i \in DOMAIN layout})
    BY <1>7
  <2> QED
    BY <2>1 DEF IsSequence
<1>9. \A i \in DOMAIN toSend' : toSend'[i].n = current'.id /\ Quotes(toSend'[i], current'.market)
  <2> TAKE i \in DOMAIN toSend'
  <2>1. toSend'[i] = Server!Packet(current.id + 1, t, market, layout[i])
    BY <1>7
  <2> QED
    BY <1>1, <2>1 DEF Server!Packet, Quotes
<1>10. \A i \in DOMAIN wire' :
         /\ wire'[i].n \in Nat /\ wire'[i].n <= current'.id
         /\ wire'[i].n = current'.id => Quotes(wire'[i], current'.market)
  BY <1>1, <1>2, <1>3 DEF ServerInv, PacketsInv
<1>11. PacketsInv'
  BY <1>2, <1>8, <1>9, <1>10 DEF ServerInv, PacketsInv, IsSequence
<1> QED
  BY <1>4, <1>5, <1>11 DEF ServerInv

LEMMA MulticastInv ==
  ASSUME ServerInv, Server!Multicast
  PROVE  ServerInv'
<1>1. /\ toSend # <<>> /\ toSend' = Tail(toSend)
      /\ wire' = Append(wire, Head(toSend))
      /\ current' = current /\ judged' = judged
  BY DEF Server!Multicast
<1>2. IsSequence(toSend) /\ IsSequence(wire) /\ current.id \in Nat
  BY DEF ServerInv, PacketsInv, CurrentInv
<1>3. /\ IsSequence(toSend') /\ 1 \in DOMAIN toSend /\ Head(toSend) = toSend[1]
      /\ \A i \in DOMAIN toSend' : i + 1 \in DOMAIN toSend /\ toSend'[i] = toSend[i + 1]
  BY <1>1, <1>2, TailFacts
<1>4. Head(toSend).n = current.id /\ Quotes(Head(toSend), current.market)
  BY <1>3 DEF ServerInv, PacketsInv
<1>5. /\ IsSequence(wire')
      /\ \A i \in DOMAIN wire' :
           wire'[i] = Head(toSend) \/ (i \in DOMAIN wire /\ wire'[i] = wire[i])
  <2>1. /\ IsSequence(wire') /\ wire'[Len(wire) + 1] = Head(toSend)
        /\ DOMAIN wire = 1 .. Len(wire) /\ Len(wire) \in Nat
        /\ DOMAIN wire' = 1 .. Len(wire) + 1
        /\ \A i \in DOMAIN wire : wire'[i] = wire[i]
    BY <1>1, <1>2, AppendFacts, SequenceDomain
  <2> QED
    BY <2>1
<1>6. \A i \in DOMAIN toSend' : toSend'[i].n = current.id /\ Quotes(toSend'[i], current.market)
  BY <1>3 DEF ServerInv, PacketsInv
<1>7. \A i \in DOMAIN wire' :
        /\ wire'[i].n \in Nat /\ wire'[i].n <= current.id
        /\ wire'[i].n = current.id => Quotes(wire'[i], current.market)
  BY <1>2, <1>4, <1>5 DEF ServerInv, PacketsInv
<1>8. PacketsInv'
  BY <1>1, <1>3, <1>5, <1>6, <1>7 DEF PacketsInv
<1> QED
  BY <1>1, <1>8 DEF ServerInv, CurrentInv, JudgedInv, Server!Right

LEMMA JudgeInv ==
  ASSUME ServerInv, NEW s \in Sessions, Server!Judge(s)
  PROVE  ServerInv'
<1> DEFINE m == Head(inbox[s])
           entry == [by |-> s, sub |-> m]
<1>1. /\ current' = IF Server!Wins(m) THEN [current EXCEPT !.declared = TRUE, !.winner = s]
                                      ELSE current
      /\ judged' = Append(judged, entry)
      /\ toSend' = toSend /\ wire' = wire
  BY DEF Server!Judge
<1> HIDE DEF m
<1>2. /\ current \in [id : Nat, target : {<<>>} \cup {<<t>> : t \in Tickers},
                      market : {<<>>} \cup Markets, declared : BOOLEAN,
                      winner : Sessions \cup {Nobody}]
      /\ IsSequence(judged)
  BY DEF ServerInv, CurrentInv, JudgedInv
<1>3. /\ current'.id = current.id /\ current'.target = current.target
      /\ current'.market = current.market
      /\ Server!Wins(m) => current'.declared = TRUE /\ current'.winner = s
      /\ ~Server!Wins(m) => current' = current
  BY <1>1, <1>2
<1>4. \A l : Server!Right(l)' <=> Server!Right(l)
  BY <1>3 DEF Server!Right
<1>5. Server!Wins(m) <=> ~current.declared /\ Server!Right(m)
  <2>1. current.target = <<m.ticker>> => m.ticker \in DOMAIN current.market
    <3> SUFFICES ASSUME current.target = <<m.ticker>> PROVE m.ticker \in DOMAIN current.market
      OBVIOUS
    <3>1. current.target # <<>>
      OBVIOUS
    <3>2. PICK t \in Tickers : current.target = <<t>>
      BY <1>2, <3>1
    <3>3. m.ticker = t
      BY <3>2
    <3> QED
      BY <3>2, <3>3 DEF ServerInv, CurrentInv
  <2> QED
    BY <2>1 DEF Server!Wins, Server!Right
<1>6. CurrentInv'
  <2>1. CASE Server!Wins(m)
    BY <1>1, <1>2, <2>1 DEF ServerInv, CurrentInv
  <2>2. CASE ~Server!Wins(m)
    BY <1>3, <2>2 DEF ServerInv, CurrentInv
  <2> QED
    BY <2>1, <2>2
<1>7. PacketsInv'
  BY <1>1, <1>3 DEF ServerInv, PacketsInv
<1>8. JudgedInv'
  <2> HIDE DEF entry
  <2>1. /\ IsSequence(judged') /\ Len(judged) \in Nat
        /\ DOMAIN judged = 1 .. Len(judged) /\ DOMAIN judged' = 1 .. Len(judged) + 1
        /\ judged'[Len(judged) + 1] = entry
        /\ \A i \in DOMAIN judged : judged'[i] = judged[i]
    BY <1>1, <1>2, AppendFacts, SequenceDomain
  <2>2. entry.by = s /\ entry.sub = m
    BY DEF entry
  <2>3. CASE current.declared
    <3>1. PICK k \in DOMAIN judged :
            /\ Server!Right(judged[k].sub) /\ current.winner = judged[k].by
            /\ \A j \in 1 .. k - 1 : ~Server!Right(judged[j].sub)
      BY <2>3 DEF ServerInv, JudgedInv
    <3>2. current' = current
      BY <1>3, <1>5, <2>3
    <3>3. k \in DOMAIN judged' /\ \A j \in 1 .. k - 1 : j \in DOMAIN judged
      BY <2>1
    <3>4. /\ Server!Right(judged[k].sub)' /\ current'.winner = judged'[k].by
          /\ \A j \in 1 .. k - 1 : ~Server!Right(judged[j].sub)'
      BY <1>3, <2>1, <3>1, <3>2, <3>3 DEF Server!Right
    <3> QED
      BY <2>1, <2>3, <3>2, <3>3, <3>4 DEF JudgedInv
  <2>4. CASE ~current.declared
    <3>1. \A i \in DOMAIN judged : ~Server!Right(judged[i].sub)
      BY <2>4 DEF ServerInv, JudgedInv
    <3>2. CASE Server!Right(m)
      <4>0. PICK k : k = Len(judged) + 1
        OBVIOUS
      <4>1. current'.declared /\ current'.winner = s
        BY <1>3, <1>5, <2>4, <3>2
      <4>2. /\ k \in DOMAIN judged' /\ judged'[k] = entry
            /\ \A j \in 1 .. k - 1 : j \in DOMAIN judged
        BY <2>1, <4>0
      <4>3. judged'[k].sub = m /\ current'.winner = judged'[k].by
        BY <2>2, <4>1, <4>2
      <4>4. Server!Right(judged[k].sub)'
        <5>1. /\ m.id = current'.id /\ current'.target = <<m.ticker>>
              /\ current'.market[m.ticker] = m.price
          BY <1>3, <3>2 DEF Server!Right
        <5> QED
          BY <4>3, <5>1 DEF Server!Right
      <4>5. \A j \in 1 .. k - 1 : ~Server!Right(judged[j].sub)'
        BY <1>3, <2>1, <3>1, <4>2 DEF Server!Right
      <4>6. \E l \in DOMAIN judged' :
              /\ Server!Right(judged[l].sub)' /\ current'.winner = judged'[l].by
              /\ \A j \in 1 .. l - 1 : ~Server!Right(judged[j].sub)'
        BY <4>2, <4>3, <4>4, <4>5
      <4> QED
        BY <2>1, <4>1, <4>6 DEF JudgedInv
    <3>3. CASE ~Server!Right(m)
      <4>1. current' = current
        BY <1>3, <1>5, <3>3
      <4>2. \A i \in DOMAIN judged' : i \in DOMAIN judged \/ i = Len(judged) + 1
        BY <2>1
      <4>3. \A i \in DOMAIN judged' : ~Server!Right(judged[i].sub)'
        BY <1>3, <2>1, <2>2, <3>1, <3>3, <4>2 DEF Server!Right
      <4> QED
        BY <2>1, <2>4, <4>1, <4>3 DEF JudgedInv
    <3> QED
      BY <3>2, <3>3
  <2> QED
    BY <2>3, <2>4
<1> QED
  BY <1>6, <1>7, <1>8 DEF ServerInv

LEMMA OtherInv ==
  ASSUME ServerInv, UNCHANGED <<current, toSend, wire, judged>>
  PROVE  ServerInv'
BY DEF ServerInv, CurrentInv, PacketsInv, JudgedInv, Server!Right

LEMMA ServerInvStep ==
  ASSUME ServerInv, [Next]_vars
  PROVE  ServerInv'
<1>1. CASE ServerStep
  <2>1. ASSUME NEW s \in Sessions, Server!Accept(s) \/ Server!SkipLine(s) \/ Server!Reply(s)
        PROVE  ServerInv'
    BY <2>1, OtherInv DEF Server!Accept, Server!SkipLine, Server!Reply
  <2>2. ASSUME NEW s \in Others, Server!Disconnect(s) \/ Server!AcceptThrows(s)
        PROVE  ServerInv'
    BY <2>2, OtherInv DEF Server!Disconnect, Server!AcceptThrows
  <2>3. ASSUME NEW s \in Sessions, Server!Handle(s)
        PROVE  ServerInv'
    BY <2>1, <2>3, JudgeInv DEF Server!Handle
  <2> QED
    BY <1>1, <2>1, <2>2, <2>3, InstallInv, MulticastInv DEF ServerStep
<1>2. CASE ClientStep
  BY <1>2, OtherInv DEF ClientStep, serverVars
<1>3. CASE Deliver
  BY <1>3, OtherInv DEF Deliver, Server!Arrives
<1>4. CASE \E s \in Others : OtherSends(s)
  BY <1>4, OtherInv DEF OtherSends, Server!Arrives
<1>5. CASE UNCHANGED vars
  BY <1>5, OtherInv DEF vars, serverVars
<1> QED
  BY <1>1, <1>2, <1>3, <1>4, <1>5 DEF Next

LEMMA ServerInvariant == Spec => []ServerInv
<1> QED
  BY ServerInit, ServerInvStep, PTL DEF Spec

-----------------------------------------------------------------------------
\* process_order under challenge_mutex: the winner is the client whose right
\* submission was judged first while its challenge was current, and there is
\* one as soon as a right submission has been judged.
THEOREM WinnerWasFirst == Spec => []FirstCorrectWins
<1>1. ServerInv => FirstCorrectWins
  <2> SUFFICES ASSUME ServerInv PROVE FirstCorrectWins
    OBVIOUS
  <2>1. DOMAIN judged = 1 .. Len(judged) /\ Len(judged) \in Nat
    BY SequenceDomain DEF ServerInv, JudgedInv
  <2>2. CASE ~current.declared
    <3>1. Server!FirstRight = {}
      BY <2>2 DEF ServerInv, JudgedInv, Server!FirstRight
    <3> QED
      BY <2>2, <3>1 DEF FirstCorrectWins, Server!FirstCorrectWins
  <2>3. CASE current.declared
    <3>1. PICK k \in DOMAIN judged :
            /\ Server!Right(judged[k].sub) /\ current.winner = judged[k].by
            /\ \A j \in 1 .. k - 1 : ~Server!Right(judged[j].sub)
      BY <2>3 DEF ServerInv, JudgedInv
    <3>2. k \in Server!FirstRight
      BY <3>1 DEF Server!FirstRight
    <3>3. ASSUME NEW i \in Server!FirstRight PROVE i = k
      <4>1. /\ i \in DOMAIN judged /\ Server!Right(judged[i].sub)
            /\ \A j \in 1 .. i - 1 : ~Server!Right(judged[j].sub)
        BY DEF Server!FirstRight
      <4>2. ~(i < k) /\ ~(k < i)
        BY <2>1, <3>1, <4>1
      <4> QED
        BY <2>1, <4>1, <4>2
    <3> QED
      BY <2>3, <3>1, <3>2, <3>3 DEF FirstCorrectWins, Server!FirstCorrectWins
  <2> QED
    BY <2>2, <2>3
<1> QED
  BY <1>1, ServerInvariant, PTL

\* udp_broadcast_thread installs a challenge before it multicasts any of it:
\* a packet that has been sent is of an installed challenge, and quotes the
\* market by which answers to the current one are judged.
THEOREM NothingIsHeardTooEarly == Spec => []HeardIsInstalled
<1>1. ServerInv => HeardIsInstalled
  BY DEF ServerInv, PacketsInv, Quotes, HeardIsInstalled, Server!HeardIsInstalled
<1> QED
  BY <1>1, ServerInvariant, PTL

-----------------------------------------------------------------------------
(***************************************************************************)
(* The client with one worker, however the challenges are cut and whatever *)
(* is lost, while the network keeps the order of the packets.  The client  *)
(* may then answer wrongly, with quotes or the target of a later challenge *)
(* than its answer names (client_quotes_apart), but never of an earlier    *)
(* one; and when such an answer arrives, the later challenge is installed. *)
(***************************************************************************)

Targets == {<<>>} \cup {<<t>> : t \in Tickers}

\* What has been multicast, of challenge n or a later one.
Heard(p) == \E i \in DOMAIN wire : wire[i] = p
TargetHeard(n, target) ==
  \E i \in DOMAIN wire : n <= wire[i].n /\ wire[i].target = target /\ target # <<>>
QuoteHeard(n, t, price) ==
  \E j \in DOMAIN wire : /\ n <= wire[j].n
                         /\ t \in DOMAIN wire[j].secs /\ wire[j].secs[t] = price

\* The target in a packet is that of its challenge.
PacketOK(p) ==
  /\ p.target \in Targets
  /\ p.n = current.id /\ p.target # <<>> => p.target = current.target

FeedInv ==
  /\ \A i \in DOMAIN toSend : PacketOK(toSend[i])
  /\ \A i \in DOMAIN wire : PacketOK(wire[i])

\* Nothing that waits in the queue, with the handler or on its way is of an
\* earlier challenge than n.
NotAfterQueued(n) == \A i \in DOMAIN queue : n <= queue[i].n
NotAfterUdp(n)    == \A i \in DOMAIN udp : n <= udp[i].n
NotAfterWire(n)   == n <= current.id /\ \A i \in DOMAIN wire : heard < i => n <= wire[i].n
First(n)          == NotAfterQueued(n) /\ NotAfterUdp(n) /\ NotAfterWire(n)

\* The packets keep the order of their challenges from the server to data.
OrderInv ==
  /\ heard \in Int /\ data.id \in Int
  /\ \A i, j \in DOMAIN wire : i < j => wire[i].n <= wire[j].n
  /\ \A i \in DOMAIN udp : NotAfterWire(udp[i].n)
  /\ \A i \in DOMAIN queue :
       /\ NotAfterWire(queue[i].n) /\ NotAfterUdp(queue[i].n)
       /\ \A j \in DOMAIN queue : i < j => queue[i].n <= queue[j].n
  /\ First(data.id)
  /\ \A w \in Workers :
       wk[w].at = "apply" => First(wk[w].pkt[1].n) /\ data.id <= wk[w].pkt[1].n

\* The client's packets have been multicast.
QueueInv ==
  /\ IsSequence(udp) /\ Len(udp) <= 1 /\ IsSequence(queue)
  /\ \A i \in DOMAIN udp : Heard(udp[i])
  /\ \A i \in DOMAIN queue : Heard(queue[i])

\* What is stored is of no earlier challenge than the id that is stored.
DataInv ==
  /\ DOMAIN data = {"id", "target", "market"}
  /\ data.target # <<>> => TargetHeard(data.id, data.target)
  /\ \A t \in DOMAIN data.market : QuoteHeard(data.id, t, data.market[t])

WorkerOK(k) ==
  /\ DOMAIN k = {"at", "pkt", "it", "id", "price"}
  /\ k.at \in {"pop", "apply", "test", "find", "args", "id", "price", "send", "reset"}
  /\ k.at = "apply" => Heard(k.pkt[1])
  /\ k.at \in Client!HasIterator => Client!Quoted /\ k.it = data.target[1]
  /\ k.at \in {"price", "send"} => k.id = data.id
  /\ k.at \in {"id", "send"} =>
       data.target # <<>> /\ QuoteHeard(data.id, data.target[1], k.price)

WorkersInv == wk \in [Workers -> {wk[w] : w \in Workers}] /\ \A w \in Workers : WorkerOK(wk[w])

\* The parts of an answer are of no earlier challenge than it names.
NotStale(a) == TargetHeard(a.id, a.ticker) /\ QuoteHeard(a.id, a.ticker[1], a.price)

SentInv == IsSequence(sent) /\ \A i \in DOMAIN sent : NotStale(sent[i])

ClientInv == QueueInv /\ DataInv /\ WorkersInv /\ SentInv

\* So are those of what waits at our session.
InboxInv ==
  /\ inbox \in [Sessions -> {inbox[s] : s \in Sessions}]
  /\ arrived \in Nat
  /\ IsSequence(inbox[Us])
  /\ \A k \in DOMAIN inbox[Us] :
       LET m == inbox[Us][k]
       IN  TargetHeard(m.id, <<m.ticker>>) /\ QuoteHeard(m.id, m.ticker, m.price)

-----------------------------------------------------------------------------
(***************************************************************************)
(* The feed                                                                *)
(***************************************************************************)

\* What has been multicast stays so.
LEMMA HeardStays ==
  ASSUME \A i \in DOMAIN wire : i \in DOMAIN wire' /\ wire'[i] = wire[i]
  PROVE  /\ \A p : Heard(p) => Heard(p)'
         /\ \A n, target : TargetHeard(n, target) => TargetHeard(n, target)'
         /\ \A n, t, price : QuoteHeard(n, t, price) => QuoteHeard(n, t, price)'
         /\ \A a : NotStale(a) => NotStale(a)'
<1>1. \A p : Heard(p) => Heard(p)'
  BY DEF Heard
<1>2. \A n, target : TargetHeard(n, target) => TargetHeard(n, target)'
  BY DEF TargetHeard
<1>3. \A n, t, price : QuoteHeard(n, t, price) => QuoteHeard(n, t, price)'
  BY DEF QuoteHeard
<1>4. \A a : NotStale(a) => NotStale(a)'
  BY DEF NotStale, TargetHeard, QuoteHeard
<1> QED
  BY <1>1, <1>2, <1>3, <1>4

\* A step of the server or of another client changes what was multicast only
\* by adding to it.
LEMMA WireGrows ==
  ASSUME ServerInv, [Next]_vars
  PROVE  \A i \in DOMAIN wire : i \in DOMAIN wire' /\ wire'[i] = wire[i]
<1>1. CASE wire' = wire
  BY <1>1
<1>2. CASE Server!Multicast
  <2>1. IsSequence(wire)
    BY DEF ServerInv, PacketsInv
  <2>2. wire' = Append(wire, Head(toSend))
    BY <1>2 DEF Server!Multicast
  <2>3. /\ DOMAIN wire = 1 .. Len(wire) /\ Len(wire) \in Nat
        /\ DOMAIN wire' = 1 .. Len(wire) + 1
        /\ \A i \in DOMAIN wire : wire'[i] = wire[i]
    BY <2>1, <2>2, AppendFacts, SequenceDomain
  <2> QED
    BY <2>3
<1>3. ASSUME ServerStep, ~Server!Multicast PROVE wire' = wire
  BY <1>3
  DEF ServerStep, Server!Install, Server!Accept, Server!AcceptThrows, Server!Handle,
      Server!SkipLine, Server!Judge, Server!Reply, Server!Disconnect
<1>4. ASSUME ClientStep \/ Deliver \/ (\E s \in Others : OtherSends(s)) \/ UNCHANGED vars
      PROVE  wire' = wire
  BY <1>4 DEF ClientStep, Deliver, OtherSends, Server!Arrives, vars
<1> QED
  BY <1>1, <1>2, <1>3, <1>4 DEF Next

LEMMA FeedInvStep ==
  ASSUME ServerInv, FeedInv, [Next]_vars
  PROVE  FeedInv'
<1>1. CASE Server!Install
  <2>1. PICK t \in Tickers, market \in Markets, layout \in Layouts :
          /\ current' = [id |-> current.id + 1, target |-> <<t>>, market |-> market,
                         declared |-> FALSE, winner |-> Nobody]
          /\ toSend' = Server!Packets(current.id + 1, t, market, layout)
    BY <1>1 DEF Server!Install
  <2>2. /\ wire' = wire /\ current.id \in Nat
        /\ current'.id = current.id + 1 /\ current'.target = <<t>>
    BY <1>1, <2>1 DEF Server!Install, ServerInv, CurrentInv
  <2>3. ASSUME NEW i \in DOMAIN toSend' PROVE PacketOK(toSend[i])'
    <3>1. i \in DOMAIN layout /\ toSend'[i] = Server!Packet(current.id + 1, t, market, layout[i])
      BY <2>1 DEF Server!Packets
    <3>2. toSend'[i] = [n |-> current.id + 1,
                        secs |-> [x \in layout[i] \cap Tickers |-> market[x]],
                        hasId |-> IdLine \in layout[i],
                        target |-> IF TargetLine \in layout[i] THEN <<t>> ELSE <<>>]
      BY <3>1 DEF Server!Packet, Server!IdLine, Server!TargetLine, IdLine, TargetLine
    <3>3. toSend'[i].target \in {<<>>, <<t>>}
      BY <3>2
    <3> QED
      BY <2>2, <3>3 DEF PacketOK, Targets
  <2>4. ASSUME NEW i \in DOMAIN wire PROVE PacketOK(wire[i])'
    <3>1. PacketOK(wire[i]) /\ wire[i].n \in Nat /\ wire[i].n <= current.id
      BY DEF FeedInv, ServerInv, PacketsInv
    <3> QED
      BY <2>2, <3>1 DEF PacketOK
  <2> QED
    BY <2>2, <2>3, <2>4 DEF FeedInv
<1>2. CASE Server!Multicast
  <2>1. /\ toSend # <<>> /\ toSend' = Tail(toSend) /\ current' = current
        /\ wire' = Append(wire, Head(toSend))
        /\ IsSequence(toSend) /\ IsSequence(wire)
    BY <1>2 DEF Server!Multicast, ServerInv, PacketsInv
  <2>2. /\ 1 \in DOMAIN toSend /\ Head(toSend) = toSend[1]
        /\ \A i \in DOMAIN toSend' : i + 1 \in DOMAIN toSend /\ toSend'[i] = toSend[i + 1]
    BY <2>1, TailFacts
  <2>3. \A i \in DOMAIN wire' :
          wire'[i] = toSend[1] \/ (i \in DOMAIN wire /\ wire'[i] = wire[i])
    <3>1. /\ wire'[Len(wire) + 1] = Head(toSend)
          /\ DOMAIN wire = 1 .. Len(wire) /\ Len(wire) \in Nat
          /\ DOMAIN wire' = 1 .. Len(wire) + 1
          /\ \A i \in DOMAIN wire : wire'[i] = wire[i]
      BY <2>1, AppendFacts, SequenceDomain
    <3> QED
      BY <2>2, <3>1
  <2> QED
    BY <2>1, <2>2, <2>3 DEF FeedInv, PacketOK
<1>3. ASSUME toSend' = toSend, wire' = wire, current'.id = current.id,
             current'.target = current.target
      PROVE  FeedInv'
  BY <1>3 DEF FeedInv, PacketOK
<1>4. ASSUME NEW s \in Sessions, Server!Judge(s) PROVE FeedInv'
  <2>1. current'.id = current.id /\ current'.target = current.target
    BY <1>4 DEF Server!Judge, ServerInv, CurrentInv
  <2> QED
    BY <1>3, <1>4, <2>1 DEF Server!Judge
<1>5. ASSUME ServerStep PROVE FeedInv'
  BY <1>1, <1>2, <1>3, <1>4, <1>5
  DEF ServerStep, Server!Accept, Server!AcceptThrows, Server!Handle, Server!SkipLine,
      Server!Reply, Server!Disconnect
<1>6. ASSUME ClientStep \/ Deliver \/ (\E s \in Others : OtherSends(s)) \/ UNCHANGED vars
      PROVE  FeedInv'
  BY <1>3, <1>6 DEF ClientStep, Deliver, OtherSends, Server!Arrives, vars, serverVars
<1> QED
  BY <1>5, <1>6 DEF Next

-----------------------------------------------------------------------------
(***************************************************************************)
(* The client                                                              *)
(***************************************************************************)

LEMMA ConcatFacts ==
  ASSUME NEW s, NEW r, IsSequence(s), IsSequence(r)
  PROVE  /\ IsSequence(s \o r)
         /\ \A i \in DOMAIN (s \o r) :
              \/ i \in DOMAIN s /\ (s \o r)[i] = s[i]
              \/ i - Len(s) \in DOMAIN r /\ (s \o r)[i] = r[i - Len(s)]
<1>1. PICK S : s \in Seq(S)
  BY DEF IsSequence
<1>2. PICK R : r \in Seq(R)
  BY DEF IsSequence
<1>3. s \in Seq(S \cup R) /\ r \in Seq(S \cup R)
  <2>1. /\ Len(s) \in Nat /\ s = [i \in 1 .. Len(s) |-> s[i]]
        /\ \A i \in 1 .. Len(s) : s[i] \in S \cup R
    BY <1>1
  <2>2. /\ Len(r) \in Nat /\ r = [i \in 1 .. Len(r) |-> r[i]]
        /\ \A i \in 1 .. Len(r) : r[i] \in S \cup R
    BY <1>2
  <2> QED
    BY <2>1, <2>2
<1>4. s \o r \in Seq(S \cup R)
  BY <1>3
<1>5. \A i \in DOMAIN (s \o r) :
        \/ i \in DOMAIN s /\ (s \o r)[i] = s[i]
        \/ i - Len(s) \in DOMAIN r /\ (s \o r)[i] = r[i - Len(s)]
  BY <1>3
<1> QED
  BY <1>4, <1>5 DEF IsSequence

\* There is one worker.
LEMMA OneWorker ==
  ASSUME NEW w \in Workers
  PROVE  Workers = {w}
BY SystemAssumption

\* A worker that does not move keeps what it knows, while the data stays.
LEMMA WorkersKept ==
  ASSUME WorkersInv, wk' = wk, data' = data,
         \A i \in DOMAIN wire : i \in DOMAIN wire' /\ wire'[i] = wire[i]
  PROVE  WorkersInv'
<1>1. ASSUME NEW w \in Workers PROVE WorkerOK(wk[w])'
  <2>1. WorkerOK(wk[w])
    BY DEF WorkersInv
  <2>2. DOMAIN wk[w] = {"at", "pkt", "it", "id", "price"}
    BY <2>1 DEF WorkerOK
  <2>3. ASSUME wk[w].at = "apply" PROVE \E i \in DOMAIN wire' : wire'[i] = wk[w].pkt[1]
    BY <2>1, <2>3 DEF WorkerOK, Heard
  <2>4. ASSUME wk[w].at \in {"id", "send"}
        PROVE  \E j \in DOMAIN wire' : /\ data.id <= wire'[j].n
                                       /\ data.target[1] \in DOMAIN wire'[j].secs
                                       /\ wire'[j].secs[data.target[1]] = wk[w].price
    <3>1. QuoteHeard(data.id, data.target[1], wk[w].price)
      BY <2>1, <2>4 DEF WorkerOK
    <3> QED
      BY <3>1 DEF QuoteHeard
  <2>5. /\ wk[w].at \in {"pop", "apply", "test", "find", "args", "id", "price", "send", "reset"}
        /\ wk[w].at \in Client!HasIterator => Client!Quoted /\ wk[w].it = data.target[1]
        /\ wk[w].at \in {"price", "send"} => wk[w].id = data.id
        /\ wk[w].at \in {"id", "send"} => data.target # <<>>
    BY <2>1 DEF WorkerOK
  <2> QED
    BY <2>2, <2>3, <2>4, <2>5 DEF WorkerOK, Client!Quoted, Heard, QuoteHeard
<1> QED
  BY <1>1 DEF WorkersInv

\* Steps of others leave the client's state alone, and what it has heard is
\* still so.
LEMMA ClientKept ==
  ASSUME ClientInv, UNCHANGED clientVars,
         \A i \in DOMAIN wire : i \in DOMAIN wire' /\ wire'[i] = wire[i]
  PROVE  ClientInv'
<1> USE DEF clientVars
<1>1. QueueInv'
  BY HeardStays DEF ClientInv, QueueInv
<1>2. DataInv'
  BY HeardStays DEF ClientInv, DataInv
<1>3. WorkersInv'
  BY WorkersKept DEF ClientInv
<1>4. SentInv'
  BY HeardStays DEF ClientInv, SentInv
<1> QED
  BY <1>1, <1>2, <1>3, <1>4 DEF ClientInv

LEMMA ReceiveInv ==
  ASSUME ClientInv, wire' = wire, Client!Receive \/ Client!Enqueue
  PROVE  ClientInv'
<1>1. /\ data' = data /\ wk' = wk /\ sent' = sent
  BY DEF Client!Receive, Client!Enqueue
<1>2. DataInv' /\ WorkersInv' /\ SentInv'
  <2>1. DataInv'
    BY <1>1 DEF ClientInv, DataInv, TargetHeard, QuoteHeard
  <2>2. WorkersInv'
    BY <1>1, WorkersKept DEF ClientInv
  <2>3. SentInv'
    BY <1>1 DEF ClientInv, SentInv, NotStale, TargetHeard, QuoteHeard
  <2> QED
    BY <2>1, <2>2, <2>3
<1>3. /\ IsSequence(udp) /\ IsSequence(queue)
      /\ \A i \in DOMAIN udp : Heard(udp[i])
      /\ \A i \in DOMAIN queue : Heard(queue[i])
  BY DEF ClientInv, QueueInv
<1>4. CASE Client!Receive
  <2>1. PICK i \in DOMAIN wire : udp' = <<wire[i]>>
    BY <1>4 DEF Client!Receive, Client!Deliverable
  <2>2. queue' = queue
    BY <1>4 DEF Client!Receive
  <2>3. IsSequence(udp') /\ Len(udp') <= 1 /\ \A j \in DOMAIN udp' : udp'[j] = wire[i]
    <3>1. udp' \in Seq({wire[i]})
      BY <2>1
    <3>2. IsSequence(udp')
      BY <3>1 DEF IsSequence
    <3>3. \A j \in DOMAIN udp' : udp'[j] = wire[i]
      BY <2>1
    <3> QED
      BY <2>1, <3>2, <3>3
  <2>4. QueueInv'
    BY <1>3, <2>2, <2>3 DEF QueueInv, Heard
  <2> QED
    BY <1>2, <2>4 DEF ClientInv
<1>5. CASE Client!Enqueue
  <2>1. udp' = <<>> /\ (queue' = queue \o udp \/ queue' = queue)
    BY <1>5 DEF Client!Enqueue, Client!Idle
  <2>2. IsSequence(udp') /\ Len(udp') <= 1
    BY <2>1 DEF IsSequence
  <2>3. IsSequence(queue') /\ \A i \in DOMAIN queue' : Heard(queue'[i])
    <3>1. CASE queue' = queue \o udp
      BY <1>3, <3>1, ConcatFacts
    <3>2. CASE queue' = queue
      BY <1>3, <3>2
    <3> QED
      BY <2>1, <3>1, <3>2
  <2>4. QueueInv'
    BY <2>1, <2>2, <2>3 DEF QueueInv, Heard
  <2> QED
    BY <1>2, <2>4 DEF ClientInv
<1> QED
  BY <1>4, <1>5

\* A worker's step, given what it does to the worker and to the data.
LEMMA WorkerStep ==
  ASSUME ClientInv, wire' = wire, NEW w \in Workers, sent' = sent,
         QueueInv', DataInv', wk' = [v \in Workers |-> wk'[v]], WorkerOK(wk[w])'
  PROVE  ClientInv'
<1>1. SentInv'
  BY DEF ClientInv, SentInv, NotStale, TargetHeard, QuoteHeard
<1>2. WorkersInv'
  BY OneWorker DEF WorkersInv
<1> QED
  BY <1>1, <1>2 DEF ClientInv

LEMMA QueueKept ==
  ASSUME QueueInv, wire' = wire, udp' = udp, queue' = queue
  PROVE  QueueInv'
BY DEF QueueInv, Heard

LEMMA DataKept ==
  ASSUME DataInv, wire' = wire, data' = data
  PROVE  DataInv'
BY DEF DataInv, TargetHeard, QuoteHeard

LEMMA PopInv ==
  ASSUME ClientInv, wire' = wire, NEW w \in Workers, Client!Pop(w)
  PROVE  ClientInv'
<1>1. /\ queue # <<>> /\ queue' = Tail(queue) /\ udp' = udp /\ data' = data /\ sent' = sent
      /\ wk' = [wk EXCEPT ![w] = [@ EXCEPT !.at = "apply", !.pkt = <<Head(queue)>>]]
  BY DEF Client!Pop
<1>2. /\ IsSequence(udp) /\ IsSequence(queue)
      /\ \A i \in DOMAIN udp : Heard(udp[i])
      /\ \A i \in DOMAIN queue : Heard(queue[i])
  BY DEF ClientInv, QueueInv
<1>3. /\ IsSequence(Tail(queue)) /\ 1 \in DOMAIN queue /\ Head(queue) = queue[1]
      /\ \A i \in DOMAIN Tail(queue) : i + 1 \in DOMAIN queue /\ Tail(queue)[i] = queue[i + 1]
  BY <1>1, <1>2, TailFacts
<1>4. QueueInv'
  BY <1>1, <1>2, <1>3 DEF ClientInv, QueueInv, Heard
<1>5. DataInv'
  BY <1>1, DataKept DEF ClientInv
<1>6. wk' = [v \in Workers |-> wk'[v]] /\ DOMAIN wk[w] = {"at", "pkt", "it", "id", "price"}
  BY <1>1 DEF ClientInv, WorkersInv, WorkerOK
<1>7. wk'[w] = [wk[w] EXCEPT !.at = "apply", !.pkt = <<queue[1]>>]
  BY <1>1, <1>3 DEF ClientInv, WorkersInv
<1>8. /\ DOMAIN wk'[w] = {"at", "pkt", "it", "id", "price"}
      /\ wk'[w].at = "apply" /\ wk'[w].pkt[1] = queue[1]
  BY <1>6, <1>7
<1>9. \E i \in DOMAIN wire : wire[i] = queue[1]
  BY <1>2, <1>3 DEF Heard
<1>10. WorkerOK(wk[w])'
  BY <1>8, <1>9 DEF WorkerOK, Client!HasIterator, Heard
<1> QED
  BY <1>1, <1>4, <1>5, <1>6, <1>10, WorkerStep

\* Going to another place without learning anything.
LEMMA MoveInv ==
  ASSUME ClientInv, wire' = wire, NEW w \in Workers,
         UNCHANGED <<udp, queue, sent>>, DataInv',
         wk' = [v \in Workers |-> wk'[v]],
         DOMAIN wk'[w] = {"at", "pkt", "it", "id", "price"},
         wk'[w].at \in {"pop", "test", "find", "reset"}
  PROVE  ClientInv'
<1>1. QueueInv'
  BY QueueKept DEF ClientInv
<1>2. WorkerOK(wk[w])'
  BY DEF WorkerOK, Client!HasIterator
<1> QED
  BY <1>1, <1>2, WorkerStep

LEMMA TestInv ==
  ASSUME ClientInv, wire' = wire, NEW w \in Workers, Client!Test(w)
  PROVE  ClientInv'
<1>1. DataInv'
  BY DataKept DEF Client!Test, ClientInv
<1>2. wk' = [v \in Workers |-> wk'[v]] /\ DOMAIN wk[w] = {"at", "pkt", "it", "id", "price"}
  BY DEF Client!Test, ClientInv, WorkersInv, WorkerOK
<1>3. CASE wk' = [wk EXCEPT ![w] = [wk[w] EXCEPT !.at = "find"]]
  <2>1. wk'[w] = [wk[w] EXCEPT !.at = "find"]
    BY <1>3 DEF ClientInv, WorkersInv
  <2>2. wk'[w].at = "find" /\ DOMAIN wk'[w] = {"at", "pkt", "it", "id", "price"}
    BY <1>2, <2>1
  <2> QED
    BY <1>1, <1>2, <2>2, MoveInv DEF Client!Test
<1>4. CASE wk' = [wk EXCEPT ![w] = Client!AtPop]
  <2>1. wk'[w] = Client!AtPop
    BY <1>4 DEF ClientInv, WorkersInv
  <2>2. wk'[w].at = "pop" /\ DOMAIN wk'[w] = {"at", "pkt", "it", "id", "price"}
    BY <2>1 DEF Client!AtPop, Client!Worker
  <2> QED
    BY <1>1, <1>2, <2>2, MoveInv DEF Client!Test
<1> QED
  BY <1>3, <1>4 DEF Client!Test

\* Clearing the map leaves the one worker alone, which is not between finding
\* the quote and copying it.
LEMMA NothingDangles ==
  ASSUME NEW w \in Workers, NEW f, f = [v \in Workers |-> f[v]], f[w].at \notin Client!HasIterator
  PROVE  Client!Cleared(f) = f
<1>1. \A v \in Workers : f[v].at \notin Client!HasIterator
  BY OneWorker
<1> QED
  BY <1>1 DEF Client!Cleared

LEMMA ApplyInv ==
  ASSUME ServerInv, OrderInv, ClientInv, wire' = wire, NEW w \in Workers, Client!Apply(w)
  PROVE  ClientInv'
<1> DEFINE pkt    == wk[w].pkt[1]
           isNew  == pkt.hasId /\ pkt.n # data.id
           before == IF isNew THEN [id |-> pkt.n, target |-> <<>>, market |-> Client!NoMarket]
                     ELSE data
           f      == [wk EXCEPT ![w].at = "test", ![w].pkt = Client!Idle]
<1>1. WorkerOK(wk[w]) /\ wk[w].at = "apply" /\ DOMAIN wk[w] = {"at", "pkt", "it", "id", "price"}
  BY DEF Client!Apply, ClientInv, WorkersInv, WorkerOK
<1>2. /\ UNCHANGED <<udp, queue, sent>>
      /\ data' = [before EXCEPT !.market = Client!Stored(pkt.secs, @),
                                !.target = IF pkt.target = <<>> THEN @ ELSE pkt.target]
  BY DEF Client!Apply
<1>3. wk' = IF isNew THEN Client!Cleared(f) ELSE f
  BY DEF Client!Apply
<1>4. Heard(pkt)
  BY <1>1 DEF WorkerOK
<1>5. PICK i \in DOMAIN wire : wire[i] = pkt
  BY <1>4 DEF Heard
<1>6. pkt.n \in Int /\ data.id \in Int /\ data.id <= pkt.n
  BY <1>1, <1>5 DEF ServerInv, PacketsInv, OrderInv
<1>7. /\ f = [v \in Workers |-> f[v]] /\ f[w].at = "test"
      /\ DOMAIN f[w] = {"at", "pkt", "it", "id", "price"}
  <2>1. f[w] = [[wk[w] EXCEPT !.at = "test"] EXCEPT !.pkt = Client!Idle]
    BY DEF ClientInv, WorkersInv
  <2>2. f = [v \in Workers |-> f[v]]
    BY DEF ClientInv, WorkersInv
  <2> QED
    BY <1>1, <2>1, <2>2
<1>8. wk' = f
  BY <1>3, <1>7, NothingDangles DEF Client!HasIterator
<1>9. /\ before.id \in Int /\ before.id <= pkt.n /\ DOMAIN before = {"id", "target", "market"}
      /\ before.target # <<>> => TargetHeard(before.id, before.target)
      /\ \A t \in DOMAIN before.market : QuoteHeard(before.id, t, before.market[t])
  <2>1. CASE isNew
    BY <1>6, <2>1 DEF Client!NoMarket
  <2>2. CASE ~isNew
    BY <1>6, <2>2 DEF ClientInv, DataInv
  <2> QED
    BY <2>1, <2>2
<1> HIDE DEF before
<1>10. /\ DOMAIN data' = {"id", "target", "market"} /\ data'.id = before.id
       /\ data'.target = IF pkt.target = <<>> THEN before.target ELSE pkt.target
       /\ data'.market = Client!Stored(pkt.secs, before.market)
  BY <1>2, <1>9
<1>11. data'.target # <<>> => TargetHeard(before.id, data'.target)
  BY <1>5, <1>9, <1>10 DEF TargetHeard
<1>12. ASSUME NEW t \in DOMAIN data'.market
       PROVE  QuoteHeard(before.id, t, data'.market[t])
  <2>1. \/ t \in DOMAIN pkt.secs /\ data'.market[t] = pkt.secs[t]
        \/ t \in DOMAIN before.market /\ data'.market[t] = before.market[t]
    BY <1>10, <1>12 DEF Client!Stored
  <2>2. CASE t \in DOMAIN pkt.secs /\ data'.market[t] = pkt.secs[t]
    BY <1>5, <1>9, <2>2 DEF QuoteHeard
  <2>3. CASE t \in DOMAIN before.market /\ data'.market[t] = before.market[t]
    <3>1. QuoteHeard(before.id, t, before.market[t])
      BY <1>9, <2>3
    <3> QED
      BY <2>3, <3>1
  <2> QED
    BY <2>1, <2>2, <2>3
<1>13. DataInv'
  BY <1>10, <1>11, <1>12 DEF DataInv, TargetHeard, QuoteHeard
<1> QED
  BY <1>2, <1>7, <1>8, <1>13, MoveInv

LEMMA FindInv ==
  ASSUME ClientInv, wire' = wire, NEW w \in Workers, Client!Find(w)
  PROVE  ClientInv'
<1>1. /\ UNCHANGED <<udp, queue, data, sent>>
      /\ wk' = [wk EXCEPT ![w] = IF Client!Quoted
                                 THEN [@ EXCEPT !.at = "args", !.it = data.target[1]]
                                 ELSE Client!AtPop]
  BY DEF Client!Find
<1>2. QueueInv' /\ DataInv'
  BY <1>1, QueueKept, DataKept DEF ClientInv
<1>3. wk' = [v \in Workers |-> wk'[v]] /\ DOMAIN wk[w] = {"at", "pkt", "it", "id", "price"}
  BY <1>1 DEF ClientInv, WorkersInv, WorkerOK
<1>4. CASE Client!Quoted
  <2>1. wk'[w] = [wk[w] EXCEPT !.at = "args", !.it = data.target[1]]
    BY <1>1, <1>4 DEF ClientInv, WorkersInv
  <2>2. /\ wk'[w].at = "args" /\ wk'[w].it = data.target[1]
        /\ DOMAIN wk'[w] = {"at", "pkt", "it", "id", "price"}
    BY <1>3, <2>1
  <2>3. WorkerOK(wk[w])'
    BY <1>1, <1>4, <2>2 DEF WorkerOK, Client!HasIterator, Client!Quoted
  <2> QED
    BY <1>1, <1>2, <1>3, <2>3, WorkerStep
<1>5. CASE ~Client!Quoted
  <2>1. wk'[w] = Client!AtPop
    BY <1>1, <1>5 DEF ClientInv, WorkersInv
  <2>2. wk'[w].at = "pop" /\ DOMAIN wk'[w] = {"at", "pkt", "it", "id", "price"}
    BY <2>1 DEF Client!AtPop, Client!Worker
  <2> QED
    BY <1>1, <1>2, <1>3, <2>2, MoveInv
<1> QED
  BY <1>4, <1>5

\* The id that is copied is the one the quote was found under.
LEMMA ReadIdInv ==
  ASSUME ClientInv, wire' = wire, NEW w \in Workers, Client!ReadId(w)
  PROVE  ClientInv'
<1> DEFINE place == IF wk[w].at = "args" THEN "price" ELSE Client!Called
<1>1. /\ UNCHANGED <<udp, queue, data, sent>> /\ wk[w].at \in {"args", "id"}
      /\ wk' = [wk EXCEPT ![w] = [@ EXCEPT !.at = place, !.id = data.id]]
  BY DEF Client!ReadId
<1>2. QueueInv' /\ DataInv'
  BY <1>1, QueueKept, DataKept DEF ClientInv
<1>3. wk' = [v \in Workers |-> wk'[v]] /\ WorkerOK(wk[w])
  BY <1>1 DEF ClientInv, WorkersInv
<1>4. wk'[w] = [wk[w] EXCEPT !.at = place, !.id = data.id]
  BY <1>1 DEF ClientInv, WorkersInv
<1>5. DOMAIN wk[w] = {"at", "pkt", "it", "id", "price"}
  BY <1>3 DEF WorkerOK
<1> HIDE DEF place
<1>6. /\ DOMAIN wk'[w] = {"at", "pkt", "it", "id", "price"}
      /\ wk'[w].at = place /\ wk'[w].id = data.id
      /\ wk'[w].it = wk[w].it /\ wk'[w].price = wk[w].price
  BY <1>4, <1>5
<1>7. CASE wk[w].at = "args"
  <2>1. Client!Quoted /\ wk[w].it = data.target[1]
    BY <1>3, <1>7 DEF WorkerOK, Client!HasIterator
  <2>2. place = "price"
    BY <1>7 DEF place
  <2>3. WorkerOK(wk[w])'
    BY <1>1, <1>6, <2>1, <2>2 DEF WorkerOK, Client!HasIterator, Client!Quoted
  <2> QED
    BY <1>1, <1>2, <1>3, <2>3, WorkerStep
<1>8. CASE wk[w].at = "id"
  <2>1. data.target # <<>> /\ QuoteHeard(data.id, data.target[1], wk[w].price)
    BY <1>3, <1>8 DEF WorkerOK
  <2>2. place \in {"reset", "send"}
    BY <1>8 DEF place, Client!Called
  <2>3. QuoteHeard(data.id, data.target[1], wk'[w].price)
    BY <1>6, <2>1
  <2>4. WorkerOK(wk[w])'
    BY <1>1, <1>6, <2>1, <2>2, <2>3 DEF WorkerOK, Client!HasIterator, QuoteHeard
  <2> QED
    BY <1>1, <1>2, <1>3, <2>4, WorkerStep
<1> QED
  BY <1>1, <1>7, <1>8

\* The iterator has not been invalidated, and what it points to is stored for
\* the target.
LEMMA ReadPriceInv ==
  ASSUME FeedInv, ClientInv, wire' = wire, NEW w \in Workers, Client!ReadPrice(w)
  PROVE  ClientInv'
<1> DEFINE place == IF wk[w].at = "args" THEN "id" ELSE Client!Called
           price == IF wk[w].it = Dangling THEN Garbage ELSE data.market[wk[w].it]
<1>1. /\ UNCHANGED <<udp, queue, data, sent>> /\ wk[w].at \in Client!HasIterator
      /\ wk' = [wk EXCEPT ![w] = Client!Worker(place, Client!Idle, Client!Idle, wk[w].id, price)]
  BY DEF Client!ReadPrice, ClientInv, WorkersInv
<1>2. QueueInv' /\ DataInv'
  BY <1>1, QueueKept, DataKept DEF ClientInv
<1>3. wk' = [v \in Workers |-> wk'[v]] /\ WorkerOK(wk[w])
  BY <1>1 DEF ClientInv, WorkersInv
<1>4. /\ data.target # <<>> /\ data.target[1] \in DOMAIN data.market
      /\ wk[w].it = data.target[1]
  BY <1>1, <1>3 DEF WorkerOK, Client!Quoted
<1>5. wk[w].it # Dangling
  <2>1. TargetHeard(data.id, data.target)
    BY <1>4 DEF ClientInv, DataInv
  <2>2. PICK i \in DOMAIN wire : wire[i].target = data.target
    BY <2>1 DEF TargetHeard
  <2>3. PICK t \in Tickers : data.target = <<t>>
    BY <1>4, <2>2 DEF FeedInv, PacketOK, Targets
  <2> QED
    BY <1>4, <2>3, SystemAssumption
<1>6. price = data.market[data.target[1]]
  BY <1>4, <1>5
<1>7. QuoteHeard(data.id, data.target[1], price)
  BY <1>4, <1>6 DEF ClientInv, DataInv
<1>8. /\ place \in {"id", "reset", "send"}
      /\ place # "id" => wk[w].id = data.id
  BY <1>1, <1>3 DEF WorkerOK, Client!HasIterator, Client!Called
<1> HIDE DEF place, price
<1>9. wk'[w] = Client!Worker(place, Client!Idle, Client!Idle, wk[w].id, price)
  BY <1>1 DEF ClientInv, WorkersInv
<1>10. /\ DOMAIN wk'[w] = {"at", "pkt", "it", "id", "price"}
       /\ wk'[w].at = place /\ wk'[w].id = wk[w].id /\ wk'[w].price = price
  BY <1>9 DEF Client!Worker
<1>11. WorkerOK(wk[w])'
  BY <1>1, <1>4, <1>7, <1>8, <1>10 DEF WorkerOK, Client!HasIterator, QuoteHeard
<1> QED
  BY <1>1, <1>2, <1>3, <1>11, WorkerStep

LEMMA SendInv ==
  ASSUME ClientInv, wire' = wire, NEW w \in Workers, Client!Send(w)
  PROVE  ClientInv'
<1> DEFINE a == [by |-> w, id |-> wk[w].id, ticker |-> data.target, price |-> wk[w].price]
<1>1. /\ UNCHANGED <<udp, queue, data>>
      /\ sent' = Append(sent, a) /\ wk' = [wk EXCEPT ![w].at = "reset"]
      /\ wk[w].at = "send"
  BY DEF Client!Send
<1>2. QueueInv' /\ DataInv'
  BY <1>1, QueueKept, DataKept DEF ClientInv
<1>3. WorkerOK(wk[w]) /\ DOMAIN wk[w] = {"at", "pkt", "it", "id", "price"}
  BY DEF ClientInv, WorkersInv, WorkerOK
<1>4. WorkersInv'
  <2>1. wk' = [v \in Workers |-> wk'[v]] /\ wk'[w] = [wk[w] EXCEPT !.at = "reset"]
    BY <1>1 DEF ClientInv, WorkersInv
  <2>2. wk'[w].at = "reset" /\ DOMAIN wk'[w] = {"at", "pkt", "it", "id", "price"}
    BY <1>3, <2>1
  <2>3. WorkerOK(wk[w])'
    BY <2>2 DEF WorkerOK, Client!HasIterator
  <2> QED
    BY <2>1, <2>3, OneWorker DEF WorkersInv
<1>5. NotStale(a)
  <2>1. /\ data.target # <<>> /\ wk[w].id = data.id
        /\ QuoteHeard(data.id, data.target[1], wk[w].price)
    BY <1>1, <1>3 DEF WorkerOK
  <2>2. TargetHeard(data.id, data.target)
    BY <2>1 DEF ClientInv, DataInv
  <2> QED
    BY <2>1, <2>2 DEF NotStale
<1>6. SentInv'
  <2>1. IsSequence(sent) /\ \A i \in DOMAIN sent : NotStale(sent[i])
    BY DEF ClientInv, SentInv
  <2>2. /\ IsSequence(sent')
        /\ \A i \in DOMAIN sent' : sent'[i] = a \/ (i \in DOMAIN sent /\ sent'[i] = sent[i])
    <3>1. /\ IsSequence(Append(sent, a)) /\ DOMAIN sent = 1 .. Len(sent) /\ Len(sent) \in Nat
          /\ DOMAIN Append(sent, a) = 1 .. Len(sent) + 1
          /\ Append(sent, a)[Len(sent) + 1] = a
          /\ \A i \in DOMAIN sent : Append(sent, a)[i] = sent[i]
      BY <2>1, AppendFacts, SequenceDomain
    <3> HIDE DEF a
    <3> QED
      BY <1>1, <3>1
  <2>3. \A i \in DOMAIN sent' : NotStale(sent'[i])
    <3> HIDE DEF a
    <3> QED
      BY <1>5, <2>1, <2>2
  <2> QED
    BY <2>2, <2>3 DEF SentInv, NotStale, TargetHeard, QuoteHeard
<1> QED
  BY <1>2, <1>4, <1>6 DEF ClientInv

LEMMA ResetInv ==
  ASSUME ClientInv, wire' = wire, NEW w \in Workers, Client!Reset(w)
  PROVE  ClientInv'
<1> DEFINE f == [wk EXCEPT ![w] = Client!AtPop]
<1>1. /\ UNCHANGED <<udp, queue, sent>>
      /\ data' = [data EXCEPT !.target = <<>>, !.market = Client!NoMarket]
      /\ wk' = Client!Cleared(f)
  BY DEF Client!Reset
<1>2. /\ f = [v \in Workers |-> f[v]] /\ f[w].at = "pop"
      /\ DOMAIN f[w] = {"at", "pkt", "it", "id", "price"}
  <2>1. f = [v \in Workers |-> f[v]] /\ f[w] = Client!AtPop
    BY DEF ClientInv, WorkersInv
  <2> QED
    BY <2>1 DEF Client!AtPop, Client!Worker
<1>3. wk' = f
  BY <1>1, <1>2, NothingDangles DEF Client!HasIterator
<1>4. DOMAIN data = {"id", "target", "market"}
  BY DEF ClientInv, DataInv
<1>5. /\ DOMAIN data' = {"id", "target", "market"}
      /\ data'.target = <<>> /\ DOMAIN data'.market = {}
  BY <1>1, <1>4 DEF Client!NoMarket
<1>6. DataInv'
  BY <1>5 DEF DataInv
<1> QED
  BY <1>1, <1>2, <1>3, <1>6, MoveInv

LEMMA ClientInvStep ==
  ASSUME ServerInv, FeedInv, OrderInv, ClientInv, [Next]_vars
  PROVE  ClientInv'
<1>1. ASSUME UNCHANGED clientVars PROVE ClientInv'
  BY <1>1, ClientKept, WireGrows
<1>2. CASE ClientStep
  <2>1. wire' = wire
    BY <1>2 DEF ClientStep
  <2>2. ASSUME Client!Receive \/ Client!Enqueue PROVE ClientInv'
    BY <2>1, <2>2, ReceiveInv
  <2>3. ASSUME NEW w \in Workers, Client!Process(w) PROVE ClientInv'
    BY <2>1, <2>3, PopInv, ApplyInv, TestInv, FindInv, ReadIdInv, ReadPriceInv, SendInv, ResetInv
    DEF Client!Process
  <2> QED
    BY <1>2, <2>2, <2>3 DEF ClientStep
<1>3. ASSUME ServerStep \/ Deliver \/ (\E s \in Others : OtherSends(s)) \/ UNCHANGED vars
      PROVE  UNCHANGED clientVars
  BY <1>3 DEF ServerStep, Deliver, OtherSends, vars
<1> QED
  BY <1>1, <1>2, <1>3 DEF Next

LEMMA ClientInit == Init => FeedInv /\ OrderInv /\ ClientInv
<1> SUFFICES ASSUME Init PROVE FeedInv /\ OrderInv /\ ClientInv
  OBVIOUS
<1>1. /\ toSend = <<>> /\ wire = <<>> /\ udp = <<>> /\ queue = <<>> /\ sent = <<>>
      /\ data = [id |-> -1, target |-> <<>>, market |-> <<>>]
      /\ wk = [w \in Workers |-> Client!AtPop] /\ heard = 0 /\ current.id = 0
  BY DEF Init, Server!Init, Server!NoChallenge, Client!Init, Client!Idle, Client!NoMarket
<1>2. FeedInv
  BY <1>1 DEF FeedInv
<1>3. QueueInv
  BY <1>1 DEF QueueInv, IsSequence
<1>4. DataInv
  BY <1>1 DEF DataInv
<1>5. WorkersInv
  BY <1>1 DEF WorkersInv, WorkerOK, Client!AtPop, Client!Worker, Client!HasIterator
<1>6. SentInv
  BY <1>1 DEF SentInv, IsSequence
<1>7. OrderInv
  <2>1. \A w \in Workers : wk[w].at = "pop"
    BY <1>1 DEF Client!AtPop, Client!Worker
  <2> QED
    BY <1>1, <2>1 DEF OrderInv, First, NotAfterQueued, NotAfterUdp, NotAfterWire
<1> QED
  BY <1>2, <1>3, <1>4, <1>5, <1>6, <1>7 DEF ClientInv

-----------------------------------------------------------------------------
(***************************************************************************)
(* The order of the packets                                                *)
(***************************************************************************)

\* Once the network has repeated or reordered packets, heard says so for ever.
LEMMA InOrderBefore ==
  ASSUME [Next]_vars, heard' # Client!Jumbled
  PROVE  heard # Client!Jumbled
<1>1. CASE Client!Receive
  BY <1>1 DEF Client!Receive
<1>2. ASSUME ~Client!Receive PROVE heard' = heard
  BY <1>2
  DEF Next, ServerStep, ClientStep, Deliver, OtherSends, vars, clientVars, Client!Enqueue,
      Client!Process, Client!Pop, Client!Apply, Client!Test, Client!Find, Client!ReadId,
      Client!ReadPrice, Client!Send, Client!Reset
<1> QED
  BY <1>1, <1>2

\* What is added to the wire is of the current challenge, and later ones come.
LEMMA WireAdds ==
  ASSUME ServerInv, [Next]_vars
  PROVE  /\ \A i \in DOMAIN wire' :
              \/ i \in DOMAIN wire /\ wire'[i] = wire[i]
              \/ wire'[i].n = current.id /\ i \in Int /\ \A j \in DOMAIN wire' : j <= i
         /\ current.id <= current'.id
<1>0. current.id \in Int
  BY DEF ServerInv, CurrentInv
<1>1. CASE Server!Multicast
  <2>1. /\ toSend # <<>> /\ wire' = Append(wire, Head(toSend)) /\ current' = current
        /\ IsSequence(wire) /\ IsSequence(toSend)
    BY <1>1 DEF Server!Multicast, ServerInv, PacketsInv
  <2>2. Head(toSend).n = current.id
    BY <2>1, TailFacts DEF ServerInv, PacketsInv
  <2>3. /\ wire'[Len(wire) + 1] = Head(toSend) /\ Len(wire) \in Nat
        /\ DOMAIN wire = 1 .. Len(wire) /\ DOMAIN wire' = 1 .. Len(wire) + 1
        /\ \A i \in DOMAIN wire : wire'[i] = wire[i]
    BY <2>1, AppendFacts, SequenceDomain
  <2> QED
    BY <1>0, <2>1, <2>2, <2>3
<1>2. CASE Server!Install
  <2>1. wire' = wire /\ current'.id = current.id + 1
    BY <1>2 DEF Server!Install
  <2> QED
    BY <1>0, <2>1
<1>3. ASSUME NEW s \in Sessions, Server!Judge(s) PROVE wire' = wire /\ current'.id = current.id
  BY <1>3 DEF Server!Judge, ServerInv, CurrentInv
<1>4. ASSUME ServerStep, ~Server!Multicast, ~Server!Install,
             \A s \in Sessions : ~Server!Judge(s)
      PROVE  wire' = wire /\ current' = current
  BY <1>4
  DEF ServerStep, Server!Accept, Server!AcceptThrows, Server!Handle, Server!SkipLine,
      Server!Reply, Server!Disconnect
<1>5. ASSUME ClientStep \/ Deliver \/ (\E s \in Others : OtherSends(s)) \/ UNCHANGED vars
      PROVE  wire' = wire /\ current' = current
  BY <1>5 DEF ClientStep, Deliver, OtherSends, Server!Arrives, vars, serverVars
<1>6. ASSUME wire' = wire, current'.id = current.id
      PROVE  /\ \A i \in DOMAIN wire' : i \in DOMAIN wire /\ wire'[i] = wire[i]
             /\ current.id <= current'.id
  BY <1>0, <1>6
<1> QED
  BY <1>1, <1>2, <1>3, <1>4, <1>5, <1>6 DEF Next

\* The numbers of the challenges are integers.
LEMMA Numbers ==
  ASSUME ServerInv, ClientInv
  PROVE  /\ current.id \in Int
         /\ \A i \in DOMAIN wire : i \in Int /\ wire[i].n \in Int /\ wire[i].n <= current.id
         /\ \A i \in DOMAIN udp : udp[i].n \in Int
         /\ \A i \in DOMAIN queue : i \in Int /\ queue[i].n \in Int
         /\ \A w \in Workers : wk[w].at = "apply" => wk[w].pkt[1].n \in Int
<1>1. /\ current.id \in Int
      /\ \A i \in DOMAIN wire : i \in Int /\ wire[i].n \in Int /\ wire[i].n <= current.id
  BY SequenceDomain DEF ServerInv, CurrentInv, PacketsInv
<1>2. \A p : Heard(p) => p.n \in Int
  BY <1>1 DEF Heard
<1>3. \A i \in DOMAIN queue : i \in Int
  BY SequenceDomain DEF ClientInv, QueueInv
<1> QED
  BY <1>1, <1>2, <1>3 DEF ClientInv, QueueInv, WorkersInv, WorkerOK

\* A step that leaves the client alone.
LEMMA OrderKept ==
  ASSUME ServerInv, ClientInv, OrderInv, [Next]_vars, UNCHANGED clientVars
  PROVE  OrderInv'
<1>1. /\ \A i \in DOMAIN wire' :
           \/ i \in DOMAIN wire /\ wire'[i] = wire[i]
           \/ wire'[i].n = current.id /\ i \in Int /\ \A j \in DOMAIN wire' : j <= i
      /\ current.id <= current'.id
  BY WireAdds
<1>2. /\ current.id \in Int /\ current'.id \in Int
      /\ \A i \in DOMAIN wire : i \in Int /\ wire[i].n \in Int /\ wire[i].n <= current.id
  BY ServerInvStep, Numbers DEF ServerInv, CurrentInv
<1>3. UNCHANGED <<heard, udp, queue, data, wk>>
  BY DEF clientVars
<1>4. ASSUME NEW n \in Int, NotAfterWire(n) PROVE NotAfterWire(n)'
  <2>1. n <= current.id /\ \A i \in DOMAIN wire : heard < i => n <= wire[i].n
    BY <1>4 DEF NotAfterWire
  <2>2. n <= current'.id
    BY <1>1, <1>2, <2>1
  <2>3. \A i \in DOMAIN wire' : heard' < i => n <= wire'[i].n
    BY <1>1, <1>3, <2>1
  <2> QED
    BY <2>2, <2>3 DEF NotAfterWire
<1>5. \A n \in Int : First(n) => First(n)'
  BY <1>3, <1>4 DEF First, NotAfterQueued, NotAfterUdp
<1>6. ASSUME NEW i \in DOMAIN wire', NEW j \in DOMAIN wire', i < j
      PROVE  wire'[i].n <= wire'[j].n
  <2>1. i \in DOMAIN wire /\ wire'[i] = wire[i]
    BY <1>1, <1>2, <1>6
  <2> QED
    BY <1>1, <1>2, <1>6, <2>1 DEF OrderInv
<1>7. \A i \in DOMAIN udp : NotAfterWire(udp[i].n)'
  BY <1>3, <1>4, Numbers DEF OrderInv, NotAfterWire
<1>8. \A i \in DOMAIN queue : NotAfterWire(queue[i].n)'
  BY <1>3, <1>4, Numbers DEF OrderInv, NotAfterWire
<1>9. First(data.id)' /\ \A w \in Workers : wk[w].at = "apply" => First(wk[w].pkt[1].n)'
  BY <1>3, <1>5, Numbers DEF OrderInv, First, NotAfterQueued, NotAfterUdp, NotAfterWire
<1> QED
  BY <1>3, <1>6, <1>7, <1>8, <1>9 DEF OrderInv, NotAfterUdp, NotAfterQueued, NotAfterWire, First

LEMMA ReceiveOrder ==
  ASSUME ServerInv, ClientInv, OrderInv, Client!Receive, heard' # Client!Jumbled,
         wire' = wire, current' = current
  PROVE  OrderInv'
<1>1. PICK i \in DOMAIN wire : udp' = <<wire[i]>> /\ heard' = i /\ heard < i
  BY DEF Client!Receive, Client!Deliverable, Client!Jumbled
<1>2. UNCHANGED <<queue, data, wk>>
  BY DEF Client!Receive
<1>3. heard \in Int /\ i \in Int
  BY Numbers DEF OrderInv
<1>4. \A n \in Int : NotAfterWire(n) => NotAfterWire(n)' /\ NotAfterUdp(n)'
  <2> SUFFICES ASSUME NEW n \in Int, NotAfterWire(n) PROVE NotAfterWire(n)' /\ NotAfterUdp(n)'
    OBVIOUS
  <2>1. n <= current.id /\ \A j \in DOMAIN wire : heard < j => n <= wire[j].n
    BY DEF NotAfterWire
  <2>2. NotAfterWire(n)'
    BY <1>1, <1>3, <2>1, Numbers DEF NotAfterWire
  <2>3. NotAfterUdp(n)'
    BY <1>1, <2>1 DEF NotAfterUdp
  <2> QED
    BY <2>2, <2>3
<1>5. \A n \in Int : First(n) => First(n)'
  BY <1>2, <1>4 DEF First, NotAfterQueued
<1>6. NotAfterWire(wire[i].n)'
  BY <1>1, Numbers DEF OrderInv, NotAfterWire
<1>7. \A j \in DOMAIN udp' : NotAfterWire(udp[j].n)'
  BY <1>1, <1>6 DEF NotAfterWire
<1>8. \A j \in DOMAIN queue : NotAfterWire(queue[j].n)' /\ NotAfterUdp(queue[j].n)'
  BY <1>2, <1>4, Numbers DEF OrderInv, NotAfterWire, NotAfterUdp
<1>9. First(data.id)' /\ \A w \in Workers : wk[w].at = "apply" => First(wk[w].pkt[1].n)'
  BY <1>2, <1>5, Numbers DEF OrderInv, First, NotAfterQueued, NotAfterUdp, NotAfterWire
<1>10. heard' \in Int
  BY <1>1, <1>3
<1> QED
  BY <1>2, <1>7, <1>8, <1>9, <1>10
  DEF OrderInv, NotAfterUdp, NotAfterQueued, NotAfterWire, First

LEMMA EnqueueOrder ==
  ASSUME ServerInv, ClientInv, OrderInv, Client!Enqueue, wire' = wire, current' = current
  PROVE  OrderInv'
<1>1. /\ udp' = <<>> /\ (queue' = queue \o udp \/ queue' = queue)
      /\ UNCHANGED <<heard, data, wk>>
  BY DEF Client!Enqueue, Client!Idle
<1>2. udp # <<>> /\ IsSequence(udp) /\ IsSequence(queue)
  BY DEF Client!Enqueue, Client!Idle, ClientInv, QueueInv
<1>3. \A n : NotAfterUdp(n)'
  BY <1>1 DEF NotAfterUdp
<1>4. \A i \in DOMAIN queue' : \/ i \in DOMAIN queue /\ queue'[i] = queue[i]
                               \/ i - Len(queue) \in DOMAIN udp /\ queue'[i] = udp[i - Len(queue)]
  BY <1>1, <1>2, ConcatFacts
<1>5. \A n : First(n) => First(n)'
  BY <1>1, <1>3, <1>4 DEF First, NotAfterQueued, NotAfterUdp, NotAfterWire
<1>6. \A i \in DOMAIN queue' : NotAfterWire(queue[i].n)'
  BY <1>1, <1>4 DEF OrderInv, NotAfterWire
<1>7. ASSUME NEW i \in DOMAIN queue', NEW j \in DOMAIN queue', i < j
      PROVE  queue'[i].n <= queue'[j].n
  <2>1. /\ DOMAIN queue = 1 .. Len(queue) /\ Len(queue) \in Nat
        /\ DOMAIN udp = 1 .. Len(udp) /\ Len(udp) \in Nat /\ Len(udp) <= 1
    BY <1>2, SequenceDomain DEF ClientInv, QueueInv
  <2>2. CASE i \in DOMAIN queue /\ j \in DOMAIN queue
    BY <1>4, <1>7, <2>1, <2>2 DEF OrderInv
  <2>3. CASE i \in DOMAIN queue /\ j \notin DOMAIN queue
    BY <1>4, <2>1, <2>3 DEF OrderInv, NotAfterUdp
  <2>4. CASE i \notin DOMAIN queue
    BY <1>4, <1>7, <2>1, <2>4
  <2> QED
    BY <2>2, <2>3, <2>4
<1>8. \A i \in DOMAIN udp' : NotAfterWire(udp[i].n)'
  BY <1>1
<1>9. First(data.id)' /\ \A w \in Workers : wk[w].at = "apply" => First(wk[w].pkt[1].n)'
  BY <1>1, <1>5 DEF OrderInv, First, NotAfterQueued, NotAfterUdp, NotAfterWire
<1> QED
  BY <1>1, <1>3, <1>6, <1>7, <1>8, <1>9
  DEF OrderInv, NotAfterUdp, NotAfterQueued, NotAfterWire, First

LEMMA PopOrder ==
  ASSUME ServerInv, ClientInv, OrderInv, NEW w \in Workers, Client!Pop(w),
         wire' = wire, current' = current
  PROVE  OrderInv'
<1>1. /\ queue # <<>> /\ queue' = Tail(queue) /\ UNCHANGED <<heard, udp, data>>
      /\ wk' = [wk EXCEPT ![w] = [@ EXCEPT !.at = "apply", !.pkt = <<Head(queue)>>]]
  BY DEF Client!Pop
<1>2. /\ 1 \in DOMAIN queue /\ Head(queue) = queue[1]
      /\ \A i \in DOMAIN queue' : i + 1 \in DOMAIN queue /\ queue'[i] = queue[i + 1]
      /\ \A i \in DOMAIN queue' : i \in Int /\ 1 < i + 1
  BY <1>1, TailFacts, SequenceDomain DEF ClientInv, QueueInv
<1>3. /\ wk'[w].pkt[1] = queue[1]
      /\ \A v \in Workers : v = w
  <2>1. wk'[w] = [wk[w] EXCEPT !.at = "apply", !.pkt = <<queue[1]>>]
    BY <1>1, <1>2 DEF ClientInv, WorkersInv
  <2>2. DOMAIN wk[w] = {"at", "pkt", "it", "id", "price"}
    BY DEF ClientInv, WorkersInv, WorkerOK
  <2> QED
    BY <2>1, <2>2, OneWorker
<1>4. \A n : First(n) => First(n)'
  BY <1>1, <1>2 DEF First, NotAfterQueued, NotAfterUdp, NotAfterWire
<1>5. ASSUME NEW n, n = queue[1].n PROVE First(n)'
  <2>1. NotAfterQueued(n)'
    BY <1>2, <1>5 DEF OrderInv, NotAfterQueued
  <2>2. NotAfterUdp(n)' /\ NotAfterWire(n)'
    BY <1>1, <1>2, <1>5 DEF OrderInv, NotAfterUdp, NotAfterWire
  <2> QED
    BY <2>1, <2>2 DEF First
<1>6. data.id <= queue[1].n
  BY <1>2 DEF OrderInv, First, NotAfterQueued
<1>7. \A i \in DOMAIN queue' :
        /\ NotAfterWire(queue[i].n)' /\ NotAfterUdp(queue[i].n)'
        /\ \A j \in DOMAIN queue' : i < j => queue'[i].n <= queue'[j].n
  BY <1>1, <1>2 DEF OrderInv, NotAfterUdp, NotAfterWire
<1>8. First(data.id)'
  BY <1>1, <1>4 DEF OrderInv, First, NotAfterQueued, NotAfterUdp, NotAfterWire
<1>9. First(wk[w].pkt[1].n)' /\ data'.id <= wk'[w].pkt[1].n
  <2>1. PICK n : n = queue[1].n
    OBVIOUS
  <2>2. First(n)' /\ data.id <= n
    BY <1>5, <1>6, <2>1
  <2>3. wk'[w].pkt[1].n = n
    BY <1>3, <2>1
  <2> QED
    BY <1>1, <2>2, <2>3 DEF First, NotAfterQueued, NotAfterUdp, NotAfterWire
<1> QED
  BY <1>1, <1>3, <1>7, <1>8, <1>9
  DEF OrderInv, First, NotAfterQueued, NotAfterUdp, NotAfterWire

\* A step that takes no packet: the id that is stored stays or is that of the
\* packet that is applied.
LEMMA WorkOrder ==
  ASSUME OrderInv, wire' = wire, current' = current, UNCHANGED <<heard, udp, queue>>,
         NEW w \in Workers, wk'[w].at # "apply", data'.id \in Int, First(data'.id)
  PROVE  OrderInv'
<1>1. \A v \in Workers : wk'[v].at # "apply"
  BY OneWorker
<1> QED
  BY <1>1 DEF OrderInv, First, NotAfterQueued, NotAfterUdp, NotAfterWire

LEMMA TakesNoPacket ==
  ASSUME ClientInv, NEW w \in Workers, Client!Process(w), ~Client!Pop(w)
  PROVE  wk'[w].at # "apply"
<1>1. wk = [v \in Workers |-> wk[v]] /\ DOMAIN wk[w] = {"at", "pkt", "it", "id", "price"}
  BY DEF ClientInv, WorkersInv, WorkerOK
<1>2. CASE Client!Apply(w)
  <2> DEFINE f == [wk EXCEPT ![w].at = "test", ![w].pkt = Client!Idle]
  <2>1. wk' = Client!Cleared(f) \/ wk' = f
    BY <1>2 DEF Client!Apply
  <2>2. f[w] = [[wk[w] EXCEPT !.at = "test"] EXCEPT !.pkt = Client!Idle]
    BY <1>1
  <2>3. f[w].at = "test" /\ f = [v \in Workers |-> f[v]]
    BY <1>1, <2>2
  <2> HIDE DEF f
  <2> QED
    BY <2>1, <2>3, NothingDangles DEF Client!HasIterator
<1>3. CASE Client!Reset(w)
  <2> DEFINE f == [wk EXCEPT ![w] = Client!AtPop]
  <2>1. wk' = Client!Cleared(f)
    BY <1>3 DEF Client!Reset
  <2>2. f[w].at = "pop" /\ f = [v \in Workers |-> f[v]]
    BY <1>1 DEF Client!AtPop, Client!Worker
  <2> HIDE DEF f
  <2> QED
    BY <2>1, <2>2, NothingDangles DEF Client!HasIterator
<1>4. ASSUME NEW k, k.at # "apply", wk' = [wk EXCEPT ![w] = k] PROVE wk'[w].at # "apply"
  BY <1>1, <1>4
<1>5. Client!AtPop.at = "pop"
  BY DEF Client!AtPop, Client!Worker
<1>6. CASE Client!Test(w)
  <2>1. [wk[w] EXCEPT !.at = "find"].at = "find"
    BY <1>1
  <2> QED
    BY <1>4, <1>5, <1>6, <2>1 DEF Client!Test
<1>7. CASE Client!Find(w)
  <2>1. [wk[w] EXCEPT !.at = "args", !.it = data.target[1]].at = "args"
    BY <1>1
  <2> QED
    BY <1>4, <1>5, <1>7, <2>1 DEF Client!Find
<1>8. CASE Client!ReadId(w)
  <2> DEFINE place == IF wk[w].at = "args" THEN "price" ELSE Client!Called
             k     == [wk[w] EXCEPT !.at = place, !.id = data.id]
  <2>1. wk' = [wk EXCEPT ![w] = k]
    BY <1>8 DEF Client!ReadId
  <2>2. place # "apply"
    BY DEF Client!Called
  <2>3. k.at # "apply"
    <3> HIDE DEF place
    <3> QED
      BY <1>1, <2>2
  <2> HIDE DEF k
  <2> QED
    BY <1>4, <2>1, <2>3
<1>9. CASE Client!ReadPrice(w)
  <2>1. PICK price :
          wk' = [wk EXCEPT ![w] = Client!Worker(IF wk[w].at = "args" THEN "id" ELSE Client!Called,
                                                Client!Idle, Client!Idle, wk[w].id, price)]
    BY <1>1, <1>9 DEF Client!ReadPrice
  <2> DEFINE k == Client!Worker(IF wk[w].at = "args" THEN "id" ELSE Client!Called,
                                Client!Idle, Client!Idle, wk[w].id, price)
  <2>2. k.at # "apply"
    BY DEF Client!Worker, Client!Called
  <2> HIDE DEF k
  <2> QED
    BY <1>4, <2>1, <2>2 DEF k
<1>10. CASE Client!Send(w)
  <2>1. [wk[w] EXCEPT !.at = "reset"].at = "reset"
    BY <1>1
  <2> QED
    BY <1>4, <1>10, <2>1 DEF Client!Send
<1> QED
  BY <1>2, <1>3, <1>6, <1>7, <1>8, <1>9, <1>10 DEF Client!Process

LEMMA OrderInvStep ==
  ASSUME ServerInv, ClientInv, ClientInv', OrderInv, [Next]_vars, heard' # Client!Jumbled
  PROVE  OrderInv'
<1>1. CASE UNCHANGED clientVars
  BY <1>1, OrderKept
<1>2. CASE ClientStep
  <2>1. wire' = wire /\ current' = current
    BY <1>2 DEF ClientStep, serverVars
  <2>2. ASSUME NEW w \in Workers, Client!Process(w), ~Client!Pop(w) PROVE OrderInv'
    <3>1. UNCHANGED <<heard, udp, queue>>
      BY <2>2
      DEF Client!Process, Client!Apply, Client!Test, Client!Find, Client!ReadId,
          Client!ReadPrice, Client!Send, Client!Reset
    <3>2. data.id \in Int /\ First(data.id) /\ DOMAIN data = {"id", "target", "market"}
      BY DEF OrderInv, ClientInv, DataInv
    <3>3. CASE Client!Apply(w)
      <4> DEFINE pkt    == wk[w].pkt[1]
                 before == IF pkt.hasId /\ pkt.n # data.id
                           THEN [id |-> pkt.n, target |-> <<>>, market |-> Client!NoMarket]
                           ELSE data
      <4>1. wk[w].at = "apply"
            /\ data' = [before EXCEPT !.market = Client!Stored(pkt.secs, @),
                                      !.target = IF pkt.target = <<>> THEN @ ELSE pkt.target]
        BY <3>3 DEF Client!Apply
      <4>2. First(pkt.n) /\ pkt.n \in Int
        BY <4>1, Numbers DEF OrderInv
      <4>3. /\ DOMAIN before = {"id", "target", "market"}
            /\ before.id \in Int /\ First(before.id)
        BY <3>2, <4>2
      <4> HIDE DEF before, pkt
      <4>4. data'.id = before.id
        BY <4>1, <4>3
      <4> QED
        BY <2>1, <2>2, <3>1, <4>3, <4>4, TakesNoPacket, WorkOrder
    <3>4. CASE ~Client!Apply(w)
      <4>1. data'.id = data.id
        BY <2>2, <3>2, <3>4
        DEF Client!Process, Client!Test, Client!Find, Client!ReadId, Client!ReadPrice,
            Client!Send, Client!Reset
      <4> QED
        BY <2>1, <2>2, <3>1, <3>2, <3>4, <4>1, TakesNoPacket, WorkOrder
    <3> QED
      BY <3>3, <3>4
  <2> QED
    BY <1>2, <2>1, <2>2, ReceiveOrder, EnqueueOrder, PopOrder DEF ClientStep, Client!Process
<1>3. ASSUME ServerStep \/ Deliver \/ (\E s \in Others : OtherSends(s)) \/ UNCHANGED vars
      PROVE  UNCHANGED clientVars
  BY <1>3 DEF ServerStep, Deliver, OtherSends, vars
<1> QED
  BY <1>1, <1>2, <1>3 DEF Next

-----------------------------------------------------------------------------
(***************************************************************************)
(* From the client to the server                                           *)
(***************************************************************************)

\* The parts of m are of no earlier challenge than it names.
HeardRight(m) == TargetHeard(m.id, <<m.ticker>>) /\ QuoteHeard(m.id, m.ticker, m.price)

LEMMA HeardRightStays ==
  ASSUME \A i \in DOMAIN wire : i \in DOMAIN wire' /\ wire'[i] = wire[i]
  PROVE  \A m : HeardRight(m) => HeardRight(m)'
BY DEF HeardRight, TargetHeard, QuoteHeard

\* So are those of an answer when it arrives.
LEMMA AnswerArrives ==
  ASSUME FeedInv, NEW a, NotStale(a)
  PROVE  HeardRight(Answer(a))
<1>1. /\ TargetHeard(a.id, a.ticker) /\ QuoteHeard(a.id, a.ticker[1], a.price)
  BY DEF NotStale
<1>2. PICK t \in Tickers : a.ticker = <<t>>
  BY <1>1 DEF TargetHeard, FeedInv, PacketOK, Targets
<1> DEFINE m == Answer(a)
<1>3. m.id = a.id /\ m.ticker = t /\ m.price = a.price /\ a.ticker[1] = t
  BY <1>2 DEF Answer
<1> HIDE DEF m
<1>4. HeardRight(m)
  BY <1>1, <1>2, <1>3 DEF HeardRight
<1> QED
  BY <1>4 DEF m

\* A submission that names the current challenge is then right, as there is no
\* later one, and wins the challenge unless it has been won.
LEMMA CurrentWins ==
  ASSUME ServerInv, FeedInv, NEW m, HeardRight(m), m.id = current.id, ~current.declared
  PROVE  Server!Wins(m)
<1>0. current.id \in Int /\ \A i \in DOMAIN wire : wire[i].n \in Int /\ wire[i].n <= current.id
  BY DEF ServerInv, CurrentInv, PacketsInv
<1>1. PICK i \in DOMAIN wire : wire[i].n = m.id /\ wire[i].target = <<m.ticker>>
  BY <1>0 DEF HeardRight, TargetHeard
<1>2. PICK j \in DOMAIN wire : /\ wire[j].n = m.id /\ m.ticker \in DOMAIN wire[j].secs
                               /\ wire[j].secs[m.ticker] = m.price
  BY <1>0 DEF HeardRight, QuoteHeard
<1>3. <<m.ticker>> = current.target /\ m.ticker \in Tickers
  <2>1. wire[i].target \in Targets /\ wire[i].target # <<>>
    BY <1>1 DEF FeedInv, PacketOK
  <2>2. wire[i].target = current.target
    BY <1>1, <2>1 DEF FeedInv, PacketOK
  <2>3. PICK t \in Tickers : <<m.ticker>> = <<t>>
    BY <1>1, <2>1 DEF Targets
  <2> QED
    BY <1>1, <2>2, <2>3
<1>4. m.ticker \in DOMAIN current.market
  BY <1>3 DEF ServerInv, CurrentInv
<1>5. current.market[m.ticker] = m.price
  BY <1>2 DEF ServerInv, PacketsInv, Quotes
<1> QED
  BY <1>3, <1>4, <1>5 DEF Server!Wins

LEMMA InboxInvStep ==
  ASSUME ServerInv, FeedInv, ClientInv, InboxInv, [Next]_vars
  PROVE  InboxInv'
<1>1. \A m : HeardRight(m) => HeardRight(m)'
  BY WireGrows, HeardRightStays
<1>2. /\ inbox = [s \in Sessions |-> inbox[s]] /\ arrived \in Nat /\ IsSequence(inbox[Us])
      /\ \A k \in DOMAIN inbox[Us] : HeardRight(inbox[Us][k])
  BY DEF InboxInv, HeardRight
<1>3. ASSUME inbox' = [s \in Sessions |-> inbox'[s]], arrived' \in Nat, IsSequence(inbox'[Us]),
             \A k \in DOMAIN inbox'[Us] : HeardRight(inbox'[Us][k])
      PROVE  InboxInv'
  <2>1. ASSUME NEW k \in DOMAIN inbox'[Us]
        PROVE  /\ TargetHeard(inbox[Us][k].id, <<inbox[Us][k].ticker>>)'
               /\ QuoteHeard(inbox[Us][k].id, inbox[Us][k].ticker, inbox[Us][k].price)'
    <3> DEFINE m == inbox'[Us][k]
    <3>1. \E i \in DOMAIN wire : m.id <= wire[i].n /\ wire[i].target = <<m.ticker>>
      BY <1>3 DEF HeardRight, TargetHeard
    <3>2. \E j \in DOMAIN wire : /\ m.id <= wire[j].n /\ m.ticker \in DOMAIN wire[j].secs
                                 /\ wire[j].secs[m.ticker] = m.price
      BY <1>3 DEF HeardRight, QuoteHeard
    <3>3. <<m.ticker>> # <<>>
      OBVIOUS
    <3>4. TargetHeard(inbox[Us][k].id, <<inbox[Us][k].ticker>>)'
      BY <3>1, <3>3, WireGrows DEF TargetHeard
    <3>5. QuoteHeard(inbox[Us][k].id, inbox[Us][k].ticker, inbox[Us][k].price)'
      BY <3>2, WireGrows DEF QuoteHeard
    <3> QED
      BY <3>4, <3>5
  <2> QED
    BY <1>3, <2>1 DEF InboxInv
<1>4. ASSUME inbox' = inbox, arrived' = arrived PROVE InboxInv'
  BY <1>2, <1>3, <1>4
<1>5. ASSUME NEW s \in Sessions, inbox[s] # <<>>, arrived' = arrived,
             inbox' = [inbox EXCEPT ![s] = Tail(@)]
      PROVE  InboxInv'
  <2>1. CASE s = Us
    <3>1. inbox'[Us] = Tail(inbox[Us])
      BY <1>2, <1>5, <2>1
    <3>2. /\ IsSequence(Tail(inbox[Us]))
          /\ \A k \in DOMAIN Tail(inbox[Us]) :
               k + 1 \in DOMAIN inbox[Us] /\ Tail(inbox[Us])[k] = inbox[Us][k + 1]
      BY <1>2, <1>5, <2>1, TailFacts
    <3>3. \A k \in DOMAIN inbox'[Us] : HeardRight(inbox'[Us][k])
      BY <1>2, <3>1, <3>2
    <3> QED
      BY <1>2, <1>3, <1>5, <3>1, <3>2, <3>3
  <2>2. CASE s # Us
    <3>1. inbox'[Us] = inbox[Us] /\ inbox' = [v \in Sessions |-> inbox'[v]]
      BY <1>2, <1>5, <2>2 DEF Sessions
    <3> QED
      BY <1>2, <1>3, <1>5, <3>1
  <2> QED
    BY <2>1, <2>2
<1>6. CASE Deliver
  <2> DEFINE m == Answer(sent[arrived + 1])
  <2>1. /\ arrived < Len(sent) /\ arrived' = arrived + 1
        /\ inbox' = [inbox EXCEPT ![Us] = Append(@, m)]
    BY <1>6 DEF Deliver, Server!Arrives
  <2>2. arrived + 1 \in DOMAIN sent
    BY <1>2, <2>1, SequenceDomain DEF ClientInv, SentInv
  <2>3. HeardRight(m)
    BY <2>2, AnswerArrives DEF ClientInv, SentInv
  <2> HIDE DEF m
  <2>4. inbox'[Us] = Append(inbox[Us], m) /\ inbox' = [v \in Sessions |-> inbox'[v]]
    BY <1>2, <2>1 DEF Sessions
  <2>5. /\ IsSequence(inbox'[Us])
        /\ \A k \in DOMAIN inbox'[Us] :
             inbox'[Us][k] = m \/ (k \in DOMAIN inbox[Us] /\ inbox'[Us][k] = inbox[Us][k])
    <3>1. /\ IsSequence(Append(inbox[Us], m))
          /\ DOMAIN inbox[Us] = 1 .. Len(inbox[Us]) /\ Len(inbox[Us]) \in Nat
          /\ DOMAIN Append(inbox[Us], m) = 1 .. Len(inbox[Us]) + 1
          /\ Append(inbox[Us], m)[Len(inbox[Us]) + 1] = m
          /\ \A k \in DOMAIN inbox[Us] : Append(inbox[Us], m)[k] = inbox[Us][k]
      BY <1>2, AppendFacts, SequenceDomain
    <3> QED
      BY <2>4, <3>1
  <2>6. \A k \in DOMAIN inbox'[Us] : HeardRight(inbox'[Us][k])
    BY <1>2, <2>3, <2>5
  <2>7. arrived' \in Nat
    BY <1>2, <2>1
  <2> QED
    BY <1>3, <2>4, <2>5, <2>6, <2>7
<1>7. ASSUME NEW s \in Others, OtherSends(s) PROVE InboxInv'
  <2>1. PICK m \in Lines : inbox' = [inbox EXCEPT ![s] = Append(@, m)]
    BY <1>7 DEF OtherSends, Server!Arrives
  <2>2. s # Us /\ arrived' = arrived
    BY <1>7, SystemAssumption DEF OtherSends
  <2>3. inbox'[Us] = inbox[Us] /\ inbox' = [v \in Sessions |-> inbox'[v]]
    BY <1>2, <2>1, <2>2 DEF Sessions
  <2> QED
    BY <1>2, <1>3, <2>2, <2>3
<1>8. CASE ServerStep
  <2>1. arrived' = arrived
    BY <1>8 DEF ServerStep
  <2>2. ASSUME NEW s \in Sessions, Server!SkipLine(s) \/ Server!Judge(s) PROVE InboxInv'
    BY <1>5, <2>1, <2>2 DEF Server!SkipLine, Server!Judge
  <2>3. ASSUME \A s \in Sessions : ~(Server!SkipLine(s) \/ Server!Judge(s))
        PROVE  inbox' = inbox
    BY <1>8, <2>3
    DEF ServerStep, Server!Install, Server!Multicast, Server!Accept, Server!AcceptThrows,
        Server!Handle, Server!Reply, Server!Disconnect
  <2> QED
    BY <1>4, <2>1, <2>2, <2>3
<1>9. ASSUME ClientStep \/ UNCHANGED vars PROVE inbox' = inbox /\ arrived' = arrived
  BY <1>9 DEF ClientStep, vars, serverVars
<1> QED
  BY <1>4, <1>6, <1>7, <1>8, <1>9 DEF Next

LEMMA OnlyLateStep ==
  ASSUME ServerInv, FeedInv, heard # Client!Jumbled => InboxInv, OnlyLateLoses, [Next]_vars
  PROVE  OnlyLateLoses'
<1>0. heard' # Client!Jumbled => heard # Client!Jumbled
  BY InOrderBefore
<1>1. ASSUME NEW s \in Sessions, Server!Judge(s) PROVE OnlyLateLoses'
  <2> DEFINE m == Head(inbox[s])
             entry == [by |-> s, sub |-> m]
  <2>1. /\ inbox[s] # <<>> /\ judged' = Append(judged, entry)
        /\ current' = IF Server!Wins(m) THEN [current EXCEPT !.declared = TRUE, !.winner = s]
                                        ELSE current
    BY <1>1 DEF Server!Judge
  <2>2. heard' # Client!Jumbled /\ s = Us => HeardRight(m)
    <3> SUFFICES ASSUME InboxInv, s = Us PROVE HeardRight(m)
      BY <1>0
    <3>1. 1 \in DOMAIN inbox[Us] /\ m = inbox[Us][1]
      BY <2>1, TailFacts DEF InboxInv
    <3> QED
      BY <3>1 DEF InboxInv, HeardRight
  <2> HIDE DEF m
  <2>3. /\ current'.id = current.id
        /\ current.declared => current'.declared
        /\ Server!Wins(m) => current'.declared
    BY <2>1 DEF ServerInv, CurrentInv
  <2>4. heard' # Client!Jumbled /\ s = Us /\ m.id = current.id => current'.declared
    BY <2>2, <2>3, CurrentWins DEF ServerInv, CurrentInv
  <2>5. entry.by = s /\ entry.sub = m
    OBVIOUS
  <2> HIDE DEF entry
  <2>6. \A i \in DOMAIN judged' :
          judged'[i] = entry \/ (i \in DOMAIN judged /\ judged'[i] = judged[i])
    <3>1. /\ DOMAIN judged = 1 .. Len(judged) /\ Len(judged) \in Nat
          /\ DOMAIN Append(judged, entry) = 1 .. Len(judged) + 1
          /\ Append(judged, entry)[Len(judged) + 1] = entry
          /\ \A i \in DOMAIN judged : Append(judged, entry)[i] = judged[i]
      BY AppendFacts, SequenceDomain DEF ServerInv, JudgedInv
    <3> QED
      BY <2>1, <3>1
  <2> QED
    BY <1>0, <2>3, <2>4, <2>5, <2>6 DEF OnlyLateLoses, Client!Jumbled
<1>2. CASE Server!Install
  BY <1>2 DEF Server!Install, OnlyLateLoses
<1>3. ASSUME judged' = judged, current' = current PROVE OnlyLateLoses'
  BY <1>0, <1>3 DEF OnlyLateLoses, Client!Jumbled
<1>4. CASE ServerStep
  BY <1>1, <1>2, <1>3, <1>4
  DEF ServerStep, Server!Multicast, Server!Accept, Server!AcceptThrows, Server!Handle,
      Server!SkipLine, Server!Reply, Server!Disconnect
<1>5. ASSUME ClientStep \/ Deliver \/ (\E s \in Others : OtherSends(s)) \/ UNCHANGED vars
      PROVE  judged' = judged /\ current' = current
  BY <1>5 DEF ClientStep, Deliver, OtherSends, Server!Arrives, vars, serverVars
<1> QED
  BY <1>3, <1>4, <1>5 DEF Next

\* With one worker, however udp_broadcast_thread cuts the challenges and
\* whichever packets are lost on the way or at a full queue, while the network
\* keeps their order: when process_order has judged the client's answer to the
\* challenge that is current, that challenge has a winner (the client, or one
\* whose answer was judged before).
THEOREM OnlyLate == Spec => []OnlyLateLoses
<1> DEFINE InOrder == heard # Client!Jumbled => OrderInv /\ ClientInv /\ InboxInv
           Inv     == ServerInv /\ FeedInv /\ InOrder /\ OnlyLateLoses
<1>1. Init => Inv
  <2> SUFFICES ASSUME Init PROVE Inv
    OBVIOUS
  <2>1. judged = <<>> /\ inbox = [s \in Sessions |-> <<>>] /\ arrived = 0
    BY DEF Init, Server!Init
  <2>2. InboxInv
    BY <2>1 DEF InboxInv, IsSequence, Sessions
  <2> QED
    BY <2>1, <2>2, ServerInit, ClientInit DEF OnlyLateLoses
<1>2. ASSUME Inv, [Next]_vars PROVE Inv'
  <2>1. ServerInv' /\ FeedInv' /\ OnlyLateLoses'
    BY <1>2, ServerInvStep, FeedInvStep, OnlyLateStep
  <2>2. ASSUME heard' # Client!Jumbled PROVE (OrderInv /\ ClientInv /\ InboxInv)'
    <3>1. OrderInv /\ ClientInv /\ InboxInv
      BY <1>2, <2>2, InOrderBefore
    <3>2. ClientInv' /\ InboxInv'
      BY <1>2, <3>1, ClientInvStep, InboxInvStep
    <3> QED
      BY <1>2, <2>2, <3>1, <3>2, OrderInvStep
  <2> QED
    BY <2>1, <2>2 DEF Client!Jumbled
<1>3. Inv => OnlyLateLoses
  OBVIOUS
<1> HIDE DEF Inv
<1> QED
  BY <1>1, <1>2, <1>3, PTL DEF Spec
=============================================================================
