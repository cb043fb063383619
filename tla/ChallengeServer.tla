-------------------------- MODULE ChallengeServer --------------------------
(***************************************************************************)
(* challenge/server/main_server.cpp: a thread that installs one challenge  *)
(* after another and multicasts it, and the thread of io_context.run()     *)
(* that accepts clients and judges their submissions.  The two share       *)
(* current_challenge under challenge_mutex.  ChallengeSystem puts these    *)
(* actions together with a client's.                                       *)
(*                                                                         *)
(* A submission is a complete line with the header CHALLENGE_RESPONSE and  *)
(* all its fields, or a line with another header.  Prices stand for quotes *)
(* that differ by more than the tolerance; the rounding to six significant *)
(* digits in the feed and to four decimals by the client stays within it.  *)
(***************************************************************************)
EXTENDS ChallengeFeed

CONSTANTS Sessions,       \* one TCPSession per client; its trader's name
          MaxChallenges,  \* bound: challenges broadcast
          Nobody          \* the empty winner_name

VARIABLES
  current,   \* current_challenge
  toSend,    \* the fragments of the current challenge not yet multicast
  wire,      \* the fragments multicast so far
  conn,      \* conn[s]: the TCP connection of client s
  inbox,     \* inbox[s]: the lines its session has not read
  replies,   \* replies[s]: the last line the session has written back
  io,        \* the io thread: idle, about to reply to session s, or down
  judged     \* history: the submissions judged since current was installed

vars == <<current, toSend, wire, conn, inbox, replies, io, judged>>

Submission == [id : 1 .. MaxChallenges, ticker : Tickers, price : Prices]
OtherLine  == <<>>   \* a line without the header CHALLENGE_RESPONSE
Idle       == <<>>
Down       == <<"server", "down">>

\* The static Challenge: no id, no target.
NoChallenge == [id |-> 0, target |-> <<>>, market |-> <<>>,
                declared |-> FALSE, winner |-> Nobody]

Init ==
  /\ current = NoChallenge
  /\ toSend = <<>>
  /\ wire = <<>>
  /\ conn = [s \in Sessions |-> "none"]
  /\ inbox = [s \in Sessions |-> <<>>]
  /\ replies = [s \in Sessions |-> "none"]
  /\ io = Idle
  /\ judged = <<>>

(***************************************************************************)
(* udp_broadcast_thread                                                    *)
(***************************************************************************)

\* Mutant: the packets are sent before the challenge is assigned.
InstallTooLate ==
  /\ io # Down /\ toSend = <<>>
  /\ current.id < MaxChallenges
  /\ \E t \in Tickers, market \in Markets, layout \in Layouts :
       toSend' = Packets(current.id + 1, t, market, layout)
  /\ UNCHANGED <<current, wire, conn, inbox, replies, io, judged>>

\* generate_challenge, and the assignment under challenge_mutex.
Install ==
  /\ io # Down /\ toSend = <<>>
  /\ current.id < MaxChallenges
  /\ \E t \in Tickers, market \in Markets, layout \in Layouts :
       /\ current' = [id |-> current.id + 1, target |-> <<t>>, market |-> market,
                      declared |-> FALSE, winner |-> Nobody]
       /\ toSend' = Packets(current.id + 1, t, market, layout)
  /\ judged' = <<>>
  /\ UNCHANGED <<wire, conn, inbox, replies, io>>

\* send_to.  A fragment that is lost, by an error that is reported and no more
\* or on its way, is one that nobody receives.
Multicast ==
  /\ io # Down /\ toSend # <<>>
  /\ toSend' = Tail(toSend)
  /\ wire' = Append(wire, Head(toSend))
  /\ UNCHANGED <<current, conn, inbox, replies, io, judged>>

(***************************************************************************)
(* The TCP side                                                            *)
(***************************************************************************)

\* do_accept: the session starts reading.  After an error everything is as it
\* was, and the next accept is pending.
Accept(s) ==
  /\ io = Idle
  /\ conn[s] = "none"
  /\ conn' = [conn EXCEPT ![s] = "open"]
  /\ UNCHANGED <<current, toSend, wire, inbox, replies, io, judged>>

\* remote_endpoint() throws: the client has reset the connection before its
\* handler runs.  Nothing catches this up to main, where it unwinds past the
\* thread object of udp_broadcast_thread, which ends the program.
AcceptThrows(s) ==
  /\ io = Idle
  /\ conn[s] = "none"
  /\ conn' = [v \in Sessions |-> "closed"]
  /\ io' = Down
  /\ UNCHANGED <<current, toSend, wire, inbox, replies, judged>>

\* A line of the client arrives.
Arrives(s, m) ==
  /\ conn[s] = "open"
  /\ inbox' = [inbox EXCEPT ![s] = Append(@, m)]
  /\ UNCHANGED <<current, toSend, wire, conn, replies, io, judged>>

\* The client closes: the pending async_read_until completes with an error
\* and do_read is not called again.  Complete lines before it are still read.
Disconnect(s) ==
  /\ io = Idle
  /\ conn[s] = "open" /\ inbox[s] = <<>>
  /\ conn' = [conn EXCEPT ![s] = "closed"]
  /\ UNCHANGED <<current, toSend, wire, inbox, replies, io, judged>>

\* Mutant: returning early skips the next do_read.
SkipLineForEver(s) ==
  /\ io = Idle
  /\ inbox[s] # <<>> /\ Head(inbox[s]) = OtherLine
  /\ conn' = [conn EXCEPT ![s] = "closed"]
  /\ UNCHANGED <<current, toSend, wire, inbox, replies, io, judged>>

\* The line is for another handler: process_order returns at once.
SkipLine(s) ==
  /\ io = Idle
  /\ inbox[s] # <<>> /\ Head(inbox[s]) = OtherLine
  /\ inbox' = [inbox EXCEPT ![s] = Tail(@)]
  /\ UNCHANGED <<current, toSend, wire, conn, replies, io, judged>>

\* Mutant: winner_declared is not tested.
WinsAgain(m) ==
  /\ current.id = m.id
  /\ current.target = <<m.ticker>>
  /\ m.ticker \in DOMAIN current.market
  /\ current.market[m.ticker] = m.price

\* The tests of process_order, in the code's order.
Wins(m) ==
  /\ current.id = m.id /\ ~current.declared
  /\ current.target = <<m.ticker>>
  /\ m.ticker \in DOMAIN current.market
  /\ current.market[m.ticker] = m.price

\* process_order up to the end of the critical section.
Judge(s) ==
  /\ io = Idle
  /\ inbox[s] # <<>> /\ Head(inbox[s]) # OtherLine
  /\ inbox' = [inbox EXCEPT ![s] = Tail(@)]
  /\ LET m == Head(inbox[s])
     IN  /\ current' = IF Wins(m) THEN [current EXCEPT !.declared = TRUE, !.winner = s]
                                  ELSE current
         /\ judged' = Append(judged, [by |-> s, sub |-> m])
  /\ io' = <<s>>
  /\ UNCHANGED <<toSend, wire, conn, replies>>

\* The variable correct is initialised to false and never assigned.
Verdict == "INCORRECT"

\* async_write, taken to send its few bytes at once: the string they come
\* from is a local variable of process_order.
Reply(s) ==
  /\ io = <<s>>
  /\ replies' = [replies EXCEPT ![s] = Verdict]
  /\ io' = Idle
  /\ UNCHANGED <<current, toSend, wire, conn, inbox, judged>>

Handle(s) == SkipLine(s) \/ Judge(s) \/ Reply(s)

-----------------------------------------------------------------------------
(***************************************************************************)
(* Properties                                                              *)
(***************************************************************************)

\* A submission is right for the challenge that is current.
Right(m) == /\ m.id = current.id
            /\ current.target = <<m.ticker>>
            /\ current.market[m.ticker] = m.price

FirstRight == {i \in DOMAIN judged :
                 Right(judged[i].sub) /\ \A j \in 1 .. i - 1 : ~Right(judged[j].sub)}

\* The winner of a challenge is the client whose right submission was judged
\* first while that challenge was current; there is none while no right
\* submission has been judged, whatever stale or wrong lines arrive.
FirstCorrectWins ==
  /\ current.declared <=> FirstRight # {}
  /\ \A i \in FirstRight : current.winner = judged[i].by

\* A client that has a packet of a challenge can already win it: no packet
\* is sent before its challenge is installed, and the packets of the current
\* challenge quote the market its answers are judged by.
HeardIsInstalled ==
  \A i \in DOMAIN wire :
    /\ wire[i].n <= current.id
    /\ wire[i].n = current.id =>
         \A t \in DOMAIN wire[i].secs : wire[i].secs[t] = current.market[t]

\* Every line a connected client has sent is taken and answered in the end,
\* as long as no accept throws.
EveryLineServed ==
  \A s \in Sessions :
    inbox[s] # <<>> \/ io = <<s>> ~> (inbox[s] = <<>> /\ io # <<s>>) \/ io = Down
=============================================================================
