-------------------------- MODULE ChallengeSystem --------------------------
(***************************************************************************)
(* The challenge server and its clients together: one client runs          *)
(* challenge/client/client.cpp, the others send whatever lines they like.  *)
(* What the server multicasts (wire) is what the client may hear; what the *)
(* client writes to its socket arrives at its session in order.  The       *)
(* client is not interrupted here (ChallengeClient has its shutdown).      *)
(***************************************************************************)
EXTENDS ChallengeFeed

CONSTANTS Us,            \* the session of the client that is modelled
          Others,        \* the sessions of other clients
          Lines,         \* the lines other clients may send
          MaxLines,      \* bound: lines each of them sends
          MaxChallenges, Nobody,                             \* the server's
          Workers, QueueCapacity, MaxReceives, Dangling, Garbage \* the client's

Sessions == Others \cup {Us}
Reliable == FALSE

\* With one worker thread, as on a machine with two or three cores.
ASSUME SystemAssumption ==
  /\ \E w \in Workers : Workers = {w}
  /\ MaxLines \in Nat /\ MaxChallenges \in Nat /\ MaxReceives \in Nat
  /\ Nobody \notin Sessions /\ Us \notin Others
  /\ Dangling \notin Tickers

VARIABLES
  current, toSend, wire, conn, inbox, replies, io, judged,      \* the server's
  received, heard, udp, queue, data, wk, sent, shutdown, targets, \* the client's
  arrived,   \* how many of the answers in sent have arrived
  lines      \* bound: lines[s]: lines client s has sent

serverVars == <<current, toSend, conn, inbox, replies, io, judged>>
clientVars == <<received, heard, udp, queue, data, wk, sent, shutdown, targets>>
vars == <<serverVars, wire, clientVars, arrived, lines>>

Server == INSTANCE ChallengeServer
Client == INSTANCE ChallengeClient WITH feed <- wire

Init ==
  /\ Server!Init
  /\ Client!Init
  /\ arrived = 0
  /\ lines = [s \in Others |-> 0]

ServerStep ==
  /\ \/ Server!Install \/ Server!Multicast
     \/ \E s \in Sessions : Server!Accept(s) \/ Server!Handle(s)
     \/ \E s \in Others : Server!Disconnect(s) \/ Server!AcceptThrows(s)
  /\ UNCHANGED <<clientVars, arrived, lines>>

\* main connects before it starts to receive.
ClientStep ==
  /\ \/ conn[Us] = "open" /\ Client!Receive
     \/ Client!Enqueue
     \/ \E w \in Workers : Client!Process(w)
  /\ UNCHANGED <<serverVars, wire, arrived, lines>>

\* The next answer of the client reaches its session.
Answer(a) == [id |-> a.id, ticker |-> a.ticker[1], price |-> a.price]

Deliver ==
  /\ arrived < Len(sent)
  /\ Server!Arrives(Us, Answer(sent[arrived + 1]))
  /\ arrived' = arrived + 1
  /\ UNCHANGED <<clientVars, lines>>

OtherSends(s) ==
  /\ lines[s] < MaxLines
  /\ \E m \in Lines : Server!Arrives(s, m)
  /\ lines' = [lines EXCEPT ![s] = @ + 1]
  /\ UNCHANGED <<clientVars, arrived>>

Next == ServerStep \/ ClientStep \/ Deliver \/ \E s \in Others : OtherSends(s)

Spec == Init /\ [][Next]_vars

\* The server's and the client's threads run, io_context.run() serves every
\* session, and TCP delivers.
Fairness ==
  /\ WF_vars(Server!Multicast /\ UNCHANGED <<clientVars, arrived, lines>>)
  /\ \A s \in Sessions : SF_vars(Server!Handle(s) /\ UNCHANGED <<clientVars, arrived, lines>>)
  /\ WF_vars(Deliver)
  /\ WF_vars(Client!Enqueue /\ UNCHANGED <<serverVars, wire, arrived, lines>>)
  /\ \A w \in Workers :
       WF_vars(Client!Process(w) /\ UNCHANGED <<serverVars, wire, arrived, lines>>)

FairSpec == Spec /\ Fairness

-----------------------------------------------------------------------------
(***************************************************************************)
(* Properties                                                              *)
(***************************************************************************)

\* The winner is the client whose right submission was judged first.
FirstCorrectWins == Server!FirstCorrectWins

\* No packet is multicast before its challenge can be won.
HeardIsInstalled == Server!HeardIsInstalled

\* Every line a client sends is read, and judged and answered if it is a
\* submission.
EveryLineServed == Server!EveryLineServed

\* The client loses a challenge only by being late: when its answer is
\* judged and the challenge it names is still current, that challenge has a
\* winner.  This is so however the challenges are cut and whichever of their
\* packets are lost, on the way or at a full queue, while the network keeps
\* their order; the wrong answers of client_quotes_apart take a quote of the
\* next challenge, which by then is the current one.
OnlyLateLoses ==
  heard # Client!Jumbled =>
    \A i \in DOMAIN judged :
      judged[i].by = Us /\ judged[i].sub.id = current.id => current.declared

\* A packet from which alone its challenge can be answered.
Sufficient(packet) ==
  packet.hasId /\ packet.target # <<>> /\ packet.target[1] \in DOMAIN packet.secs

\* A challenge of which such a packet has been queued is answered rightly, and
\* the answer is judged: nothing that is left of earlier packets, whichever
\* were lost, repeated or reordered, stands in the way.
QueuedIsJudged ==
  \A n \in 1 .. MaxChallenges :
    (\E i \in DOMAIN queue : queue[i].n = n /\ Sufficient(queue[i]))
      ~> \/ io = Server!Down
         \/ inbox[Us] = <<>> /\ \E i \in 1 .. arrived :
                                  sent[i].id = n /\ Client!RightAnswer(sent[i])
=============================================================================
