---------------------------- MODULE PriceServer ----------------------------
(***************************************************************************)
(* The price server of week_2/phase2 (hft_server.cpp) and its clients      *)
(* (hft_client.cpp): a broadcasting thread, an accepting thread, one       *)
(* thread per client, the list of clients they share, and the clients'     *)
(* momentum strategy.                                                      *)
(*                                                                         *)
(* The client that is accepted as number c has entry c of clients for      *)
(* ever: nothing is taken off the list, and the number of a socket that    *)
(* its thread has closed is given to the next connection.  TCP keeps the   *)
(* order of what is sent but not its limits: one recv may return several   *)
(* messages at once, or the first part of one.  A name is not empty.       *)
(* Prices are numbered from 1; the code counts from 0.                     *)
(***************************************************************************)
EXTENDS Integers, Sequences, FiniteSets

CONSTANTS Values,      \* the prices
          Trend,       \* 3 in receiveAndRespond: prices that make a momentum
          MaxClients,  \* bound: connections accepted
          MaxPrices,   \* bound: prices broadcast
          MaxCuts      \* bound: messages that recv cuts

ASSUME PriceServerAssumption ==
  Values \subseteq Int /\ Trend \in Nat \ {0} /\ MaxClients \in Nat /\ MaxPrices \in Nat
  /\ MaxCuts \in Nat

VARIABLES
  alive,         \* the server runs
  prices,        \* prices[i]: value of price i; i is in priceTimestamps
  announced,     \* prices whose broadcast has begun
  nextClient,    \* entry of clients to send to next, 0: clientsMutex is free
  clients,       \* clients[c]: socket number of the c-th client
  accepted,      \* the socket accept has returned and clients does not have
  holder,        \* holder[s]: the client whose connection socket s is, or 0
  up,            \* the client programs that run
  toClient,      \* toClient[c]: prices sent to c that it has not received
  toServer,      \* toServer[c]: name and orders c has sent, not received
  handler,       \* handler[c]: where the thread of client c is
  number,        \* number[c]: the price id that thread has received
  priceHistory,  \* priceHistory[c]: the last Trend values c has seen
  hits,          \* the entries of priceAlreadyHit, with the client and
                 \* whether its thread had read a whole order
  cuts,          \* history: messages cut so far
  misread,       \* history: the clients that took digits for another price
  joined,        \* history: announced when c was put on the list
  delivered      \* history: how often each price was sent to c

pvars == <<alive, prices, announced, nextClient, clients, accepted, holder, up, toClient,
          toServer, handler, number, priceHistory, hits, cuts, misread, joined, delivered>>

Conns   == 1 .. MaxClients
Sockets == 1 .. MaxClients
Ids     == 1 .. MaxPrices
NoPrice == 0    \* a number that no price has
Name    == 0    \* the first message of a client
Piece   == -1   \* what is left of a message of which recv has taken a part

PricesInit ==
  /\ alive = TRUE
  /\ prices = <<>>
  /\ announced = 0
  /\ nextClient = 0
  /\ clients = <<>>
  /\ accepted = 0
  /\ holder = [s \in Sockets |-> 0]
  /\ up = {}
  /\ toClient = [c \in Conns |-> <<>>]
  /\ toServer = [c \in Conns |-> <<>>]
  /\ handler = [c \in Conns |-> "none"]
  /\ number = [c \in Conns |-> NoPrice]
  /\ priceHistory = [c \in Conns |-> <<>>]
  /\ hits = {}
  /\ cuts = 0
  /\ misread = {}
  /\ joined = [c \in Conns |-> 0]
  /\ delivered = [c \in Conns |-> [i \in Ids |-> 0]]

list       == <<clients, accepted, joined>>
clientVars == <<up, priceHistory, misread>>
judging    == <<handler, number, hits>>

\* What recv may take of the messages s: n whole ones and, if cut, the first
\* part of the next, because its buffer or what has arrived ends there; cuts
\* counts these.
Read(s, n, cut) ==
  /\ IF cut THEN n < Len(s) /\ cuts < MaxCuts ELSE n > 0
  /\ cuts' = IF cut THEN cuts + 1 ELSE cuts

\* What is left of them.
Unread(s, n, cut) == [i \in 1 .. Len(s) - n |-> IF cut /\ i = 1 THEN Piece ELSE s[n + i]]

-----------------------------------------------------------------------------
(***************************************************************************)
(* The broadcasting thread                                                 *)
(***************************************************************************)

\* A new id and its time stamp.
StampPrice(v) ==
  /\ nextClient = 0 /\ announced = Len(prices)
  /\ Len(prices) < MaxPrices
  /\ prices' = Append(prices, v)
  /\ UNCHANGED <<alive, cuts, announced, nextClient, list, holder, clientVars, toClient, toServer,
                 judging, delivered>>

LockClients ==
  /\ nextClient = 0 /\ announced < Len(prices)
  /\ announced' = announced + 1
  /\ nextClient' = 1
  /\ UNCHANGED <<alive, cuts, prices, list, holder, clientVars, toClient, toServer, judging, delivered>>

\* Mutant: a failing send ends the loop.
SendPriceOrStop ==
  /\ nextClient \in DOMAIN clients
  /\ LET c == holder[clients[nextClient]]
     IN  /\ nextClient' = IF c = 0 THEN Len(clients) + 1 ELSE nextClient + 1
         /\ IF c \in up
            THEN /\ toClient' = [toClient EXCEPT ![c] = Append(@, announced)]
                 /\ delivered' = [delivered EXCEPT ![c][announced] = @ + 1]
            ELSE UNCHANGED <<toClient, delivered>>
  /\ UNCHANGED <<alive, cuts, prices, announced, list, holder, clientVars, toServer, judging>>

\* send to one socket.  A closed socket refuses; a socket whose number has
\* gone to a later client takes the price to that client; one whose peer is
\* gone takes it for nobody.
SendPrice ==
  /\ nextClient \in DOMAIN clients
  /\ nextClient' = nextClient + 1
  /\ LET c == holder[clients[nextClient]]
     IN  IF c \in up
         THEN /\ toClient' = [toClient EXCEPT ![c] = Append(@, announced)]
              /\ delivered' = [delivered EXCEPT ![c][announced] = @ + 1]
         ELSE UNCHANGED <<toClient, delivered>>
  /\ UNCHANGED <<alive, cuts, prices, announced, list, holder, clientVars, toServer, judging>>

\* A second send to a peer that is gone raises SIGPIPE, which nobody ignores.
Killed ==
  /\ nextClient \in DOMAIN clients
  /\ holder[clients[nextClient]] \in Conns \ up
  /\ alive' = FALSE
  /\ UNCHANGED <<cuts, prices, announced, nextClient, list, holder, clientVars, toClient, toServer,
                 judging, delivered>>

UnlockClients ==
  /\ nextClient = Len(clients) + 1
  /\ nextClient' = 0
  /\ UNCHANGED <<alive, cuts, prices, announced, list, holder, clientVars, toClient, toServer, judging,
                 delivered>>

-----------------------------------------------------------------------------
(***************************************************************************)
(* The accepting thread                                                    *)
(***************************************************************************)

\* A client connects and sends its name; accept returns the lowest socket
\* number that is free.
Accept ==
  /\ accepted = 0
  /\ Len(clients) < MaxClients
  /\ LET c == Len(clients) + 1
     IN  /\ \E s \in Sockets :
              /\ holder[s] = 0
              /\ \A t \in 1 .. s - 1 : holder[t] # 0
              /\ accepted' = s
              /\ holder' = [holder EXCEPT ![s] = c]
         /\ up' = up \cup {c}
         /\ toServer' = [toServer EXCEPT ![c] = <<Name>>]
  /\ UNCHANGED <<alive, cuts, prices, announced, nextClient, clients, toClient, judging, priceHistory,
                 misread, joined, delivered>>

\* The new entry of clients, under clientsMutex, and its thread.
Register ==
  /\ accepted # 0
  /\ nextClient = 0
  /\ LET c == Len(clients) + 1
     IN  /\ clients' = Append(clients, accepted)
         /\ joined' = [joined EXCEPT ![c] = announced]
         /\ handler' = [handler EXCEPT ![c] = "name"]
  /\ accepted' = 0
  /\ UNCHANGED <<alive, cuts, prices, announced, nextClient, holder, clientVars, toClient, toServer,
                 number, hits, delivered>>

-----------------------------------------------------------------------------
(***************************************************************************)
(* handleClient                                                            *)
(***************************************************************************)

\* The first recv: orders that come along with the name become part of it,
\* and the rest of a name that is cut is taken for an order.
ReceiveName(c) ==
  /\ handler[c] = "name"
  /\ \E n \in 0 .. Len(toServer[c]), cut \in BOOLEAN :
       /\ Read(toServer[c], n, cut)
       /\ toServer' = [toServer EXCEPT ![c] = Unread(@, n, cut)]
  /\ handler' = [handler EXCEPT ![c] = "orders"]
  /\ UNCHANGED <<alive, prices, announced, nextClient, list, holder, clientVars, toClient, number,
                 hits, delivered>>

\* The buffer is one order, or else atoi makes any number of it: the digits of
\* several orders run together, a part of an order's, or what is left of a name.
ReceiveOrder(c) ==
  /\ handler[c] = "orders"
  /\ \E n \in 0 .. Len(toServer[c]), cut \in BOOLEAN :
       LET whole == n = 1 /\ ~cut /\ Head(toServer[c]) # Piece
       IN  /\ Read(toServer[c], n, cut)
           /\ toServer' = [toServer EXCEPT ![c] = Unread(@, n, cut)]
           /\ \E i \in IF whole THEN {Head(toServer[c])} ELSE Ids \cup {NoPrice} :
                number' = [number EXCEPT ![c] = i]
           /\ handler' = [handler EXCEPT ![c] = IF whole THEN "judge" ELSE "guess"]
  /\ UNCHANGED <<alive, prices, announced, nextClient, list, holder, clientVars, toClient, hits,
                 delivered>>

AlreadyHit(i) == \E h \in hits : h.price = i

\* Mutant: the id is not looked up in priceTimestamps.
JudgeUnknown(c) ==
  /\ handler[c] \in {"judge", "guess"}
  /\ hits' = IF AlreadyHit(number[c])
             THEN hits ELSE hits \cup {[client |-> c, price |-> number[c], read |-> handler[c]]}
  /\ handler' = [handler EXCEPT ![c] = "orders"]
  /\ number' = [number EXCEPT ![c] = NoPrice]
  /\ UNCHANGED <<alive, cuts, prices, announced, nextClient, list, holder, clientVars, toClient,
                 toServer, delivered>>

\* The critical section of priceMutex.
Judge(c) ==
  /\ handler[c] \in {"judge", "guess"}
  /\ hits' = IF AlreadyHit(number[c]) \/ number[c] \notin DOMAIN prices
             THEN hits ELSE hits \cup {[client |-> c, price |-> number[c], read |-> handler[c]]}
  /\ handler' = [handler EXCEPT ![c] = "orders"]
  /\ number' = [number EXCEPT ![c] = NoPrice]
  /\ UNCHANGED <<alive, cuts, prices, announced, nextClient, list, holder, clientVars, toClient,
                 toServer, delivered>>

\* recv answers 0 or an error: the socket is closed, its entry stays.
CloseSocket(c) ==
  /\ handler[c] \in {"name", "orders"}
  /\ toServer[c] = <<>> /\ c \notin up
  /\ handler' = [handler EXCEPT ![c] = "done"]
  /\ holder' = [holder EXCEPT ![clients[c]] = 0]
  /\ UNCHANGED <<alive, cuts, prices, announced, nextClient, list, clientVars, toClient, toServer,
                 number, hits, delivered>>

-----------------------------------------------------------------------------
(***************************************************************************)
(* The clients                                                             *)
(***************************************************************************)

Momentum(history) ==
  /\ Len(history) = Trend
  /\ \/ \A i \in 1 .. Trend - 1 : history[i] < history[i + 1]
     \/ \A i \in 1 .. Trend - 1 : history[i] > history[i + 1]

\* The client takes the value v for that of price i.
Respond(c, i, v) ==
  LET old     == priceHistory[c]
      history == Append(IF Len(old) = Trend THEN Tail(old) ELSE old, v)
  IN  /\ priceHistory' = [priceHistory EXCEPT ![c] = history]
      /\ toServer' = IF Momentum(history)
                     THEN [toServer EXCEPT ![c] = Append(@, i)] ELSE toServer

\* One recv.  Of several prices only the first is parsed; the digits of the
\* next id that are run into its value are far behind the point.  A part of a
\* message is refused if it has no comma, and else read as any price and value;
\* without digits stoi or stof throws and the client ends, see Leave.
ReceivePrice(c) ==
  /\ c \in up
  /\ \E n \in 0 .. Len(toClient[c]), cut \in BOOLEAN :
       LET first == Head(toClient[c])
       IN  /\ Read(toClient[c], n, cut)
           /\ toClient' = [toClient EXCEPT ![c] = Unread(@, n, cut)]
           /\ IF n > 0 /\ first # Piece
              THEN Respond(c, first, prices[first]) /\ UNCHANGED misread
              ELSE \/ UNCHANGED <<priceHistory, toServer, misread>>
                   \/ /\ \E i \in Ids \cup {NoPrice}, v \in Values : Respond(c, i, v)
                      /\ misread' = misread \cup {c}
  /\ UNCHANGED <<alive, prices, announced, nextClient, list, holder, up, judging, delivered>>

\* The client ends at any time; what it has sent arrives or is lost with a
\* reset of the connection.
Leave(c) ==
  /\ c \in up
  /\ up' = up \ {c}
  /\ toServer' \in {toServer, [toServer EXCEPT ![c] = <<>>]}
  /\ toClient' = [toClient EXCEPT ![c] = <<>>]
  /\ priceHistory' = [priceHistory EXCEPT ![c] = <<>>]
  /\ UNCHANGED <<alive, cuts, prices, announced, nextClient, list, holder, judging, misread, delivered>>

-----------------------------------------------------------------------------
Broadcast == \/ \E v \in Values : StampPrice(v)
             \/ LockClients \/ SendPrice \/ Killed \/ UnlockClients

Handle(c) == ReceiveName(c) \/ ReceiveOrder(c) \/ Judge(c) \/ CloseSocket(c)

PricesNext ==
  /\ alive
  /\ \/ Broadcast \/ Accept \/ Register
     \/ \E c \in Conns : Handle(c) \/ ReceivePrice(c) \/ Leave(c)

PricesSpec == PricesInit /\ [][PricesNext]_pvars

-----------------------------------------------------------------------------
(***************************************************************************)
(* Properties                                                              *)
(***************************************************************************)

\* Rising or falling over the prices ids.
Strict(ids) ==
  \/ \A i, j \in ids : i < j => prices[i] < prices[j]
  \/ \A i, j \in ids : i < j => prices[i] > prices[j]

\* Price i was sent to client c after others with which it makes a momentum.
Justifies(c, i) ==
  \E ids \in SUBSET {j \in 1 .. i : delivered[c][j] > 0} :
    i \in ids /\ Cardinality(ids) = Trend /\ Strict(ids)

\* priceAlreadyHit: a price that has its time stamp is hit, and by one client
\* only, whatever the network cuts and glues and whichever sockets are used
\* again.  A client that has read no part of a price as a price, and whose
\* order was read whole, hits a price only if the prices sent to it justify it.
HitsAreRight ==
  /\ \A g, h \in hits : g.price = h.price => g = h
  /\ \A h \in hits :
       /\ h.price \in DOMAIN prices
       /\ h.read = "judge" /\ h.client \notin misread => Justifies(h.client, h.price)

Registrations(c) == Cardinality({d \in 1 .. c : clients[d] = clients[c]})

\* broadcastPrices: a client that runs has been sent every price since it was
\* put on the list, exactly as often as its socket number is on the list: once
\* if the number is new, more often if clients before it had the number.
EveryClientEveryPrice ==
  nextClient = 0 =>
    \A c \in up \cap DOMAIN clients : \A i \in joined[c] + 1 .. announced :
      delivered[c][i] = Registrations(c)
=============================================================================
