--------------------------- MODULE ChallengeFeed ---------------------------
(***************************************************************************)
(* What the challenge server broadcasts (udp_broadcast_thread in           *)
(* challenge/server/main_server.cpp): a text of one SEC line per ticker,   *)
(* in the order of an unordered_map, then the CHALLENGE_ID and the TARGET  *)
(* line, cut every MAX_UDP_PAYLOAD bytes wherever that falls.  A line that *)
(* a cut divides is complete in no packet.                                 *)
(*                                                                         *)
(* A packet is modelled by the complete lines it holds: the set secs of    *)
(* tickers with a SEC line, and whether the other two lines are there.     *)
(***************************************************************************)
EXTENDS Integers, Sequences, SequencesExt, FiniteSets

CONSTANTS Tickers,
          Prices,    \* the quotes
          Markets,   \* the markets a challenge may have
          Layouts    \* the ways its text may be cut

IdLine     == "CHALLENGE_ID"
TargetLine == "TARGET"

\* The lines of a challenge in the order of the text.
Texts == {s \o <<IdLine, TargetLine>> : s \in SetToSeqs(Tickers)}

\* Where the packets of a text of n lines may end.
Ends(n) == {SetToSortSeq(cuts \cup {n}, LAMBDA i, j : i < j) : cuts \in SUBSET (1 .. n - 1)}

\* The packets of a text that end after these lines; a cut through a line
\* leaves it divided.
Cut(text, ends, divided) ==
  [i \in DOMAIN ends |->
     {text[j] : j \in (IF i = 1 THEN 1 ELSE ends[i - 1] + 1) .. ends[i]} \ divided]

AllLayouts ==
  UNION {{Cut(text, ends, divided) : divided \in SUBSET {text[ends[i]] : i \in 1 .. Len(ends) - 1}}
         : text \in Texts, ends \in Ends(Cardinality(Tickers) + 2)}

ASSUME FeedAssumption ==
  /\ Markets \subseteq [Tickers -> Prices]
  /\ Layouts \subseteq AllLayouts
  /\ Layouts \subseteq Seq(SUBSET (Tickers \cup {IdLine, TargetLine}))

\* The packet with these complete lines of challenge n, whose target is t
\* and whose quotes are market.
Packet(n, t, market, lines) ==
  [n      |-> n,
   secs   |-> [x \in lines \cap Tickers |-> market[x]],
   hasId  |-> IdLine \in lines,
   target |-> IF TargetLine \in lines THEN <<t>> ELSE <<>>]

Packets(n, t, market, layout) ==
  [i \in DOMAIN layout |-> Packet(n, t, market, layout[i])]
=============================================================================
