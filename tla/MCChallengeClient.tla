------------------------- MODULE MCChallengeClient -------------------------
(* Instances of ChallengeClient for TLC. *)
EXTENDS ChallengeClient, TLC

CONSTANTS a, b   \* tickers

\* Two markets that differ in the quote of a.
TwoMarkets == {(a :> 10 @@ b :> 20), (a :> 20 @@ b :> 20)}

OneMarket == {(a :> 10 @@ b :> 20)}

\* The quotes apart from the CHALLENGE_ID line; every quote in a packet of
\* its own.
QuotesApart == {Cut(<<a, b, IdLine, TargetLine>>, <<2, 4>>, {})}
EachApart   == {Cut(<<a, b, IdLine, TargetLine>>, <<1, 2, 4>>, {})}
=============================================================================
