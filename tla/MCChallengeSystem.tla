------------------------- MODULE MCChallengeSystem -------------------------
(* Instances of ChallengeSystem for TLC. *)
EXTENDS ChallengeSystem, TLC

CONSTANTS a, b   \* tickers

\* Two markets that differ in both quotes.
TwoMarkets == {(a :> 10 @@ b :> 20), (a :> 20 @@ b :> 10)}

\* A cut the server makes: the CHALLENGE_ID and the TARGET line are at the end
\* of the last packet, with the last quotes; the other quotes come before.
LastPackets == {Cut(<<a, b, IdLine, TargetLine>>, <<1, 4>>, {})}

\* A line that is right for one market and target, and one the server
\* ignores.
SomeLines == {[id |-> 2, ticker |-> a, price |-> 10], <<>>}
=============================================================================
