SPECIFICATION FairSpec
CONSTANTS
  a             = a
  b             = b
  Tickers       = {a, b}
  Prices        = {10, 20}
  Markets      <- TwoMarkets
  Layouts      <- LastPackets
  Us            = Us
  Others        = {other}
  Lines        <- SomeLines
  MaxLines      = 1
  MaxChallenges = 2
  Nobody        = Nobody
  Workers       = {w1}
  QueueCapacity = 1
  MaxReceives   = 2
  Dangling      = Dangling
  Garbage       = Garbage
CHECK_DEADLOCK FALSE
INVARIANTS
  FirstCorrectWins
  HeardIsInstalled
  OnlyLateLoses
PROPERTIES
  EveryLineServed
  QueuedIsJudged
