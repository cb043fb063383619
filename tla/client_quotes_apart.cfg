SPECIFICATION Spec
CONSTANTS
  a             = a
  b             = b
  Tickers       = {a, b}
  Prices        = {10, 20}
  Markets      <- TwoMarkets
  Layouts      <- QuotesApart
  Workers       = {w1}
  QueueCapacity = 2
  Reliable      = TRUE
  MaxChallenges = 2
  MaxReceives   = 4
  Dangling      = Dangling
  Garbage       = Garbage
CHECK_DEADLOCK FALSE
INVARIANTS
  AnswersAreRight
