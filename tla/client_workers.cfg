SPECIFICATION FairSpec
CONSTANTS
  a             = a
  b             = b
  Tickers       = {a, b}
  Prices        = {10, 20}
  Markets      <- OneMarket
  Layouts      <- EachApart
  Workers       = {w1, w2}
  QueueCapacity = 2
  Reliable      = TRUE
  MaxChallenges = 2
  MaxReceives   = 6
  Dangling      = Dangling
  Garbage       = Garbage
CHECK_DEADLOCK FALSE
INVARIANTS
  AnswersPerWorker
  AtMostOneLeft
PROPERTIES
  WorkersStop
