SPECIFICATION FairSpec
CONSTANTS
  Capacity  = 2
  Producers = {p1, p2}
  Consumers = {c1}
  Observers = {o1}
  Policy    = "SeqCst"
  MaxPushes = 2
  NoItem    = NoItem
INVARIANTS
  SizeIsHonest
PROPERTIES
  RefusalsAreTrue
  EveryCallReturns
