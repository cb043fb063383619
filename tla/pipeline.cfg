SPECIFICATION FairSpec
CONSTANTS
  NumProducers      = 2
  Consumers         = {c1, c2}
  OrdersPerProducer = 3
  QueueCapacity     = 2
  Runs              = 2
INVARIANTS
  TypeOK
  EachOrderOnce
  BookMatchesOrders
  NobodyLeavesEarly
PROPERTIES
  BarrierHolds
  Termination
