SPECIFICATION FairSpec
CONSTANTS
  Producers  = {p1, p2}
  Capacity   = 3
  BatchSize  = 2
  MaxRecords = 6
CHECK_DEADLOCK FALSE
INVARIANTS
  LoggedInOrder
  DrainsItsQueue
PROPERTIES
  LoggerStops
