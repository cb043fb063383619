SPECIFICATION Spec
CONSTANTS
  Prices          = {1, 2, 3}
  PoolSize        = 5
  Quantities      = {0, 1, 2}
  DefaultQuantity = 2
  CheapBelow      = 3
  MaxTicks        = 3
  MaxCalls        = 2
INVARIANTS
  EngineInv
  NotCrossed
  PriceTimePriority
PROPERTIES
  StopEnds
