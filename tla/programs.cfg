\* The programs that stand alone, one at a time.
SPECIFICATION ProgramsSpec
CONSTANTS
  Values = {1, 2}
  Trend = 2
  MaxClients = 2
  MaxPrices = 2
  MaxCuts = 1
  Prices = {1, 2, 3}
  Quantities = {0, 1, 2}
  Fills = {1}
  FirstBid = 1
  FirstAsk = 3
  MaxOrders = 3
  TickPrices = {10400, 15000, 19600}
  Instruments = 2
  HistorySize = 3
  AverageFrom = 2
  MaxTicks = 7
  MaxSize = 5
  BlockSize = 2
  Keys = {1, 2, 3}
  MapValues = {1, 2}
  HashValues = {0, 5}
  InitialCapacity = 3
  MaxBehind = 6
  HeapOrders = {1, 2, 3, 4, 5, 6, 7}
  Price <- MCPrice
  Buffers = {x, y, z}
  Blocks = {1, 2, 3}
  Null = 0
  Capacities = {0, 1, 2}
INVARIANTS
  HitsAreRight
  EveryClientEveryPrice
  OrdersMatchMarket
  OrdersAreJustified
  KernelsAgree
  TableIsMap
  TopIsBest
  BlocksHaveOneOwner
\* A program may have nothing left to do: its bounds are reached, or it ended.
CHECK_DEADLOCK FALSE
