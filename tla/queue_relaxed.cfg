SPECIFICATION Spec
CONSTANTS
  Capacity  = 2
  Producers = {p1, p2}
  Consumers = {c1, c2}
  Observers = {}
  Policy    = "RAR"
  MaxPushes = 2
  NoItem    = NoItem
SYMMETRY ThreadSymmetry
INVARIANTS
  QueueInv
  ExclusiveCell
PROPERTIES
  IsBoundedFifo
