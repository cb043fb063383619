SPECIFICATION Spec
CONSTANTS
  Capacity  = 1
  Producers = {p1}
  Consumers = {c1}
  Observers = {}
  Policy    = "SeqCst"
  MaxPushes = 2
  NoItem    = NoItem
PROPERTY IsBoundedFifo
