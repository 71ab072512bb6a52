SPECIFICATION FairSpec
CONSTANTS
  a = a
  b = b
  c = c
  Cmd = {a, b, c}
  Heartbeats = {}
  Cancellable = {a, b}
  Size <- TwinSize
  Key <- TwinKey
  Window = 2
  MaxResends = 1
  TableLen = 2
  MaxConns = 2
INVARIANTS
  Guarded
PROPERTIES
  Settles
CHECK_DEADLOCK FALSE
