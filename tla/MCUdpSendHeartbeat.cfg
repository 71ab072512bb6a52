SPECIFICATION Spec
CONSTANTS
  a = a
  b = b
  c = c
  Cmd = {a, b, c}
  Heartbeats = {a}
  Cancellable = {}
  Size <- MCSize
  Key <- MCKey
  Window = 2
  MaxResends = 1
  TableLen = 2
  MaxConns = 1
INVARIANTS
  NoneBehindGap
CHECK_DEADLOCK FALSE
