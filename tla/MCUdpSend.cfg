SPECIFICATION Spec
CONSTANTS
  a = a
  b = b
  c = c
  Cmd = {a, b, c}
  Heartbeats = {}
  Cancellable = {}
  Size <- MCSize
  Key <- MCKey
  Window = 2
  MaxResends = 1
  TableLen = 2
  MaxConns = 2
INVARIANTS
  TypeOK
  WindowBound
  NoStall
  FailDirectly
  NoneBehindGap
CHECK_DEADLOCK FALSE
