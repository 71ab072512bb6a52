SPECIFICATION Spec
CONSTANTS
  a = a
  b = b
  c = c
  Cmd = {a, b, c}
  Key <- MCKey
  Cancellable = {b}
  MaxConns = 2
  MaxCloses = 1
  Lingers = {1, 2}
INVARIANTS
  ClosedIsForgotten
CHECK_DEADLOCK FALSE
