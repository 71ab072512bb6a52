SPECIFICATION FairSpec
CONSTANTS
  a = a
  b = b
  c = c
  Cmd = {a, b, c}
  Key <- MCKey
  Cancellable = {b}
  MaxConns = 3
  MaxCloses = 1
  Lingers = {3}
INVARIANTS
  TypeOK
  OneConnection
  NobodyLeft
PROPERTIES
  DrainEnds
CHECK_DEADLOCK FALSE
