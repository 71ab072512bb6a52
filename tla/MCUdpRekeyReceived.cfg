SPECIFICATION Spec
CONSTANTS
  N = 3
  MaxSessions = 2
  MaxRekeys = 1
INVARIANTS
  IgnoredWasReceived
CHECK_DEADLOCK FALSE
