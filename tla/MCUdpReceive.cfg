SPECIFICATION FairSpec
CONSTANTS
  N = 4
  MaxSessions = 2
  MaxRekeys = 1
INVARIANTS
  TypeOK
  StoredAhead
  InOrder
  ReleasedIsHeld
PROPERTIES
  ImplementsStream
  EventuallyDelivered
CHECK_DEADLOCK FALSE
