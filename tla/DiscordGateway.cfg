CONSTANTS
  MAX_RECONNECT_ATTEMPTS = 2
  RECONNECT_BASE_DELAY = 1000
  RECONNECT_MAX_DELAY = 3000
  Capacity = 1
  MaxMessages = 2
  MaxWire = 2
  MaxBeats = 1
  MaxDue = 1
SPECIFICATION FairSpec
INVARIANTS
  TypeOK
  StopsOnlyWhenExhausted
  SessionWithoutGaps
PROPERTIES
  BackoffDoubles
  DeadSessionIsLeft
CHECK_DEADLOCK FALSE
