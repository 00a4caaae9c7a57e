CONSTANTS
  MAX_RECONNECT_ATTEMPTS = 1
  RECONNECT_BASE_DELAY = 1
  RECONNECT_MAX_DELAY = 2
  Capacity = 1
  MaxMessages = 2
  MaxWire = 2
  MaxBeats = 1
  MaxDue = 1
SPECIFICATION Spec
INVARIANT GivesUpWhenExhausted
CHECK_DEADLOCK FALSE
