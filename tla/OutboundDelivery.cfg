CONSTANTS
  Channels = {"slack", "telegram", "discord", "whatsapp", "messenger"}
  MAX_RETRY_ATTEMPTS = 3
  RETRY_DELAYS_SECS <- Delays
SPECIFICATION Spec
INVARIANTS
  TypeOK
  PrivateStaysPrivate
  SentMeansShown
  CopiesAreExplained
  PostsAreBounded
  RemovedMeansGone
PROPERTIES
  EveryMessageEnds
CHECK_DEADLOCK FALSE
