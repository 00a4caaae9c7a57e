SPECIFICATION Spec
CONSTANTS
  thumb = thumb
  heart = heart
  trusted_bot = trusted_bot
  Emojis <- MCEmojis
  allowed_bot_ids <- MCAllowed
  Bodies <- MCBodies
  MaxRequests = 2
CHECK_DEADLOCK FALSE
INVARIANTS
  TypeOK
  ReceivesInputs
  AddressingIsRight
PROPERTIES
  OneResolutionServes
  ReactionsAreMirrored
  EveryRequestIsAnswered
