CONSTANTS
  slack = slack
  room = room
  alice = alice
  r1 = r1
  b1 = b1
  b2 = b2
  EmptySender = EmptySender
  EmptyId = EmptyId
  NoId = NoId
  None = None
  Channels = {slack}
  Senders = {alice, EmptySender}
  Rooms = {room}
  RequestIds = {r1}
  VerdictIds = {r1}
  Deliverables = {b1, b2}
  Body <- MCBody
  Allowed = {}
  AllowAll = TRUE
  EVENT_BUFFER_SIZE = 2
  MaxDeliveries = 1
  MaxLines = 2
SPECIFICATION LiveSpec
PROPERTIES
  AcceptedIsHandled
  LinesAreTaken
CHECK_DEADLOCK FALSE
