CONSTANTS
  slack = slack
  telegram = telegram
  room = room
  alice = alice
  eve = eve
  r1 = r1
  b1 = b1
  b2 = b2
  EmptySender = EmptySender
  EmptyId = EmptyId
  NoId = NoId
  None = None
  Channels = {slack, telegram}
  Senders = {alice, eve}
  Rooms = {room}
  RequestIds = {r1, EmptyId}
  VerdictIds = {r1}
  Deliverables = {b1, b2}
  Body <- MCBody
  Allowed = {alice}
  AllowAll = FALSE
  EVENT_BUFFER_SIZE = 2
  MaxDeliveries = 2
  MaxLines = 2
SPECIFICATION Spec
INVARIANTS
  TypeOK
  AckedIsAccounted
  HandledWithoutGaps
  OneVerdictPerAsk
PROPERTY ImplementsLedger
CHECK_DEADLOCK FALSE
