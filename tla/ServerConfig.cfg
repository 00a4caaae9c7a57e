\* Three requests of any kind at once, on two channels.
SPECIFICATION Spec
CONSTANTS
  r1 = r1
  r2 = r2
  r3 = r3
  Channels = {"discord", "whatsapp"}
  Environments <- MCEnvironments
  ArgumentSets <- MCArgumentSets
  Requests = {r1, r2, r3}
SYMMETRY Symmetry
INVARIANTS
  TypeOK
  NothingStaleIsUsed
  AnswersAreTrue
CHECK_DEADLOCK FALSE
