CONSTANTS
  Channels = {"slack", "telegram", "discord"}
  edit_min_interval = 2
  MaxEvents = 4
  MaxTime = 5
SPECIFICATION FairSpec
INVARIANTS
  TypeOK
  StatusEditsAreSpaced
  ReplyLandsWithoutFaults
PROPERTIES
  ShownAdvances
  FinishedRunIsFinalized
CHECK_DEADLOCK FALSE
