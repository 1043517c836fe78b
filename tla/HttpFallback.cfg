SPECIFICATION Spec
CONSTANTS
  Polls = {p1}
  MaxPayloads = 2
CHECK_DEADLOCK FALSE
INVARIANTS
  ExclusiveUse
PROPERTIES
  CloseEndsSender
  QuietConnectionIsDisposed
