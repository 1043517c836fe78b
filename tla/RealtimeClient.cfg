SPECIFICATION Spec
CONSTANTS
  SendQueueCapacity = 2
  MaximumReconnectAttempts = 1
  MaxSends = 2
  MaxCommands = 1
  MaxHeartbeats = 1
CHECK_DEADLOCK FALSE
INVARIANTS
  SlotsConserved
  AcceptedInOrder
PROPERTIES
  ClientStops
