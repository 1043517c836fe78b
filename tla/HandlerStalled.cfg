SPECIFICATION StalledSpec
CONSTANTS
  m1 = m1
  Sender = sender
  ReceiverClose = receiverClose
  HeartbeatClose = heartbeatClose
  DeliverClose = deliverClose
  DrainClose = drainClose
  Disposer = disposer
  Messages <- MCMessages
  RegistryClosers <- OnlyDrain
  Closers <- MCClosers
  AbortingClosers <- MCAbortingClosers
  Capacity = 1
  StrikeLimit = 1
  MaxAccepted = 1
CHECK_DEADLOCK FALSE
PROPERTIES
  IdleClientIsClosed
