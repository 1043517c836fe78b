SPECIFICATION MCSpec
CONSTANTS
  m1 = m1
  m2 = m2
  bounded = bounded
  plain = plain
  r1 = r1
  l1 = l1
  Sender = sender
  Disposer = disposer
  Messages <- MCMessages
  Closers <- MCClosers
  AbortingClosers <- MCAbortingClosers
  Capacity = 2
  StrikeLimit = 2
  MaxAccepted = 3
CHECK_DEADLOCK FALSE
SYMMETRY Symmetry
INVARIANTS
  QueueAccounting
  WireExclusion
  HeldOnce
  OpenIsEstablished
  ConnectPromiseIsLive
PROPERTIES
  ImplementsQueue
