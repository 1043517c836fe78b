SPECIFICATION Spec
CONSTANTS
  None = None
  NoFile = NoFile
  Gone = Gone
  b1 = b1
  b2 = b2
  p1 = p1
  p2 = p2
  p3 = p3
  p4 = p4
  r1 = r1
  r2 = r2
  r3 = r3
CHECK_DEADLOCK FALSE
INVARIANTS
  ExclusiveWithoutTakeover
  NothingLeftBehind
  DisplacedIsRestorable
  ChangeIsGuarded
  CompletedActionIsTrue
  PlanIsGrounded
  LiveLoginIsReachable
  EvidenceIsTrue
  NoBranchPassedOver
  RepairsAreBounded
