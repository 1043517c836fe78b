SPECIFICATION Spec
CONSTANTS
  r1 = r1
  r2 = r2
  l1 = l1
  l2 = l2
  Routes = {r1, r2}
  Listeners = {l1, l2}
  RouteOf <- MCRouteOf
  MaximumAttempts = 1
  MaximumQueuedCommands = 2
  MaximumPendingCommands = 2
  MaxGeneration = 2
  MaxPublishes = 1
CHECK_DEADLOCK FALSE
INVARIANTS
  SubscribeNotLost
