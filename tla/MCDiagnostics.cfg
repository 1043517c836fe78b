SPECIFICATION MCSpec
CONSTANTS
  q1 = q1
  q2 = q2
  Instances = {g1}
  Others = {g2}
  Categories = {c1}
  Ids = {1, 2}
  Requests = {q1}
  MaximumDetailItems = 1
  WorkCapacity = 2
  Lifetime = 1
  MaxTime = 1
  MaxFaults = 1
INVARIANT OneOverrideInForce
PROPERTY ReplicaAgrees
