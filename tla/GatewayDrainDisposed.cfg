SPECIFICATION Spec
CONSTANT Connections = {c1, c2}
CHECK_DEADLOCK FALSE

PROPERTY RemainingSocketsClose
