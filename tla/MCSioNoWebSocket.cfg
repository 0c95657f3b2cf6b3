CONSTANT MaxImpls = 1
SPECIFICATION Spec
INVARIANT ConnectedHasWebSocket
CHECK_DEADLOCK FALSE
