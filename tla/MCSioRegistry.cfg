CONSTANT MaxImpls = 1
SPECIFICATION Spec
INVARIANT RegisteredSocketExists
CHECK_DEADLOCK FALSE
