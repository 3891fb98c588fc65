SPECIFICATION ButtonSpec
CONSTANT MaxCalls = 3
INVARIANT IdleIsUp
PROPERTY PressEnds
CHECK_DEADLOCK FALSE
