SPECIFICATION SignalFairSpec
CONSTANT MaxKeys = 1
PROPERTY KillEnds
CHECK_DEADLOCK FALSE
