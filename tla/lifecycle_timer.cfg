SPECIFICATION Spec
CONSTANTS
    MaxThreads = 2
    MaxForces = 0
    MaxChanges = 0
    RediscoverAfter = 3
    SelfHostAfter = 8
INVARIANTS PumpedWhileStarted
CHECK_DEADLOCK FALSE
