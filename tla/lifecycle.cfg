SPECIFICATION FairSpec
CONSTANTS
    MaxThreads = 2
    MaxForces = 1
    MaxChanges = 1
    RediscoverAfter = 1
    SelfHostAfter = 2
ACTION_CONSTRAINT TimersEndLast
INVARIANTS TypeOK ServerIsServed
PROPERTIES ForceDelivers NotStranded
CHECK_DEADLOCK FALSE
