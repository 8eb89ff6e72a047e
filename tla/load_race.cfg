SPECIFICATION Spec
CONSTANTS
    NumBundles = 2
    Chunks = 1
    MaxAttempts = 5
    MaxCleans = 0
    MaxResets = 0
INVARIANTS
    NewestIsInHand
CHECK_DEADLOCK FALSE
