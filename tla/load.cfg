SPECIFICATION FairSpec
CONSTANTS
    NumBundles = 2
    Chunks = 2
    MaxAttempts = 3
    MaxCleans = 2
    MaxResets = 1
INVARIANTS
    TypeOK
    
PROPERTIES
    NewestIsLoaded
    CleanEndsBlank
CHECK_DEADLOCK FALSE
