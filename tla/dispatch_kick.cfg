SPECIFICATION Spec
CONSTANTS
    Workers = {w1}
    w1 = w1
    MASTER = MASTER
    NoOwner = NoOwner
    NumTiles = 2
    MaxRetries = 3
    ServerRenders = {TRUE, FALSE}
    MaxRenders = 1
    MaxDrops = 1
    Events = {"kick"}
INVARIANTS
    LostWorkerOwnsNothing
