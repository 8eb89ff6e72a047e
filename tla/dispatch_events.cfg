SPECIFICATION Spec
CONSTANTS
    Workers = {w1}
    w1 = w1
    MASTER = MASTER
    NoOwner = NoOwner
    NumTiles = 2
    MaxRetries = 1
    ServerRenders = {TRUE}
    MaxRenders = 2
    MaxDrops = 1
    Events = {"disconnect", "takeover", "kick", "prune", "cancel", "reset", "restart", "stitch_failure"}
INVARIANTS
    TypeOK
    NoTileLost
PROPERTIES
    PromiseKept
