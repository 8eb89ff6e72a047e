SPECIFICATION Spec
CONSTANTS
    Workers = {w1, w2}
    w1 = w1
    w2 = w2
    MASTER = MASTER
    NoOwner = NoOwner
    NumTiles = 2
    MaxRetries = 1
    ServerRenders = {TRUE}
    MaxRenders = 1
    MaxDrops = 2
    Events = {"disconnect", "slow_handler", "render_failure", "raise"}
SYMMETRY Symmetry
INVARIANTS
    PendingTileIsCarried
CHECK_DEADLOCK FALSE
