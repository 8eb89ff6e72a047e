SPECIFICATION FairSpec
CONSTANTS
    Workers = {w1, w2}
    w1 = w1
    w2 = w2
    MASTER = MASTER
    NoOwner = NoOwner
    NumTiles = 3
    MaxRetries = 2
    ServerRenders = {TRUE}
    MaxRenders = 1
    MaxDrops = 1
    Events = {"disconnect"}
INVARIANTS
    InflightMatchesOwners
PROPERTIES
    RenderFinishes
