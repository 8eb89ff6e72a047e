SPECIFICATION FairSpec
CONSTANTS
    Workers = {w1, w2}
    Sizes = {3, 4, 5}
    ChunkSize = 2
    InlineLimit = 4
    MaxResults = 2
    MaxLosses = 1
INVARIANTS TypeOK ResultsIntact OnlyOpenTransfersKept
PROPERTIES ResultArrives TransferKeepsPromise
CHECK_DEADLOCK FALSE
