SPECIFICATION Spec
CONSTANTS
    Widths = {1, 3, 7, 40}
    Heights = {1, 5, 38}
    NodeCounts = {1, 2, 3, 5}
    Coefficients = {1, 2}
    Percents = {2, 8}
INVARIANTS TypeOK EveryPixelIsItsOwn SavedIsWhole NodesHaveTiles
CHECK_DEADLOCK FALSE
