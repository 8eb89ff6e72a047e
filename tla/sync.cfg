SPECIFICATION Spec
CONSTANTS
    Workers = {w1, w2}
    MaxRounds = 2
    MaxLosses = 1
SYMMETRY Symmetry
CONSTRAINT RoundsToEnd
INVARIANTS TypeOK
PROPERTIES VerdictIsOfThisRound StartedOnTheSameScene CleanedMeansGone
CHECK_DEADLOCK FALSE
