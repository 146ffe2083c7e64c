SPECIFICATION FairSpec
CONSTANTS
    a = a
    b = b
    raw = raw
    foreign = foreign
    Cells = {a, b, raw, foreign}
    SkippedCells = {raw}
    ForeignCells = {foreign}
    Selections <- TwoSelections
    MaxRequests = 2
    MaxSessions = 2
    MaxLosses = 2
    MaxCancels = 1
    None = None
INVARIANTS TypeOK StopsOnError OneAtATime QueuedHasExecution NothingLeftSpinning
PROPERTIES GoneSessionLeavesMap EveryRequestReturns
CHECK_DEADLOCK FALSE
