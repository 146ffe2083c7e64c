SPECIFICATION FairSpec
CONSTANTS
    MaxColumns = 3
    MaxRows = 3
    Shapes <- SmallShapes
    Screens <- Corners
    OverscanFactor = 0
    MaxChanges = 1
    MaxCalls = 2
    MayFail = TRUE
    None = None
INVARIANTS TypeOK ScreenIsCurrent CacheBounded TrimNotDuringUpdate
PROPERTIES LastRequestServed
CHECK_DEADLOCK FALSE
