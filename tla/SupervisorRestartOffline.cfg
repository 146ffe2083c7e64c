SPECIFICATION Spec
CONSTANTS
    Requests = {r1}
    MaxSockets = 2
    MaxStatus = 0
    MaxRestarts = 1
    MaxQuits = 0
    MayDie = FALSE
INVARIANT OpenMeansConnected
CHECK_DEADLOCK FALSE
