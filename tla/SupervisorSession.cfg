SPECIFICATION FairSpec
CONSTANTS
    Requests = {r1}
    MaxSockets = 3
    MaxStatus = 1
    MaxRestarts = 1
    MaxQuits = 1
    MayDie = TRUE
INVARIANTS ConnectedHasSocket OneSocket ReasonFits
PROPERTIES ConnectionComesBack
CHECK_DEADLOCK FALSE
