SPECIFICATION Spec
CONSTANTS
    MaxTick = 4
INVARIANTS ClocksUnique MessagesConserved HorizonSettled
PROPERTIES StateNeverGoesBack SettledForever
\* The session may stop emitting.
CHECK_DEADLOCK FALSE
