SPECIFICATION FairSpec
CONSTANTS
    MaxTick = 4
INVARIANTS StatesConserved
PROPERTIES ImplementsDelivery EventsSettle
\* The session may stop emitting.
CHECK_DEADLOCK FALSE
