SPECIFICATION FairSpec
CONSTANTS
    MaxLife = 4
CHECK_DEADLOCK FALSE
INVARIANTS
    StoreIsSound
PROPERTIES
    OperationsComplete
