SPECIFICATION CheckSpec
CONSTANTS
    MaxLife = 3
    GenesisEra = 1
    MaxEra = 2
    MaxTable = 2
    MaxLines = 5
CHECK_DEADLOCK FALSE
INVARIANTS
    NoBurntLifeRuns
    CleanBootLoadsLastTable
    FindingsNameWhatHappened
    ConsistentFlushBootsClean
