SPECIFICATION FairFeedSpec
CONSTANTS
    RecordSize = 2
    RollBytes = 5
    Ts <- MCTs
    Expiry <- MCExpiry
    MaxEvents = 4
    QueueCap = 2
    FlushBytes = 4
    MaxFailures = 2
CHECK_DEADLOCK FALSE
INVARIANTS
    FilesAreWhole
    BlockingLosesNothing
    SentInOrder
PROPERTIES
    AofIsWriteBehindLog
    EveryRecordServed
