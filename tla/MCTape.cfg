CONSTANTS
    alice = alice
    bob = bob
    lock = lock
    LockIds = {lock}
    Holders = {alice, bob}
    Nil = Nil
    Names = {}
    NoName = NoName
    Windows = {2}
    RenewMax = 2
    ReleaseDropsExpired = TRUE
    KeeperBreaks = TRUE
    Ops <- MCOps
    SyncPoints = {3}
    MaxRecords = 4
    RollRecords = 2
    MaxBoots = 2
SPECIFICATION Spec
CHECK_DEADLOCK FALSE
INVARIANTS
    AckedIsFlushed
    
    ViewIsTheTable
