SPECIFICATION Spec
CONSTANTS
    r1 = r1
    r2 = r2
    h1 = h1
    h2 = h2
    m1 = m1
    m2 = m2
    LockIds = {1}
    Holders = {h1, h2}
    Nil = Nil
    Names = {}
    NoName = NoName
    Windows = {2}
    RenewMax = 1
    ReleaseDropsExpired = FALSE
    KeeperBreaks = TRUE
    Replicas = {r1, r2}
    FirstLeader = r1
    Skew <- FirstAhead
    SWEEP_BUDGET = 8
    Commands <- MCTwoSets
    CoreAcceptsDuplicates = TRUE
    MaxTime = 3
    MaxLog = 3
    MaxViewChanges = 1
    MaxRestarts = 1
    MaxSweeps = 1
CHECK_DEADLOCK FALSE
INVARIANTS
    AnswersAreCommitted
    OneHolderUnderOnePrimary
PROPERTIES
    ExecutedOncePerLife
