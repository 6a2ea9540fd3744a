SPECIFICATION FairSpec
CONSTANTS
    r1 = r1
    r2 = r2
    h1 = h1
    h2 = h2
    m1 = m1
    m2 = m2
    LockIds = {1}
    Holders = {h1, h2}
    Nil = Nil
    Names = {}
    NoName = NoName
    Windows = {2}
    RenewMax = 1
    ReleaseDropsExpired = FALSE
    KeeperBreaks = TRUE
    Replicas = {r1, r2}
    FirstLeader = r1
    Skew <- NoSkew
    SWEEP_BUDGET = 8
    Commands <- MCTwoSets
    CoreAcceptsDuplicates = FALSE
    MaxTime = 2
    MaxLog = 2
    MaxViewChanges = 1
    MaxRestarts = 1
    MaxSweeps = 0
CHECK_DEADLOCK FALSE
PROPERTIES
    EveryMessageAnswered
