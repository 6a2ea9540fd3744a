SPECIFICATION WalSpec
CONSTANTS
    l1 = l1
    h1 = h1
    h2 = h2
    nameA = nameA
    LockIds = {l1}
    Holders = {h1, h2}
    Nil = Nil
    Names = {nameA}
    NoName = NoName
    Windows = {2}
    RenewMax = 1
    ReleaseDropsExpired = FALSE
    KeeperBreaks = TRUE
    ClockStepsBack = FALSE
    MaxTime = 3
    MaxGeneration = 3
    Drift = 0
    MaxRefusals = 1
SYMMETRY Symmetry
INVARIANTS
    VouchedStreamsAreDisjoint
    TableBacksTheClient
