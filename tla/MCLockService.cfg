SPECIFICATION Spec
CONSTANTS
    l1 = l1
    h1 = h1
    h2 = h2
    nameA = nameA
    LockIds = {l1}
    Holders = {h1, h2}
    Nil = Nil
    Names = {nameA}
    NoName = NoName
    Windows = {0, 1, 2}
    RenewMax = 1
    ReleaseDropsExpired = FALSE
    KeeperBreaks = TRUE
    ClockStepsBack = FALSE
    MaxTime = 5
    MaxGeneration = 4
SYMMETRY Symmetry
INVARIANTS
    TypeOK
    FencingTokenNamesOneHolder
    TableBacksTheClient
    MutualExclusion
PROPERTIES
    GenerationFencesHolderChange
