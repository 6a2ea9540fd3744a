SPECIFICATION FairSpec
CONSTANTS
    Node <- MCNode
    Scenes <- MCScenes
    Bound = 3
CHECK_DEADLOCK FALSE
INVARIANTS
    HeartbeatIsLastCommit
    OneDetectionPerKey
PROPERTIES
    
    ViewMovesOnlyByPeers
    FailoverCompletes
