CONSTANTS
    Proc = {1, 2, 3, 4}
    Genesis = {1, 2, 3}
    QueueCap = 1
    Flight = 1
    Scenes <- MCScenes
SPECIFICATION Spec
CHECK_DEADLOCK FALSE
INVARIANTS
    
    AddressesAreSound
PROPERTIES
    AdoptionIsSound
