SPECIFICATION Spec
CONSTANTS
    Nodes <- MCNodes
    Genesis <- MCGenesis
    Messages <- MCMessages
    Orders <- MCOrders
    FirstPrimary = 1
    Disturbed = {2}
    VOTING_MINIMUM = 2
    ADMIN_CACHE_LIMIT = 1
    MaxFaults = 1
CHECK_DEADLOCK FALSE
INVARIANTS
    VotingFloorHolds
    AcceptedUnderOnePrimary
    DrivesStayCached
PROPERTIES
    AdoptionIsSound
