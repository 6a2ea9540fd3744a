SPECIFICATION Spec
CONSTANTS
    n1 = n1
    n2 = n2
    c1 = c1
    Node = {n1, n2}
    Nobody = Nobody
    Tcp = {c1}
    None = None
    LeaseMs = 2
    RenewMargin = 1
    MaxMessages = 3
    MaxLines = 2
    Mixes <- MCMixes
CHECK_DEADLOCK FALSE
INVARIANTS
    
    StartsWithAProbe
    AnswersItsLine
