SPECIFICATION Spec
CONSTANTS
    g = g
    a1 = a1
    a2 = a2
    a3 = a3
    b1 = b1
    b2 = b2
    p = p
    q = q
    NoChannel = NoChannel
    NoSync = NoSync
    Channels = {p}
    Blocks = {g, a1, a2, a3, b1, b2}
    Genesis = g
    Parent <- MCParent
    BadBlocks = {b2}
    OwnBlocks = {a1, b1, a3}
    MaxChainLength = 3
    MaxRollback = 2
    Prompt = TRUE
    MaxEvents = 2
INVARIANTS OneAtATime ValidNotRefused
PROPERTY CatchesUp
CHECK_DEADLOCK FALSE
