SPECIFICATION Spec
CONSTANTS
    g = g
    a1 = a1
    a2 = a2
    a3 = a3
    b1 = b1
    b2 = b2
    p = p
    q = q
    NoChannel = NoChannel
    NoSync = NoSync
    Channels = {p, q}
    Blocks = {g, a1, b1}
    Genesis = g
    Parent <- MCSmallParent
    BadBlocks = {b1}
    OwnBlocks = {}
    MaxChainLength = 2
    MaxRollback = 2
    Prompt = FALSE
    MaxEvents = 2
PROPERTY LoaderRests
CHECK_DEADLOCK FALSE
