SPECIFICATION Spec
CONSTANTS
    f = f
    e = e
    g = g
    Features = {f, e, g}
    PreActivated = {g}
    Votes <- MCVotes
    Period = 2
    Enough = 2
    DoubleAfter = 4
    NoLiquid = NoLiquid
    MaxHeight = 8
INVARIANT ApprovalFollowsVotes
PROPERTIES AnnouncedIsStored ApprovalFixed
