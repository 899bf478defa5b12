SPECIFICATION MCSpec
CONSTANTS
    alice = alice
    bob = bob
    thing = thing
    smart = smart
    Focuses <- AllFocuses
    MaxLeft = 1
    Addresses = {alice, bob}
    Miners = {alice, bob}
    Txs <- AllShapes
    Values = {v1, v2}
    NoValue = NoValue
    NoTx = NoTx
    Watched <- AllReaders
    MaxRollbackDepth = 2
    ExtraBalanceDepth = 3
    MaxHeight = 7
CHECK_DEADLOCK FALSE
INVARIANTS WindowExact SnapshotsExact AboveSafeHeight CacheFresh
