SPECIFICATION MCSpec
CONSTANTS
    alice = alice
    bob = bob
    thing = thing
    smart = smart
    Focuses <- InvocationsOnly
    MaxLeft = 1
    Addresses = {alice, bob}
    Miners = {alice}
    Txs <- AllShapes
    Values = {v1, v2}
    NoValue = NoValue
    NoTx = NoTx
    Watched <- AllReaders
    MaxRollbackDepth = 2
    ExtraBalanceDepth = 1
    MaxHeight = 3
CHECK_DEADLOCK FALSE
INVARIANT DataRolledBack
