SPECIFICATION FairSpec
CONSTANTS
  Txs = {"pay", "call"}
  Addresses = {"alice", "bob"}
  Submitted = {"call"}
  Old = {"call"}
  Effect <- MCEffect
  Initial <- MCInitial
  MaxSize = 1
  Putters = {"api"}
  Cleaners = {"cleanup"}
  Miners = {"appender"}
  Ranked <- MCRanked
  Appender = "appender"
  NoTx = NoTx
INVARIANTS
  NoGhosts
  PendingExact
  WithinLimit
PROPERTY
  InvalidLeaves
CHECK_DEADLOCK FALSE
