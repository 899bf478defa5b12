SPECIFICATION FairSpec
CONSTANTS
  PriceConstant = 3
  Pairs <- MCPairs
  KeyRank <- MCKeyRank
  Orders <- MCOrders
  SnapshotsInterval = 2
  SnapshotOffset <- MCSnapshotOffset
  NoBook = NoBook
  NoSnapshot = NoSnapshot
  MaxEvents = 4
  MaxRestarts = 1
INVARIANTS
  BookIsReplay
  NothingSkipped
  NoBookForgotten
  TradesSettle
  PriceTimePriority
  RestingIsValid
PROPERTIES
  CatchesUp
CHECK_DEADLOCK FALSE
