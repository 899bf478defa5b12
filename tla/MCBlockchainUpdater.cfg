SPECIFICATION Spec
CONSTANTS
  MaxPath = 5
  NetworkTxs = {"t1", "t2", "t3"}
  BadPaths <- MCBadPaths
  Ids <- NetworkIds
  Txs <- NetworkTxs
  Generators <- NetworkGenerators
  Blocks <- NetworkBlocks
  MicroBlocks <- NetworkMicroBlocks
  Genesis <- NetworkGenesis
  Needs <- MCNeeds
  LimitBefore = 1
  LimitAfter = 2
  ActivationHeight = 2
  Size <- CountTxs
  MaxRollbackDepth = 2
  NoNg = NoNg
INVARIANTS
  TypeOK
  ChainLinked
  ChainReplays
  SignedPositions
  FeesPassedOn
  RestMatchesLiquid
PROPERTIES
  ScoreNeverFalls
  DiscardedIsExact
  RemovedIsReturned
