SPECIFICATION NodeSpec
CONSTANTS
  MaxPath = 4
  MaxExtension = 3
  OtherTxs = {"t3"}
  MaxHeld = 1
  NetworkTxs = {"t1", "t2"}
  BadPaths = {}
  Ids <- MCIds
  Txs <- PoolTxs
  Generators <- NetworkGenerators
  Blocks <- NetworkBlocks
  MicroBlocks <- NetworkMicroBlocks
  Genesis <- NetworkGenesis
  Needs <- MCNeeds
  LimitBefore = 2
  LimitAfter = 1
  ActivationHeight = 2
  Size <- UnevenSize
  MaxRollbackDepth = 3
  NoNg = NoNg
  Extensions <- MCExtensions
  SignedAt <- MCSignedAt
  Holdable <- MCHoldable
  Doubtful <- OtherTxs
  NoJob = NoJob
INVARIANT
  RestoreSucceeds
