CONSTANTS
  a1 = a1
  a2 = a2
  Address = {a1, a2}
  ZERO = ZERO
  MaxU64 = 31
  InitialReward = 2
  HalvingInterval = 8
  InitialDifficulty = 1
  TargetBlockTime = 1
  RetargetWindow = 10
  GenesisTimestamp = 0
  EpochLength = 8
  MaxBlocks = 8
  Premine <- NodePremine
  Submittable <- PoolBlocks
  Offered <- PoolTxs
  Task = {"net"}
  MaxRestarts = 1
SPECIFICATION NodeSpec
INVARIANTS
  DisplacedKeptWhileUp
  CanonicalAnnounced
  HeightAdvertised
  NoOrphanOnTip
PROPERTIES
  PendingUntilMined
  ImplementsChain
