CONSTANTS
  a1 = a1
  a2 = a2
  Address = {a1, a2}
  ZERO = ZERO
  MaxU64 = 31
  InitialReward = 2
  HalvingInterval = 2
  InitialDifficulty = 1
  TargetBlockTime = 1
  RetargetWindow = 10
  GenesisTimestamp = 0
  EpochLength = 8
  MaxBlocks = 5
  Premine <- ForksPremine
  Submittable <- ForksSubmittable
SPECIFICATION Spec
INVARIANTS
  BlockTree
  CanonicalIndex
  AccountsReplayCanonical
  TipIsHeaviestValid
  SupplyConserved
  NoReplay
PROPERTIES
  TipWorkGrows
  RequeueExact
