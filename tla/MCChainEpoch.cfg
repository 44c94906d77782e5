CONSTANTS
  a1 = a1
  a2 = a2
  Address = {a1, a2}
  ZERO = ZERO
  MaxU64 = 1000
  InitialReward = 2
  HalvingInterval = 2
  InitialDifficulty = 1
  TargetBlockTime = 1
  RetargetWindow = 10
  GenesisTimestamp = 0
  EpochLength = 2
  MaxBlocks = 3
  Premine <- NoPremine
  Submittable <- EpochBlocks
SPECIFICATION FairSpec
PROPERTIES
  ChainEntersNextEpoch
