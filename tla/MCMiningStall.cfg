CONSTANTS
  a1 = a1
  a2 = a2
  Address = {a1, a2}
  ZERO = ZERO
  MaxU64 = 31
  InitialReward = 1
  HalvingInterval = 8
  InitialDifficulty = 1
  TargetBlockTime = 1
  RetargetWindow = 10
  GenesisTimestamp = 0
  EpochLength = 8
  MaxBlocks = 0
  MaxRestarts = 0
  Premine <- MiningPremine
  Submittable = {}
  Miner = {a1, a2}
  Patient <- OnlyA2
  Payments <- StallPayments
  KeyOrder <- StallOrder
SPECIFICATION FairMiningSpec
PROPERTIES
  EveryPaymentMined
