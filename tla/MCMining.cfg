CONSTANTS
  a1 = a1
  a2 = a2
  Address = {a1, a2}
  ZERO = ZERO
  MaxU64 = 31
  InitialReward = 1
  HalvingInterval = 8
  InitialDifficulty = 1
  TargetBlockTime = 1
  RetargetWindow = 10
  GenesisTimestamp = 0
  EpochLength = 8
  MaxBlocks = 0
  MaxRestarts = 1
  Premine <- MiningPremine
  Submittable = {}
  Miner = {a1, a2}
  Patient <- Everyone
  Payments <- MiningPayments
  KeyOrder <- MiningOrder
SPECIFICATION FairMiningSpec
INVARIANTS
  NothingConfirmedMissing
PROPERTIES
  EveryPaymentMined
  RefusedOnlyIfOvertaken
CHECK_DEADLOCK FALSE
