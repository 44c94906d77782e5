CONSTANTS
  a1 = a1
  a2 = a2
  Address = {a1, a2}
  ZERO = ZERO
  MaxU64 = 1000
  InitialReward = 1
  HalvingInterval = 2
  InitialDifficulty = 4
  TargetBlockTime = 4
  RetargetWindow = 1
  GenesisTimestamp = 0
  EpochLength = 8
  MaxBlocks = 6
  MaxCrashes = 1
  Premine <- NoPremine
  Submittable <- CommitBlocks
SPECIFICATION CommitSpec
INVARIANTS
  TypeOK
  BranchRetarget
  StoreSurvivesCrash
  WholeBetweenCalls
  TemplateFollowsTip
PROPERTIES
  ImplementsAtomic
