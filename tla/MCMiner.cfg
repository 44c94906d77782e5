CONSTANTS
  w1 = w1
  w2 = w2
  w3 = w3
  Device = {"cpu", "gpu"}
  Threads = 4
  BatchSize = 3
  NonceSpace = 16
  MaxGlitches = 1
  Template <- MinerTemplates
  epoch <- MinerEpochs
  epoch_boundary_hash <- MinerBoundary
  Solutions <- MinerSolutions
SPECIFICATION FairMinerSpec
INVARIANTS
  SubmittedSolves
  NonceSpaceSplit
PROPERTIES
  SearchEnds
CHECK_DEADLOCK FALSE
