\* Two stealing workers, blocks of one variable, under fairness.
SPECIFICATION FairPartSpec
CONSTANTS
  w1 = w1
  w2 = w2
  v1 = v1
  v2 = v2
  v3 = v3
  NoModel = NoModel
  Vars <- ThreeVars
  Workers <- TwoWorkers
  Formulas <- OnePairFree
  Learnable = {}
  Order <- PartOrders
  Publishes <- PublishAll
  Consumers <- TwoWorkers
  UnitSharers = {}
  LearntSharers = {}
  UseFlip = FALSE
  ChunkRate <- OneByOne
  SizeMax = 3
  InitialModel <- NoInitialModel
  Mode <- AllSteal
  PartIndex <- Indices
  PartCount = 2
  Rank <- Ranking
  BlockVars = 1
  OtherRanks = {}
INVARIANTS OwnChunks WaitsForOthers HeldOrPublished
PROPERTIES EmptyOnlyToWait EventuallyReturns
CHECK_DEADLOCK FALSE
