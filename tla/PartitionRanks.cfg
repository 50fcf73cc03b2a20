\* A stealing worker beside one of another rank, whose claims prevail.
SPECIFICATION FairPartSpec
CONSTANTS
  w1 = w1
  w2 = w2
  v1 = v1
  v2 = v2
  v3 = v3
  NoModel = NoModel
  Vars <- ThreeVars
  Workers <- OneWorker
  Formulas <- FewModels
  Learnable = {}
  Order <- PartOrders
  Publishes <- PublishAll
  Consumers <- OneWorker
  UnitSharers = {}
  LearntSharers = {}
  UseFlip = FALSE
  ChunkRate <- OneByOne
  SizeMax = 3
  InitialModel <- NoInitialModel
  Mode <- AllSteal
  PartIndex <- Indices
  PartCount = 2
  Rank <- Ranking
  BlockVars = 2
  OtherRanks = {0}
PROPERTIES GivesUpAtNextChunk
CHECK_DEADLOCK FALSE
