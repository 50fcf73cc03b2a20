\* A worker with square-root blocks, a -model that may be wrong, and another rank
\* that publishes on the board, under fairness.
SPECIFICATION FairPartSpec
CONSTANTS
  w1 = w1
  w2 = w2
  v1 = v1
  v2 = v2
  v3 = v3
  NoModel = NoModel
  Vars <- ThreeVars
  Workers <- OneWorker
  Formulas <- SomeFormulas
  Learnable = {}
  Order <- PartOrders
  Publishes <- PublishAll
  Consumers <- OneWorker
  UnitSharers <- OneWorker
  LearntSharers = {}
  UseFlip = TRUE
  ChunkRate <- SaturatingRate
  SizeMax = 3
  InitialModel <- GivenModel
  Mode <- AllSqrt
  PartIndex <- OnePart
  PartCount = 1
  Rank <- Ranking
  BlockVars = 3
  OtherRanks = {0}
INVARIANTS ResultExact CallsDecide
PROPERTIES EmptyOnlyToWait EventuallyReturns
CHECK_DEADLOCK FALSE
