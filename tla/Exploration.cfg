\* A MaxSAT worker with an XOR phase, beside workers that publish on the board.
SPECIFICATION FairExploreSpec
CONSTANTS
  w1 = w1
  v1 = v1
  v2 = v2
  v3 = v3
  NoModel = NoModel
  Vars <- ThreeVars
  Workers <- OneWorker
  Formulas <- SomeFormulas
  Learnable = {}
  Order <- Ascending
  Publishes <- PublishAll
  Consumers <- OneWorker
  UnitSharers = {}
  LearntSharers = {}
  UseFlip = TRUE
  ChunkRate <- AllAtOnce
  SizeMax = 3
  InitialModel <- NoInitialModel
  XorRounds <- OneRound
  XorCount = 2
  Adaptive <- Always
  WordBits = 2
  MaxSatWorkers <- OneWorker
  MaxSatRounds = 0
  Patience <- TwoCalls
INVARIANTS CoresStay LeavesInOrder NothingLost PushedOnce
PROPERTIES EventuallyReturns
CHECK_DEADLOCK FALSE
