\* Two workers that share the board; w1 exports learnt clauses, w2 its backbone
\* units.  Implements BackboneExtraction.
SPECIFICATION Spec
CONSTANTS
  w1 = w1
  w2 = w2
  v1 = v1
  v2 = v2
  NoModel = NoModel
  Vars <- TwoVars
  Workers <- TwoWorkers
  Formulas <- FormulasUpToSign
  Learnable <- UnitClause
  Order <- OpposedOrders
  Publishes <- PublishAll
  Consumers <- TwoWorkers
  UnitSharers <- OnlyW2
  LearntSharers <- OnlyW1
  UseFlip = TRUE
  ChunkRate <- MixedRates
  SizeMax = 3
  InitialModel <- NoInitialModel
INVARIANTS TypeOK NothingLost BoardAgrees BoardSound ClausesSound
PROPERTIES ExtractionSpec
CHECK_DEADLOCK FALSE
