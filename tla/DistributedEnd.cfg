\* Three ranks and a deadline that every rank meets in the same phase.
SPECIFICATION FairSpec
CONSTANTS
  NumRanks = 3
  Runs <- OrderlyRuns
  MaxAhead = 2
INVARIANTS OneWinner PrintsOwnAnswer AnswerSurvives NobodyLeftWaiting NothingPending
PROPERTIES EndReachesAll
