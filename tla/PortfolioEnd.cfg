\* Two workers, a timeout, both builds, under fairness.
SPECIFICATION FairSpec
CONSTANTS
  NumWorkers = 2
  HasTimeout = TRUE
  Builds = {"release", "debug"}
INVARIANTS TypeOK AnswerPrinted JobAfterReset
PROPERTIES MainReturns
