\* The time is over before a rank has launched its sharers.
SPECIFICATION Spec
CONSTANTS
  NumRanks = 2
  Runs <- AnyTime
  MaxAhead = 1
INVARIANTS NobodyLeftWaiting
