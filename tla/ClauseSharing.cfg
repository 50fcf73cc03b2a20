\* A solver on each of two ranks, a third rank that only listens, under fairness.
SPECIFICATION FairSpec
CONSTANTS
  s1 = s1
  s2 = s2
  u = u
  b = b
  w = w
  WorldSize = 3
  Solvers <- TwoSolvers
  RankOf <- OneEach
  Global = Global
  Clauses <- ThreeClauses
  Size <- Sizes
  Lbd <- Lbds
  Derivable <- SomeLearn
  LocalLiterals = 2
  TotalSize = 4
INVARIANTS ImportsAreForeign SendsOwnClauses FiltersAgree KeptOrShared
PROPERTIES EventuallyShared
