\* Two threads that add three clauses in all, one that takes and shrinks.
SPECIFICATION FairSpec
CONSTANTS
  a1 = a1
  a2 = a2
  c = c
  Adders <- TwoAdders
  Consumer = c
  Buckets <- SomeBuckets
  MaxPartitioningLbd = 2
  Capacity = 4
  MaxAdds = 3
INVARIANTS CountersAgree WorstCovers
PROPERTIES ShrinksFromTheWorst MissedAdded
