\* One thread that adds one clause, one that takes.
SPECIFICATION Spec
CONSTANTS
  a1 = a1
  a2 = a2
  c = c
  Adders <- OneAdder
  Consumer = c
  Buckets <- SomeBuckets
  MaxPartitioningLbd = 2
  Capacity = 4
  MaxAdds = 1
PROPERTIES FalseWhenEmpty
