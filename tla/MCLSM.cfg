SPECIFICATION MCSpec
CONSTANTS
  v = v
  Keys = {1, 2}
  Rank <- MCRank
  Values = {v}
  Null = Null
  Missing = Missing
  TTLs = {0, 1}
  SizeOf <- MCSizeOf
  KeySize = 1
  MaxSizeBytes = 16
  enableBloomFilter = TRUE
  HashesOf <- MCHashesOf
  MaxFlushes = 5
  MaxTime = 2
INVARIANTS
  TypeOK
  SizeAccounted
  NewestSurvives
  SortedMeansFound
  ReadsNewest
CHECK_DEADLOCK FALSE
