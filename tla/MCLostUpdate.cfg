SPECIFICATION Spec
CONSTANTS
  k1 = k1
  Keys = {k1}
  Values = {}
  TTLs = {0}
  None = None
  Null = Null
  MsPerSec = 1
  MaxTime = 0
  NumberOf <- MCNumberOf
  MaxSeed = 0
  Batches = {}
  Commands = {"incr"}
  MaxCounts = 2
  MaxPending = 2
INVARIANT CountersExact
