SPECIFICATION MCSpec
CONSTANTS
  k1 = k1
  k2 = k2
  k3 = k3
  v = v
  w = w
  Keys = {k1, k2, k3}
  Values = {v, w}
  TTLs = {0, 1}
  None = None
  Null = Null
  MsPerSec = 1
  MaxTime = 2
  NumberOf <- MCNumberOf
  MaxSeed = 2
  Batches <- Lists
  Commands = {"set", "del", "expire", "flushall", "look", "mset", "mget", "incr", "decr", "get", "close"}
  MaxCounts = 3
  MaxPending = 4
INVARIANTS
  TypeOK
  MirrorCatchesUp
  CounterInRange
  BatchNeverTorn
PROPERTY
  ImplementsStorage
