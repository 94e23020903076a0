SPECIFICATION Spec
CONSTANTS
  Keys = {k1, k2}
  Values = {v1, v2}
  TTLs = {0}
  None = None
  Null = Null
  MsPerSec = 1
  MaxTime = 0
  Names = {n1}
  MaxCalls = 1
  MaxWrites = 4
INVARIANT PointInTime
