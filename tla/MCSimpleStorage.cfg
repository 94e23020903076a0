SPECIFICATION FairSpec
CONSTANTS
  k1 = k1
  k2 = k2
  v1 = v1
  Keys = {k1, k2}
  Values = {v1, Null}
  TTLs <- MCTTLs
  None = None
  Null = Null
  MsPerSec = 2
  MaxTime = 5
INVARIANTS
  TypeOK
  NoOrphanDeadline
  TtlHonest
PROPERTIES
  ReadsLeaveNoTrace
  BackOnlyByWrite
  Reclaimed
