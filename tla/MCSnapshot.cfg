SPECIFICATION Spec
CONSTANTS
  Keys = {k1, k2}
  Values = {v1, Null}
  TTLs = {0, 1}
  None = None
  Null = Null
  MsPerSec = 2
  MaxTime = 2
  Names = {n1}
  MaxCalls = 2
  MaxWrites = 3
INVARIANTS
  TypeOK
  EachEntryWasThere
  LifeKept
  RestoreExact
SYMMETRY Symmetric
