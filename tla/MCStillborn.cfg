SPECIFICATION Spec
CONSTANTS
  k1 = k1
  v1 = v1
  v2 = v2
  Keys = {k1}
  Values = {v1, v2}
  TTLs = {0, 1}
  None = None
  Null = Null
  MsPerSec = 2
  MaxTime = 5
PROPERTY ReadYourWrite
