SPECIFICATION Spec
CONSTANTS
  Keys = {k1, k2}
  Values = {v1}
  Unheard = {}
  None = None
  Torn = Torn
  Saves = {s1}
  MaxBackups = 2
  MaxWrites = 2
  MaxFaults = 0
INVARIANT
  NothingUnsaved
