SPECIFICATION FairSpec
CONSTANTS
  Keys = {k1, k2}
  Values = {v1}
  Unheard = {k2}
  None = None
  Torn = Torn
  Saves = {s1, s2}
  MaxBackups = 2
  MaxWrites = 2
  MaxFaults = 1
INVARIANTS
  TypeOK
  CleanMeansSaved
  AWholeFileSurvives
PROPERTY
  HeardGetsSaved
