SPECIFICATION MeteredSpec
CONSTANTS
  c1 = c1
  c2 = c2
  Calls = {c1}
  CommandOf <- MCCommandOf
  Speaks = "worker.ts"
  CanCrash = FALSE
  CanClose = FALSE
  MaxResets = 0
PROPERTY
  EveryCallSettles
CHECK_DEADLOCK FALSE
