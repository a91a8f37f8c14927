SPECIFICATION Spec
CONSTANTS
  Threads = {t1, t2, t3}
  None = None
  Resets = {0, 2, 4}
  Default = 3
  LastTime = 7
  MaxLow = 2
INVARIANTS
  StopsBeforeExhaustion
CHECK_DEADLOCK FALSE
