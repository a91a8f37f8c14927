SPECIFICATION LiveSpec
CONSTANTS
  Threads = {t1, t2}
  Last = 4
  None = None
  Failed = Failed
  Damaged = Damaged
  Versions = {v1}
  Malformed = {}
  Dirty = {}
  Attempts = 1
  MaxWait = 2
  Waits = {1}
  MaxDownload = 1
  MinFree = 1
  Space = 5
  MaxRuns = 1
  MaxFaults = 1
CHECK_DEADLOCK FALSE
PROPERTIES
  RunEnds
