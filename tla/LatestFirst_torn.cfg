SPECIFICATION FairSpec
CONSTANTS
  Workers = {w1}
  None = None
  First = 1
  Clock0 = 3
  LastClock = 3
  Lag = 0
  LiveSpan = 2
  Retry = 3
  Windows = {2}
  LegacyKinds = {}
  TornCleanup = TRUE
  MaxFaults = 1
PROPERTIES
  RetainedWorkFinishes
