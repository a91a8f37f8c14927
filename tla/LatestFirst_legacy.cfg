SPECIFICATION Spec
CONSTANTS
  Workers = {w1}
  None = None
  First = 1
  Clock0 = 2
  LastClock = 2
  Lag = 0
  LiveSpan = 1
  Retry = 3
  Windows = {2}
  LegacyKinds = {"forward", "repair"}
  TornCleanup = FALSE
  MaxFaults = 0
INVARIANTS
  NoMinuteTwice
