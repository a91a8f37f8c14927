SPECIFICATION Spec
CONSTANTS
  Workers = {w1, w2}
  None = None
  First = 1
  Clock0 = 2
  LastClock = 2
  Lag = 0
  LiveSpan = 1
  Retry = 2
  Windows = {2}
  LegacyKinds = {"forward", "repair"}
  TornCleanup = FALSE
  MaxFaults = 1
SYMMETRY WorkerSymmetry
INVARIANTS
  RepeatsOnlySeamRepairs
  CursorsMatchHistory
  NoGapForgotten
PROPERTIES
  CursorsMonotone
