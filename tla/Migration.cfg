SPECIFICATION FairSpec
CONSTANTS
  Hosts = {h1}
  None = None
  First = 1
  Clock0 = 3
  LastClock = 4
  Lag = 1
  NearMinutes = 0
  BatchMinutes = 2
  Window = 1
  Retry = 2
  MaxFaults = 1
  Earlier = {"plain", "enriched"}
  EarlierLag = 2
INVARIANTS
  EachObservationOnce
  TreeUniform
  GapsQueued
PROPERTIES
  RemovedOnlyPublished
  ImplementsCoverage
  WorkGoesOn
CHECK_DEADLOCK FALSE
