SPECIFICATION FairSpec
CONSTANTS
  Workers = {w1}
  None = None
  First = 1
  Clock0 = 3
  LastClock = 4
  Lag = 0
  LiveSpan = 1
  Retry = 2
  Windows = {1, 2}
  LegacyKinds = {}
  TornCleanup = FALSE
  MaxFaults = 1
INVARIANTS
  TypeOK
  GapsQueued
  LandedIsAcknowledged
  RepairStaysQueued
PROPERTIES
  RemovedOnlyPublished
  ImplementsCoverage
  AllWorkFinishes
