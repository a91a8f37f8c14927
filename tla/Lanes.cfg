SPECIFICATION FairSpec
CONSTANTS
  None = None
  Period = 2
  Fresh = 2
  Retry = 6
  Burst = 4
  MissingCap = 2
  LaneCap = 4
  HubWaits = {1}
  LiveTime = {1, 2}
  BackfillTime = {2, 3}
  RepairTime = {0, 1}
  FailingLanes = {"live", "backfill", "repair"}
  MaxBacklog = 2
  MaxTries = 3
  MaxFaults = 1
INVARIANTS
  BurstBounded
  BurstReservesOlder
PROPERTIES
  HistoryGetsTurns
  RepairGetsTurns
