SPECIFICATION Spec
CONSTANTS
  Threads = {t1, t2}
  Last = 2
  None = None
  Failed = Failed
  Damaged = Damaged
  Versions = {v1, v2}
  Malformed = {v2}
  Dirty = {v1}
  Attempts = 2
  MaxWait = 2
  Waits = {1, 2, 3}
  MaxDownload = 1
  MinFree = 1
  Space = 5
  MaxRuns = 2
  MaxFaults = 2
SYMMETRY ThreadSymmetry
INVARIANTS
  OutcomesTrue
  ReportAgrees
  ManifestIsLast
  DiskReserveKept
PROPERTIES
  CooldownRespected
  VerifiedStays
  BytesRetained
