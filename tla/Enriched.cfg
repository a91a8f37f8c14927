SPECIFICATION FairSpec
CONSTANTS
  None = None
  Torn = Torn
  psl = psl
  ggg = ggg
  First = 1
  LastCutoff = 3
  BatchMinutes = 2
  Sources <- MCSources
  SourcesOf <- MCSourcesOf
  PSL = psl
  MaxVersion = 1
  MaxFaults = 2
  Labels = {"a", "b"}
  MaxLabels = 3
  MaxRules = 3
  Codes = {"US"}
INVARIANTS
  JoinsStopAtSuffix
  EvidenceComplete
PROPERTIES
  KeptUntilPublished
  ImplementsCoverage
  BatchesFinish
CHECK_DEADLOCK FALSE
