SPECIFICATION JobsSpec
CONSTANTS
  Jobs = {j1, j2}
  Origins = {"user", "preview", "rss", "recurring", "legacy"}
  Instances = {i1, i2}
  MaxConcurrent = 2
  RunLimit = 1
  StaleAfter = 2
  Faults = {"db", "crash"}
  MaxFaults = 2
SYMMETRY Symmetry
INVARIANTS OneOutcome RecoversOnlyDead
