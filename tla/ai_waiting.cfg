SPECIFICATION JobsSpec
CONSTANTS
  Jobs = {j1, j2, j3}
  Origins = {"user"}
  Instances = {i1}
  MaxConcurrent = 1
  RunLimit = 1
  StaleAfter = 2
  Faults = {}
  MaxFaults = 0
SYMMETRY Symmetry
INVARIANTS RecoversOnlyDead
