SPECIFICATION JobsFairSpec
CONSTANTS
  Jobs = {j1, j2}
  Origins = {"rss"}
  Instances = {i1, i2}
  MaxConcurrent = 1
  RunLimit = 1
  StaleAfter = 2
  Faults = {"db", "crash"}
  MaxFaults = 1
PROPERTIES JobEnds TerminalIsFinal
