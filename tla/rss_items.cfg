SPECIFICATION RSSSpec
CONSTANTS
  Items = {1, 2}
  Pollers = {p1, p2}
  SyncModes = {"baseline", "publish_latest"}
  Enhance = {TRUE, FALSE}
  MaxPostsPerDay = 1
  MaxRSSItemAttempts = 2
  Faults = {"net", "db", "marker", "dispatch", "post", "release", "crash"}
  MaxFaults = 1
SYMMETRY Symmetry
INVARIANTS OnePostPerItem JobProtectsItem BudgetHeld AttemptsBounded BacklogStaysOut
