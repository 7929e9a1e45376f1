SPECIFICATION FairSpec
CONSTANTS
  Posts = {p1, p2}
  Accounts = {a1}
  Instances = {i1}
  Workers = {w1}
  Host <- OneHost
  Requests = {}
  None = None
  MaxAttempts = 2
  QueueCap = 1
  DueLimit = 2
  DrainLimit = 1
  Backend = "sqlite"
  Patches <- Reschedules
  Ops = {}
  MaxOps = 1
  Faults = {"provider", "crash"}
INVARIANTS RetryBudget
PROPERTIES DuePostSettles EvidenceDelivered
