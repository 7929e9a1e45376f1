SPECIFICATION Spec
CONSTANTS
  Posts = {p1}
  Accounts = {a1, a2}
  Instances = {i1}
  Workers = {w1}
  Host <- OneHost
  Requests = {}
  None = None
  MaxAttempts = 2
  QueueCap = 1
  DueLimit = 2
  DrainLimit = 100
  Backend = "sqlite"
  Patches <- RetargetPatches
  Ops = {}
  MaxOps = 1
  Faults = {"provider"}
INVARIANTS AtMostOnce
