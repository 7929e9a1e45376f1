SPECIFICATION Spec
CONSTANTS
  Posts = {p1}
  Accounts = {a1}
  Instances = {i1, i2}
  Workers = {w1, w2}
  Host <- TwoHosts
  Requests = {r1}
  None = None
  MaxAttempts = 2
  QueueCap = 1
  DueLimit = 2
  DrainLimit = 100
  Backend = "postgres"
  Patches <- EditPatches
  Ops = {"cancel", "delete"}
  MaxOps = 1
  Faults = {"provider", "crash"}
INVARIANTS NoConcurrentPublication
