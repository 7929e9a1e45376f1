SPECIFICATION Spec
CONSTANTS
  Posts = {p1}
  Accounts = {a1, a2}
  Instances = {i1}
  Workers = {w1, w2}
  Host <- OneHost
  Requests = {}
  None = None
  MaxAttempts = 2
  QueueCap = 1
  DueLimit = 2
  DrainLimit = 100
  Backend = "sqlite"
  Patches <- EditPatches
  Ops = {"review", "cancel", "delete", "disconnect", "retry", "repair"}
  MaxOps = 2
  Faults = {"db", "provider", "crash"}
SYMMETRY Symmetry
INVARIANTS AtMostOnce ExclusiveClaim StatusMatchesTargets EvidenceFirst OneOutcomePerTry
PROPERTIES DeliveryExactlyOnce
