SPECIFICATION InsightSpec
CONSTANTS
  Replicas = {r1}
  Walls = {a1}
  Horizon = 0
  FeedLimit = 2
  OldLimit = 3
  MaxNow = 2
  MaxStatuses = 3
  p1 = p1
  p2 = p2
  acc = acc
  q1 = q1
  c1 = c1
  c2 = c2
  Children = {c1, c2}
  Parents = {q1}
  ParentOf <- Announced
  Workspaces = {t1, t2}
  MaxStarts = 2
  Published <- Targets
  Followed <- Profiles
  Rounds = {loop, admin}
  SyncLimit = 1
  RecentAge = 0
  RecentGap = 0
  OlderGap = 1
  Window = 1
  DayLength = 2
  MaxTick = 2
  MaxCount = 1
  NoTeam = NoTeam
  Here = here
  Elsewhere = elsewhere
  Notes = {n1}
  Ranks = {"viewer", "editor"}
  MaxTurns = 1
  LastDay = 2
SYMMETRY Symmetric
INVARIANTS ImportIsWhole NumbersAgree AgentActsWithConsent UpgradeLossesAreKnown
CHECK_DEADLOCK FALSE
