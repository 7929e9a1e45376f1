SPECIFICATION AccessSpec
CONSTANTS
  NoTeam = NoTeam
  u1 = u1
  u2 = u2
  root = root
  A = A
  B = B
  k1 = k1
  k2 = k2
  k3 = k3
  l1 = l1
  l2 = l2
  r1 = r1
  a1 = a1
  a2 = a2
  n1 = n1
  o1 = o1
  f1 = f1
  f2 = f2
  Users = {u1, u2}
  Bootstrap = root
  Teams = {A, B}
  TokenIds = {k1, k2, k3}
  LoginIds = {l1, l2}
  RequestIds = {r1}
  Grants <- SomeGrants
  Expiries = {1}
  SessionTTL = 1
  LoginTTL = 1
  StateTTL = 1
  DefaultTTL = 1
  MaxClock = 3
  MaxRequests = 3
  Members = {u1, u2}
  Squads = {A, B}
  Keys <- SomeKeys
  Channels = {a1, a2}
  Notes = {n1}
  Offers = {o1}
  Flows = {f1}
  StartRole <- OneTeam
  StartTeam <- OneAccount
  OfferTTL = 0
  FlowTTL = 0
  MaxTeamClock = 1
  MaxChanges = 3
  Requests = {u1, u2}
  Steps = {k1, k2, k3, n1}
  By <- Callers
  MaxDepth = 3
SYMMETRY Symmetric
INVARIANTS DelegationNarrows LoginsHold PostsFollowTheirAccount BoundCallsStayHome
PROPERTIES RequestsAreAtomic
CHECK_DEADLOCK FALSE
