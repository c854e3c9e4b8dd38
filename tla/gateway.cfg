CONSTANTS
  None = None  r1 = r1  r2 = r2  u1 = u1  u2 = u2
  h1 = h1  t1 = t1  t2 = t2  m1 = m1  m2 = m2  c1 = c1  c2 = c2
  Requests = {r1, r2}
  Kinds <- MCKinds
  Tables <- MCTables
  Gatings <- MCGatings
  HealthPaths <- MCHealthPaths
  Namespaces <- MCNamespaces
  Upstreams = {u1, u2}
  Slots = 1
  RateLimit = 2
  Window = 2
  MaxTime = 3
  MaxEdits = 2
SPECIFICATION MCSpec
INVARIANTS TypeOK NeverPastGate CodeStaysHere FailoverFaithful BurstBound FollowedBack
PROPERTIES HealthConverges
CHECK_DEADLOCK FALSE
