CONSTANTS
  t1 = t1  t2 = t2  i1 = i1  i2 = i2  x = x  y = y  bad = bad  k = k  tgt = tgt
  u1 = u1  u2 = u2  cf = cf  ng = ng  j1 = j1  j2 = j2  s1 = s1
  Tunnels = {t1, t2}
  Primary = t1
  Clients = {c1}
  Kinds = {"status", "routes", "upstreams", "metrics", "dashboard"}
  Capacity = 1
  MaxChanges = 1
  InitialDelay = 1
  MaxDelay = 2
  Ids = {i1, i2}
  Bodies = {x, y, bad}
  Invalid = bad
  Codes = {k}
  Targets = {tgt, q}
  Users = {u1, u2}
  Forms <- MCForms
  MaxFailures = 2
  Windows = {w1, w2}
  MaxStarts = 3
  Polls = 2
  Outside = 1
  NoDaemon = NoDaemon
  Tools = {cf, ng}
  OnPath = {ng}
  Jobs = {j1, j2}
  Binaries = {b1, b2}
  Updates = {w1, w2}
  Systems = {"unix", "windows"}
  MaxMishaps = 2
  Slots = {1, 2}
  Passwords = {s1}
  NoSecret = NoSecret
  MainThread = main
  Workers = {w1}
  MaxMade = 3
  MaxTroubles = 1
SPECIFICATION MCSpec
INVARIANTS ViewsAgree CommandsDeliver NoStrayDaemon ExecutablesWhole NoInheritedSecret
PROPERTIES ShutdownReturns
CHECK_DEADLOCK FALSE
