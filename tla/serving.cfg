CONSTANTS
  t1 = t1  t2 = t2  d1 = d1  d2 = d2  p1 = p1  p2 = p2
  Tunnels = {t1, t2}
  Followers = {f1}
  Sizes = {1, 2}
  MaxBytes = 3
  MaxFiles = 2
  TailLines = 1
  MaxLines = 4
  MaxFaults = 1
  Callers = {c1, c2}
  Window = 2
  MaxTime = 3
  MaxCodes = 2
  Daemons = {d1, d2}
  Arguments <- MCArguments
  Pids = {p1, p2}
  NoPid = NoPid
  MaxBoots = 3
  MaxTroubles = 2
  Gated = {t1, t2}
  Addresses = {a1, a2}
  Workers = {w1, w2}
  Free = Free
  MaxListeners = 3
  MaxWork = 4
SPECIFICATION MCSpec
INVARIANTS TypeOK NewestKept FollowerInOrder WindowHonoured NoSilentOrphan TokenHonoured ListenersOwned
CHECK_DEADLOCK FALSE
