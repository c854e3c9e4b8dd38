CONSTANTS
  None = None  Broken = Broken  Legacy = Legacy  Monitor = Monitor
  t1 = t1  t2 = t2  i1 = i1  b1 = b1  b2 = b2  code = code  s1 = s1  s2 = s2
  Clients = {c1, c2}
  Tunnels = {t1, t2}
  Ids = {i1}
  Bodies = {b1, b2}
  Codes = {code}
  Gates <- MCGates
  Payloads <- MCPayloads
  Settings = {s1, s2}
  Startup = s1
  Configs <- MCConfigs
  MaxOps = 3
  MaxFaults = 0
  Handlers = {h1}
  MaxChanges = 0
  Events = {}
SPECIFICATION MCSpec
INVARIANT SettingsAgree
CHECK_DEADLOCK FALSE
