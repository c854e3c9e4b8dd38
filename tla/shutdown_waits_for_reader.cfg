CONSTANTS
  Tunnels = {t1, t2}
  Primary = t1
  Clients = {c1}
  Kinds = {"status"}
  Capacity = 1
  MaxChanges = 1
  InitialDelay = 1
  MaxDelay = 2
SPECIFICATION FairStreamSpec
PROPERTY TeardownEnds
CHECK_DEADLOCK FALSE
