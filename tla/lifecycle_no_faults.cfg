SPECIFICATION FairSpec
CONSTANTS
  Tunnels = {t1}
  Clients = {c1}
  Monitor = monitor
  Pollers = {c1, monitor}
  Teardown = teardown
  MaxAutoRestarts = 1
  MaxGeneration = 4
  Faults = {}
INVARIANTS
  NoPhantomStatus
  DurableWhenQuiet
PROPERTIES
  StartingEnds
  ShutdownTerminatesAll
CHECK_DEADLOCK FALSE
