SPECIFICATION Spec
CONSTANTS
  Tunnels = {t1}
  Clients = {c1, c2}
  Monitor = monitor
  Pollers = {monitor}
  Teardown = teardown
  MaxAutoRestarts = 1
  MaxGeneration = 3
  Faults = {"disconnect", "persist", "inspect"}
SYMMETRY ClientSymmetry
INVARIANTS
  TypeOK
  NoOrphanProvider
  NoSharedProvider
  LatestWins
  RestartBudget
  NothingAfterShutdown
PROPERTIES
  ImplementsSupervisor
CHECK_DEADLOCK FALSE
