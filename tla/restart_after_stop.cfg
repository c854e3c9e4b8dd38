SPECIFICATION Spec
CONSTANTS
  Tunnels = {t1}
  Clients = {c1}
  Monitor = monitor
  Pollers = {monitor}
  Teardown = teardown
  MaxAutoRestarts = 2
  MaxGeneration = 4
  Faults = {}
INVARIANTS
  NoResurrection
CHECK_DEADLOCK FALSE
