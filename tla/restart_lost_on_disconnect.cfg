SPECIFICATION FairSpec
CONSTANTS
  Tunnels = {t1}
  Clients = {c1}
  Monitor = monitor
  Pollers = {c1, monitor}
  Teardown = teardown
  MaxAutoRestarts = 1
  MaxGeneration = 1
  Faults = {"disconnect"}
PROPERTIES
  RestartServed
CHECK_DEADLOCK FALSE
