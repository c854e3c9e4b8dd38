SPECIFICATION StoreSpec
CONSTANTS
  Handlers = {h1, h2}
  MaxChanges = 2
  Events = {"reload"}
INVARIANTS
  AckedAlwaysSaved
CHECK_DEADLOCK FALSE
