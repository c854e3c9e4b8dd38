CONSTANTS
  Windows = {w1, w2}
  MaxStarts = 3
  Polls = 2
  Outside = 1
  NoDaemon = NoDaemon
SPECIFICATION DeskSpec
INVARIANT SingleFlight
CHECK_DEADLOCK FALSE
