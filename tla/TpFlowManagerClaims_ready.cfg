\* The memory that is read happens to hold the map.
SPECIFICATION Spec
CONSTANTS
  Pairs = {1, 2}
  MaxRequests = 2
  Garbage = {}
INVARIANT ReadyRestartsClient
CHECK_DEADLOCK FALSE
