CONSTANTS
  Host = {1}
  Rows <- OneHost
  Restarts = TRUE
  MaxFaults = 1
  MaxErrors = 0
  Forever = {TRUE, FALSE}
SPECIFICATION FairSpec
INVARIANT EndIsClean
PROPERTIES  UserStopReturns
CHECK_DEADLOCK FALSE
