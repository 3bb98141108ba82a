CONSTANTS
  Host = {1, 2}
  Rows <- Parallel
  Restarts = FALSE
  MaxFaults = 1
  MaxErrors = 1
  Forever = {FALSE}
SPECIFICATION Spec
INVARIANTS TypeOK ServerFirst
PROPERTY EarlyEndIsEnd
CHECK_DEADLOCK FALSE
