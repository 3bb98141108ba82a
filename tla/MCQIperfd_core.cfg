CONSTANTS
  MaxWorkers = 2
  DelayStart = FALSE
  RestartOnNormal = FALSE
  RestartOnError = FALSE
  SlowKill = TRUE
  MaxEvents = 0
  Pairs <- OnePair
  Commands = {"ADD", "START", "STOP", "CLEAR"}
  SessionOnly = FALSE
  MaxCmds = 3
SPECIFICATION Spec
INVARIANTS TypeOK PairedEntries NoDeadThreadInMap 
 
CHECK_DEADLOCK FALSE
