CONSTANTS
  MaxWorkers = 2
  DelayStart = FALSE
  RestartOnNormal = FALSE
  RestartOnError = FALSE
  SlowKill = FALSE
  MaxEvents = 0
  Pairs <- ShiftedServers
  Commands = {"ADD", "START"}
  SessionOnly = TRUE
  MaxCmds = 1
SPECIFICATION Spec
PROPERTY DelEndsFinishedWorker
CHECK_DEADLOCK FALSE
