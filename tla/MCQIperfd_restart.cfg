CONSTANTS
  MaxWorkers = 1
  DelayStart = TRUE
  RestartOnNormal = FALSE
  RestartOnError = TRUE
  SlowKill = FALSE
  MaxEvents = 2
  Pairs <- OnePair
  Commands = {"ADD", "START", "STOP", "RESTART"}
  SessionOnly = TRUE
  MaxCmds = 3
SPECIFICATION Spec
INVARIANTS SelfDestructionUnarmed
CHECK_DEADLOCK FALSE
