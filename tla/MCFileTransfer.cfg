\* Two logs, one without its last newline; two consoles; a broken connection
\* and a file that the console cannot open.
SPECIFICATION Spec
CONSTANTS
  plain = plain
  ragged = ragged
  Logs <- TwoLogs
  Ragged <- OneRagged
  MaxRuns = 2
  Chunks = 1
  MaxClients = 2
  MaxBreaks = 1
  MaxFails = 1
INVARIANTS TypeOK  InRequestOrder
PROPERTIES AtMostOnce QueueDrains EveryRequestEnds
CHECK_DEADLOCK FALSE
