SPECIFICATION Spec
CONSTANTS
  Pairs = {1, 2}
  MaxRequests = 2
  Garbage = {"init", "started", "stoped", "restarted", "crash"}
INVARIANTS TypeOK WatchedIsPolled AnsweredOnce
PROPERTIES EveryWatchEnds
CHECK_DEADLOCK FALSE
