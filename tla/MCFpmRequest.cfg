CONSTANTS
  request_terminate_timeout = 2
  request_slowlog_timeout = 1
  max_requests = 3
  KeepConn = TRUE
  MaxFinishes = 2
  SlowlogOpens = FALSE
  MaxTime = 5
  MaxRequests = 0
SPECIFICATION FairSpec
INVARIANTS
  TypeOK
  TracedOnce
  DrainedBeforeExit
  SlotTellsTruth
PROPERTIES
  TimeoutJustified
  WatchedTimeoutKills
