CONSTANTS
  request_terminate_timeout = 2
  request_slowlog_timeout = 1
  max_requests = 1
  KeepConn = FALSE
  MaxFinishes = 0
  SlowlogOpens = FALSE
  MaxTime = 4
  MaxRequests = 0
SPECIFICATION FairSpec
PROPERTIES
  TimeoutKills
