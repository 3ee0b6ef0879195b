CONSTANTS
  w1 = w1
  w2 = w2
  master = master
  Workers = {w1, w2}
  Master = master
  pm_start_servers = 2
  pm_min_spare_servers = 1
  Words <- StatusWords
  PageReaders = {w1}
  MaxRequests = 2
  MaxDeaths = 1
SPECIFICATION FairSpec
INVARIANTS
  TypeOK
  NeverOvercounts
  ExactAlone
PROPERTIES
  ActivityHeals
