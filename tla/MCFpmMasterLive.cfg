CONSTANTS
  w1 = w1
  w2 = w2
  NoPool = NoPool
  NoChild = NoChild
  Pool <- OnlyDynamic
  Static <- NoStatic
  Child = {c1, c2}
  pm_max_children <- Two
  pm_start_servers <- One
  pm_min_spare_servers <- One
  pm_max_spare_servers <- One
  process_control_timeout = 1
  Slowlog <- NoStatic
  TerminateTimeout = FALSE
  EmergencyRestart = FALSE
  MaxSignals = 1
SPECIFICATION FairSpec
PROPERTIES
  TerminatingEnds
  DynamicPoolRecovers
