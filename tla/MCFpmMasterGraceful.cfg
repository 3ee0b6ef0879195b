CONSTANTS
  w1 = w1
  w2 = w2
  NoPool = NoPool
  NoChild = NoChild
  Pool <- OnlyStatic
  Static <- OnlyStatic
  Child = {c1}
  pm_max_children <- One
  pm_start_servers <- One
  pm_min_spare_servers <- One
  pm_max_spare_servers <- One
  process_control_timeout = 0
  Slowlog <- NoStatic
  TerminateTimeout = FALSE
  EmergencyRestart = FALSE
  MaxSignals = 1
SPECIFICATION FairSpec
PROPERTIES
  GracefulStop
