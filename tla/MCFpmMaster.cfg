CONSTANTS
  w1 = w1
  w2 = w2
  NoPool = NoPool
  NoChild = NoChild
  Pool <- Both
  Static <- OnlyStatic
  Child = {c1, c2}
  pm_max_children <- Mixed
  pm_start_servers <- One
  pm_min_spare_servers <- One
  pm_max_spare_servers <- One
  process_control_timeout = 1
  Slowlog <- OnlyStatic
  TerminateTimeout = TRUE
  EmergencyRestart = TRUE
  MaxSignals = 1
SPECIFICATION Spec
SYMMETRY Symmetry
INVARIANTS
  TypeOK
  CountersExact
  MaxChildrenRespected
  NoLostSigchld
  EveryoneSignalled
  NoOrphanWorkers
PROPERTIES
  KeepsLifecycle
