CONSTANTS
  c1 = c1
  c2 = c2
  Child = {c1, c2}
  pm = "dynamic"
  pm_max_children = 2
  pm_start_servers = 1
  Fds <- MCFds
  Written = {"stderr"}
  Inherited = {"stderr"}
SPECIFICATION FairSpec
INVARIANTS
  TypeOK
  QueueMatchesPipes
  NoFdLeak
  OutputLogged
PROPERTIES
  DeathsBuried
