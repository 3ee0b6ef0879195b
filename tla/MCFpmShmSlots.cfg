CONSTANTS
  Child = {c1, c2, c3}
  Slot = {s1, s2}
  NoChild = NoChild
  NoSlot = NoSlot
  Master = Master
  MaxFailures = 1
SPECIFICATION FairSpec
INVARIANTS
  TypeOK
  IndexAgreesWithAddress
  SlotsConserved
  NoSharedSlot
  NothingInherited
PROPERTIES
  WorkerGetsLock
