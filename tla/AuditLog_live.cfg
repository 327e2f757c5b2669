SPECIFICATION FairSpec
CONSTANTS
  t1 = t1
  t2 = t2
  NoThread = NoThread
  Threads <- ThreadSet
  Capacity = 3
  AnchorInterval = 2
  LoadAtBoot = TRUE
  Faults <- NoFaults
  MaxAppends = 4
  MaxCrashes = 2
INVARIANTS DurabilityInv ReturnedIsDurable EntriesPersist
PROPERTY EventuallyFlushed
