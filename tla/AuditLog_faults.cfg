SPECIFICATION FairSpec
CONSTANTS
  t1 = t1
  t2 = t2
  NoThread = NoThread
  Threads <- ThreadSet
  Capacity = 2
  AnchorInterval = 1
  LoadAtBoot = TRUE
  Faults <- AllFaults
  MaxAppends = 3
  MaxCrashes = 2
INVARIANTS BatchInv ChainIntact AnchorsVerify
PROPERTY LockReleased
