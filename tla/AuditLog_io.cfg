SPECIFICATION Spec
CONSTANTS
  t1 = t1
  t2 = t2
  NoThread = NoThread
  Threads <- ThreadSet
  Capacity = 3
  AnchorInterval = 2
  LoadAtBoot = TRUE
  Faults <- IOFaults
  MaxAppends = 3
  MaxCrashes = 2
INVARIANTS TypeOK ChainIntact OffsetMatchesWatermark FlushedOnDisk AnchorsVerify
PROPERTY ImplementsAuditSpec
