SPECIFICATION Spec
CONSTANTS
  t1 = t1
  t2 = t2
  NoThread = NoThread
  Threads <- ThreadSet
  Capacity = 2
  AnchorInterval = 2
  LoadAtBoot = TRUE
  Faults <- IOFaults
  MaxAppends = 2
  MaxCrashes = 0
INVARIANT ReturnedIsDurable
