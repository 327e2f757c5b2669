SPECIFICATION Spec
CONSTANTS
    t1 = t1
    t2 = t2
    t3 = t3
    Threads <- Three
    Ops <- AllOps
    Limits <- SmallLimits
    U64Max = 7
    Estimate = 3
    BatchSizes = {0, 5}
    TokenCounts = {1, 6}
    MaxRequests = 4
SYMMETRY Symmetry
INVARIANTS TypeOK OvershootBounded ReservedWithinLimit 
CHECK_DEADLOCK FALSE
