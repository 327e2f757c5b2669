SPECIFICATION Spec
CONSTANTS
    Index <- Colliding
    Concurrent = TRUE
    AllocFails = TRUE
    GetFails = TRUE
    MaxPtr = 3
    MaxWrites = 3
    MaxCommits = 2
    MaxBoots = 2
INVARIANTS  HeapAheadOfStore 
CHECK_DEADLOCK FALSE
