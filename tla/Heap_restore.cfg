SPECIFICATION Spec
CONSTANTS
    t1 = t1
    Threads <- One
    KeepCounts <- KeepSome
    OlderThan = 0
    WordMod = 8
    MaxTime = 2
    MaxPatches = 2
    MaxOps = 1
    MaxRestarts = 3
INVARIANTS NoLostUpdate HistoryFaithful CountsAccurate
CHECK_DEADLOCK FALSE
