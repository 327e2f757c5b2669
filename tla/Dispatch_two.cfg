SPECIFICATION Spec
CONSTANTS
    t1 = t1
    t2 = t2
    Threads <- Two
    Verdicts <- TwoVerdicts
    MaxRequests = 3
    MaxSeq = 1
    MaxIds = 3
SYMMETRY Symmetry
INVARIANTS AtMostOnce
