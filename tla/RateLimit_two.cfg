SPECIFICATION Spec
CONSTANTS
    t1 = t1
    t2 = t2
    k1 = k1
    k2 = k2
    k3 = k3
    NoToken = NoToken
    Threads <- Two
    Tokens <- ThreeTokens
    Limit = 1
    Window = 1
    MaxEntries = 2
    WordMod = 32
    MaxTime = 4
    MaxChecks = 6
SYMMETRY Symmetry
INVARIANTS TableOK RateBounded
CHECK_DEADLOCK FALSE
