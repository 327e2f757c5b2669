SPECIFICATION Spec
CONSTANTS
    t1 = t1
    t2 = t2
    m1 = m1
    m2 = m2
    Threads <- One
    MaxKeys = 2
    Rotation = 1
    Grace = 1
    MaxTtl = 2
    SweepThreshold = 1
    KidMod = 8
    WordMod = 64
    Methods <- NoMethods
    Rates = {0}
    Uptime <- ShortThenLong
    MaxDelay = 0
    MaxCaps = 2
    MaxBoots = 1
INVARIANTS KeysServe RevokedStaysDead
CHECK_DEADLOCK FALSE
