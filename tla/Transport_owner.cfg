SPECIFICATION LiveSpec
CONSTANTS
    t1 = t1
    t2 = t2
    l1 = l1
    l2 = l2
    NoLatch = NoLatch
    Threads <- TwoThreads
    Pollers <- TwoThreads
    Latches <- TwoLatches
INVARIANTS LatchOwned AnsweredOnce
PROPERTIES RequestReturns AbandonedFreed
CHECK_DEADLOCK FALSE
