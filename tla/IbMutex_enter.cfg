CONSTANTS
    t1 = t1
    t2 = t2
    t3 = t3
    Threads = {t1, t2, t3}
    NoThread = NoThread
    NCells = 3
    Plans <- MCPlans
    MaxSignals = 5
SPECIFICATION FairSpec
PROPERTIES EnterReturns LockSpec
INVARIANTS TypeOK NoLostWakeup CellsExclusive
CHECK_DEADLOCK FALSE
