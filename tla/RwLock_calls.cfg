CONSTANTS
    Threads = {t1, t2, t3, io}
    IoThreads = {io}
    NoThread = NoThread
    MaxRounds = 1
    MaxDepth = 2
SPECIFICATION FairSpec
PROPERTIES ReservationKept EveryCallReturns AbstractSpec
INVARIANTS TypeOK FieldsMatchHolders NoLostWakeup
