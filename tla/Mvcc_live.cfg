SPECIFICATION FairSpec
CONSTANTS
    Trxs = {t1, t2}
    NoTrx = NoTrx
    NoRow = NoRow
    Missing = Missing
    Keys = {k1}
    InitialRows = {k1}
    Writers = {t1, t2}
    Readers = {t2}
    CursorUsers = {t1}
    MaxOps = 2
PROPERTY GarbageCollected
INVARIANTS TypeOK SnapshotReads OrdersAgree
