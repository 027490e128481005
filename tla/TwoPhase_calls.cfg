SPECIFICATION FairSpec
CONSTANTS
    s1 = s1
    s2 = s2
    s3 = s3
    slave = slave
    Sessions = {s1, s2, s3, slave}
    NoSession = NoSession
    Slaves = {slave}
    Concurrency = {1, 2, 3}
    FreeTickets = 1
    Plans <- MCPlans
INVARIANTS TypeOK LogsAgree PromisesKept OrderKept
CHECK_DEADLOCK FALSE
PROPERTY CallsReturn
