SPECIFICATION FairSpec
CONSTANTS
    a = a
    b = b
    a0 = a0
    a1 = a1
    b0 = b0
    b1 = b1
    h = h
    e1 = e1
    e2 = e2
    z1 = z1
    z2 = z2
    u1 = u1
    u2 = u2
    f1 = f1
    f2 = f2
    Spaces = {a, b}
    Flushers = {f1, f2}
    Pages = {a0, a1, b0, b1}
    SpaceOf <- MCSpaceOf
    Zip = {b}
    Contents <- MCContents
    Entries = {h, e1, e2, z1, z2}
    Home <- MCHome
    Leaves = {a1, b1}
    BitmapOf <- MCBitmapOf
    Sessions = {u1, u2}
    Nobody = Nobody
    Plans <- MCPlans
INVARIANTS TypeOK FramesAreCurrent FlushedIsOnDisk InsertsReachTheirPage
PROPERTY CallsEnd
CHECK_DEADLOCK FALSE
