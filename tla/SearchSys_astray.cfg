CONSTANTS
    p1 = p1
    p2 = p2
    f1 = f1
    f2 = f2
    s1 = s1
    s2 = s2
    MaxKey = 3
    Folds = {1, 2}
    Fold <- MCFold
    Pages = {p1, p2}
    Frames = {f1, f2}
    Sessions = {s1, s2}
    Lru = Lru
    Nobody = Nobody
    NoPage = NoPage
    NoFrame = NoFrame
    Plans <- MCPlans
SPECIFICATION Spec
INVARIANT CursorIsInBlock
CHECK_DEADLOCK FALSE
