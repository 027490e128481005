SPECIFICATION Spec
CONSTANTS
  Trxs = {t1, t2, t3}
  t1 = t1
  t2 = t2
  t3 = t3
  NoTrx = NoTrx
  NoRow = NoRow
  NoReq = NoReq
  MaxKey = 3
  Plans <- MCRowPlans
INVARIANTS TypeOK LocksExclude WaitersAreBlocked NoCycle
PROPERTY LockingReadsRepeatable
