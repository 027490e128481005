SPECIFICATION FairSpec
CONSTANTS
  Trxs = {t1, t2, t3}
  t1 = t1
  t2 = t2
  t3 = t3
  NoTrx = NoTrx
  NoRow = NoRow
  NoReq = NoReq
  MaxKey = 0
  Plans <- MCTablePlans
PROPERTY LockWaitsEnd
