SPECIFICATION Spec
CONSTANTS
  t1 = t1
  a1 = a1
  Tokens = {t1}
  Accounts = {a1}
  Types = {}
  Calls = {c1, c2, c3, c4, c5, c6}
  Bucket <- MCBucket
  MaxTime = 6
  Share = 3
  InitialWrites = 2
  QuotaOf <- MCQuota
  CapacityOf <- MCCapacity
SYMMETRY CallSymmetry
INVARIANT WritesWithinQuota
