SPECIFICATION Spec
CONSTANTS
  t1 = t1
  a1 = a1
  reply = reply
  Tokens = {t1}
  Accounts = {a1, a2}
  Types = {"ads_management"}
  Businesses = {"b1"}
  Calls = {create, reply}
  Writes = {create, reply}
  Creating = {create, reply}
  CreatingPath = {create}
  Ctx <- MCCtx
  Errors <- MCErrors
  HeaderSets <- MCHeaderSets
  MaxTime = 5
  LastStart = 5
  MaxRetries = 1
  BackoffTicks = 1
  TickMs = 30000
  Share = 2
  InitialWrites = 1
  QuotaOf <- MCQuota
  CapacityOf <- MCCapacity
  AbuseHint = 3
  BlockHint = 2
  InsightsHint = 1
  AbuseCooldown = 3
  BlockCooldown = 2
  RepeatedCooldown = 2
  ThrottleWindow = 2
  ThrottleThreshold = 2
CHECK_DEADLOCK FALSE

INVARIANT CreatedAtMostOnce
