SPECIFICATION Spec
CONSTANTS
  MaxTime = 5
  AbuseHint = 3
  BlockHint = 2
  InsightsHint = 1
  AbuseCooldown = 3
  BlockCooldown = 2
  RepeatedCooldown = 2
  ThrottleWindow = 2
  ThrottleThreshold = 2
  Tokens = {t1}
  Accounts = {a1}
  Types = {ads_management}
  Calls = {c1, c2, c3, c4}
  Errors <- MCErrors
SYMMETRY CallSymmetry
INVARIANTS TypeOK RepeatedThrottleHalts HintsHonoured
PROPERTY ImplementsCoolDown
