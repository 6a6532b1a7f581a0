SPECIFICATION Spec
CONSTANTS
  r1 = r1
  r2 = r2
  r3 = r3
  NoOne = NoOne
  Runs = {r1, r2}
  Ads = {1, 2}
  Swapped = {1}
  Payloads = {"a", "b"}
  Signature <- MCTwoRuns
  StaleAfter = 1
  MaxTime = 4
CHECK_DEADLOCK FALSE
INVARIANT OneBundlePerKey
