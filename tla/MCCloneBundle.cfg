SPECIFICATION Spec
CONSTANTS
  r1 = r1
  r2 = r2
  r3 = r3
  NoOne = NoOne
  Runs = {r1, r2, r3}
  Ads = {1, 2}
  Swapped = {1}
  Payloads = {"a", "b"}
  Signature <- MCSignature
  StaleAfter = 1
  MaxTime = 4
CHECK_DEADLOCK FALSE
INVARIANTS TypeOK ClaimsAWindowApart AdSetsApart ResultsAreReal LedgerKeepsUp
