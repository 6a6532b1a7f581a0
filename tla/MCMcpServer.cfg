SPECIFICATION Spec
CONSTANTS
  None = None
  MaxTime = 7
  Addresses = {a1, a2}
  Limit <- MCLimit
  WindowLength = 1
  MetaToken = m0
  FirstToken = m1
  t0 = t0
  t1 = t1
  t2 = t2
  u1 = u1
  u2 = u2
  OtherTokens = {t0, t1, t2}
  Users = {u1, u2}
  Holder <- MCHolder
  Requests = {q1, q2}
  Amounts = {1, 2}
  Spans = {91, 1111}
  Reports = {p1}
  Waits = {w1}
  MinPollInterval = 2
  MaxPollInterval = 3
  PollIntervals = {2}
  MaxWaits = {3}
  MaxRequests = 5
  MaxPolls = 3
  HostNames = {n1}
  IpAddresses <- MCAddresses
  Internal <- MCInternal
  MaxRedirects = 1
  MaxBytes = 2
  Accounts = {c1, c2}
  MaxAccounts = 2
CHECK_DEADLOCK FALSE
INVARIANTS TypeOK QuotaIsKept ActsAsItsCaller TokenFreeHoldsNone ShownMoneyIsTyped PollsSpaced FetchesVetted AnswersAreOfTheirQuestion
PROPERTIES EveryToolReturns AdviceHelps
