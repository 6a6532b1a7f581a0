SPECIFICATION Spec
CONSTANTS
  Handlers = {h1, h2}
  Browsers = {b1, b2}
  Users = {u1, u2}
  Clients = {c1, c2}
  Nonces = {n1}
  Sessions = {s1}
  Codes = {k1}
  Refreshes = {r1, r2, r3}
  AllowedEmails = {u1}
  AllowedDomains = {}
  AllowedIds = {}
  MaxClients = 1
  None = None
CHECK_DEADLOCK FALSE
SYMMETRY IdSymmetry
INVARIANTS TypeOK OneHolder GrantSurvives TokenActsForItsUser
PROPERTIES SignInIsOwn SignedOutStaysOut ImplementsSingleUse
