SPECIFICATION Spec
CONSTANTS
  Names = {personal, agency}
  Personal = personal
  Handlers = {h1, h2, h3}
  OAuthConfigured = TRUE
  RefreshThreshold = 2
  Lifetime = 2
  NoName = NoName
  MaxTime = 3
CHECK_DEADLOCK FALSE
SYMMETRY HandlerSymmetry
INVARIANT NoTokenMeansNone
