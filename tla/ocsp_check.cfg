SPECIFICATION Spec
CONSTANTS
  a = a
  b = b
  d = d
  e = e
  CAs = {a, b}
  CAName <- Names
  HasKeyID = {}
  Home = a
  Delegates <- Certs
  None = None
  Gone = Gone
  MaxTime = 3
  MaxTrusted = 1
  Files = {a, b, Gone}
  kalkanOCSPMaxAge = 1
  kalkanRevocationClockSkew = 1
  ocspTimeout = 1
  Validities = {0, 1}
  Lags = {1}
PROPERTIES
  GoodIsRecent
  StatedByOwnAuthority
  HonestAnswerCounts
