SPECIFICATION FairSpec
CONSTANTS
  c1 = c1
  c2 = c2
  u1 = u1
  u2 = u2
  Conns <- OneConn
  Uris <- TwoUris
  MaxTokens = 2
  MaxRev = 2
  Expiring <- OneUri
  Presence <- TwoUris
CHECK_DEADLOCK FALSE
INVARIANTS
  IndexExact
  NothingLeftOfClosed
  RevocationNotMissed
  ExpiryArmed
  OnlineAreConnected
PROPERTIES
  RevocationEnforced
  ExpiryEnforced
