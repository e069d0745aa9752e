SPECIFICATION FairSpec
CONSTANTS
  c1 = c1
  c2 = c2
  u1 = u1
  u2 = u2
  Conns <- TwoConns
  Uris <- OneUri
  MaxTokens = 1
  MaxRev = 3
  Expiring <- NoUris
  Presence <- OneUri
CHECK_DEADLOCK FALSE
INVARIANTS
  IInv
PROPERTIES
  CloseCompletes
