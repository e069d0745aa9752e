SPECIFICATION LimitsSpec
CHECK_DEADLOCK FALSE
CONSTANTS
  Tokens <- MCTokens
  Presented <- MCPresented
  MaxTokens = 3
  Privileged = FALSE
  NoClaim = NoClaim
  Replace <- SelfInX
  Publications = {p1, p2, p3, p4}
  MaxPublications = 2
  Conns = {"c1", "c2"}
  SubTopics = {"t1", "t2"}
  Requests = {"r1", "r2"}
  MaxSubscriptions = 2
  Presubscribed <- MCPresubscribed
  nothing = "nothing"
  Callers = {"c1", "c2", "c3", "c4"}
  Sockets = {"c1", "c2", "c3", "c4"}
  SocketMaps <- MCSocketMaps
  MaxConnections = 2
  Pubs = {"p1", "p2", "p3"}
  MaxMessages = 2
  MaxData = 3
  MaxChunk = 2
  MaxReceived = 6
  CloseConn = TRUE
INVARIANTS
  PublicationsCounted
  SubscriptionsCounted
  ConnectionsCounted
  RightsKept
  
PROPERTIES
  OnlyLimitRefuses
  PublishedWithinLimits
