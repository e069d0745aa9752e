SPECIFICATION FlowSpec
CHECK_DEADLOCK FALSE
CONSTANTS
  Events = {e1, e2}
  MaxHandlers = 4
  HeaderSize = 2
  BodySizes <- MCBodySizes
  MaxSize = 2
  Total = 9
  Sync = TRUE
  MaxDelay = 3
  MaxTime = 11
  Pubs = {"p1", "p2"}
  Clients = {"c1", "c2"}
  Conns = {"c1", "c2"}
  Messages = {"m1"}
  Mark = 2
  MaxRequests = 3
  MaxOpen = 2
  MaxStreams = 3
INVARIANTS
  FrameKept
PROPERTIES
  DefaultLast
  ExpiryOnTime
  TimersEnd
  FlowControlled
  HeldReleased
