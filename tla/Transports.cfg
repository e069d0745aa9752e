SPECIFICATION TransportsSpec
CONSTANTS
  Mark = 1
  Uses <- MCUses
  Sessions = {"x1", "x2"}
  Streams = {"s1", "s2", "s3"}
  SessionOf <- MCSessionOf
  MaxConnections = 2
CHECK_DEADLOCK FALSE
INVARIANTS
  IInv
  Http2CountExact
  Http2ServerToldOnce
PROPERTIES
  IsChannel
  TransportsSettle
