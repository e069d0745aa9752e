SPECIFICATION Spec
CONSTANTS
  c1 = c1
  c2 = c2
  k1 = k1
  k2 = k2
  nobody = nobody
  Conns <- MCConns
  Callers <- MCCallers
  NTransports = 2
  InMem <- MCInMem
  FaultCases <- StartFault
  Continues <- MCContinues
INVARIANTS
  NoConnectionAfterClose
CHECK_DEADLOCK FALSE
