SPECIFICATION Spec
CONSTANTS
  a = a
  b = b
  NoConn = NoConn
  Conns <- Two
  Scenarios <- TwoGets
  AllowedMethods <- GetAndPost
  MaxBody = 2
  SizeMod = 256
  LinesInterleave = TRUE
INVARIANTS
  WellFormedUnderstood
CHECK_DEADLOCK FALSE
