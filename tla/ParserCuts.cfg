SPECIFICATION Spec
CONSTANTS
  a = a
  b = b
  NoConn = NoConn
  Conns <- Two
  Scenarios <- SameOrBroken
  AllowedMethods <- GetAndPost
  MaxBody = 2
  SizeMod = 256
  LinesInterleave = FALSE
INVARIANTS
  TypeOK
  WellFormedUnderstood
  WholeRequestReady
  CutsDoNotMatter
  HostMandatory
  AcceptedIsComplete
  StaticsExplained
CHECK_DEADLOCK FALSE
