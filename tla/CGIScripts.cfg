SPECIFICATION FairSpec
CONSTANTS
  r1 = r1
  r2 = r2
  NoRequest = NoRequest
  Requests <- TwoRequests
  Posts <- OnePost
  Scripts <- AllScripts
  Faults <- FaultKinds
  Capacity = 2
  MaxFds = 2
INVARIANTS
  TypeOK
  FirstAnswerTruthful
  KillsItsChild
  LeftoversExplained
PROPERTIES
  ServerReturns
CHECK_DEADLOCK FALSE
