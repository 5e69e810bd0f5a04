SPECIFICATION Spec
CONSTANTS
  r1 = r1
  r2 = r2
  NoRequest = NoRequest
  Requests <- TwoRequests
  Posts <- OnePost
  Scripts <- OneScript
  Faults <- ExecFails
  Capacity = 2
  MaxFds = 4
INVARIANTS
  OnlyOneServer
CHECK_DEADLOCK FALSE
