SPECIFICATION Spec
CONSTANTS
  c1 = c1
  c2 = c2
  c3 = c3
  Conns <- TwoConns
  NumServers = 1
  MaxFd = 3
  Timeout = 1
  MaxRestarts = 1
  Env <- BadBodyEnv
INVARIANTS
  NeverCrashes
CHECK_DEADLOCK FALSE
