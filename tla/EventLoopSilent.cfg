SPECIFICATION FairSpec
CONSTANTS
  c1 = c1
  c2 = c2
  c3 = c3
  Conns <- TwoConns
  NumServers = 1
  MaxFd = 2
  Timeout = 1
  MaxRestarts = 1
  Env <- SilentEnv
PROPERTIES
  ClientsAccepted
  IdleConnectionsEnd
  OnlyOldConnectionsExpire
CHECK_DEADLOCK FALSE
