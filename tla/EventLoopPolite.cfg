SPECIFICATION FairSpec
CONSTANTS
  c1 = c1
  c2 = c2
  c3 = c3
  Conns <- TwoConns
  NumServers = 2
  MaxFd = 4
  Timeout = 1
  MaxRestarts = 1
  Env <- PoliteEnv
INVARIANTS
  CounterExact
  BuildersMatchConnections
PROPERTIES
  ClientsAccepted
  RequestsAnswered
  ServiceProvided
CHECK_DEADLOCK FALSE
