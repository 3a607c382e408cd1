SPECIFICATION FairSpec
CONSTANTS
  Client = {c1, c2}
  RegCap = 1
  UnregCap = 2
  BcastCap = 1
  SendCap = 1
  PoolSize = 2
  Burst = 1
INVARIANT HubInv
PROPERTY LeaversClosed
PROPERTY GoneLeaves
PROPERTY HubReturns
CHECK_DEADLOCK FALSE
