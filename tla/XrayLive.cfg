SPECIFICATION FairSpec
CONSTANTS
  Thread = {t1, t2}
  Proc = {q1, q2}
  Client = {c1}
  None = None
  EagerSpawn = TRUE
  MayShutdown = FALSE
  MaxCrash = 1
  MaxError = 1
  MaxEdit = 1
INVARIANT OneProcess
INVARIANT ProcessInv
PROPERTY Supervised
PROPERTY RequestLoadsConfig
CHECK_DEADLOCK FALSE
