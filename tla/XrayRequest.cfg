SPECIFICATION FairSpec
CONSTANTS
  Thread = {t1, t2}
  Proc = {q1, q2}
  Client = {c1}
  None = None
  EagerSpawn = TRUE
  MayShutdown = FALSE
  MaxCrash = 0
  MaxError = 0
  MaxEdit = 2
PROPERTY RequestedRestartSyncs
CHECK_DEADLOCK FALSE
