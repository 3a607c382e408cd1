SPECIFICATION Spec
CONSTANTS
  Thread = {t1, t2}
  Proc = {q1, q2}
  Client = {c1}
  None = None
  EagerSpawn = TRUE
  MayShutdown = TRUE
  MaxCrash = 0
  MaxError = 0
  MaxEdit = 0
SYMMETRY Symmetry
INVARIANT ShutdownStopsXray
CHECK_DEADLOCK FALSE
