SPECIFICATION Spec
CONSTANTS
  Thread = {t1, t2}
  Proc = {q1, q2}
  Client = {c1, c2}
  None = None
  EagerSpawn = FALSE
  MayShutdown = TRUE
  MaxCrash = 1
  MaxError = 1
  MaxEdit = 2
SYMMETRY Symmetry
PROPERTY StopStaysStopped
CHECK_DEADLOCK FALSE
