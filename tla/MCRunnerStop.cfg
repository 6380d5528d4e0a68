\* The server is shut down while a run-now is in flight.
SPECIFICATION Spec
CONSTANTS
  Tasks = {t1}
  NoTask = NoTask
  Channels = {c1}
  MaxRuns = 2
  MaxRev = 2
  Disturbances = {"stop"}
INVARIANT StopsCleanly
CHECK_DEADLOCK TRUE
