\* The definition is edited while a run of the old one is in flight.
SPECIFICATION Spec
CONSTANTS
  Tasks = {t1}
  NoTask = NoTask
  Channels = {c1}
  MaxRuns = 2
  MaxRev = 2
  Disturbances = {"edit"}
INVARIANT NoSwallowedFlip
CHECK_DEADLOCK TRUE
