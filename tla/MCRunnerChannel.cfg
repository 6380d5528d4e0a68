\* A channel is deleted while an alert is on its way to it.
SPECIFICATION Spec
CONSTANTS
  Tasks = {t1}
  NoTask = NoTask
  Channels = {c1}
  MaxRuns = 2
  MaxRev = 2
  Disturbances = {"channel"}
INVARIANT BreakdownMatches
CHECK_DEADLOCK TRUE
