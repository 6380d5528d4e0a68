\* Two runs of one task overlap: a cron tick and a run-now request.
SPECIFICATION Spec
CONSTANTS
  Tasks = {t1}
  NoTask = NoTask
  Channels = {c1}
  MaxRuns = 2
  MaxRev = 2
  Disturbances = {"overlap"}
INVARIANT AlertOncePerFlip
CHECK_DEADLOCK TRUE
