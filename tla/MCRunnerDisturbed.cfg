\* Everything that may happen to a run happens, database failures included.
SPECIFICATION FairSpec
CONSTANTS
  Tasks = {t1}
  NoTask = NoTask
  Channels = {c1}
  MaxRuns = 2
  MaxRev = 1
  Disturbances = {"overlap", "edit", "channel", "crash", "stop", "fault"}
INVARIANT TypeOK
INVARIANT RunningHasOwner
INVARIANT ArmedIsEarned
PROPERTY HistoryIsFinal
PROPERTY EveryRunResolved
CHECK_DEADLOCK TRUE
