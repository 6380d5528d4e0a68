\* One task with two channels; nothing happens to it while a run is in flight.
SPECIFICATION Spec
CONSTANTS
  Tasks = {t1}
  NoTask = NoTask
  Channels = {c1, c2}
  MaxRuns = 3
  MaxRev = 2
  Disturbances = {}
SYMMETRY ChannelSymmetry
INVARIANT AlertOncePerFlip
INVARIANT NoSwallowedFlip
INVARIANT BreakdownMatches
INVARIANT StopsCleanly
CHECK_DEADLOCK TRUE
