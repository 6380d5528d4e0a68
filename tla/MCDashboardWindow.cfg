\* The same page with no trouble at all.
SPECIFICATION PageSpec
CONSTANTS
  Resources = {"tasks"}
  Public = {}
  MaxChanges = 1
  MaxTroubles = 0
  MaxSockets = 1
INVARIANT NothingMissed
