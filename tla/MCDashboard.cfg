\* One resource that changes twice, and three troubles.
SPECIFICATION PageSpec
CONSTANTS
  Resources = {"tasks"}
  Public = {}
  MaxChanges = 2
  MaxTroubles = 3
  MaxSockets = 2
INVARIANT NeverStuck
PROPERTY EventuallyShown
PROPERTY ExpiredSignsOut
