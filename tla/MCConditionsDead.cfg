\* A threshold of 1.0 for a number that is printed as 1.
SPECIFICATION Spec
CONSTANTS
  Urls = {"u1"}
  Selectors = {"s1"}
  Elements <- MCElements
  Wires <- Spelled
  FlatResults = {}
  MaxConditions = 2
  Absent = Absent
  Null = Null
INVARIANT NeverDead
