\* A task moved to another page that has always shown something else.
SPECIFICATION Spec
CONSTANTS
  Urls = {"u1", "u2"}
  Selectors = {"s1"}
  Elements <- MCElements
  Wires <- Moved
  FlatResults = {}
  MaxConditions = 2
  Absent = Absent
  Null = Null
INVARIANT NeverSpurious
