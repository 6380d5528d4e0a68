\* One page of two elements, sound definitions to edit between and unsound ones to refuse.
SPECIFICATION Spec
CONSTANTS
  Urls = {"u1"}
  Selectors = {"s1", "s2"}
  Elements <- MCElements
  Wires <- MCWires
  FlatResults <- MCFlatResults
  MaxConditions = 2
  Absent = Absent
  Null = Null
INVARIANT TypeOK
INVARIANT NeverDead
INVARIANT ChangeIsExact
INVARIANT MessageRenders
