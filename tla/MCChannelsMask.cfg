\* A Slack channel and one dashboard that edits its name.
SPECIFICATION Spec
CONSTANTS
  Ids = {c1}
  Names = {n1}
  Secrets = {s1, s2}
  Plains = {p1}
  Types = {"slack"}
  Editors = {e1}
  Keys = {k1, k2}
  New = New
  Null = Null
PROPERTY KeepsUntouched
