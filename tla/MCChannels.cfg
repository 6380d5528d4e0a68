\* Two dashboards over one channel and the name of another, and a key file that changes.
SPECIFICATION Spec
CONSTANTS
  Ids = {c1}
  Names = {n1}
  Secrets = {s1, s2}
  Plains = {p1}
  Types = {"telegram", "webhook"}
  Editors = {e1, e2}
  Keys = {k1, k2}
  New = New
  Null = Null
SYMMETRY Symmetry
INVARIANT StoredValidates
INVARIANT SecretsWriteOnly
PROPERTY KeepsUntouched
PROPERTY RepairedWhole
