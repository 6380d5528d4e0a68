\* Two requests turn one task on and off at the same time; no statement fails.
SPECIFICATION Spec
CONSTANTS
  Tasks = {t1}
  Handlers = {h1, h2}
  MaxRev = 2
  Faults = FALSE
INVARIANT ToggleOwnsBoth
CHECK_DEADLOCK TRUE
