\* Two request handlers on one task; statements may fail, the process may die.
SPECIFICATION Spec
CONSTANTS
  Tasks = {t1}
  Handlers = {h1, h2}
  MaxRev = 3
  Faults = TRUE
SYMMETRY HandlerSymmetry
INVARIANT TypeOK
INVARIANT OneCronEntry
INVARIANT Followed
CHECK_DEADLOCK TRUE
