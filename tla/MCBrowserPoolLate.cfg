\* Two operations are enough for a socket to outlive its own.
SPECIFICATION Spec
CONSTANTS
  Ops = {o1, o2}
  Nobody = Nobody
INVARIANT OneSocket
CHECK_DEADLOCK FALSE
