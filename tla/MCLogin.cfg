\* Three callers for a map of two, and two attempts at once.
SPECIFICATION Spec
CONSTANTS
  Clients = {c1, c2, c3}
  Attempts = {a1, a2}
  MaxAttempts = 2
  AttemptWindow = 4
  MaxKeys = 2
  NoClient = NoClient
  MaxTime = 8
SYMMETRY Symmetry
INVARIANT RetryAfterHonest
PROPERTY LiveFailuresKept
