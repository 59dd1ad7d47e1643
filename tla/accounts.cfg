CONSTANTS
  Users = {u1, u2}
  FirstAdmin = u1
  Requests = {r1, r2}
  None = None
  MaxAttempts = 2
  Window = 2
  Tried = {u1}
  MaxOutages = 1
SPECIFICATION Spec
INVARIANT FailuresBounded
PROPERTIES LastAdminOnlyByRace LockoutEnds
CHECK_DEADLOCK FALSE
