\* A web process with three threads; an entry lives for a tick and two ticks of grace.
SPECIFICATION Spec
CONSTANTS
  Process = {p}
  Thread = {s, t, u}
  TTL = 1
  Grace = 2
  RetryAfter = 1
  MaxTime = 5
  Nobody = Nobody
SYMMETRY ThreadSymmetry
INVARIANTS
  SingleFlight
  IdentityIsCurrent
  ProfileIsLatest
