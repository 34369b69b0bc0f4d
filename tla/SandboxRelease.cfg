SPECIFICATION Spec
CONSTANTS
  c = c
  x = x
  y = y
  d = d
  None = None
  Request = {c}
  Op <- Ops
  MaxCrashes = 0
INVARIANT FailedReleases
CHECK_DEADLOCK FALSE
