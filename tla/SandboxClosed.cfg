SPECIFICATION Spec
CONSTANTS
  c = c
  x = x
  y = y
  d = d
  None = None
  Request = {c}
  Op <- Ops
  MaxCrashes = 1
INVARIANT ClosedMeansAbsent
CHECK_DEADLOCK FALSE
