SPECIFICATION Spec
CONSTANTS
  c = c
  x = x
  y = y
  d = d
  None = None
  Request = {c}
  Op <- Ops
  MaxCrashes = 3
INVARIANT ReportIsTrue
CHECK_DEADLOCK FALSE
