SPECIFICATION Spec
CONSTANTS
  c = c
  x = x
  y = y
  d = d
  None = None
  Request = {c, x, d}
  Op <- Ops
  MaxCrashes = 1
PROPERTY UnknownEndStays
CHECK_DEADLOCK FALSE
