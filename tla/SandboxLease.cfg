SPECIFICATION Spec
CONSTANTS
  c = c
  x = x
  y = y
  d = d
  None = None
  Request = {c, x, y, d}
  Op <- Ops
  MaxCrashes = 2
SYMMETRY Symmetry
INVARIANTS CreatedOnce ClosedMeansRemoved SettlementsAgree
PROPERTY UnknownEndKeepsOut
CHECK_DEADLOCK FALSE
