SPECIFICATION Spec
CONSTANTS
  c = c
  x = x
  y = y
  d = d
  None = None
  Request = {c, x}
  Op <- Ops
  MaxCrashes = 0
INVARIANT UnknownEndBlocks
CHECK_DEADLOCK FALSE
