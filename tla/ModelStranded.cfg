SPECIFICATION Spec
CONSTANTS
  w1 = w1
  w2 = w2
  c1 = c1
  c2 = c2
  None = None
  Worker = {w1, w2}
  Command = {c1, c2}
  Limit = 2
  MaxCrashes = 2
INVARIANT TaskNotStranded
CHECK_DEADLOCK FALSE
