SPECIFICATION ControlSpec
CONSTANTS
  w1 = w1
  w2 = w2
  s1 = s1
  s2 = s2
  a1 = a1
  d1 = d1
  x = x
  None = None
  Worker = {w1, w2}
  Submission = {s1}
  Selection = {a1}
  Attempt = {d1}
  Route = {x}
  Text = {"t"}
  MaxRevision = 2
  MaxEdits = 2
  MaxCrashes = 0
PROPERTY CancelledStays
CHECK_DEADLOCK FALSE
