SPECIFICATION ControlSpec
CONSTANTS
  w1 = w1
  w2 = w2
  s1 = s1
  s2 = s2
  a1 = a1
  d1 = d1
  x = x
  None = None
  Worker = {w1, w2}
  Submission = {s1, s2}
  Selection = {a1}
  Attempt = {d1}
  Route = {x}
  Text = {"t"}
  MaxRevision = 3
  MaxEdits = 1
  MaxCrashes = 1
SYMMETRY Symmetry
INVARIANTS CursorsAgree RevisionNames AttemptedOnce
CHECK_DEADLOCK FALSE
