SPECIFICATION Spec
CONSTANTS
  g1 = g1
  g2 = g2
  t1 = t1
  Stream = {g1, g2}
  Thread = {t1}
  MaxEvents = 4
INVARIANTS AcceptedIsExact OutboxComplete
SYMMETRY Symmetry
CHECK_DEADLOCK FALSE
