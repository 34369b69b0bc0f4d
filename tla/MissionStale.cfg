SPECIFICATION Spec
CONSTANTS
  t1 = t1
  t2 = t2
  d1 = d1
  Task = {t1, t2}
  Capable = {t2}
  Operator = {d1}
  MaxVersion = 3
PROPERTY ConsumedStays
CHECK_DEADLOCK FALSE
