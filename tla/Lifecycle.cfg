SPECIFICATION Spec
CONSTANTS
  c1 = c1
  c2 = c2
  l1 = l1
  l2 = l2
  x = x
  k1 = k1
  k2 = k2
  Call = {c1, c2}
  Tx = {l1, l2, x}
  ToolTx = {x}
  Key = {k1, k2}
  MaxTears = 1
SYMMETRY Symmetry
INVARIANTS JournalReplays AnsweredIsRecorded ChangesAnnounced
CHECK_DEADLOCK FALSE
