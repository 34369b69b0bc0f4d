SPECIFICATION Spec
CONSTANTS
  w1 = w1
  w2 = w2
  w3 = w3
  Worker = {w1, w2, w3}
  MaxCrashes = 2
SYMMETRY Symmetry
INVARIANTS PaidOnce DownloadedOnce ReceiptBacked
CHECK_DEADLOCK FALSE
