SPECIFICATION Spec
CONSTANTS
  w1 = w1
  w2 = w2
  boot = boot
  x1 = x1
  x2 = x2
  write = write
  cap = cap
  None = None
  Worker = {w1, w2}
  Boot = boot
  Reservation = {x1, x2}
  Operation = {write}
  RequestOperation = write
  CapStream = cap
  Grant <- MCGrant
  Leases <- MCLeases
  MaxTime = 0
  MaxIssues = 1
  SharedTask = TRUE
  Resend = FALSE
  MaxCrashes = 1
CHECK_DEADLOCK FALSE
INVARIANT FinalizedAfterEffect
