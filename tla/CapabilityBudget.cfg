SPECIFICATION CapSpec
CONSTANTS
  r1 = r1
  r2 = r2
  r3 = r3
  write = write
  other = other
  None = None
  Reservation = {r1, r2, r3}
  Operation = {write, other}
  Grant <- MCGrant
  Leases <- MCLeases
  MaxTime = 3
  MaxIssues = 1
INVARIANT BudgetHeldByReservations
CHECK_DEADLOCK FALSE
