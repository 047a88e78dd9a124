CONSTANTS
  Boot = boot
  Second = second
  r1 = r1
  r2 = r2
  Reqs = {r1, r2}
  Birth = 2
  MaxHeight = 2
  MaxServed = 2
  Quiet = TRUE
  PutFails = FALSE
SPECIFICATION FreshSpec
INVARIANT
  RestartKeepsKeys
CHECK_DEADLOCK FALSE
