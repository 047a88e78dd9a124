CONSTANTS
  Boot = boot
  Second = second
  r1 = r1
  r2 = r2
  Reqs = {r1}
  Birth = 2
  MaxHeight = 3
  MaxServed = 1
  Quiet = FALSE
  PutFails = FALSE
SPECIFICATION Spec
INVARIANT
  ScansFromScratch
CHECK_DEADLOCK FALSE
