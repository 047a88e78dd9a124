CONSTANTS
  Boot = boot
  Second = second
  r1 = r1
  r2 = r2
  Reqs = {r1}
  Birth = 2
  MaxHeight = 2
  MaxServed = 1
  Quiet = TRUE
  PutFails = TRUE
SPECIFICATION FairSpec
PROPERTIES
  OneLoopRemains
  EveryCoinFound
CHECK_DEADLOCK FALSE
