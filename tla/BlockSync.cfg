CONSTANTS
  a = a
  b = b
  m = m
  Txids = {a, b}
  Labels = {m}
  MaxK = 1
  OldKey = old
  Blocks <- MCBlocks
SPECIFICATION Spec
INVARIANTS
  TypeOK
  PaymentsFound
  OwnOutputsOnly
  NoCoinTwice
  FileNeverAhead
  SpendsMarked
CHECK_DEADLOCK FALSE
