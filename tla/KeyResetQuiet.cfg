CONSTANTS
  Boot = boot
  Second = second
  r1 = r1
  r2 = r2
  Reqs = {r1, r2}
  Birth = 1
  MaxHeight = 3
  MaxServed = 1
  Quiet = TRUE
  PutFails = TRUE
SPECIFICATION RetrySpec
INVARIANTS
  TypeOK
  ScansFromScratch
  OwnCoinsOnly
  OnlySecondReplacesKeys
  RestartIsSound
  AnswersOwnAddress
  AnnouncementMet
CHECK_DEADLOCK FALSE
