CONSTANTS
  u1 = u1
  UTXO = {u1}
  MaxHeight = 3
  ConfigBirth = 2
  SaveInterval = 2
  UseElectrum = TRUE
  ElectrumLags = FALSE
  RescanHeights = {}
  RescanAhead = FALSE
  Restarts = FALSE
SPECIFICATION FairSpec
PROPERTY
  ChecksForEver
CHECK_DEADLOCK FALSE
