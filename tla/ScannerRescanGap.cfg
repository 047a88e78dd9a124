CONSTANTS
  u1 = u1
  UTXO = {u1}
  MaxHeight = 3
  ConfigBirth = 2
  SaveInterval = 2
  UseElectrum = FALSE
  ElectrumLags = FALSE
  RescanHeights = {3}
  RescanAhead = TRUE
  Restarts = FALSE
SPECIFICATION Spec
INVARIANT
  LastHeightProcessed
CHECK_DEADLOCK FALSE
