CONSTANTS
  u1 = u1
  UTXO = {u1}
  MaxHeight = 3
  ConfigBirth = 2
  SaveInterval = 2
  UseElectrum = FALSE
  ElectrumLags = FALSE
  RescanHeights = {}
  RescanAhead = FALSE
  Restarts = TRUE
SPECIFICATION Spec
INVARIANT
  KeysSurvive
CHECK_DEADLOCK FALSE
