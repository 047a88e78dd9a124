CONSTANTS
  u1 = u1
  UTXO = {u1}
  MaxHeight = 3
  ConfigBirth = 2
  SaveInterval = 2
  UseElectrum = TRUE
  ElectrumLags = FALSE
  RescanHeights = {2}
  RescanAhead = FALSE
  Restarts = FALSE
SPECIFICATION FairSpec
PROPERTIES
  EveryCoinFound
  EverySpendFound
  RescanServed
  CatchesUp
CHECK_DEADLOCK FALSE
