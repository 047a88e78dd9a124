CONSTANTS
  u1 = u1
  UTXO = {u1}
  MaxHeight = 4
  ConfigBirth = 3
  SaveInterval = 2
  UseElectrum = TRUE
  ElectrumLags = TRUE
  RescanHeights = {1, 3}
  RescanAhead = FALSE
  Restarts = TRUE
SPECIFICATION Spec
PROPERTIES
  ImplementsView
