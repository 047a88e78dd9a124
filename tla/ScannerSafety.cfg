CONSTANTS
  u1 = u1
  u2 = u2
  UTXO = {u1, u2}
  MaxHeight = 3
  ConfigBirth = 2
  SaveInterval = 2
  UseElectrum = TRUE
  ElectrumLags = FALSE
  RescanHeights = {1, 2}
  RescanAhead = FALSE
  Restarts = TRUE
SPECIFICATION Spec
SYMMETRY Symmetry
INVARIANTS
  TypeOK
  MemoryConsistent
  DiskConsistent
  NoCoinWrittenOff
  ScanInv
PROPERTIES
  StatesOnlyAdvance
