SPECIFICATION Spec
CONSTANTS
  InitMem = 1
  ContRate = 1
  Epochs = 4
  Keyword = {k1, k2}
  MinKw = 1
  QPerEpoch = 1
  QSize = 1
  ServePer = 1
  MaxWeight = 2500
  Threshold = 1500
  Grace = 1
  Unit = 36000
  MaxEvents = 6
SYMMETRY Symmetry
INVARIANT CohortIsInitial
CHECK_DEADLOCK FALSE
