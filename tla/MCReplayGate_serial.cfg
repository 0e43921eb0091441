SPECIFICATION SerialSpec
CONSTANTS
  Gate = {g1, g2}
  NoGate = NoGate
  Cells <- MCRepeatedCells
  MaxStacks = 3
INVARIANT JudgedOnOwnStack
INVARIANT ResultPerCell
INVARIANT VerdictMeansAll
PROPERTY GateReports
CHECK_DEADLOCK FALSE
