SPECIFICATION Spec
CONSTANTS
  Gate = {g1, g2}
  NoGate = NoGate
  Cells <- MCOneCell
  MaxStacks = 3
PROPERTY ActiveRunKeepsStack
CHECK_DEADLOCK FALSE
