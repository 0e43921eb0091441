SPECIFICATION Spec
CONSTANTS
  Pid = {p1, p2}
  NoPid = NoPid
  MaxRuns = 3
SYMMETRY Symmetry
PROPERTY ResetOnlyIfCorrupt
