SPECIFICATION Spec
CONSTANTS
  Pid = {p1, p2, p3}
  NoPid = NoPid
  MaxAttempts = 2
SYMMETRY Symmetry
INVARIANT SingleFlight
