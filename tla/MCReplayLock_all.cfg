SPECIFICATION Spec
CONSTANTS
  Pid = {p1, p2}
  NoPid = NoPid
  MaxAttempts = 2
INVARIANT SerialSingleFlight
INVARIANT HolderOwnsFile
INVARIANT NeverExhausted
INVARIANT OverlapOnlyByRobbery
PROPERTY AcquisitionEnds
