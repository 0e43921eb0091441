SPECIFICATION Spec
CONSTANTS
  Seed = {s1}
  Contrib = {c1, c2}
  ContRate = 1
  MaxOrgEpoch = 0
  TotalEpochs = 2
  MinEarlyStop = 2
  MaxServes = 2
  Settle = 2
  MaxEpoch = 3
  NoMem = NoMem
INVARIANT ServedIsCommitted
INVARIANT DenialNamesServe
INVARIANT SettleWindowHolds
INVARIANT SanityHolds
PROPERTY PacedSpec
PROPERTY RunEnds
CHECK_DEADLOCK FALSE
