SPECIFICATION ThroughputSpec
CONSTANTS
  Count = 4
  Good <- MCGood
  Lost = {3}
  TotalEpochs = 5
  CheckpointEvery = 1
  MinEarlyStop = 3
  Tolerance = 34
  BadFloor = 0
  MaxHeight = 3
  Txs <- MCTxs
INVARIANT BlocksCountedOnce
INVARIANT SurveyBounded
INVARIANT GapBounded
INVARIANT EarlyStopJustified
INVARIANT EarlyStopConservative
CHECK_DEADLOCK FALSE
