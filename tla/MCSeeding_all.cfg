SPECIFICATION SeedingSpec
CONSTANTS
  Seed = {s1, s2, s3}
  Contrib = {c1, c2, c3, c4}
  ContRate = 2
  MaxOrgEpoch = 1
  Vocabulary = {k1, k2}
  QSize = 3
  MaxKw = 7
  RawWeights = {5, 37, 100}
  VocabularySize = 8
INVARIANT SetUpBeforeSubmission
INVARIANT RequestsInOrder
INVARIANT PoolCommitted
INVARIANT CohortIsSeed
INVARIANT FixturesNeverFail
PROPERTY SeedingEnds
CHECK_DEADLOCK FALSE
