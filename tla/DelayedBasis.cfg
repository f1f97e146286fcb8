SPECIFICATION Spec
CONSTANTS
  None = None
  Thresholds <- MCThresholds
  NumRounds = 2
  Configs <- MCDelayedBasis
INVARIANTS
  RetrievesItsOwnQubit
