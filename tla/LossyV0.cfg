SPECIFICATION Spec
CONSTANTS
  None = None
  Thresholds <- MCThresholds
  NumRounds = 2
  Configs <- MCLossyV0
INVARIANTS
  AcceptedRoundsMatch
