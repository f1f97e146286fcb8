SPECIFICATION Spec
CONSTANTS
  None = None
  Thresholds <- MCThresholds
  NumRounds = 1
  Configs <- MCSlowSender
INVARIANTS
  ReportsAreHeard
