SPECIFICATION Spec
CONSTANTS
  None = None
  Thresholds <- MCThresholds
  NumRounds = 2
  Configs <- MCExpired
PROPERTIES
  RoundsStartClean
