SPECIFICATION Spec
CONSTANTS
  None = None
  Thresholds <- MCThresholds
  NumRounds = 2
  Configs <- MCWorking
INVARIANTS
  TypeOK
  NoAbort
  AcceptedRoundsAreGenuine
  ReportsAreHeard
  SessionFollowsItsRounds
PROPERTIES
  DeparturesAreKnown
  RoundsStartClean
  ImplementsLedger
