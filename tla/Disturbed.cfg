SPECIFICATION FairSpec
CONSTANTS
  None = None
  Thresholds <- MCThresholds
  NumRounds = 2
  Configs <- MCDisturbed
INVARIANTS
  OneResultPerRound
  RetrievesItsOwnQubit
  HardExpiration
  Agenda
  FinishedMeansDecided
  SessionFollowsItsRounds
PROPERTIES
  DeparturesAreKnown
  ExpiresOnlyWhenDue
  EveryRoundIsDecided
