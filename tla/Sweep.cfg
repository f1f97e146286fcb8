SPECIFICATION Spec
CONSTANTS
  Procs <- MCProcs
  Setups <- MCSetups
  None = None
INVARIANTS
  TypeOK
  DirectoriesNeverMix
  FailedRunsLeaveEvidence
  SummaryIsTrue
  UndisturbedSweepRepairs
PROPERTIES
  ReplacedOnlyByWhole
  SweepEnds
