SPECIFICATION Spec
CONSTANTS
  Procs <- MCProcs
  Setups <- MCTwins
  None = None
PROPERTIES
  SuccessPersistsResult
