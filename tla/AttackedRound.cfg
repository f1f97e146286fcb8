SPECIFICATION Spec
CONSTANTS
  None = None
  Text = Text
  AttackLists <- MCAttackLists
  Plan <- MCPlan
  Workload <- MCWorkload
  Nodes <- MCNodes
  T2 <- MCT2
  MaximumT2 = 5
  Bounds <- MCBounds
  Travel <- MCTravel
  LinkLosses = {TRUE, FALSE}
  SourceErrors <- MCErrors
  LinkErrors <- MCLinkErrors
INVARIANTS
  TypeOK
  MessagesAsJammed
  PhotonAsJammed
  SecureRunsOnlyWhatItSees
  TruthIsKept
  BitsAgree
  BackendsAgree
