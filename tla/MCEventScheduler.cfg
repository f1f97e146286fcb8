SPECIFICATION PortsFairSpec
CONSTANTS
  Ids = {a, b}
  Times <- MCTimes
  Delays <- MCDelays
  UsedPhases <- MCPhases
  StopTime = 3
  MaxEvents = 4
  Idle = Idle
  Stride = 2
INVARIANTS
  TypeOK
  IdsNamePending
  NothingPendingInThePast
  TotalOrder
  PublishedInOrder
  FirstInFirstOut
  PortsAgree
PROPERTIES
  DueEventsArePublished
