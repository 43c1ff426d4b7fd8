SPECIFICATION Spec
CONSTANTS
  MaxRequests = 2
  BufferMax = 2
  InitialDelays <- MCInitialDelays
  SteadyDelay = 4
  CheckDelay = 1
  ConnectTimeout = 3
  Interval = 2
  QuietAfter = 2
  DeadAfter = 6
  OpenLatency = 1
  MaxUpsets = 2
INVARIANTS
  CanReconnect
  ReconnectsInTime
PROPERTIES
  OnlyTheUserHangsUp
  KeptResponsesArrive
CHECK_DEADLOCK FALSE
