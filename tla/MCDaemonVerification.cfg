SPECIFICATION FairSpec
CONSTANTS
  r1 = r1
  r2 = r2
  Requests <- MCRequests
  MaxConn = 2
  AuthRequired = FALSE
INVARIANTS
  MutualAgreement
PROPERTIES
  VerdictStands
  EveryWaiterIsReleased
CHECK_DEADLOCK FALSE
