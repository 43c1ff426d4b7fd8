SPECIFICATION Spec
CONSTANTS
  r1 = r1
  r2 = r2
  Requests <- MCRequests
  MaxConn = 2
  AuthRequired = FALSE
INVARIANT VerdictOfThisConnection
CHECK_DEADLOCK FALSE
