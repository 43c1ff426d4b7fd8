SPECIFICATION FairSpec
CONSTANTS
  a = a
  b = b
  a1 = a1
  a2 = a2
  c1 = c1
  NoSock = NoSock
  NoInst = NoInst
  NoRequest = NoRequest
  Inst <- MCInst
  Sock <- MCSock
  InstOf <- MCInstOf
  Calls <- MCCalls
  MaxRuns = 2
  AuthRequired = TRUE
INVARIANTS
  OwnAnswer
  PendingCanBeRejected
  RegistryIsTrue
PROPERTIES
  ImplementsRpc
CHECK_DEADLOCK FALSE
