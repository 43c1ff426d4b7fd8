SPECIFICATION FairSpec
CONSTANTS
  r1 = r1
  r2 = r2
  boardA = boardA
  boardB = boardB
  sheet = sheet
  NoDoc = NoDoc
  NoRequest = NoRequest
  Requests <- MCRequests
  Docs <- MCDocs
  DocType <- MCDocType
  Jobs <- MCJobs
  HandlerSteps = 1
INVARIANTS
  WritesLandWhereAsked
PROPERTIES
  AnsweredOnceAndInTime
  EveryRequestGetsASlot
CHECK_DEADLOCK FALSE
