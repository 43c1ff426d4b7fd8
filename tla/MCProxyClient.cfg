SPECIFICATION Spec
CONSTANTS
  a = a
  read = read
  write = write
  Calls <- MCCalls
  Names <- MCNames
  ToolsOf <- MCToolsOf
  MaxRuns = 3
INVARIANTS
  AtMostOnce
  NeverStranded
PROPERTIES
  CallsSettle
  ToolsConverge
  ImplementsToolCall
CHECK_DEADLOCK FALSE
