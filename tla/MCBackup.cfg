SPECIFICATION Spec
CONSTANTS
  import = import
  swap = swap
  set = set
  snapshot = snapshot
  doc = doc
  p = p
  Calls <- MCCalls
  Files <- MCFiles
  Projects <- MCProjects
  ProjectOf <- MCProjectOf
  FilesOf <- MCFilesOf
  Snapshots <- MCSnapshots
  MaxVersion = 4
INVARIANTS
  UndisturbedShaIsPriorState
  EverythingIsCommitted
PROPERTIES
  CallsEnd
CHECK_DEADLOCK FALSE
