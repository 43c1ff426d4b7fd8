SPECIFICATION LibrarySpec
CONSTANTS
  null = null
  Null = null
  Symbols <- MCSymbols
  DeviceSymbol <- MCDeviceSymbol
  Pages <- MCPages
  PinRefs <- MCPinRefs
  Nets <- MCNets
  Rails <- MCRails
  Resistor = "RES"
  PinOffset = 2
  Designators <- MCDesignators
  MaxEdits <- MCMaxEdits
  SymbolFiles <- MCSymbolFiles
  Changes <- MCChanges
  MaxRestyles = 2
  Positions <- MCPositions
  Fixed <- MCFixed
INVARIANTS
  NamesStayUnique
  RemovalLeavesNothing
  AddedPartsConnect
  StylesAsAsked
  ClashesAreSeen
  PinsAreWhereDrawn
CHECK_DEADLOCK FALSE
