SPECIFICATION Spec
CONSTANTS
  Names <- MCNames
  NameWords <- MCNameWords
  BlockWords = 32
  SectorWords = 16
  NGroups = 2
  GroupBlocks = 4
  NReserved = 1
  NInodes = 4
  NDirect = 1
  NList = 2
  Sizes = {4}
  MaxFaults = 0
INVARIANT
  ReachIsMarked
VIEW View
