SPECIFICATION Spec
CONSTANTS
  Names <- MCNames
  NameWords <- MCNameWords
  BlockWords = 32
  SectorWords = 16
  NGroups = 1
  GroupBlocks = 9
  NReserved = 1
  NInodes = 4
  NDirect = 1
  NList = 2
  Sizes = {1, 4}
  MaxFaults = 1
INVARIANTS
  TypeOK
  ReachIsMarked
  OnePlace
  NothingLeaks
  ReadsWhatWasWritten
PROPERTY
  KeepsTree
VIEW View
