SPECIFICATION Spec
CONSTANTS
  s1 = s1
  s2 = s2
  Streams = {s1, s2}
  Names = {"text"}
  Chars = {"a"}
  Cap = 3
  Block = 2
  NDirect = 1
  NList = 1
  Installed <- MCInstalled
  FreeBlocks = 0
  Sizes = {1, 2}
  Counts = {1}
  Offsets <- MCOffsets
SYMMETRY MCSymmetry
PROPERTIES
  KeepsPromise
  WholeIfRoom
