SPECIFICATION Spec
CONSTANTS
  MaxProcesses = 3
  NBlocks = 2
  NChunks = 4
  MaxCopies = 2
  MaxLinks = 2
  Commands = TRUE
  Audio = FALSE
  FaultInCall = FALSE
INVARIANT BlocksOnce
