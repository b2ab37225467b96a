SPECIFICATION FairSpec
CONSTANTS
  MaxProcesses = 3
  NBlocks = 2
  NChunks = 4
  MaxCopies = 2
  MaxLinks = 2
  Commands = FALSE
  Audio = FALSE
  FaultInCall = FALSE
INVARIANTS
  LockHasOwner
  LockedDisk
  BlocksOnce
PROPERTIES
  ShieldRespected
  DiskServed
