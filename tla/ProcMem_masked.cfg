SPECIFICATION Spec
CONSTANTS
  MaxProcesses = 3
  NFrames = 2
  NPages = 2
  MaxNeed = 2
  PreemptAlloc = FALSE
  PreemptTest = FALSE
INVARIANTS
  FrameExclusive
  FramesAccounted
  FreedOnce
PROPERTIES
  KeepsLedger
  TablesOnlyGrow
