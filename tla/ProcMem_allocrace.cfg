SPECIFICATION Spec
CONSTANTS
  MaxProcesses = 3
  NFrames = 2
  NPages = 2
  MaxNeed = 2
  PreemptAlloc = TRUE
  PreemptTest = FALSE
INVARIANT FrameExclusive
