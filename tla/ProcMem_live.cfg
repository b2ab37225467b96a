SPECIFICATION FairKernelSpec
CONSTANTS
  MaxProcesses = 3
  NFrames = 2
  NPages = 1
  MaxNeed = 1
  PreemptAlloc = TRUE
  PreemptTest = TRUE
INVARIANTS
  ContextValid
  HeapReclaimed
PROPERTIES
  NobodyStarves
