SPECIFICATION Spec
CONSTANTS
  Heaps <- MCHeaps
  HeapSize <- MCHeapSize
  Hdr <- MCHdr
  Slack <- MCSlack
  Boundary <- MCBoundary
  MaxRequest = 3
INVARIANTS
  HeapAgrees
  Coalesced
  NullMeansFull
  DmaPlaced
PROPERTY
  KeepsPromise
