----------------------------- MODULE MCFreeList -----------------------------
\* Three small heaps: 8 pages for the kernel's, 9 pages with a boundary at
\* every 4 for the DMA one, 16 words for the library's.
EXTENDS FreeList

MCHeaps    == {"kernel", "dma", "user"}
MCHeapSize == [kernel |-> 8, dma |-> 9, user |-> 16]
MCHdr      == [kernel |-> 1, dma |-> 1, user |-> 3]
MCSlack    == [kernel |-> 0, dma |-> 0, user |-> 1]
MCBoundary == [kernel |-> 0, dma |-> 4, user |-> 0]
=============================================================================
