------------------------------ MODULE FreeList ------------------------------
(***************************************************************************)
(* The first-fit free list with splitting and full coalescing that this    *)
(* system has three times: the kernel heap (kmalloc, kfree), the DMA heap  *)
(* (kmalloc_dma, kfree_dma) and the heap of every application (malloc,     *)
(* free, realloc of antem_libc).  They differ in the size of a header, in  *)
(* when a block is split, and in the boundary a DMA block must not cross.  *)
(*                                                                         *)
(* Addresses and sizes are counted in the unit the requests are rounded to *)
(* (a page of 4096 bytes in the kernel, a word of 4 bytes in the library), *)
(* from the start of the heap.  A call is one action: in the kernel this   *)
(* holds for the calls of the syscall handlers, and for pid 0 as long as   *)
(* the timer does not fire inside one.                                     *)
(***************************************************************************)
EXTENDS Integers, FiniteSets, FiniteSetsExt

CONSTANTS
  Heaps,     \* the heaps: "kernel", "dma", "user"
  HeapSize,  \* HEAP_SIZE, DMA_HEAP_SIZE, in units
  Hdr,       \* sizeof(mem_block_t), sizeof(malloc_block_t)
  Slack,     \* what a block must have beyond request and header to be split:
             \* 16 bytes (0 pages) in the kernel, 4 bytes (1 word) in the library
  Boundary,  \* 131072 bytes in the DMA heap; 0: no boundary
  MaxRequest \* bound: the largest size that is asked for

ASSUME HeapAssumption ==
  /\ \A h \in Heaps : /\ HeapSize[h] \in Nat /\ Hdr[h] \in Nat /\ Hdr[h] > 0
                      /\ Slack[h] \in Nat /\ Boundary[h] \in Nat
                      /\ Hdr[h] <= HeapSize[h]
  /\ "user" \in Heaps => Boundary["user"] = 0
  /\ MaxRequest \in Nat

Requests == 0 .. MaxRequest
NoAnswer == -1   \* no allocation was just refused

VARIABLES
  heap,    \* which of the heaps the behaviour is about; it does not change
  blocks,  \* the list: the address of each header -> its size and is_free
  given,   \* what the callers hold: the address of a header -> size asked for
  refused  \* the request the last call answered NULL to, if it did

vars == <<heap, blocks, given, refused>>

Top == HeapSize[heap]
H   == Hdr[heap]

Block(s, f) == [size |-> s, free |-> f]

\* init_heap: one free block.
Init ==
  /\ heap \in Heaps
  /\ blocks = [a \in {0} |-> Block(Top - H, TRUE)]
  /\ given = [a \in {} |-> 0]
  /\ refused = NoAnswer

(***************************************************************************)
(* The list.                                                               *)
(***************************************************************************)
End(bl, a) == a + H + bl[a].size       \* where the next header is

\* The block would cross a boundary of the DMA chip.
CrossesOneOff(a, r) ==   \* mutant: the last unit of the block is forgotten
  /\ Boundary[heap] > 0
  /\ (a + H) \div Boundary[heap] # (a + H + r - 2) \div Boundary[heap]

Crosses(a, r) ==
  /\ Boundary[heap] > 0
  /\ (a + H) \div Boundary[heap] # (a + H + r - 1) \div Boundary[heap]

\* The first block of the list that is free, large enough and, for DMA, placed.
UsableSmaller(a, r) == blocks[a].free /\ ~Crosses(a, r)   \* mutant: any size
Usable(a, r) == blocks[a].free /\ blocks[a].size >= r /\ ~Crosses(a, r)
Candidates(r) == {a \in DOMAIN blocks : Usable(a, r)}

\* is_free of a block is set or reset.
Marked(bl, a, f) == [bl EXCEPT ![a] = Block(bl[a].size, f)]

\* Taking the first r units of block a; what is left becomes a free block.
Splits(bl, a, r) == bl[a].size > r + H + Slack[heap]

RestSizeNoHdr(bl, a, r) == bl[a].size - r   \* mutant: the new header not deducted
RestSize(bl, a, r) == bl[a].size - r - H

Taken(bl, a, r) ==
  IF Splits(bl, a, r)
  THEN LET rest == a + H + r
       IN  [x \in DOMAIN bl \cup {rest} |->
              IF x = a THEN Block(r, FALSE)
              ELSE IF x = rest THEN Block(RestSize(bl, a, r), TRUE)
              ELSE bl[x]]
  ELSE Marked(bl, a, FALSE)

\* Marking a free and walking the list once, fusing each free block with the
\* free blocks that follow it: a header survives unless it and the one before
\* it are free.
FollowsFree(bl, a) == bl[a].free /\ \E b \in DOMAIN bl : bl[b].free /\ End(bl, b) = a

Fused(bl) ==
  LET kept == {a \in DOMAIN bl : ~FollowsFree(bl, a)}
      next(a) == Min({b \in kept : b > a} \cup {Top})
  IN  [a \in kept |-> Block(next(a) - a - H, bl[a].free)]

FreedForward(bl, a) ==   \* mutant: fused with the next block only
  LET n == End(bl, a)
  IN  IF n \in DOMAIN bl /\ bl[n].free
      THEN [x \in DOMAIN bl \ {n} |->
              IF x = a THEN Block(End(bl, n) - a - H, TRUE) ELSE bl[x]]
      ELSE Marked(bl, a, TRUE)

Freed(bl, a) == Fused(Marked(bl, a, TRUE))

(***************************************************************************)
(* The calls.                                                              *)
(***************************************************************************)
With(a, r)  == [x \in DOMAIN given \cup {a} |-> IF x = a THEN r ELSE given[x]]
Without(g, a) == [x \in DOMAIN g \ {a} |-> g[x]]

\* kmalloc, kmalloc_dma, malloc, and realloc of NULL.
Alloc(r) ==
  /\ Candidates(r) # {}
  /\ LET a == Min(Candidates(r))
     IN  /\ blocks' = Taken(blocks, a, r)
         /\ given' = With(a, r)
  /\ refused' = NoAnswer
  /\ UNCHANGED heap

\* The same calls, or a realloc that has to move, when no block will do.
AllocFails(r) ==
  /\ Candidates(r) = {}
  /\ refused' = r
  /\ UNCHANGED <<heap, blocks, given>>

\* kfree, kfree_dma, free, of a pointer the allocator gave.
Free(a) ==
  /\ a \in DOMAIN given
  /\ blocks' = Freed(blocks, a)
  /\ given' = Without(given, a)
  /\ refused' = NoAnswer
  /\ UNCHANGED heap

\* realloc: of the library only; a size of 0 is free.
ReallocInPlace(a, r) ==
  /\ heap = "user" /\ a \in DOMAIN given /\ r > 0
  /\ blocks[a].size >= r
  /\ given' = [given EXCEPT ![a] = r]
  /\ refused' = NoAnswer
  /\ UNCHANGED <<heap, blocks>>

ReallocMoves(a, r) ==
  /\ heap = "user" /\ a \in DOMAIN given /\ r > 0
  /\ blocks[a].size < r
  /\ Candidates(r) # {}
  /\ LET b == Min(Candidates(r))
     IN  /\ blocks' = Freed(Taken(blocks, b, r), a)
         /\ given' = Without(With(b, r), a)
  /\ refused' = NoAnswer
  /\ UNCHANGED heap

Next ==
  \/ \E r \in Requests : Alloc(r) \/ AllocFails(r)
  \/ \E a \in DOMAIN given :
       \/ Free(a)
       \/ \E r \in Requests : ReallocInPlace(a, r) \/ ReallocMoves(a, r)

Spec == Init /\ [][Next]_vars

(***************************************************************************)
(* Properties                                                              *)
(***************************************************************************)
\* Every variable has its type.
TypeOK ==
  /\ heap \in Heaps
  /\ DOMAIN blocks \subseteq 0 .. Top
  /\ blocks \in [DOMAIN blocks -> [size : 0 .. Top, free : BOOLEAN]]
  /\ DOMAIN given \subseteq DOMAIN blocks
  /\ given \in [DOMAIN given -> Requests]
  /\ refused \in Requests \cup {NoAnswer}

\* The list tiles the heap: the first header is at its start, each block ends
\* where the next header is, the last one at the top: no unit is lost and no two
\* blocks overlap, after any sequence of calls.
Tiled(bl) ==
  /\ 0 \in DOMAIN bl
  /\ \A a \in DOMAIN bl :
       /\ End(bl, a) \in DOMAIN bl \cup {Top}
       /\ \A b \in DOMAIN bl : a < b => End(bl, a) <= b

\* is_free and the callers agree: a block is in use exactly when somebody holds
\* it, and it is as large as was asked.
HeldBlocks ==
  /\ DOMAIN given = {a \in DOMAIN blocks : ~blocks[a].free}
  /\ \A a \in DOMAIN given : blocks[a].size >= given[a]

\* The list and the callers agree on every unit of the heap, after any sequence
\* of kmalloc and kfree, malloc, free and realloc.
HeapAgrees == Tiled(blocks) /\ HeldBlocks

\* Freeing leaves no two free blocks side by side; when all is freed the heap is
\* the single block it began as.
Coalesced ==
  /\ \A a \in DOMAIN blocks : ~FollowsFree(blocks, a)
  /\ DOMAIN given = {} => blocks = [a \in {0} |-> Block(Top - H, TRUE)]

\* NULL is answered only when no gap between the blocks in use can hold the
\* request and its header (fragmentation by the allocator itself never refuses
\* a caller).  The DMA heap does not promise this.
UsedCells == UNION {a .. End(blocks, a) - 1 : a \in DOMAIN given}

NullMeansFull ==
  refused # NoAnswer /\ Boundary[heap] = 0 =>
    ~\E a \in 0 .. Top - H - refused : (a .. a + H + refused - 1) \cap UsedCells = {}

\* kmalloc_dma: a block that was given lies between two boundaries.
DmaPlaced ==
  Boundary[heap] > 0 =>
    \A a \in DOMAIN given, k \in 0 .. Top :
      ~(a + H < k * Boundary[heap] /\ k * Boundary[heap] < a + H + given[a])

starts == {a + H : a \in DOMAIN given}
regions == [p \in starts |-> given[p - H]]

Promise == INSTANCE HeapPromise
             WITH top <- Top, Sizes <- Requests, given <- regions

\* The three allocators keep the promise of an allocator: live blocks are apart,
\* inside the heap, and move only in realloc, to a place apart from the old one.
KeepsPromise == Promise!Spec
=============================================================================
