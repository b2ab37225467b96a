-------------------------------- MODULE Ext2 --------------------------------
(***************************************************************************)
(* The file system: block and inode bitmaps, inodes with direct, single    *)
(* and double indirect blocks, directories (Ext2Dir), and the operations   *)
(* that write: ext2_write_file, ext2_make_directory, ext2_delete_file and  *)
(* ext2_remove_directory.  Each is a sequence of disk writes, one action   *)
(* per write of a bitmap, a list, an inode or a directory, in the order of *)
(* the code; the power may fail between any two.                           *)
(*                                                                         *)
(* One operation runs at a time (VfsLock says when that is so), the disk   *)
(* answers, and nobody types rmdir with a path ending in . or .. (the code *)
(* would wipe that directory).  Blocks hold a list of pointers, a          *)
(* directory, or one KB of a file, of which only the position in the file  *)
(* is kept.                                                                *)
(***************************************************************************)
EXTENDS Ext2Dir, Sequences, SequencesExt

CONSTANTS
  NGroups,     \* ext2_total_groups
  GroupBlocks, \* ext2_blocks_per_group: as many as one bitmap block has bits
  NReserved,   \* the blocks at the start of a group that mke2fs has marked
  NInodes,     \* the inodes of the first group
  NDirect,     \* 12
  NList,       \* 256: the pointers of a block
  Sizes,       \* bound: the sizes of files, in blocks
  MaxFaults    \* bound: how many power-offs and refused kmallocs

ASSUME Ext2Assumption ==
  /\ NGroups \in {1, 2} /\ GroupBlocks \in Nat /\ NReserved \in 1 .. GroupBlocks - 1
  /\ NInodes \in Nat /\ NInodes >= 2 /\ NDirect \in Nat /\ NDirect >= 1
  /\ NList \in Nat /\ NList >= 1
  /\ Sizes \subseteq 1 .. (NDirect + NList + NList * NList)
  /\ MaxFaults \in Nat

Blocks   == 1 .. NGroups * GroupBlocks
Inodes   == 1 .. NInodes
Root     == 2
Reserved == {b \in Blocks : (b - 1) % GroupBlocks < NReserved}
RootBlock == NReserved + 1
Single   == NDirect + 1    \* i_block[12]
Double   == NDirect + 2    \* i_block[13]
Slots    == 1 .. Double

(***************************************************************************)
(* The tree of blocks below an inode.  A place is <<slot of i_block, index *)
(* in the list there, index in the list there>>, 0 where there is none.    *)
(***************************************************************************)
Places == (Slots \X {0} \X {0}) \cup ({Single} \X (1 .. NList) \X {0})
                                \cup ({Double} \X (1 .. NList) \X (0 .. NList))

IsList(p) == (p[1] = Single /\ p[2] = 0) \/ (p[1] = Double /\ p[3] = 0)
Child(p, j) == IF p[2] = 0 THEN <<p[1], j, 0>> ELSE <<p[1], p[2], j>>

\* Behind all that a list points at: when it is stored, and when it is freed.
Closing(p) == IF IsList(p) THEN Child(p, NList + 1) ELSE p

Before(a, b) ==
  \/ a[1] < b[1]
  \/ a[1] = b[1] /\ a[2] < b[2]
  \/ a[1] = b[1] /\ a[2] = b[2] /\ a[3] < b[3]

VARIABLES
  bbits,   \* the blocks whose bit is set
  ibits,   \* the inodes whose bit is set, in the first group
  inode,   \* the inode table: mode, i_size and i_block
  disk,    \* what is in each block, block 0 (the boot block) included
  pc,      \* where the operation in progress is
  kind,    \* "file" or "dir": what it creates
  dir,     \* the inode of parent_path
  name,    \* the last component of the path
  size,    \* num_blocks
  plan,    \* the places left to fill, and the lists left to store
  got,     \* place -> the block allocated for it
  ino,     \* new_inode, or the inode being freed
  todo,    \* the places of it whose blocks are still to be freed
  stack,   \* the callers of ext2_wipe_inode: an inode and an offset in it
  faults,  \* how many power-offs and refused kmallocs there were
  clean    \* none of them so far, no full disk and no lost entry

diskVars == <<bbits, ibits, inode, disk>>
callVars == <<kind, dir, name, size>>
workVars == <<plan, got, ino, todo, stack>>
faultVars == <<faults, clean>>
vars == <<diskVars, pc, callVars, workVars, faultVars>>

Data(k)  == [is |-> "data", at |-> k]
List(f)  == [is |-> "list", at |-> f]
Dir(d)   == [is |-> "dir", at |-> d]
NoBlocks == [s \in Slots |-> 0]
NothingGot == [p \in Places |-> 0]
Inode(m, z, p) == [mode |-> m, size |-> z, ptr |-> p]

Init ==
  /\ bbits = Reserved \cup {RootBlock}
  /\ ibits = {1, Root}
  /\ inode = [i \in Inodes |->
                IF i = Root THEN Inode("dir", 1, [NoBlocks EXCEPT ![1] = RootBlock])
                            ELSE Inode("none", 0, NoBlocks)]
  /\ disk = [b \in {0} \cup Blocks |->
               IF b = RootBlock THEN Dir(NewDir(Root, Root)) ELSE Data(0)]
  /\ pc = "idle" /\ kind = "file" /\ dir = Root /\ name = "." /\ size = 0
  /\ plan = {} /\ got = NothingGot /\ ino = 0 /\ todo = {} /\ stack = <<>>
  /\ faults = 0 /\ clean = TRUE

(***************************************************************************)
(* The bitmaps.                                                            *)
(***************************************************************************)
\* The first clear bit, 0 when there is none.
FirstClear(S, bits) == IF S \subseteq bits THEN 0 ELSE Min(S \ bits)

\* ext2_free_block_safe: the bit is counted from the start of the FIRST group's
\* bitmap; beyond the block it fills comes the inode bitmap of that group.
ClearBitNext(b) ==   \* mutant: bit_offset = block_num
  /\ bbits' = bbits \ {b + 1}
  /\ UNCHANGED ibits

ClearBit(b) ==
  IF b <= GroupBlocks
  THEN bbits' = bbits \ {b} /\ UNCHANGED ibits
  ELSE ibits' = ibits \ {b - GroupBlocks} /\ UNCHANGED bbits

(***************************************************************************)
(* Following pointers.                                                     *)
(***************************************************************************)
Pointers(b) == IF b # 0 /\ disk[b].is = "list" THEN disk[b].at ELSE [j \in 1 .. NList |-> 0]

\* ext2_get_phys_block.  (After a full disk a list may be block 0; what the code
\* reads there is not modelled.)
PhysOneOff(p, k) ==   \* mutant: <= for < at the first boundary
  IF k <= NDirect THEN p[k + 1]
  ELSE IF k < NDirect + NList THEN Pointers(p[Single])[k - NDirect + 1]
  ELSE LET d == k - NDirect - NList
       IN  Pointers(Pointers(p[Double])[(d \div NList) + 1])[(d % NList) + 1]

Phys(p, k) ==
  IF k < NDirect THEN p[k + 1]
  ELSE IF k < NDirect + NList THEN Pointers(p[Single])[k - NDirect + 1]
  ELSE LET d == k - NDirect - NList
       IN  Pointers(Pointers(p[Double])[(d \div NList) + 1])[(d % NList) + 1]

\* What i_block leads to at place p.
BlockAt(ptr, p) ==
  IF p[2] = 0 THEN ptr[p[1]]
  ELSE IF p[3] = 0 THEN Pointers(ptr[p[1]])[p[2]]
  ELSE Pointers(Pointers(ptr[p[1]])[p[2]])[p[3]]

Held(i) == {p \in Places : BlockAt(inode[i].ptr, p) # 0}
Tree(i) == {BlockAt(inode[i].ptr, p) : p \in Places} \ {0}

(***************************************************************************)
(* Directories.                                                            *)
(***************************************************************************)
DirBlock(i) == inode[i].ptr[1]
Entries(i)  == IF inode[i].mode = "dir" /\ disk[DirBlock(i)].is = "dir"
               THEN disk[DirBlock(i)].at ELSE [o \in {} |-> 0]
Proper(i)   == {o \in DOMAIN Entries(i) : Entries(i)[o].name \notin {".", ".."}}
Kids(i)     == {Entries(i)[o].ino : o \in Proper(i)}

\* What S leads to: all that is in every set that holds S and what its directories
\* name.
ReachFrom(S) ==
  LET links  == UNION {{<<i, k>> : k \in Kids(i)} : i \in Inodes}
      closed == {T \in SUBSET Inodes :
                   S \subseteq T /\ \A l \in links : l[1] \in T => l[2] \in T}
  IN  {j \in Inodes : \A T \in closed : j \in T}

Reach == ReachFrom({Root})

\* The directories ext2_resolve_path can end at.
Parents == {i \in Reach : inode[i].mode = "dir" /\ DOMAIN Entries(i) # {}}

(***************************************************************************)
(* What ext2_write_file allocates and stores for a file of z KB: each KB   *)
(* has its place, lists come before what they point at and are stored      *)
(* behind it.                                                              *)
(***************************************************************************)
IsDirect(p) == p[1] <= NDirect

Position(p) ==   \* which KB of the file goes there
  IF IsDirect(p) THEN p[1] - 1
  ELSE IF p[1] = Single THEN NDirect + p[2] - 1
  ELSE NDirect + NList + (p[2] - 1) * NList + p[3] - 1

DataPlaces(z) == {p \in Places : ~IsList(p) /\ Position(p) < z}

LeadsTo(l, p) == l[1] = p[1] /\ l[2] \in {0, p[2]} /\ l[3] \in {0, p[3]}

Filled(z) == {l \in Places : \E p \in DataPlaces(z) : LeadsTo(l, p)}

Plan(z) == Filled(z) \cup {Closing(l) : l \in Filled(z)}

First(p, S) == p \in S /\ \A q \in S \ {p} : Before(p, q)

(***************************************************************************)
(* ext2_write_file and ext2_make_directory.  A name that exists, a parent  *)
(* that does not, a directory without room and a failed kmalloc are        *)
(* refused before anything is written.                                     *)
(***************************************************************************)
Free(d, n) == Named(Entries(d), n) = {} /\ Hosts(Entries(d)) # {}

Begin(d, n, k, z) ==
  /\ pc = "idle"
  /\ d \in Parents /\ Free(d, n)
  /\ NGroups = 1 \/ ibits # Inodes   \* bound: the inodes of group 1 are not reached
  /\ pc' = "blocks"
  /\ kind' = k /\ dir' = d /\ name' = n /\ size' = z
  /\ plan' = Plan(z)
  /\ UNCHANGED <<diskVars, got, ino, todo, stack, faultVars>>

WriteFile(d, n, z)  == Begin(d, n, "file", z)
MakeDirectory(d, n) == Begin(d, n, "dir", 1)

\* ext2_allocate_block, and the KB that goes in the block.  With the disk full a
\* direct block ends the loop over direct blocks; the others are not looked at,
\* and what belongs in them is written in block 0.
TakeBlock ==
  /\ pc = "blocks"
  /\ \E p \in plan \cap Places :
       LET b == FirstClear(Blocks, bbits)
       IN  /\ First(p, plan)
           /\ bbits' = bbits \cup ({b} \ {0})
           /\ got' = [got EXCEPT ![p] = b]
           /\ plan' = {q \in plan \ {p} : b = 0 /\ IsDirect(p) => ~IsDirect(q)}
           /\ disk' = IF kind = "file" /\ ~IsList(p) /\ (b # 0 \/ ~IsDirect(p))
                      THEN [disk EXCEPT ![b] = Data(Position(p))] ELSE disk
           /\ clean' = (clean /\ b # 0)
  /\ UNCHANGED <<ibits, inode, pc, callVars, ino, todo, stack, faults>>

\* The pointers, written in the list block.
StoreList ==
  /\ pc = "blocks"
  /\ \E l \in Places :
       /\ IsList(l) /\ First(Closing(l), plan)
       /\ disk' = [disk EXCEPT ![got[l]] = List([j \in 1 .. NList |-> got[Child(l, j)]])]
       /\ plan' = plan \ {Closing(l)}
  /\ UNCHANGED <<bbits, ibits, inode, pc, callVars, got, ino, todo, stack, faultVars>>

Rest == /\ pc' = "idle"
        /\ kind' = "file" /\ dir' = Root /\ name' = "." /\ size' = 0
        /\ plan' = {} /\ got' = NothingGot
        /\ ino' = 0 /\ todo' = {} /\ stack' = <<>>

\* ext2_allocate_inode.  Without an inode (for a directory: or a block) the
\* operation fails; what it has allocated stays allocated.
TakeInode ==
  /\ pc = "blocks" /\ plan = {}
  /\ LET i == FirstClear(Inodes, ibits)
     IN  /\ ibits' = ibits \cup ({i} \ {0})
         /\ \/ /\ i # 0 /\ (kind = "dir" => got[<<1, 0, 0>>] # 0)
               /\ pc' = "inode" /\ ino' = i
               /\ UNCHANGED <<callVars, plan, got, todo, stack, faultVars>>
            \/ /\ ~(i # 0 /\ (kind = "dir" => got[<<1, 0, 0>>] # 0))
               /\ Rest /\ clean' = FALSE
  /\ UNCHANGED <<bbits, inode, disk, faults>>

LinkFirst ==   \* mutant of WriteInode: the entry is written before the inode
  /\ pc = "inode"
  /\ disk' = [disk EXCEPT ![DirBlock(dir)] =
                            Dir(FirstSector(Inserted(Entries(dir), name, ino)))]
  /\ pc' = "link"
  /\ UNCHANGED <<bbits, ibits, inode, callVars, workVars, faultVars>>

\* The inode; before it, for a directory, the block with "." and "..".
WriteInode ==
  /\ pc = "inode"
  /\ inode' = [inode EXCEPT ![ino] = Inode(kind, size, [s \in Slots |-> got[<<s, 0, 0>>]])]
  /\ disk' = IF kind = "dir" THEN [disk EXCEPT ![got[<<1, 0, 0>>]] = Dir(NewDir(ino, dir))]
             ELSE disk
  /\ pc' = "link"
  /\ UNCHANGED <<bbits, ibits, callVars, workVars, faultVars>>

\* The entry in the parent, whose block was read when the operation began.
\* Any inode may be what the characters of a name that is too long say.
Link ==
  /\ pc = "link"
  /\ \E j \in Inodes :
       LET d == FirstSector(Overrun(Inserted(Entries(dir), name, ino), name, j))
       IN  /\ disk' = [disk EXCEPT ![DirBlock(dir)] = Dir(d)]
           /\ clean' = (clean /\ Named(d, name) # {})
  /\ Rest
  /\ UNCHANGED <<bbits, ibits, inode, faults>>

(***************************************************************************)
(* ext2_delete_file and ext2_remove_directory: the name first, then what   *)
(* it named.  kmalloc may refuse the buffers the lists are read into.      *)
(***************************************************************************)
Fault == faults < MaxFaults /\ faults' = faults + 1 /\ clean' = FALSE

\* A list whose buffer is refused is freed without what it points at.
FreedPlacesNoList(i, single, double) ==   \* mutant: the list block is forgotten
  {p \in Held(i) : p[1] # Double /\ ~IsList(p)}

FreedPlacesZero(i, single, double) ==   \* mutant: absent blocks are freed too
  Places

FreedPlaces(i, single, double) ==
  {p \in Held(i) : /\ p[1] = Single /\ p[2] # 0 => single
                   /\ p[1] = Double /\ p[2] # 0 => double}

Freeing(i) ==
  \E single, double \in BOOLEAN :
    /\ inode[i].ptr[Single] = 0 => single
    /\ inode[i].ptr[Double] = 0 => double
    /\ todo' = FreedPlaces(i, single, double)
    /\ IF single /\ double THEN UNCHANGED faultVars ELSE Fault

UnlinkForgot(d, o) ==   \* mutant: the directory is not written back
  UNCHANGED disk

Unlink(d, o) ==
  disk' = [disk EXCEPT ![DirBlock(d)] = Dir(FirstSector(Removed(Entries(d), o)))]

DeleteFile(d, n) ==
  /\ pc = "idle"
  /\ d \in Parents
  /\ \E o \in Named(Entries(d), n) :
       /\ inode[Entries(d)[o].ino].mode = "file"
       /\ Unlink(d, o)
       /\ Freeing(Entries(d)[o].ino)
       /\ ino' = Entries(d)[o].ino
  /\ pc' = "free"
  /\ UNCHANGED <<bbits, ibits, inode, callVars, plan, got, stack>>

RemoveDirectory(d, n) ==
  /\ pc = "idle"
  /\ d \in Parents
  /\ \E o \in Named(Entries(d), n) :
       /\ inode[Entries(d)[o].ino].mode = "dir"
       /\ Unlink(d, o)
       /\ stack' = <<[ino |-> Entries(d)[o].ino, at |-> 0]>>
  /\ pc' = "wipe"
  /\ UNCHANGED <<bbits, ibits, inode, callVars, plan, got, ino, todo, faultVars>>

\* ext2_wipe_inode: each entry of a directory is wiped first, then its own blocks.
Top == Last(stack)

WipeEntry ==
  /\ pc = "wipe"
  /\ LET d == Entries(Top.ino)
         e == d[Top.at]
         on == [stack EXCEPT ![Len(stack)].at = Top.at + e.rec]
     IN  /\ Top.at \in DOMAIN d
         /\ stack' = IF e.name \in {".", ".."} THEN on
                     ELSE Append(on, [ino |-> e.ino, at |-> 0])
  /\ UNCHANGED <<diskVars, pc, callVars, plan, got, ino, todo, faultVars>>

WipeSelf ==
  /\ pc = "wipe"
  /\ Top.at \notin DOMAIN Entries(Top.ino)
  /\ Freeing(Top.ino)
  /\ ino' = Top.ino
  /\ pc' = "free"
  /\ UNCHANGED <<diskVars, callVars, plan, got, stack>>

\* No memory for dir_buffer: the entries of the directory are left out.
WipeNoEntries ==
  /\ pc = "wipe" /\ Top.at = 0 /\ Top.at \in DOMAIN Entries(Top.ino)
  /\ stack' = [stack EXCEPT ![Len(stack)].at = BlockWords]
  /\ Fault
  /\ UNCHANGED <<diskVars, pc, callVars, plan, got, ino, todo>>

Return ==   \* of ext2_wipe_inode, or of ext2_delete_file
  IF Len(stack) > 1
  THEN /\ stack' = Front(stack) /\ pc' = "wipe" /\ ino' = 0
       /\ UNCHANGED <<callVars, plan, got, todo>>
  ELSE Rest

\* No memory for sector_buffer: nothing is freed.
WipeNothing ==
  /\ pc = "wipe" /\ Top.at = 0
  /\ Return
  /\ Fault
  /\ UNCHANGED diskVars

\* A list goes behind what it points at.
FreeBlock ==
  /\ pc = "free"
  /\ \E p \in todo :
       /\ \A q \in todo \ {p} : Before(Closing(p), Closing(q))
       /\ ClearBit(BlockAt(inode[ino].ptr, p))
       /\ todo' = todo \ {p}
  /\ UNCHANGED <<inode, disk, pc, callVars, plan, got, ino, stack, faultVars>>

FreeInode ==
  /\ pc = "free" /\ todo = {}
  /\ ibits' = ibits \ {ino}
  /\ Return
  /\ UNCHANGED <<bbits, inode, disk, faultVars>>

\* What was in memory is lost; what was written stays.
PowerFails ==
  /\ pc # "idle"
  /\ Rest
  /\ Fault
  /\ UNCHANGED diskVars

Next ==
  \/ /\ pc = "idle"
     /\ \E d \in Parents, n \in Names :
       \/ \E z \in Sizes : WriteFile(d, n, z)
       \/ MakeDirectory(d, n) \/ DeleteFile(d, n) \/ RemoveDirectory(d, n)
  \/ TakeBlock \/ StoreList \/ TakeInode \/ WriteInode \/ Link
  \/ WipeEntry \/ WipeSelf \/ WipeNoEntries \/ WipeNothing
  \/ FreeBlock \/ FreeInode
  \/ PowerFails

Spec == Init /\ [][Next]_vars

(***************************************************************************)
(* Properties                                                              *)
(***************************************************************************)
\* Every variable has its type, and a scan comes to every entry of a directory.
TypeOK ==
  /\ bbits \subseteq Blocks /\ ibits \subseteq Inodes
  /\ inode \in [Inodes -> [mode : {"none", "file", "dir"}, size : {0, 1} \cup Sizes,
                           ptr : [Slots -> {0} \cup Blocks]]]
  /\ DOMAIN disk = {0} \cup Blocks
  /\ \A b \in {0} \cup Blocks :
       /\ disk[b].is \in {"data", "list", "dir"}
       /\ disk[b].is = "list" => disk[b].at \in [1 .. NList -> {0} \cup Blocks]
       /\ disk[b].is = "dir" => /\ Whole(disk[b].at)
                                /\ \A o \in DOMAIN disk[b].at : disk[b].at[o].ino \in Inodes
  /\ pc \in {"idle", "blocks", "inode", "link", "wipe", "free"}
  /\ kind \in {"file", "dir"} /\ dir \in Inodes /\ name \in Names \cup {"."}
  /\ size \in {0, 1} \cup Sizes
  /\ plan \subseteq Places \cup {Closing(l) : l \in Places}
  /\ got \in [Places -> {0} \cup Blocks]
  /\ ino \in {0} \cup Inodes
  /\ todo \subseteq Places /\ (todo # {} => ino # 0 /\ todo \subseteq Held(ino))
  /\ stack \in Seq([ino : Inodes, at : 0 .. BlockWords])
  /\ faults \in 0 .. MaxFaults /\ clean \in BOOLEAN

\* Whatever the power interrupts, what a path leads to is marked: no inode that
\* has a name, and no block of a file, a list or a directory below the root, is
\* there for the next allocation to take.
ReachIsMarked ==
  \A i \in Reach : i \in ibits /\ inode[i].mode # "none" /\ Tree(i) \subseteq bbits

\* ... and it is there once: no block is in two files or twice in one, no inode
\* has two names.
OnePlace ==
  LET R      == Reach
      blocks == UNION {{<<i, p, BlockAt(inode[i].ptr, p)>> : p \in Held(i)} : i \in R}
      links  == UNION {{<<i, o, Entries(i)[o].ino>> : o \in Proper(i)} : i \in R}
      Once(S) == \A t, u \in S : t[3] = u[3] => t = u
  IN  Once(blocks) /\ Once(links)

\* Nothing leaks but by a power-off, a full disk, a lost entry or a kmalloc that
\* fails: a deleted file gives back its blocks, lists included, a removed
\* directory all that was under it.
NothingLeaks ==
  pc = "idle" /\ clean =>
    /\ bbits = Reserved \cup UNION {Tree(i) : i \in Reach}
    /\ ibits = {1} \cup Reach

\* ext2_read_file finds each KB of a file where ext2_write_file has put it, past
\* the boundaries between direct, single and double indirect blocks too.
ReadsWhatWasWritten ==
  clean => \A i \in Reach : inode[i].mode = "file" =>
             \A k \in 0 .. inode[i].size - 1 : disk[Phys(inode[i].ptr, k)] = Data(k)

(***************************************************************************)
(* The paths of the names that the root leads to.  A way is a sequence of  *)
(* links <<directory, name, inode>>; inode 1 and the root have no name, so *)
(* none is longer than the other inodes are many.                          *)
(***************************************************************************)
Links ==
  UNION {{<<i, Entries(i)[o].name, Entries(i)[o].ino>> :
            o \in {x \in DOMAIN Entries(i) : Entries(i)[x].name \in Names}} : i \in Inodes}

Follows(t) == \A k \in DOMAIN t : t[k][1] = IF k = 1 THEN Root ELSE t[k - 1][3]

Ways == LET L == Links IN {t \in BoundedSeq(L, NInodes - 2) : Follows(t)}

Goal(t) == IF t = <<>> THEN Root ELSE Last(t)[3]

paths == {<<[k \in DOMAIN t |-> t[k][2]], inode[Goal(t)].mode>> : t \in Ways}

NamesOf == INSTANCE NameTree WITH tree <- paths

\* A path appears or disappears at one instant, whole: operations and power-offs
\* implement the tree of names.
KeepsTree == NamesOf!Spec
=============================================================================
