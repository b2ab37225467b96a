------------------------------ MODULE FileStream ------------------------------
(***************************************************************************)
(* The FILE streams of antem_libc/stdio.c over syscalls 4 and 10: fopen    *)
(* loads a file in a buffer of 300 KB or clears one, fread, fwrite and     *)
(* fseek work in it, fclose saves it.  Several programs hold streams; a    *)
(* syscall is one step (VfsLock says when that is so).                     *)
(*                                                                         *)
(* A name has at most 63 characters (a longer one is cut by fopen before   *)
(* it is saved), a request fewer than 2^32 bytes, a size is not 0, and a   *)
(* FILE is not used after fclose.  fopen answers 0 when malloc refuses or  *)
(* the file is not there: nothing changes.                                 *)
(***************************************************************************)
EXTENDS Integers, FiniteSets

CONSTANTS
  Streams, Names,
  Chars,       \* the bytes a program writes
  Cap,         \* 300000
  Block,       \* 1024
  NDirect,     \* 12
  NList,       \* 256
  Installed,   \* name -> the size of a file that is on the disk at the start, or 0
  FreeBlocks,  \* the blocks that are free at the start
  Sizes, Counts, Offsets   \* bounds: what the programs ask for

ASSUME FileStreamAssumption ==
  /\ Cap \in Nat \ {0} /\ Block \in Nat \ {0} /\ NDirect \in Nat \ {0} /\ NList \in Nat \ {0}
  /\ Installed \in [Names -> Nat] /\ FreeBlocks \in Nat
  /\ Sizes \subseteq Nat \ {0} /\ Counts \subseteq Nat /\ Offsets \subseteq Int
  /\ {"nul", "stale", "image"} \cap Chars = {}

VARIABLES
  disk,  \* the inode behind a name: there, i_size, the bytes in its blocks, the blocks it takes
  free,  \* clear bits in the block bitmap
  st,    \* FILE: mode, filename, buffer, size, cursor; history: bytes_loaded
  out    \* what fread has put in *ptr, and its result

vars == <<disk, free, st, out>>

NUL   == "nul"
STALE == "stale"   \* whatever malloc's block, or what lies behind it, held before
IMAGE == "image"   \* a byte of a file of the disk image
Bytes == Chars \cup {NUL, STALE, IMAGE}

Cells == 0 .. Cap - 1

MinOf(a, b) == IF a < b THEN a ELSE b

NoFile == [there |-> FALSE, size |-> 0, stored |-> 0, at |-> [i \in {} |-> NUL], blocks |-> 0]
NoFILE == [mode |-> "none", name |-> "none", buf |-> [i \in Cells |-> NUL], size |-> 0, cur |-> 0, loaded |-> 0]
Silent == [items |-> 0, len |-> 0, at |-> [i \in {} |-> NUL]]

(***************************************************************************)
(* ext2_write_file: how many blocks n blocks of data take with the lists,  *)
(* and how many data blocks come before the first that is refused.         *)
(***************************************************************************)
\* Mutant: the last block that is not full is left out.
DataBlocksWhole(size) == size \div Block

DataBlocks(size) == (size + Block - 1) \div Block
Lists(n) == IF n <= NDirect THEN 0 ELSE IF n <= NDirect + NList THEN 1
            ELSE 2 + (n - NDirect - NList + NList - 1) \div NList
Filled(n) == CHOOSE k \in 0 .. n :
               /\ k + Lists(k) <= free
               /\ \A j \in 0 .. n : j + Lists(j) <= free => j <= k

Init ==
  /\ disk = [n \in Names |->
       IF Installed[n] = 0 THEN NoFile
       ELSE [there |-> TRUE, size |-> Installed[n], stored |-> Installed[n],
             at |-> [i \in 0 .. Installed[n] - 1 |-> IMAGE],
             blocks |-> DataBlocks(Installed[n]) + Lists(DataBlocks(Installed[n]))]]
  /\ free = FreeBlocks
  /\ st = [s \in Streams |-> NoFILE]
  /\ out = Silent

\* ext2_read_file: the bytes that there are, a NUL behind them, and the size of
\* the inode, which may be more.
Loaded(f) == MinOf(f.stored, Cap)
LoadBuffer(f) ==
  [i \in Cells |-> IF i < Loaded(f) THEN f.at[i] ELSE IF i = Loaded(f) THEN NUL ELSE STALE]

FopenRead(s, n) ==
  /\ st[s].mode = "none"
  /\ disk[n].there
  /\ st' = [st EXCEPT ![s] = [mode |-> "r", name |-> n, buf |-> LoadBuffer(disk[n]),
                              size |-> disk[n].size, cur |-> 0, loaded |-> Loaded(disk[n])]]
  /\ out' = Silent
  /\ UNCHANGED <<disk, free>>

\* Mutant: the buffer is left as malloc gave it.
ClearedNot == [i \in Cells |-> STALE]

Cleared == [i \in Cells |-> NUL]

FopenWrite(s, n) ==
  /\ st[s].mode = "none"
  /\ st' = [st EXCEPT ![s] = [mode |-> "w", name |-> n, buf |-> Cleared, size |-> 0, cur |-> 0, loaded |-> 0]]
  /\ out' = Silent
  /\ UNCHANGED <<disk, free>>

\* fread looks at the size of the file only: behind the buffer lies anything.
Taken(f, n) == IF f.cur < f.size THEN MinOf(n, f.size - f.cur) ELSE 0
At(f, i) == IF i \in Cells THEN f.buf[i] ELSE STALE

Fread(s, size, count) ==
  /\ st[s].mode = "r"
  /\ LET n == Taken(st[s], size * count)
     IN  /\ st' = [st EXCEPT ![s].cur = @ + n]
         /\ out' = [items |-> n \div size, len |-> n,
                    at |-> [i \in 0 .. n - 1 |-> At(st[s], st[s].cur + i)]]
  /\ UNCHANGED <<disk, free>>

Room(f) == Cap - f.cur

Written(f, n, c) ==
  LET e == f.cur + n
      z == IF n > 0 /\ e > f.size THEN e ELSE f.size
      b == [i \in Cells |-> IF f.cur <= i /\ i < e THEN c ELSE IF i = z THEN NUL ELSE f.buf[i]]
  IN  [f EXCEPT !.buf = b, !.cur = e, !.size = z]

Fwrite(s, size, count, c) ==
  /\ st[s].mode = "w"
  /\ st' = [st EXCEPT ![s] = Written(@, MinOf(size * count, Room(@)), c)]
  /\ out' = Silent
  /\ UNCHANGED <<disk, free>>

Sought(f, new_pos) == IF new_pos < 0 \/ new_pos >= Cap THEN f ELSE [f EXCEPT !.cur = new_pos]

Fseek(s, offset) ==
  /\ st[s].mode # "none"
  /\ \E whence \in {0, st[s].cur, st[s].size} : st' = [st EXCEPT ![s] = Sought(@, whence + offset)]
  /\ out' = Silent
  /\ UNCHANGED <<disk, free>>

\* The file that ext2_write_file makes: its size is at least 1, and that asked
\* for even if the disk is full before the end.
NewFile(buf, size, filled) ==
  LET n == DataBlocks(size)
      k == MinOf(size, filled * Block)
  IN  [there |-> TRUE, size |-> size, stored |-> k, at |-> [i \in 0 .. k - 1 |-> buf[i]],
       blocks |-> MinOf(n + Lists(n), free)]

IsNew(n) == ~disk[n].there

FileSize(size) == IF size = 0 THEN 1 ELSE size

\* ext2_write_file refuses a name that is there, a directory without room, no
\* memory, or no inode when the blocks are taken already; syscall 4 does not
\* tell, and says "saved" of a name that was there.
Saves(f) ==
  LET z == FileSize(f.size)
      g == NewFile(f.buf, z, Filled(DataBlocks(z)))
  IN  /\ IsNew(f.name)
      /\ free' = free - g.blocks
      /\ disk' = [disk EXCEPT ![f.name] = g] \/ UNCHANGED disk

Fclose(s) ==
  /\ st[s].mode # "none"
  /\ (st[s].mode = "w" /\ Saves(st[s])) \/ UNCHANGED <<disk, free>>
  /\ st' = [st EXCEPT ![s] = NoFILE]
  /\ out' = Silent

\* The program is killed or crashes: its memory goes, nothing is saved.
Killed(s) ==
  /\ st[s].mode # "none"
  /\ st' = [st EXCEPT ![s] = NoFILE]
  /\ out' = Silent
  /\ UNCHANGED <<disk, free>>

\* rm in the terminal.
Remove(n) ==
  /\ disk[n].there
  /\ disk' = [disk EXCEPT ![n] = NoFile]
  /\ free' = free + disk[n].blocks
  /\ out' = Silent
  /\ UNCHANGED st

Next ==
  \/ \E s \in Streams :
       \/ \E n \in Names : FopenRead(s, n) \/ FopenWrite(s, n)
       \/ \E size \in Sizes, count \in Counts :
            Fread(s, size, count) \/ \E c \in Chars : Fwrite(s, size, count, c)
       \/ \E offset \in Offsets : Fseek(s, offset)
       \/ Fclose(s) \/ Killed(s)
  \/ \E n \in Names : Remove(n)

Spec == Init /\ [][Next]_vars

-----------------------------------------------------------------------------
\* The variables keep their types: no write leaves the buffer of 300 KB.
TypeOK ==
  /\ \A n \in Names :
       /\ disk[n].there \in BOOLEAN /\ disk[n].size \in Nat /\ disk[n].blocks \in Nat
       /\ disk[n].stored \in 0 .. disk[n].size
       /\ disk[n].at \in [0 .. disk[n].stored - 1 -> Bytes]
  /\ free \in Nat
  /\ st \in [Streams -> [mode : {"none", "r", "w"}, name : Names \cup {"none"}, buf : [Cells -> Bytes],
                         size : Nat, cur : Nat, loaded : 0 .. Cap]]
  /\ \A s \in Streams :
       /\ st[s].mode = "w" => st[s].size <= Cap /\ st[s].cur <= Cap /\ st[s].name \in Names
       /\ st[s].mode = "r" => st[s].loaded <= st[s].size
  /\ out.items \in Nat /\ out.len \in Nat /\ out.at \in [0 .. out.len - 1 -> Bytes]

\* The streams do what a FILE promises: a reader sees the file as it was when
\* it was opened, a writer's text has zeros where it never wrote, a full buffer
\* takes no more, and what is closed is what the next fopen finds.
UNKNOWN == "unknown"
FileOf(f) ==
  [there |-> f.there, len |-> f.size,
   at |-> [i \in 0 .. f.size - 1 |-> IF i < f.stored THEN f.at[i] ELSE UNKNOWN]]
StreamOf(f) ==
  [mode |-> f.mode, name |-> f.name, len |-> f.size,
   at |-> [i \in 0 .. f.size - 1 |-> IF f.mode = "w" \/ i < f.loaded THEN f.buf[i] ELSE UNKNOWN],
   pos |-> f.cur]
FilesOf == [n \in Names |-> FileOf(disk[n])]
StreamsOf == [s \in Streams |-> StreamOf(st[s])]

Promise == INSTANCE ByteStream WITH files <- FilesOf, streams <- StreamsOf,
                                    Zero <- NUL, Unknown <- UNKNOWN, Limit <- Cap
KeepsPromise == Promise!Spec

\* A file is short of its size only if saving it took the last free block.
WholeIfRoom ==
  [][\A n \in Names : ~disk[n].there /\ disk'[n].there /\ disk'[n].stored < disk'[n].size => free' = 0]_vars
=============================================================================
