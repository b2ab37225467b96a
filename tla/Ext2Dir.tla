------------------------------ MODULE Ext2Dir ------------------------------
(***************************************************************************)
(* One directory: a block of 1024 bytes with a chain of entries, each with *)
(* an inode, a name and the distance to the next entry (rec_len).  It is   *)
(* read whole, but only its first sector of 512 bytes is written back.     *)
(*                                                                         *)
(* Offsets are in words of 4 bytes, to which every entry is aligned.  A    *)
(* directory is the function from the offsets of its chain to the entries  *)
(* there; what lies between them is never read.                            *)
(***************************************************************************)
EXTENDS Integers, FiniteSets, FiniteSetsExt

CONSTANTS
  Names,        \* the names of files and directories
  NameWords,    \* name -> the words it takes: (name_len + 3) / 4
  BlockWords,   \* 256: a block
  SectorWords   \* 128: a sector

\* Bound: names of up to 16 characters.  A longer one can overwrite more of the next
\* entry than its inode number.
ASSUME DirAssumption ==
  /\ BlockWords \in Nat /\ SectorWords \in Nat
  /\ 16 <= SectorWords /\ SectorWords < BlockWords
  /\ NameWords \in [Names -> 1 .. 4]
  /\ {".", "..", "torn"} \cap Names = {}

Entry(i, n, w, r) == [ino |-> i, name |-> n, words |-> w, rec |-> r]

RealLen(e) == 2 + e.words   \* the header of 8 bytes and the name

\* ext2_make_directory: "." and "..".
NewDir(me, parent) ==
  [o \in {0, 3} |-> IF o = 0 THEN Entry(me, ".", 1, 3)
                             ELSE Entry(parent, "..", 1, BlockWords - 3)]

\* A scan from offset 0 comes to each of them.
Chained(d) == \A o \in DOMAIN d \ {0} : \E p \in DOMAIN d : p < o /\ p + d[p].rec = o

\* The chain of a directory that is whole: each entry is in the block, behind the one
\* before it, with room for its name.
IsEntry(e) == e = Entry(e.ino, e.name, e.words, e.rec) /\ e.words \in 1 .. 4

Whole(d) ==
  /\ 0 \in DOMAIN d /\ DOMAIN d \subseteq 0 .. BlockWords
  /\ \A o \in DOMAIN d : /\ IsEntry(d[o])
                        /\ d[o].rec \in RealLen(d[o]) .. (BlockWords - o)
                        /\ \A p \in DOMAIN d : o < p => o + d[o].rec <= p
  /\ Chained(d)

Named(d, n) == {o \in DOMAIN d : d[o].name = n}

(***************************************************************************)
(* A new entry goes behind the LAST one with more than 16 bytes of slack;  *)
(* offset 0 stands for "no room".                                          *)
(***************************************************************************)
Hosts(d) == {o \in DOMAIN d \ {0} : d[o].rec > RealLen(d[o]) + 4}

Inserted(d, n, i) ==
  LET h   == Max(Hosts(d))
      new == h + RealLen(d[h])
  IN  [o \in DOMAIN d \cup {new} |->
         IF o = h THEN [d[h] EXCEPT !.rec = RealLen(d[h])]
         ELSE IF o = new THEN Entry(i, n, NameWords[n], d[h].rec - RealLen(d[h]))
         ELSE d[o]]

\* The insertion does not measure the name: in a hole that is too small for it the last
\* characters, j, are written over the inode number of the entry behind.
Overrun(d, n, j) ==
  [o \in DOMAIN d |->
     IF \E p \in Named(d, n) : p < o /\ o < p + RealLen(d[p]) THEN [d[o] EXCEPT !.ino = j]
     ELSE d[o]]

\* Names of up to 12 characters fit in every hole that is taken for them.
ShortNames == \A n \in Names : NameWords[n] <= 3

\* A removed entry is swallowed by the one before it.
Removed(d, o) ==
  LET p == Max({x \in DOMAIN d : x < o})
  IN  [x \in DOMAIN d \ {o} |->
         IF x = p THEN [d[p] EXCEPT !.rec = @ + d[o].rec] ELSE d[x]]

(***************************************************************************)
(* What is on the disk when only the first sector of d was written, on a   *)
(* second sector of zeros: an entry whose header is cut ends the chain,    *)
(* one whose name is cut keeps its place and has no name any more.         *)
(***************************************************************************)
FirstSector(d) ==
  [o \in {x \in DOMAIN d : x + 2 <= SectorWords} |->
     IF o + RealLen(d[o]) <= SectorWords THEN d[o] ELSE [d[o] EXCEPT !.name = "torn"]]
=============================================================================
