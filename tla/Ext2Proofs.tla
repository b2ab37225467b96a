------------------------------ MODULE Ext2Proofs ------------------------------
(***************************************************************************)
(* Proofs about the file system: one directory (Ext2Dir), for blocks and   *)
(* sectors of any size; then a volume of one group, of any number of       *)
(* blocks, inodes and pointers, with files of any of its sizes and any     *)
(* number of power-offs.                                                   *)
(***************************************************************************)
EXTENDS Ext2, FiniteRanges, SequenceTheorems

\* The bounds on blocks, sectors and names, by name.
LEMMA Words ==
  /\ BlockWords \in Nat /\ SectorWords \in Nat /\ 16 <= SectorWords
  /\ SectorWords < BlockWords
  /\ \A n \in Names : NameWords[n] \in 1 .. 4
BY DirAssumption

\* The greatest member, as Max picks it.
LEMMA MaxIs ==
  ASSUME NEW n \in Int, NEW T, T \subseteq 0 .. n, T # {}
  PROVE  Max(T) \in T /\ \A y \in T : y <= Max(T)
<1>1. \E x \in T : \A y \in T : x >= y
  BY MaxExists
<1> QED BY <1>1 DEF Max

\* What is true of each entry of a directory that is whole.
LEMMA EntryIs ==
  ASSUME NEW d, Whole(d), NEW o \in DOMAIN d
  PROVE  /\ o \in Int /\ 0 <= o /\ o <= BlockWords /\ IsEntry(d[o])
         /\ d[o].rec \in Int /\ d[o].words \in Int /\ RealLen(d[o]) \in 3 .. 6
         /\ RealLen(d[o]) <= d[o].rec /\ o + d[o].rec <= BlockWords
<1>1. /\ o \in 0 .. BlockWords /\ d[o].words \in 1 .. 4 /\ IsEntry(d[o])
      /\ d[o].rec \in RealLen(d[o]) .. (BlockWords - o)
  BY DEF Whole, IsEntry
<1>2. RealLen(d[o]) \in 3 .. 6
  BY <1>1 DEF RealLen
<1> QED BY <1>1, <1>2, Words

\* ext2_make_directory writes a directory that is whole.
THEOREM NewDirIsWhole == \A me, parent : Whole(NewDir(me, parent))
<1> TAKE me, parent
<1> DEFINE d == NewDir(me, parent)
<1>1. DOMAIN d = {0, 3} /\ d[0] = Entry(me, ".", 1, 3)
      /\ d[3] = Entry(parent, "..", 1, BlockWords - 3)
  BY DEF NewDir
<1> HIDE DEF d
<1>2. /\ d[0].words = 1 /\ d[0].rec = 3 /\ d[3].words = 1 /\ d[3].rec = BlockWords - 3
      /\ IsEntry(d[0]) /\ IsEntry(d[3])
  BY <1>1 DEF Entry, IsEntry
<1>3. Chained(d)
  BY <1>1, <1>2 DEF Chained
<1> QED BY <1>1, <1>2, <1>3, Words DEF Whole, RealLen, d

\* Where the new entry goes there is no other.
LEMMA HostIs ==
  ASSUME NEW d, Whole(d), Hosts(d) # {}, NEW h, h = Max(Hosts(d)),
         NEW new, new = h + RealLen(d[h])
  PROVE  /\ h \in DOMAIN d /\ h # 0 /\ RealLen(d[h]) + 5 <= d[h].rec
         /\ new \in Int /\ h < new /\ new + 5 <= h + d[h].rec /\ new \notin DOMAIN d
<1>1. Hosts(d) \subseteq 0 .. BlockWords
  BY DEF Hosts, Whole
<1>2. h \in Hosts(d)
  BY <1>1, MaxIs, Words
<1>3. h \in DOMAIN d /\ h # 0 /\ d[h].rec > RealLen(d[h]) + 4
  BY <1>2 DEF Hosts
<1>4. /\ h \in Int /\ RealLen(d[h]) \in 3 .. 6 /\ d[h].rec \in Int
  BY <1>3, EntryIs
<1>5. new \in Int /\ h < new /\ new + 5 <= h + d[h].rec /\ RealLen(d[h]) + 5 <= d[h].rec
  BY <1>3, <1>4
<1>6. \A p \in DOMAIN d : h < p => h + d[h].rec <= p
  BY <1>3 DEF Whole
<1> QED BY <1>3, <1>4, <1>5, <1>6

\* ext2_write_file puts an entry in: the directory stays whole, the new entry has
\* room for a name of up to 12 characters although the code does not measure it,
\* and every other keeps its place, its name and its inode.
THEOREM InsertKeeps ==
  ASSUME ShortNames, NEW d, Whole(d), Hosts(d) # {}, NEW n \in Names, NEW i
  PROVE  /\ Whole(Inserted(d, n, i))
         /\ \A o \in DOMAIN d : /\ o \in DOMAIN Inserted(d, n, i)
                                /\ Inserted(d, n, i)[o].ino = d[o].ino
                                /\ Inserted(d, n, i)[o].name = d[o].name
                                /\ Inserted(d, n, i)[o].words = d[o].words
         /\ \E new \in DOMAIN Inserted(d, n, i) \ DOMAIN d :
              /\ DOMAIN Inserted(d, n, i) = DOMAIN d \cup {new}
              /\ Inserted(d, n, i)[new].ino = i /\ Inserted(d, n, i)[new].name = n
<1> DEFINE h == Max(Hosts(d))
           new == h + RealLen(d[h])
           e == Inserted(d, n, i)
           w == NameWords[n]
           left == d[h].rec - RealLen(d[h])
<1>1. /\ h \in DOMAIN d /\ h # 0 /\ RealLen(d[h]) + 5 <= d[h].rec
      /\ new \in Int /\ h < new /\ new + 5 <= h + d[h].rec /\ new \notin DOMAIN d
  BY HostIs
<1>2. /\ DOMAIN e = DOMAIN d \cup {new}
      /\ e[h] = [d[h] EXCEPT !.rec = RealLen(d[h])]
      /\ e[new] = Entry(i, n, w, left)
      /\ \A o \in DOMAIN d \ {h} : e[o] = d[o]
  BY <1>1 DEF Inserted
<1>3. /\ h \in Int /\ 0 <= h /\ d[h].rec \in Int /\ RealLen(d[h]) \in 3 .. 6
      /\ h + d[h].rec <= BlockWords /\ IsEntry(d[h])
  BY <1>1, EntryIs
<1>4. d[h] = Entry(d[h].ino, d[h].name, d[h].words, d[h].rec) /\ d[h].words \in 1 .. 4
  BY <1>3 DEF IsEntry
<1> HIDE DEF e, h
<1>5. e[h] = Entry(d[h].ino, d[h].name, d[h].words, RealLen(d[h]))
  BY <1>2, <1>4 DEF Entry
<1>6. /\ e[h].ino = d[h].ino /\ e[h].name = d[h].name /\ e[h].words = d[h].words
      /\ e[h].rec = RealLen(d[h]) /\ RealLen(e[h]) = RealLen(d[h]) /\ IsEntry(e[h])
  BY <1>4, <1>5 DEF Entry, RealLen, IsEntry
<1>7. w \in 1 .. 3 /\ left \in Int /\ 5 <= left /\ new + left = h + d[h].rec
  BY <1>1, <1>3, Words DEF ShortNames
<1> HIDE DEF w, left
<1>8. /\ e[new].ino = i /\ e[new].name = n /\ e[new].words = w /\ e[new].rec = left
      /\ RealLen(e[new]) = 2 + w /\ IsEntry(e[new])
  BY <1>2, <1>7 DEF Entry, RealLen, IsEntry
<1>9. new = h + e[h].rec /\ 0 <= new /\ new <= BlockWords
  <2>1. new = h + e[h].rec
    BY <1>6
  <2>2. 0 <= new
    BY <1>3
  <2>3. new <= BlockWords
    <3> HIDE DEF new
    <3> QED BY <1>1, <1>3, Words
  <2> QED BY <2>1, <2>2, <2>3
<1> HIDE DEF new
<1>10. 0 \in DOMAIN e /\ DOMAIN e \subseteq 0 .. BlockWords
  BY <1>1, <1>2, <1>9, Words DEF Whole
<1>11. ASSUME NEW o \in DOMAIN e
       PROVE  /\ IsEntry(e[o]) /\ e[o].rec \in RealLen(e[o]) .. (BlockWords - o)
              /\ \A p \in DOMAIN e : o < p => o + e[o].rec <= p
  <2>1. CASE o = h
    <3>1. \A p \in DOMAIN d : h < p => h + d[h].rec <= p
      BY <1>1 DEF Whole
    <3>2. \A p \in DOMAIN d : p \in Int
      BY EntryIs
    <3> QED BY <2>1, <3>1, <3>2, <1>1, <1>2, <1>3, <1>6, <1>7, <1>9, Words
  <2>2. CASE o = new
    <3>1. \A p \in DOMAIN d : h < p => h + d[h].rec <= p
      BY <1>1 DEF Whole
    <3>2. \A p \in DOMAIN d : p \in Int
      BY EntryIs
    <3> QED BY <2>2, <3>1, <3>2, <1>1, <1>2, <1>3, <1>7, <1>8, Words
  <2>3. CASE o \in DOMAIN d \ {h}
    <3>1. /\ e[o] = d[o] /\ o \in Int /\ d[o].rec \in Int /\ IsEntry(d[o])
          /\ d[o].rec \in RealLen(d[o]) .. (BlockWords - o)
          /\ \A p \in DOMAIN d : o < p => o + d[o].rec <= p
      BY <1>2, <2>3, EntryIs DEF Whole
    <3>2. o < new => o + d[o].rec <= new
      <4>1. CASE o < h
        BY <3>1, <4>1, <1>1, <1>3
      <4>2. CASE h < o
        <5>1. h + d[h].rec <= o
          BY <2>3, <4>2, <1>1 DEF Whole
        <5> QED BY <5>1, <3>1, <1>1, <1>3
      <4> QED BY <2>3, <3>1, <4>1, <4>2, <1>3
    <3> QED BY <3>1, <3>2, <1>2
  <2> QED BY <2>1, <2>2, <2>3, <1>2
<1>12. Chained(e)
  <2> SUFFICES ASSUME NEW o \in DOMAIN e \ {0}
               PROVE  \E p \in DOMAIN e : p < o /\ p + e[p].rec = o
    BY DEF Chained
  <2>1. CASE o = new
    BY <2>1, <1>1, <1>2, <1>9
  <2>2. CASE o # new
    <3>1. PICK p \in DOMAIN d : p < o /\ p + d[p].rec = o
      BY <2>2, <1>2 DEF Whole, Chained
    <3>2. CASE p = h
      <4>1. o = h + d[h].rec /\ o \in Int /\ new < o
        BY <3>1, <3>2, <1>1, <1>3
      <4> QED BY <4>1, <1>2, <1>7, <1>8
    <3>3. CASE p # h
      BY <3>1, <3>3, <1>2
    <3> QED BY <3>2, <3>3
  <2> QED BY <2>1, <2>2
<1>13. Whole(e)
  BY <1>10, <1>11, <1>12 DEF Whole
<1>14. \A o \in DOMAIN d : /\ o \in DOMAIN e /\ e[o].ino = d[o].ino /\ e[o].name = d[o].name
                            /\ e[o].words = d[o].words
  BY <1>2, <1>6
<1> QED BY <1>1, <1>2, <1>8, <1>13, <1>14 DEF e

\* ext2_delete_file and ext2_remove_directory take an entry out: the directory stays
\* whole, and every other entry keeps its place, its name and its inode.
THEOREM RemoveKeeps ==
  ASSUME NEW d, Whole(d), NEW o \in DOMAIN d \ {0}
  PROVE  /\ Whole(Removed(d, o))
         /\ DOMAIN Removed(d, o) = DOMAIN d \ {o}
         /\ \A x \in DOMAIN d \ {o} : /\ Removed(d, o)[x].ino = d[x].ino
                                      /\ Removed(d, o)[x].name = d[x].name
                                      /\ Removed(d, o)[x].words = d[x].words
<1> DEFINE T == {x \in DOMAIN d : x < o}
           q == Max(T)
           e == Removed(d, o)
<1>1. o \in Int /\ 0 <= o /\ o <= BlockWords /\ 0 \in T /\ T \subseteq 0 .. BlockWords
  BY EntryIs, Words DEF Whole
<1>2. q \in T /\ \A y \in T : y <= q
  BY <1>1, MaxIs, Words
<1>3. q \in DOMAIN d /\ q < o /\ q # o
  BY <1>1, <1>2, EntryIs
<1>4. /\ DOMAIN e = DOMAIN d \ {o}
      /\ e[q] = [d[q] EXCEPT !.rec = @ + d[o].rec]
      /\ \A x \in DOMAIN d \ {o, q} : e[x] = d[x]
  BY <1>3 DEF Removed
<1> HIDE DEF e, q
\* The greatest offset below o is that of the entry that leads to o.
<1>5. q + d[q].rec = o
  <2>1. PICK p \in DOMAIN d : p < o /\ p + d[p].rec = o
    BY DEF Whole, Chained
  <2>2. p <= q /\ p \in Int /\ q \in Int /\ d[p].rec \in Int
    BY <2>1, <1>2, <1>3, EntryIs
  <2>3. p < q => p + d[p].rec <= q
    BY <1>3 DEF Whole
  <2> QED BY <2>1, <2>2, <2>3, <1>1, <1>3
<1>6. /\ q \in Int /\ d[q].rec \in Int /\ d[q].words \in 1 .. 4 /\ RealLen(d[q]) <= d[q].rec
      /\ d[q] = Entry(d[q].ino, d[q].name, d[q].words, d[q].rec)
      /\ RealLen(d[q]) \in 3 .. 6
      /\ d[o].rec \in Int /\ 3 <= d[o].rec /\ o + d[o].rec <= BlockWords
  BY <1>3, EntryIs DEF IsEntry
<1>7. e[q] = Entry(d[q].ino, d[q].name, d[q].words, d[q].rec + d[o].rec)
  BY <1>4, <1>6 DEF Entry
<1>8. /\ e[q].ino = d[q].ino /\ e[q].name = d[q].name /\ e[q].words = d[q].words
      /\ e[q].rec = d[q].rec + d[o].rec /\ RealLen(e[q]) = RealLen(d[q]) /\ IsEntry(e[q])
  BY <1>6, <1>7 DEF Entry, RealLen, IsEntry
<1>9. 0 \in DOMAIN e /\ DOMAIN e \subseteq 0 .. BlockWords
  BY <1>4 DEF Whole
<1>10. ASSUME NEW x \in DOMAIN e
       PROVE  /\ IsEntry(e[x]) /\ e[x].rec \in RealLen(e[x]) .. (BlockWords - x)
              /\ \A p \in DOMAIN e : x < p => x + e[x].rec <= p
  <2>1. CASE x = q
    <3>1. \A p \in DOMAIN d : /\ p \in Int
                              /\ q < p => o <= p
                              /\ o < p => o + d[o].rec <= p
      BY <1>3, <1>5, EntryIs DEF Whole
    <3>2. q + e[q].rec = o + d[o].rec
      BY <1>1, <1>5, <1>6, <1>8
    <3>3. \A p \in DOMAIN e : q < p => q + e[q].rec <= p
      BY <3>1, <3>2, <1>1, <1>4
    <3>4. e[q].rec \in RealLen(e[q]) .. (BlockWords - q)
      BY <3>2, <1>1, <1>6, <1>8, Words
    <3> QED BY <2>1, <3>3, <3>4, <1>8
  <2>2. CASE x # q
    BY <2>2, <1>4 DEF Whole
  <2> QED BY <2>1, <2>2
<1>11. Chained(e)
  <2> SUFFICES ASSUME NEW x \in DOMAIN e \ {0}
               PROVE  \E p \in DOMAIN e : p < x /\ p + e[p].rec = x
    BY DEF Chained
  <2>1. PICK p \in DOMAIN d : p < x /\ p + d[p].rec = x
    BY <1>4 DEF Whole, Chained
  <2>2. CASE p = o
    <3>1. x = o + d[o].rec /\ q < x /\ q + e[q].rec = x
      BY <2>1, <2>2, <1>1, <1>3, <1>5, <1>6, <1>8
    <3> QED BY <3>1, <1>3, <1>4
  <2>3. p # q
    BY <2>1, <1>4, <1>5
  <2>4. CASE p # o
    BY <2>1, <2>3, <2>4, <1>4
  <2> QED BY <2>2, <2>4
<1>12. Whole(e)
  BY <1>9, <1>10, <1>11 DEF Whole
<1> QED BY <1>3, <1>4, <1>8, <1>12 DEF e

\* Writing back the first sector alone leaves a directory whole, and loses no entry
\* that ends in it.
THEOREM SectorKeeps ==
  ASSUME NEW d, Whole(d)
  PROVE  /\ Whole(FirstSector(d))
         /\ \A o \in DOMAIN d : o + RealLen(d[o]) <= SectorWords
              => o \in DOMAIN FirstSector(d) /\ FirstSector(d)[o] = d[o]
         /\ \A o \in DOMAIN FirstSector(d) :
              /\ o \in DOMAIN d /\ o + 2 <= SectorWords
              /\ FirstSector(d)[o].ino = d[o].ino /\ FirstSector(d)[o].words = d[o].words
              /\ \/ FirstSector(d)[o].name = d[o].name /\ o + RealLen(d[o]) <= SectorWords
                 \/ FirstSector(d)[o].name = "torn" /\ o + RealLen(d[o]) > SectorWords
<1> DEFINE e == FirstSector(d)
<1>1. /\ DOMAIN e = {o \in DOMAIN d : o + 2 <= SectorWords}
      /\ \A o \in DOMAIN e :
           e[o] = IF o + RealLen(d[o]) <= SectorWords THEN d[o]
                  ELSE [d[o] EXCEPT !.name = "torn"]
  BY DEF FirstSector
<1> HIDE DEF e
<1>2. ASSUME NEW o \in DOMAIN e
      PROVE  /\ o \in DOMAIN d /\ IsEntry(e[o]) /\ e[o].rec = d[o].rec
             /\ RealLen(e[o]) = RealLen(d[o])
             /\ e[o].ino = d[o].ino /\ e[o].words = d[o].words
             /\ \/ e[o].name = d[o].name /\ o + RealLen(d[o]) <= SectorWords
                \/ e[o].name = "torn" /\ ~(o + RealLen(d[o]) <= SectorWords)
  <2>1. o \in DOMAIN d /\ IsEntry(d[o])
    BY <1>1, EntryIs
  <2>2. CASE o + RealLen(d[o]) <= SectorWords
    BY <1>1, <2>1, <2>2
  <2>3. CASE ~(o + RealLen(d[o]) <= SectorWords)
    <3>1. e[o] = Entry(d[o].ino, "torn", d[o].words, d[o].rec)
      BY <1>1, <2>1, <2>3 DEF IsEntry, Entry
    <3>2. IsEntry(e[o]) /\ e[o].rec = d[o].rec /\ RealLen(e[o]) = RealLen(d[o])
      BY <2>1, <3>1 DEF IsEntry, Entry, RealLen
    <3>3. e[o].ino = d[o].ino /\ e[o].words = d[o].words /\ e[o].name = "torn"
      BY <3>1 DEF Entry
    <3> QED BY <2>1, <2>3, <3>2, <3>3
  <2> QED BY <2>2, <2>3
<1>3. 0 \in DOMAIN e /\ DOMAIN e \subseteq 0 .. BlockWords
  BY <1>1, Words DEF Whole
<1>4. ASSUME NEW o \in DOMAIN e
      PROVE  /\ IsEntry(e[o]) /\ e[o].rec \in RealLen(e[o]) .. (BlockWords - o)
             /\ \A p \in DOMAIN e : o < p => o + e[o].rec <= p
  BY <1>1, <1>2 DEF Whole
<1>5. Chained(e)
  <2> SUFFICES ASSUME NEW o \in DOMAIN e \ {0}
               PROVE  \E p \in DOMAIN e : p < o /\ p + e[p].rec = o
    BY DEF Chained
  <2>1. PICK p \in DOMAIN d : p < o /\ p + d[p].rec = o
    BY <1>1 DEF Whole, Chained
  <2>2. p \in DOMAIN e
    BY <2>1, <1>1, EntryIs, Words
  <2> QED BY <2>1, <2>2, <1>2
<1>6. Whole(e)
  BY <1>3, <1>4, <1>5 DEF Whole
<1>7. ASSUME NEW o \in DOMAIN d, o + RealLen(d[o]) <= SectorWords
      PROVE  o \in DOMAIN e /\ e[o] = d[o]
  <2>1. o \in Int /\ RealLen(d[o]) \in 3 .. 6
    BY EntryIs
  <2>2. o + 2 <= SectorWords
    BY <1>7, <2>1, Words
  <2> QED BY <1>1, <1>7, <2>2
<1>8. ASSUME NEW o \in DOMAIN e, ~(o + RealLen(d[o]) <= SectorWords)
      PROVE  o + RealLen(d[o]) > SectorWords
  BY <1>2, <1>8, EntryIs, Words
<1> QED BY <1>1, <1>2, <1>6, <1>7, <1>8 DEF e

(***************************************************************************)
(* What is true of every directory on the disk: it is whole, and writing   *)
(* back its first sector again changes nothing.                            *)
(***************************************************************************)
Kept(d) ==
  /\ Whole(d)
  /\ d[0].name = "."
  /\ \A o \in DOMAIN d : /\ d[o].ino \in Inodes
                         /\ o + 2 <= SectorWords
                         /\ o + RealLen(d[o]) > SectorWords => d[o].name = "torn"

\* The directory ext2_make_directory writes names inodes only, and none but "." and "..".
LEMMA NewDirIsKept ==
  ASSUME NEW me \in Inodes, NEW parent \in Inodes
  PROVE  /\ Kept(NewDir(me, parent))
         /\ \A o \in DOMAIN NewDir(me, parent) : NewDir(me, parent)[o].name \in {".", ".."}
<1> DEFINE d == NewDir(me, parent)
<1>1. /\ DOMAIN d = {0, 3} /\ d[0] = Entry(me, ".", 1, 3)
      /\ d[3] = Entry(parent, "..", 1, BlockWords - 3)
  BY DEF NewDir
<1>2. Whole(d)
  BY NewDirIsWhole
<1> HIDE DEF d
<1>3. /\ d[0].ino = me /\ d[0].name = "." /\ d[0].words = 1
      /\ d[3].ino = parent /\ d[3].name = ".." /\ d[3].words = 1
  BY <1>1 DEF Entry
<1> QED BY <1>1, <1>2, <1>3, Words DEF Kept, RealLen, d

\* In a directory that is whole no name lies over the entry behind it.
THEOREM NoOverrun ==
  ASSUME ShortNames, NEW d, Whole(d), Hosts(d) # {}, NEW n \in Names, NEW i, NEW j
  PROVE  Overrun(Inserted(d, n, i), n, j) = Inserted(d, n, i)
<1> DEFINE f == Inserted(d, n, i)
<1>1. Whole(f)
  BY InsertKeeps
<1>2. f = [o \in DOMAIN f |-> f[o]]
  BY DEF Inserted
<1> HIDE DEF f
<1>3. ASSUME NEW o \in DOMAIN f, NEW p \in Named(f, n), p < o, o < p + RealLen(f[p])
      PROVE  FALSE
  <2>1. p \in DOMAIN f /\ p + f[p].rec <= o
    BY <1>1, <1>3 DEF Named, Whole
  <2>2. /\ p \in Int /\ o \in Int /\ f[p].rec \in Int /\ RealLen(f[p]) \in Int
        /\ RealLen(f[p]) <= f[p].rec
    BY <1>1, <2>1, EntryIs
  <2> QED BY <1>3, <2>1, <2>2
<1>4. Overrun(f, n, j) = [o \in DOMAIN f |-> f[o]]
  BY <1>3 DEF Overrun
<1> QED BY <1>2, <1>4 DEF f

\* What ext2_write_file and ext2_make_directory write back.
LEMMA InsertIsKept ==
  ASSUME ShortNames, NEW d, Kept(d), Hosts(d) # {}, NEW n \in Names, NEW i \in Inodes,
         NEW e, e = FirstSector(Inserted(d, n, i))
  PROVE  /\ Kept(e)
         /\ \A o \in DOMAIN d : o \in DOMAIN e /\ e[o].ino = d[o].ino /\ e[o].name = d[o].name
         /\ \A o, q \in DOMAIN e \ DOMAIN d : o = q
         /\ \A o \in DOMAIN e \ DOMAIN d : e[o].ino = i /\ e[o].name \in {n, "torn"}
<1> DEFINE f == Inserted(d, n, i)
<1>1. Whole(d)
  BY DEF Kept
<1>2. /\ Whole(f)
      /\ \A o \in DOMAIN d : /\ o \in DOMAIN f /\ f[o].ino = d[o].ino
                             /\ f[o].name = d[o].name /\ f[o].words = d[o].words
  BY <1>1, InsertKeeps
<1> HIDE DEF f
<1>3. PICK new \in DOMAIN f \ DOMAIN d : /\ DOMAIN f = DOMAIN d \cup {new}
                                       /\ f[new].ino = i /\ f[new].name = n
  <2>1. f = Inserted(d, n, i)
    BY DEF f
  <2>2. \E new \in DOMAIN Inserted(d, n, i) \ DOMAIN d :
           /\ DOMAIN Inserted(d, n, i) = DOMAIN d \cup {new}
           /\ Inserted(d, n, i)[new].ino = i /\ Inserted(d, n, i)[new].name = n
    BY <1>1, InsertKeeps
  <2> QED BY <2>1, <2>2
<1>4. e = FirstSector(f)
  BY DEF f
<1>5. /\ Whole(e)
      /\ \A o \in DOMAIN f : o + RealLen(f[o]) <= SectorWords
           => o \in DOMAIN e /\ e[o] = f[o]
      /\ \A o \in DOMAIN e :
              /\ o \in DOMAIN f /\ o + 2 <= SectorWords
              /\ e[o].ino = f[o].ino /\ e[o].words = f[o].words
              /\ \/ e[o].name = f[o].name /\ o + RealLen(f[o]) <= SectorWords
                 \/ e[o].name = "torn" /\ o + RealLen(f[o]) > SectorWords
  BY <1>2, <1>4, SectorKeeps
<1>6. DOMAIN e = {o \in DOMAIN f : o + 2 <= SectorWords}
  BY <1>4 DEF FirstSector
<1>7. ASSUME NEW o \in DOMAIN d
      PROVE  o \in DOMAIN e /\ e[o].ino = d[o].ino /\ e[o].name = d[o].name
  <2>1. o \in DOMAIN e
    BY <1>2, <1>6 DEF Kept
  <2>2. RealLen(f[o]) = RealLen(d[o])
    BY <1>2 DEF RealLen
  <2> QED BY <1>2, <1>5, <2>1, <2>2 DEF Kept
<1>8. \A o \in DOMAIN e \ DOMAIN d : o = new /\ e[o].ino = i /\ e[o].name \in {n, "torn"}
  BY <1>3, <1>5
<1>9. e[0].name = "."
  BY <1>7 DEF Kept, Whole
<1>10. ASSUME NEW o \in DOMAIN e
       PROVE  /\ e[o].ino \in Inodes /\ o + 2 <= SectorWords
              /\ o + RealLen(e[o]) > SectorWords => e[o].name = "torn"
  <2>1. e[o].ino \in Inodes
    BY <1>7, <1>8 DEF Kept
  <2>2. RealLen(e[o]) = RealLen(f[o])
    BY <1>5 DEF RealLen
  <2>3. o \in Int /\ RealLen(f[o]) \in Int
    BY <1>2, <1>5, EntryIs
  <2> QED BY <1>5, <2>1, <2>2, <2>3, Words
<1> QED BY <1>5, <1>7, <1>8, <1>9, <1>10 DEF Kept

\* What ext2_delete_file and ext2_remove_directory write back.
LEMMA RemoveIsKept ==
  ASSUME NEW d, Kept(d), NEW o \in DOMAIN d, d[o].name \in Names,
         NEW e, e = FirstSector(Removed(d, o))
  PROVE  /\ Kept(e)
         /\ DOMAIN e = DOMAIN d \ {o}
         /\ \A x \in DOMAIN e : e[x].ino = d[x].ino /\ e[x].name = d[x].name
<1> DEFINE f == Removed(d, o)
<1>1. Whole(d) /\ o # 0
  BY DirAssumption DEF Kept
<1>2. /\ Whole(f) /\ DOMAIN f = DOMAIN d \ {o}
      /\ \A x \in DOMAIN f : /\ f[x].ino = d[x].ino
                             /\ f[x].name = d[x].name /\ f[x].words = d[x].words
  <2>1. o \in DOMAIN d \ {0}
    BY <1>1
  <2>2. Whole(f) /\ DOMAIN f = DOMAIN d \ {o}
    BY <1>1, <2>1, RemoveKeeps
  <2>3. \A x \in DOMAIN d \ {o} : /\ f[x].ino = d[x].ino
                                  /\ f[x].name = d[x].name /\ f[x].words = d[x].words
    BY <1>1, <2>1, RemoveKeeps
  <2> QED BY <2>2, <2>3
<1> HIDE DEF f
<1>4. e = FirstSector(f)
  BY DEF f
<1>5. /\ Whole(e)
      /\ \A x \in DOMAIN e :
              /\ x \in DOMAIN f /\ x + 2 <= SectorWords
              /\ e[x].ino = f[x].ino /\ e[x].words = f[x].words
              /\ \/ e[x].name = f[x].name /\ x + RealLen(f[x]) <= SectorWords
                 \/ e[x].name = "torn" /\ x + RealLen(f[x]) > SectorWords
  BY <1>2, <1>4, SectorKeeps
<1>6. DOMAIN e = {x \in DOMAIN f : x + 2 <= SectorWords}
  BY <1>4 DEF FirstSector
<1>7. DOMAIN e = DOMAIN d \ {o}
  BY <1>2, <1>6 DEF Kept
<1>8. ASSUME NEW x \in DOMAIN e
      PROVE  /\ e[x].ino = d[x].ino /\ e[x].name = d[x].name
             /\ x + RealLen(e[x]) > SectorWords => e[x].name = "torn"
  <2>1. RealLen(e[x]) = RealLen(f[x]) /\ RealLen(f[x]) = RealLen(d[x]) /\ x \in DOMAIN d
    BY <1>2, <1>5, <1>7 DEF RealLen
  <2>2. x \in Int /\ RealLen(f[x]) \in Int
    BY <1>2, <1>5, EntryIs
  <2> QED BY <1>2, <1>5, <2>1, <2>2, Words DEF Kept
<1>9. 0 \in DOMAIN e
  BY <1>5 DEF Whole
<1> QED BY <1>5, <1>7, <1>8, <1>9 DEF Kept

(***************************************************************************)
(* What can be read from an inode table n and a disk k.  The operators of  *)
(* Ext2 read the two variables; these have them as parameters, to compare  *)
(* what is there before a step with what is there after it.                *)
(***************************************************************************)
PointersIn(k, b) == IF b # 0 /\ k[b].is = "list" THEN k[b].at ELSE [j \in 1 .. NList |-> 0]

AtIn(k, ptr, p) ==
  IF p[2] = 0 THEN ptr[p[1]]
  ELSE IF p[3] = 0 THEN PointersIn(k, ptr[p[1]])[p[2]]
  ELSE PointersIn(k, PointersIn(k, ptr[p[1]])[p[2]])[p[3]]

HeldIn(n, k, i) == {p \in Places : AtIn(k, n[i].ptr, p) # 0}
TreeIn(n, k, i) == {AtIn(k, n[i].ptr, p) : p \in Places} \ {0}

EntriesIn(n, k, i) == IF n[i].mode = "dir" /\ k[n[i].ptr[1]].is = "dir"
                      THEN k[n[i].ptr[1]].at ELSE [o \in {} |-> 0]
ProperIn(n, k, i)  == {o \in DOMAIN EntriesIn(n, k, i) :
                         EntriesIn(n, k, i)[o].name \notin {".", ".."}}
KidsIn(n, k, i)    == {EntriesIn(n, k, i)[o].ino : o \in ProperIn(n, k, i)}

Closed(n, k, T) == \A i \in Inodes : i \in T => KidsIn(n, k, i) \subseteq T
ReachIn(n, k, S) ==
  {j \in Inodes : \A T \in SUBSET Inodes : S \subseteq T /\ Closed(n, k, T) => j \in T}

\* A set that the links of ReachFrom do not leave is closed under Kids.
LEMMA LinksAreKids ==
  ASSUME NEW n, NEW k, NEW links,
         links = UNION {{<<i, c>> : c \in KidsIn(n, k, i)} : i \in Inodes}
  PROVE  \A T : (\A l \in links : l[1] \in T => l[2] \in T) <=> Closed(n, k, T)
<1> TAKE T
<1>1. ASSUME \A l \in links : l[1] \in T => l[2] \in T, NEW i \in Inodes, i \in T,
             NEW c \in KidsIn(n, k, i)
      PROVE  c \in T
  <2>1. <<i, c>> \in links
    OBVIOUS
  <2> QED BY <1>1, <2>1
<1>2. ASSUME Closed(n, k, T), NEW l \in links, l[1] \in T
      PROVE  l[2] \in T
  <2>1. PICK i \in Inodes : \E c \in KidsIn(n, k, i) : l = <<i, c>>
    OBVIOUS
  <2> QED BY <1>2, <2>1 DEF Closed
<1> QED BY <1>1, <1>2 DEF Closed

\* The operators of Ext2, and what they are after a step.
LEMMA Reads ==
  /\ \A i : /\ Held(i) = HeldIn(inode, disk, i) /\ Tree(i) = TreeIn(inode, disk, i)
            /\ Entries(i) = EntriesIn(inode, disk, i) /\ Proper(i) = ProperIn(inode, disk, i)
            /\ Kids(i) = KidsIn(inode, disk, i)
  /\ \A S : ReachFrom(S) = ReachIn(inode, disk, S)
  /\ Reach = ReachIn(inode, disk, {Root})
<1>1. \A i : /\ Held(i) = HeldIn(inode, disk, i) /\ Tree(i) = TreeIn(inode, disk, i)
             /\ Entries(i) = EntriesIn(inode, disk, i)
  BY DEF Held, Tree, BlockAt, Pointers, HeldIn, TreeIn, AtIn, PointersIn, Entries, EntriesIn,
         DirBlock
<1>2. \A i : Proper(i) = ProperIn(inode, disk, i)
  BY <1>1 DEF Proper, ProperIn
<1>3. \A i : Kids(i) = KidsIn(inode, disk, i)
  BY <1>1, <1>2 DEF Kids, KidsIn
<1>4. ASSUME NEW S PROVE ReachFrom(S) = ReachIn(inode, disk, S)
  <2> DEFINE links == UNION {{<<i, c>> : c \in Kids(i)} : i \in Inodes}
  <2>1. links = UNION {{<<i, c>> : c \in KidsIn(inode, disk, i)} : i \in Inodes}
    BY <1>3
  <2>2. ReachFrom(S) = {j \in Inodes : \A T \in {T \in SUBSET Inodes :
            S \subseteq T /\ \A l \in links : l[1] \in T => l[2] \in T} : j \in T}
    BY DEF ReachFrom
  <2> HIDE DEF links
  <2>3. \A T : (\A l \in links : l[1] \in T => l[2] \in T) <=> Closed(inode, disk, T)
    BY <2>1, LinksAreKids
  <2> QED BY <2>2, <2>3 DEF ReachIn
<1> QED BY <1>1, <1>2, <1>3, <1>4 DEF Reach

\* ... and of the state after it.
LEMMA ReadsNext ==
  /\ \A i : /\ Held(i)' = HeldIn(inode', disk', i) /\ Tree(i)' = TreeIn(inode', disk', i)
            /\ Entries(i)' = EntriesIn(inode', disk', i)
            /\ Proper(i)' = ProperIn(inode', disk', i)
            /\ Kids(i)' = KidsIn(inode', disk', i)
  /\ \A S : ReachFrom(S)' = ReachIn(inode', disk', S)
  /\ Reach' = ReachIn(inode', disk', {Root})
<1>1. \A i : /\ Held(i)' = HeldIn(inode', disk', i) /\ Tree(i)' = TreeIn(inode', disk', i)
             /\ Entries(i)' = EntriesIn(inode', disk', i)
  BY DEF Held, Tree, BlockAt, Pointers, HeldIn, TreeIn, AtIn, PointersIn, Entries, EntriesIn,
         DirBlock
<1>2. \A i : Proper(i)' = ProperIn(inode', disk', i)
  BY <1>1 DEF Proper, ProperIn
<1>3. \A i : Kids(i)' = KidsIn(inode', disk', i)
  BY <1>1, <1>2 DEF Kids, KidsIn
<1>4. ASSUME NEW S PROVE ReachFrom(S)' = ReachIn(inode', disk', S)
  <2> DEFINE links == UNION {{<<i, c>> : c \in Kids(i)'} : i \in Inodes}
  <2>1. links = UNION {{<<i, c>> : c \in KidsIn(inode', disk', i)} : i \in Inodes}
    BY <1>3
  <2>2. ReachFrom(S)' = {j \in Inodes : \A T \in {T \in SUBSET Inodes :
            S \subseteq T /\ \A l \in links : l[1] \in T => l[2] \in T} : j \in T}
    BY DEF ReachFrom
  <2> HIDE DEF links
  <2>3. \A T : (\A l \in links : l[1] \in T => l[2] \in T) <=> Closed(inode', disk', T)
    BY <2>1, LinksAreKids
  <2> QED BY <2>2, <2>3 DEF ReachIn
<1> QED BY <1>1, <1>2, <1>3, <1>4 DEF Reach

(***************************************************************************)
(* Reachability is the least closed set.                                   *)
(***************************************************************************)
LEMMA ReachHolds ==
  ASSUME NEW n, NEW k, NEW S, S \subseteq Inodes, NEW R, R = ReachIn(n, k, S),
         \A i \in Inodes : KidsIn(n, k, i) \subseteq Inodes
  PROVE  S \subseteq R /\ R \subseteq Inodes /\ Closed(n, k, R)
<1>1. S \subseteq R /\ R \subseteq Inodes
  BY DEF ReachIn
<1>2. ASSUME NEW i \in R, NEW c \in KidsIn(n, k, i) PROVE c \in R
  <2>1. i \in Inodes /\ c \in Inodes
    BY <1>1
  <2>2. ASSUME NEW T \in SUBSET Inodes, S \subseteq T, Closed(n, k, T)
        PROVE  c \in T
    <3>1. i \in T
      BY <2>2 DEF ReachIn
    <3> QED BY <2>1, <2>2, <3>1 DEF Closed
  <2> QED BY <2>1, <2>2 DEF ReachIn
<1> QED BY <1>1, <1>2 DEF Closed

\* What S leads to is in every set that holds S and is closed.
LEMMA ReachLeast ==
  ASSUME NEW n, NEW k, NEW S, NEW T, S \subseteq Inodes, S \subseteq T,
         \A i \in T \cap Inodes : KidsIn(n, k, i) \subseteq T,
         \A i \in Inodes : KidsIn(n, k, i) \subseteq Inodes
  PROVE  ReachIn(n, k, S) \subseteq T
<1>1. Closed(n, k, T \cap Inodes)
  BY DEF Closed
<1>2. T \cap Inodes \in SUBSET Inodes /\ S \subseteq T \cap Inodes
  OBVIOUS
<1> QED BY <1>1, <1>2 DEF ReachIn

\* What S leads to is in S or in a directory S leads to.
LEMMA ReachParent ==
  ASSUME NEW n, NEW k, NEW S, S \subseteq Inodes,
         \A i \in Inodes : KidsIn(n, k, i) \subseteq Inodes,
         NEW j \in ReachIn(n, k, S), j \notin S
  PROVE  \E i \in ReachIn(n, k, S) : j \in KidsIn(n, k, i)
<1> DEFINE R == ReachIn(n, k, S)
           T == R \ {j}
<1> SUFFICES ASSUME \A i \in R : j \notin KidsIn(n, k, i) PROVE FALSE
  OBVIOUS
<1>1. S \subseteq R /\ R \subseteq Inodes /\ Closed(n, k, R)
  BY ReachHolds
<1> HIDE DEF R
<1>2. \A i \in T \cap Inodes : KidsIn(n, k, i) \subseteq T
  BY <1>1 DEF Closed
<1>3. S \subseteq T
  BY <1>1
<1>4. ReachIn(n, k, S) \subseteq T
  BY <1>2, <1>3, ReachLeast
<1> QED BY <1>4

\* It is the same where the directories it leads through have the same members.
LEMMA ReachSame ==
  ASSUME NEW n, NEW k, NEW m, NEW l, NEW S, S \subseteq Inodes,
         \A i \in Inodes : KidsIn(n, k, i) \subseteq Inodes,
         \A i \in Inodes : KidsIn(m, l, i) \subseteq Inodes,
         \A i \in ReachIn(n, k, S) : KidsIn(m, l, i) = KidsIn(n, k, i)
  PROVE  ReachIn(m, l, S) = ReachIn(n, k, S)
<1> DEFINE R == ReachIn(n, k, S)
           Q == ReachIn(m, l, S)
<1>1. S \subseteq R /\ R \subseteq Inodes /\ Closed(n, k, R)
  BY ReachHolds
<1>2. S \subseteq Q /\ Q \subseteq Inodes /\ Closed(m, l, Q)
  BY ReachHolds
<1>3. \A i \in R : KidsIn(m, l, i) = KidsIn(n, k, i)
  OBVIOUS
<1>4. Q \subseteq R
  <2> HIDE DEF R
  <2>1. \A i \in R \cap Inodes : KidsIn(m, l, i) \subseteq R
    BY <1>1, <1>3 DEF Closed
  <2> QED BY <1>1, <2>1, ReachLeast
<1>5. R \subseteq Q
  <2> HIDE DEF Q
  <2>1. \A i \in Q \cap Inodes : KidsIn(n, k, i) \subseteq Q
    <3> HIDE DEF R
    <3> QED BY <1>2, <1>3, <1>4 DEF Closed
  <2> QED BY <1>2, <2>1, ReachLeast
<1> QED BY <1>4, <1>5

\* What TypeOK says of the inode table and of the disk, directories kept.
Volume(n, k) ==
  /\ n \in [Inodes -> [mode : {"none", "file", "dir"}, size : {0, 1} \cup Sizes,
                       ptr : [Slots -> {0} \cup Blocks]]]
  /\ DOMAIN k = {0} \cup Blocks
  /\ \A b \in {0} \cup Blocks :
       /\ k[b].is \in {"data", "list", "dir"}
       /\ k[b].is = "list" => k[b].at \in [1 .. NList -> {0} \cup Blocks]
       /\ k[b].is = "dir" => Kept(k[b].at)

\* The inodes of L are in use; those of directories have one block, a directory.
Sound(n, k, L) ==
  \A i \in L :
    /\ i # 1 /\ n[i].mode \in {"file", "dir"}
    /\ n[i].mode = "dir" => /\ n[i].size = 1
                            /\ \A s \in Slots \ {1} : n[i].ptr[s] = 0
                            /\ n[i].ptr[1] # 0 /\ k[n[i].ptr[1]].is = "dir"
    /\ TreeIn(n, k, i) \cap Reserved = {}

\* No block is in two places below L.
Unshared(n, k, L) ==
  \A i, j \in L : \A p, q \in Places :
    AtIn(k, n[i].ptr, p) = AtIn(k, n[j].ptr, q) /\ AtIn(k, n[i].ptr, p) # 0 => i = j /\ p = q

\* No inode has two names in L, and the root has none.
OneName(n, k, L) ==
  \A i \in L : \A o \in ProperIn(n, k, i) :
    /\ EntriesIn(n, k, i)[o].ino # Root
    /\ \A j \in L : \A q \in ProperIn(n, k, j) :
         EntriesIn(n, k, i)[o].ino = EntriesIn(n, k, j)[q].ino => i = j /\ o = q

Structure(n, k, L) == Sound(n, k, L) /\ Unshared(n, k, L) /\ OneName(n, k, L)

\* The numbers of slots, blocks and inodes, by name.
LEMMA Numbers ==
  /\ NDirect \in Int /\ NDirect >= 1 /\ NList \in Int /\ NList >= 1
  /\ Single \in Slots /\ Double \in Slots /\ 1 \in Slots /\ Slots = 1 .. NDirect + 2
  /\ Single = NDirect + 1 /\ Double = NDirect + 2
  /\ 0 \notin Blocks /\ Root \in Inodes /\ 1 \in Inodes /\ 0 \notin Inodes
BY Ext2Assumption DEF Single, Double, Slots, Blocks, Root, Inodes

\* A place is a slot, an index of a single list, or two indices of a double one.
LEMMA PlacesAre ==
  /\ \A p \in Places :
       /\ p = <<p[1], p[2], p[3]>> /\ p[1] \in Slots
       /\ p[2] \in 0 .. NList /\ p[3] \in 0 .. NList
       /\ p[2] = 0 => p[3] = 0
       /\ p[2] # 0 => p[1] \in {Single, Double}
       /\ p[3] # 0 => p[1] = Double
  /\ \A s \in Slots : <<s, 0, 0>> \in Places
  /\ \A s \in {Single, Double}, m \in 1 .. NList : <<s, m, 0>> \in Places
  /\ \A m, j \in 1 .. NList : <<Double, m, j>> \in Places
BY Numbers DEF Places

\* A list holds blocks, or none.
LEMMA PointersAre ==
  ASSUME NEW n, NEW k, Volume(n, k), NEW b \in {0} \cup Blocks
  PROVE  PointersIn(k, b) \in [1 .. NList -> {0} \cup Blocks]
BY DEF Volume, PointersIn

\* An inode leads to blocks, or to none.
LEMMA AtIsBlock ==
  ASSUME NEW n, NEW k, Volume(n, k), NEW i \in Inodes, NEW p \in Places
  PROVE  AtIn(k, n[i].ptr, p) \in {0} \cup Blocks
<1>1. n[i].ptr \in [Slots -> {0} \cup Blocks]
  BY DEF Volume
<1>2. p[1] \in Slots /\ (p[2] # 0 => p[2] \in 1 .. NList) /\ (p[3] # 0 => p[3] \in 1 .. NList)
  BY PlacesAre, Numbers
<1>3. PointersIn(k, n[i].ptr[p[1]]) \in [1 .. NList -> {0} \cup Blocks]
  BY <1>1, <1>2, PointersAre
<1>4. p[2] # 0 => PointersIn(k, n[i].ptr[p[1]])[p[2]] \in {0} \cup Blocks
  BY <1>2, <1>3
<1>5. p[2] # 0 => PointersIn(k, PointersIn(k, n[i].ptr[p[1]])[p[2]])
                    \in [1 .. NList -> {0} \cup Blocks]
  BY <1>4, PointersAre
<1> QED BY <1>1, <1>2, <1>4, <1>5 DEF AtIn

\* ... so its tree is made of blocks.
LEMMA TreeIsBlocks ==
  ASSUME NEW n, NEW k, Volume(n, k), NEW i \in Inodes
  PROVE  TreeIn(n, k, i) \subseteq Blocks
BY AtIsBlock DEF TreeIn

\* A directory with entries is one that a scan can go through, and names inodes.
LEMMA EntriesAre ==
  ASSUME NEW n, NEW k, Volume(n, k), NEW i \in Inodes
  PROVE  /\ DOMAIN EntriesIn(n, k, i) # {} => Kept(EntriesIn(n, k, i)) /\ n[i].mode = "dir"
         /\ \A o \in DOMAIN EntriesIn(n, k, i) : EntriesIn(n, k, i)[o].ino \in Inodes
         /\ KidsIn(n, k, i) \subseteq Inodes
<1>1. n[i].ptr[1] \in {0} \cup Blocks
  BY Numbers DEF Volume
<1>2. CASE n[i].mode = "dir" /\ k[n[i].ptr[1]].is = "dir"
  <2>1. EntriesIn(n, k, i) = k[n[i].ptr[1]].at
    BY <1>2 DEF EntriesIn
  <2>2. Kept(EntriesIn(n, k, i))
    BY <1>1, <1>2, <2>1 DEF Volume
  <2> QED BY <1>2, <2>2 DEF Kept, KidsIn, ProperIn
<1>3. CASE ~(n[i].mode = "dir" /\ k[n[i].ptr[1]].is = "dir")
  <2>1. DOMAIN EntriesIn(n, k, i) = {}
    BY <1>3 DEF EntriesIn
  <2> QED BY <2>1 DEF KidsIn, ProperIn
<1> QED BY <1>2, <1>3

\* The trees and directories of inodes that no step has touched.
LEMMA DiskSame ==
  ASSUME NEW n, NEW k, NEW l, NEW i, \A b \in TreeIn(n, k, i) : l[b] = k[b], NEW p \in Places
  PROVE  AtIn(l, n[i].ptr, p) = AtIn(k, n[i].ptr, p)
<1>1. CASE p[2] = 0
  BY <1>1 DEF AtIn
<1>2. ASSUME p[2] # 0
      PROVE  PointersIn(l, n[i].ptr[p[1]]) = PointersIn(k, n[i].ptr[p[1]])
  <2>1. <<p[1], 0, 0>> \in Places
    BY PlacesAre
  <2>2. AtIn(k, n[i].ptr, <<p[1], 0, 0>>) = n[i].ptr[p[1]]
    BY DEF AtIn
  <2>3. n[i].ptr[p[1]] # 0 => n[i].ptr[p[1]] \in TreeIn(n, k, i)
    BY <2>1, <2>2 DEF TreeIn
  <2> QED BY <2>3 DEF PointersIn
<1>3. CASE p[2] # 0 /\ p[3] = 0
  BY <1>2, <1>3 DEF AtIn
<1>4. CASE p[2] # 0 /\ p[3] # 0
  <2> DEFINE c == PointersIn(k, n[i].ptr[p[1]])[p[2]]
  <2>1. <<p[1], p[2], 0>> \in Places
    BY <1>4, PlacesAre, Numbers
  <2>2. AtIn(k, n[i].ptr, <<p[1], p[2], 0>>) = c
    BY <1>4 DEF AtIn
  <2>3. c # 0 => c \in TreeIn(n, k, i)
    BY <2>1, <2>2 DEF TreeIn
  <2>4. PointersIn(l, c) = PointersIn(k, c)
    <3> HIDE DEF c
    <3> QED BY <2>3 DEF PointersIn
  <2> QED BY <1>2, <1>4, <2>4 DEF AtIn
<1> QED BY <1>1, <1>3, <1>4

\* The tree is the same,
LEMMA TreeSame ==
  ASSUME NEW n, NEW k, NEW m, NEW l, NEW i, m[i] = n[i],
         \A b \in TreeIn(n, k, i) : l[b] = k[b]
  PROVE  /\ \A p \in Places : AtIn(l, m[i].ptr, p) = AtIn(k, n[i].ptr, p)
         /\ TreeIn(m, l, i) = TreeIn(n, k, i)
         /\ HeldIn(m, l, i) = HeldIn(n, k, i)
<1>1. ASSUME NEW p \in Places
      PROVE  AtIn(l, m[i].ptr, p) = AtIn(k, n[i].ptr, p)
  BY DiskSame
<1> QED BY <1>1 DEF TreeIn, HeldIn

\* What a slot of i_block holds is in the tree.
LEMMA SlotInTree ==
  ASSUME NEW n, NEW k, NEW i, NEW s \in Slots
  PROVE  /\ AtIn(k, n[i].ptr, <<s, 0, 0>>) = n[i].ptr[s]
         /\ n[i].ptr[s] # 0 => n[i].ptr[s] \in TreeIn(n, k, i)
<1>1. AtIn(k, n[i].ptr, <<s, 0, 0>>) = n[i].ptr[s]
  BY DEF AtIn
<1> QED BY <1>1, PlacesAre DEF TreeIn

\* ... and the same entries.
LEMMA EntriesSame ==
  ASSUME NEW n, NEW k, NEW m, NEW l, NEW i, m[i] = n[i],
         \A b \in TreeIn(n, k, i) : l[b] = k[b],
         n[i].mode = "dir" => n[i].ptr[1] # 0
  PROVE  /\ EntriesIn(m, l, i) = EntriesIn(n, k, i)
         /\ ProperIn(m, l, i) = ProperIn(n, k, i)
         /\ KidsIn(m, l, i) = KidsIn(n, k, i)
<1>1. n[i].mode = "dir" => l[n[i].ptr[1]] = k[n[i].ptr[1]]
  BY SlotInTree, Numbers
<1>2. EntriesIn(m, l, i) = EntriesIn(n, k, i)
  BY <1>1 DEF EntriesIn
<1>3. ProperIn(m, l, i) = ProperIn(n, k, i)
  BY <1>2 DEF ProperIn
<1> QED BY <1>2, <1>3 DEF KidsIn

\* The structure of inodes that no step has touched is kept,
LEMMA StructureSame ==
  ASSUME NEW n, NEW k, NEW m, NEW l, NEW L, Structure(n, k, L),
         \A i \in L : m[i] = n[i],
         \A i \in L : \A b \in TreeIn(n, k, i) : l[b] = k[b]
  PROVE  Structure(m, l, L)
<1>1. ASSUME NEW i \in L
      PROVE  /\ \A p \in Places : AtIn(l, m[i].ptr, p) = AtIn(k, n[i].ptr, p)
             /\ TreeIn(m, l, i) = TreeIn(n, k, i)
  <2>1. m[i] = n[i] /\ \A b \in TreeIn(n, k, i) : l[b] = k[b]
    OBVIOUS
  <2>2. TreeIn(m, l, i) = TreeIn(n, k, i)
    BY <2>1, TreeSame
  <2>3. ASSUME NEW p \in Places PROVE AtIn(l, m[i].ptr, p) = AtIn(k, n[i].ptr, p)
    BY <2>1, TreeSame
  <2> QED BY <2>2, <2>3
<1>2. ASSUME NEW i \in L
      PROVE  /\ EntriesIn(m, l, i) = EntriesIn(n, k, i)
             /\ ProperIn(m, l, i) = ProperIn(n, k, i)
  <2>1. n[i].mode = "dir" => n[i].ptr[1] # 0
    BY DEF Structure, Sound
  <2> QED BY <2>1, EntriesSame
<1>3. Sound(m, l, L)
  <2>1. ASSUME NEW i \in L, n[i].mode = "dir"
        PROVE  l[n[i].ptr[1]] = k[n[i].ptr[1]]
    <3>1. n[i].ptr[1] # 0 /\ 1 \in Slots
      BY <2>1, Numbers DEF Structure, Sound
    <3>2. n[i].ptr[1] \in TreeIn(n, k, i)
      BY <3>1, SlotInTree
    <3> QED BY <3>2
  <2> QED BY <1>1, <2>1 DEF Structure, Sound
<1>4. Unshared(m, l, L)
  BY <1>1 DEF Structure, Unshared
<1>5. OneName(m, l, L)
  BY <1>2 DEF Structure, OneName
<1> QED BY <1>3, <1>4, <1>5 DEF Structure

\* ... and that of fewer inodes.
LEMMA StructureDown ==
  ASSUME NEW n, NEW k, NEW L, Structure(n, k, L), NEW M, M \subseteq L
  PROVE  Structure(n, k, M)
BY DEF Structure, Sound, Unshared, OneName

\* What is reached when no step has touched it.
LEMMA ReachUntouched ==
  ASSUME NEW n, NEW k, NEW m, NEW l, Volume(n, k), Volume(m, l),
         NEW S, S \subseteq Inodes, NEW R, R = ReachIn(n, k, S), Sound(n, k, R),
         \A i \in R : m[i] = n[i],
         \A i \in R : \A b \in TreeIn(n, k, i) : l[b] = k[b]
  PROVE  ReachIn(m, l, S) = R
<1>1. \A i \in Inodes : KidsIn(n, k, i) \subseteq Inodes /\ KidsIn(m, l, i) \subseteq Inodes
  BY EntriesAre
<1>2. ASSUME NEW i \in R PROVE KidsIn(m, l, i) = KidsIn(n, k, i)
  <2>1. n[i].mode = "dir" => n[i].ptr[1] # 0
    BY DEF Sound
  <2> QED BY <2>1, EntriesSame
<1>3. \A i \in ReachIn(n, k, S) : KidsIn(m, l, i) = KidsIn(n, k, i)
  BY <1>2
<1> QED BY <1>1, <1>3, ReachSame

(***************************************************************************)
(* One directory d of L is written: e is in its block now.                 *)
(***************************************************************************)
LEMMA DirectoryIs ==
  ASSUME NEW n, NEW k, Volume(n, k), NEW L, L \subseteq Inodes, Sound(n, k, L),
         NEW d \in L, n[d].mode = "dir"
  PROVE  /\ n[d].ptr[1] \in Blocks /\ n[d].ptr[1] \in TreeIn(n, k, d)
         /\ n[d].ptr[1] \notin Reserved
         /\ EntriesIn(n, k, d) = k[n[d].ptr[1]].at /\ Kept(EntriesIn(n, k, d))
<1>1. n[d].ptr[1] # 0 /\ k[n[d].ptr[1]].is = "dir" /\ TreeIn(n, k, d) \cap Reserved = {}
  BY DEF Sound
<1>2. d \in Inodes /\ n[d].ptr[1] \in TreeIn(n, k, d)
  BY <1>1, SlotInTree, Numbers
<1>3. n[d].ptr[1] \in Blocks
  BY <1>2, TreeIsBlocks
<1> QED BY <1>1, <1>2, <1>3 DEF EntriesIn, Volume

\* A directory has one block, whatever is in it.
LEMMA DirectoryTree ==
  ASSUME NEW f, \A s \in Slots \ {1} : f[s] = 0,
         NEW l, NEW p \in Places
  PROVE  AtIn(l, f, p) = IF p = <<1, 0, 0>> THEN f[1] ELSE 0
<1>1. \A s \in Slots \ {1} : f[s] = 0
  OBVIOUS
<1>2. p = <<p[1], p[2], p[3]>> /\ p[1] \in Slots
  BY PlacesAre
<1>3. CASE p[2] = 0
  <2>1. p[3] = 0
    BY <1>3, PlacesAre
  <2>2. p = <<1, 0, 0>> <=> p[1] = 1
    BY <1>2, <1>3, <2>1
  <2> QED BY <1>1, <1>2, <1>3, <2>2 DEF AtIn
<1>4. CASE p[2] # 0
  <2>1. p[1] # 1 /\ p[2] \in 1 .. NList /\ (p[3] # 0 => p[3] \in 1 .. NList)
    BY <1>4, PlacesAre, Numbers
  <2>2. f[p[1]] = 0
    BY <1>1, <1>2, <2>1
  <2>3. PointersIn(l, 0) = [j \in 1 .. NList |-> 0]
    BY DEF PointersIn
  <2>4. p # <<1, 0, 0>>
    BY <1>4
  <2>5. PointersIn(l, f[p[1]])[p[2]] = 0
    BY <2>1, <2>2, <2>3
  <2>6. p[3] # 0 => PointersIn(l, PointersIn(l, f[p[1]])[p[2]])[p[3]] = 0
    BY <2>1, <2>3, <2>5
  <2>7. AtIn(l, f, p) = 0
    BY <1>4, <2>5, <2>6 DEF AtIn
  <2> QED BY <2>4, <2>7
<1> QED BY <1>3, <1>4

\* Block c of disk k is written.
Written(k, l, c, v) ==
  DOMAIN l = DOMAIN k /\ l[c] = v /\ \A b \in DOMAIN k \ {c} : l[b] = k[b]

\* A write of one block leaves the others alone.
LEMMA WrittenIs ==
  ASSUME NEW k, NEW c \in DOMAIN k, NEW v
  PROVE  Written(k, [k EXCEPT ![c] = v], c, v)
BY DEF Written

\* Two entries for one inode are the same entry.
LEMMA OneNameIs ==
  ASSUME NEW n, NEW k, NEW L, OneName(n, k, L), NEW i \in L, NEW j \in L,
         NEW o \in ProperIn(n, k, i), NEW q \in ProperIn(n, k, j),
         EntriesIn(n, k, i)[o].ino = EntriesIn(n, k, j)[q].ino
  PROVE  i = j /\ o = q
BY DEF OneName

\* ... so no inode is in two directories.
LEMMA OneParent ==
  ASSUME NEW n, NEW k, NEW L, OneName(n, k, L), NEW i \in L, NEW j \in L,
         NEW y, y \in KidsIn(n, k, i), y \in KidsIn(n, k, j)
  PROVE  i = j
<1>1. PICK o \in ProperIn(n, k, i) : y = EntriesIn(n, k, i)[o].ino
  BY DEF KidsIn
<1>2. PICK q \in ProperIn(n, k, j) : y = EntriesIn(n, k, j)[q].ino
  BY DEF KidsIn
<1> QED BY <1>1, <1>2, OneNameIs

\* No block is in the trees of two inodes.
LEMMA OtherTree ==
  ASSUME NEW n, NEW k, NEW L, Unshared(n, k, L), NEW i \in L, NEW j \in L, i # j,
         NEW b \in TreeIn(n, k, i)
  PROVE  b \notin TreeIn(n, k, j)
BY DEF Unshared, TreeIn

\* A directory written back in its block disturbs no other file or directory.
LEMMA DirectoryWritten ==
  ASSUME NEW n, NEW k, Volume(n, k), NEW L, L \subseteq Inodes, Structure(n, k, L),
         NEW d \in L, n[d].mode = "dir", NEW e, Kept(e),
         NEW l, Written(k, l, n[d].ptr[1], Dir(e))
  PROVE  /\ Volume(n, l) /\ Sound(n, l, L) /\ Unshared(n, l, L)
         /\ \A i \in L : TreeIn(n, l, i) = TreeIn(n, k, i) /\ HeldIn(n, l, i) = HeldIn(n, k, i)
         /\ \A i \in L \ {d} : /\ EntriesIn(n, l, i) = EntriesIn(n, k, i)
                              /\ ProperIn(n, l, i) = ProperIn(n, k, i)
                              /\ KidsIn(n, l, i) = KidsIn(n, k, i)
         /\ EntriesIn(n, l, d) = e
<1> DEFINE c == n[d].ptr[1]
<1>1. c \in Blocks /\ c \in TreeIn(n, k, d)
  BY DirectoryIs DEF Structure
<1>2. Dir(e).is = "dir" /\ Dir(e).at = e
  BY DEF Dir
<1>3. /\ DOMAIN l = {0} \cup Blocks /\ l[c] = Dir(e)
      /\ \A b \in ({0} \cup Blocks) \ {c} : l[b] = k[b]
  BY <1>1 DEF Volume, Written
<1> HIDE DEF c
<1>4. Volume(n, l)
  <2>1. \A b \in {0} \cup Blocks :
          /\ l[b].is \in {"data", "list", "dir"}
          /\ l[b].is = "list" => l[b].at \in [1 .. NList -> {0} \cup Blocks]
          /\ l[b].is = "dir" => Kept(l[b].at)
    BY <1>2, <1>3 DEF Volume
  <2> QED BY <1>3, <2>1 DEF Volume
<1>5. ASSUME NEW i \in L \ {d}, NEW b \in TreeIn(n, k, i)
      PROVE  l[b] = k[b]
  <2>1. b \in Blocks
    BY TreeIsBlocks
  <2>2. b # c
    BY <1>1, OtherTree DEF Structure
  <2> QED BY <1>3, <2>1, <2>2
<1>6. ASSUME NEW i \in L, NEW p \in Places
      PROVE  AtIn(l, n[i].ptr, p) = AtIn(k, n[i].ptr, p)
  <2>1. CASE i = d
    <3>1. \A s \in Slots \ {1} : n[d].ptr[s] = 0
      BY DEF Structure, Sound
    <3>2. AtIn(l, n[d].ptr, p) = IF p = <<1, 0, 0>> THEN n[d].ptr[1] ELSE 0
      BY <3>1, DirectoryTree
    <3>3. AtIn(k, n[d].ptr, p) = IF p = <<1, 0, 0>> THEN n[d].ptr[1] ELSE 0
      BY <3>1, DirectoryTree
    <3> QED BY <2>1, <3>2, <3>3
  <2>2. CASE i # d
    <3>1. \A b \in TreeIn(n, k, i) : l[b] = k[b]
      BY <1>5, <2>2
    <3> QED BY <3>1, DiskSame
  <2> QED BY <2>1, <2>2
<1>7. \A i \in L : TreeIn(n, l, i) = TreeIn(n, k, i) /\ HeldIn(n, l, i) = HeldIn(n, k, i)
  BY <1>6 DEF TreeIn, HeldIn
<1>8. ASSUME NEW i \in L \ {d}
      PROVE  /\ EntriesIn(n, l, i) = EntriesIn(n, k, i)
             /\ ProperIn(n, l, i) = ProperIn(n, k, i)
             /\ KidsIn(n, l, i) = KidsIn(n, k, i)
  <2>1. \A b \in TreeIn(n, k, i) : l[b] = k[b]
    BY <1>5
  <2>2. n[i].mode = "dir" => n[i].ptr[1] # 0
    BY DEF Structure, Sound
  <2> QED BY <2>1, <2>2, EntriesSame
<1>9. EntriesIn(n, l, d) = e
  BY <1>2, <1>3 DEF EntriesIn, c
<1>10. Unshared(n, l, L)
  BY <1>6 DEF Structure, Unshared
<1>11. ASSUME NEW i \in L, n[i].mode = "dir" PROVE l[n[i].ptr[1]].is = "dir"
  <2>1. CASE i = d
    BY <1>2, <1>3, <2>1 DEF c
  <2>2. CASE i # d
    <3>1. n[i].ptr[1] \in TreeIn(n, k, i) /\ k[n[i].ptr[1]].is = "dir"
      BY <1>11, SlotInTree, Numbers DEF Structure, Sound
    <3> QED BY <1>5, <2>2, <3>1
  <2> QED BY <2>1, <2>2
<1>12. Sound(n, l, L)
  BY <1>7, <1>11 DEF Structure, Sound
<1> QED BY <1>4, <1>7, <1>8, <1>9, <1>10, <1>12

(***************************************************************************)
(* A name is removed: what it named and what is below it is no longer      *)
(* reached from the root, and everything else is as it was.                *)
(***************************************************************************)
Unlinking(n, k, R, d, o, e, l) ==
  /\ Volume(n, k) /\ R \subseteq Inodes /\ Root \in R /\ Closed(n, k, R)
  /\ Structure(n, k, R) /\ d \in R /\ n[d].mode = "dir" /\ o \in ProperIn(n, k, d)
  /\ Kept(e) /\ DOMAIN e = DOMAIN EntriesIn(n, k, d) \ {o}
  /\ \A y \in DOMAIN e : /\ e[y].ino = EntriesIn(n, k, d)[y].ino
                         /\ e[y].name = EntriesIn(n, k, d)[y].name
  /\ Written(k, l, n[d].ptr[1], Dir(e))

Parted(n, l, R, x) ==
  /\ x \in R /\ ReachIn(n, l, {Root}) \subseteq R /\ ReachIn(n, l, {x}) \subseteq R
  /\ ReachIn(n, l, {Root}) \cap ReachIn(n, l, {x}) = {}

\* When an entry is gone, what is still reached and what the entry led to are apart.
LEMMA Unlinked ==
  ASSUME NEW n, NEW k, NEW R, NEW d, NEW o, NEW e, NEW l, Unlinking(n, k, R, d, o, e, l),
         NEW x, x = EntriesIn(n, k, d)[o].ino
  PROVE  /\ Volume(n, l) /\ Structure(n, l, R) /\ Parted(n, l, R, x)
         /\ \A i \in R : TreeIn(n, l, i) = TreeIn(n, k, i) /\ HeldIn(n, l, i) = HeldIn(n, k, i)
<1> USE DEF Unlinking
<1> PICK P : P = ReachIn(n, l, {Root})
  OBVIOUS
<1> PICK D : D = ReachIn(n, l, {x})
  OBVIOUS
<1>1. /\ Volume(n, l) /\ Sound(n, l, R) /\ Unshared(n, l, R)
      /\ \A i \in R : TreeIn(n, l, i) = TreeIn(n, k, i) /\ HeldIn(n, l, i) = HeldIn(n, k, i)
      /\ \A i \in R \ {d} : /\ EntriesIn(n, l, i) = EntriesIn(n, k, i)
                           /\ ProperIn(n, l, i) = ProperIn(n, k, i)
                           /\ KidsIn(n, l, i) = KidsIn(n, k, i)
      /\ EntriesIn(n, l, d) = e
  BY DirectoryWritten
<1>2. \A i \in Inodes : KidsIn(n, l, i) \subseteq Inodes
  BY <1>1, EntriesAre
<1>3. ProperIn(n, l, d) = ProperIn(n, k, d) \ {o}
  BY <1>1 DEF ProperIn
<1>4. \A q \in ProperIn(n, l, d) : q \in DOMAIN e
  BY <1>1 DEF ProperIn
<1>5. \A i \in R : \A q \in ProperIn(n, l, i) :
        q \in ProperIn(n, k, i) /\ EntriesIn(n, l, i)[q].ino = EntriesIn(n, k, i)[q].ino
  BY <1>1, <1>3, <1>4
<1>6. \A i \in R : KidsIn(n, l, i) \subseteq KidsIn(n, k, i)
  BY <1>5 DEF KidsIn
<1>7. OneName(n, k, R)
  BY DEF Structure
<1>8. OneName(n, l, R)
  BY <1>5, <1>7 DEF OneName
<1>9. /\ x \in KidsIn(n, k, d) /\ x \in R /\ x # Root /\ x \in Inodes
      /\ \A i \in R : \A q \in ProperIn(n, k, i) : x = EntriesIn(n, k, i)[q].ino => i = d /\ q = o
  <2>1. x \in KidsIn(n, k, d)
    BY DEF KidsIn
  <2>2. /\ x # Root
        /\ \A i \in R : \A q \in ProperIn(n, k, i) : x = EntriesIn(n, k, i)[q].ino => i = d /\ q = o
    BY <1>7 DEF OneName
  <2> QED BY <2>1, <2>2 DEF Closed
<1>10. \A i \in R \cap Inodes : KidsIn(n, l, i) \subseteq R
  BY <1>6 DEF Closed
<1>11. {Root} \subseteq Inodes /\ {Root} \subseteq R /\ {x} \subseteq Inodes /\ {x} \subseteq R
  BY <1>9
<1>12. P \subseteq R
  BY <1>2, <1>10, <1>11, ReachLeast
<1>13. D \subseteq R
  BY <1>2, <1>10, <1>11, ReachLeast
<1>14. {Root} \subseteq P /\ P \subseteq Inodes /\ Closed(n, l, P)
  BY <1>2, <1>11, ReachHolds
<1>15. ASSUME NEW y \in D, y # x PROVE \E i \in D : y \in KidsIn(n, l, i)
  <2>1. y \in ReachIn(n, l, {x}) /\ y \notin {x}
    BY <1>15
  <2>2. \E i \in ReachIn(n, l, {x}) : y \in KidsIn(n, l, i)
    BY <1>2, <1>11, <2>1, ReachParent
  <2> QED BY <2>2
\* Two names of one inode are one name, and the name of x is gone.
<1>16. \A i, j \in R : \A y \in KidsIn(n, l, i) \cap KidsIn(n, l, j) : i = j
  BY <1>8, OneParent
<1>17. ASSUME NEW i \in R PROVE x \notin KidsIn(n, l, i)
  <2> SUFFICES ASSUME x \in KidsIn(n, l, i) PROVE FALSE
    OBVIOUS
  <2>1. PICK q \in ProperIn(n, l, i) : x = EntriesIn(n, l, i)[q].ino
    BY DEF KidsIn
  <2>2. q \in ProperIn(n, k, i) /\ x = EntriesIn(n, k, i)[q].ino
    BY <1>5, <2>1
  <2>4. i = d /\ q = o
    BY <1>9, <2>2
  <2> QED BY <1>3, <2>1, <2>4
<1>18. \A i \in (P \ D) \cap Inodes : KidsIn(n, l, i) \subseteq P \ D
  <2> SUFFICES ASSUME NEW i \in P \ D, NEW y \in KidsIn(n, l, i), y \in D PROVE FALSE
    BY <1>14 DEF Closed
  <2>1. i \in R
    BY <1>12
  <2>2. y # x
    BY <1>17, <2>1
  <2>3. PICK j \in D : y \in KidsIn(n, l, j)
    BY <1>15, <2>2
  <2>4. i = j
    BY <1>13, <1>16, <2>1, <2>3
  <2> QED BY <2>4
<1>19. Root \notin D
  <2> SUFFICES ASSUME Root \in D PROVE FALSE
    OBVIOUS
  <2>1. PICK i \in D : Root \in KidsIn(n, l, i)
    BY <1>9, <1>15
  <2>2. i \in R
    BY <1>13
  <2>3. PICK q \in ProperIn(n, l, i) : Root = EntriesIn(n, l, i)[q].ino
    BY <2>1 DEF KidsIn
  <2> QED BY <1>8, <2>2, <2>3 DEF OneName
<1>20. {Root} \subseteq P \ D
  BY <1>14, <1>19
<1>21. ReachIn(n, l, {Root}) \subseteq P \ D
  BY <1>2, <1>11, <1>18, <1>20, ReachLeast
<1>22. P \cap D = {}
  BY <1>21
<1>23. Structure(n, l, R)
  BY <1>1, <1>8 DEF Structure
<1>24. Parted(n, l, R, x)
  BY <1>9, <1>12, <1>13, <1>22 DEF Parted
<1> QED BY <1>1, <1>23, <1>24

(***************************************************************************)
(* A name is given to an inode i that had none.                            *)
(***************************************************************************)
Linking(n, k, R, i, d, f, e, l) ==
  /\ Volume(n, k) /\ R \subseteq Inodes /\ Root \in R /\ Closed(n, k, R)
  /\ i \in Inodes /\ i \notin R
  /\ Structure(n, k, R \cup {i}) /\ ProperIn(n, k, i) = {}
  /\ d \in R /\ n[d].mode = "dir" /\ f = EntriesIn(n, k, d) /\ Kept(e)
  /\ \A y \in DOMAIN f : y \in DOMAIN e /\ e[y].ino = f[y].ino /\ e[y].name = f[y].name
  /\ \A y, q \in DOMAIN e \ DOMAIN f : y = q
  /\ \A y \in DOMAIN e \ DOMAIN f : e[y].ino = i
  /\ Written(k, l, n[d].ptr[1], Dir(e))

\* When an entry is added, what is reached is what was, and the new inode.
LEMMA Linked ==
  ASSUME NEW n, NEW k, NEW R, NEW i, NEW d, NEW f, NEW e, NEW l,
         Linking(n, k, R, i, d, f, e, l), NEW L, L = R \cup {i}
  PROVE  /\ Volume(n, l) /\ Structure(n, l, L)
         /\ \A j \in L : TreeIn(n, l, j) = TreeIn(n, k, j)
         /\ ReachIn(n, l, {Root}) \subseteq L
<1> USE DEF Linking
<1>5. L \subseteq Inodes /\ d \in L
  OBVIOUS
<1>6. /\ Volume(n, l) /\ Sound(n, l, L) /\ Unshared(n, l, L)
      /\ \A j \in L : TreeIn(n, l, j) = TreeIn(n, k, j)
      /\ \A j \in L \ {d} : /\ EntriesIn(n, l, j) = EntriesIn(n, k, j)
                           /\ ProperIn(n, l, j) = ProperIn(n, k, j)
                           /\ KidsIn(n, l, j) = KidsIn(n, k, j)
      /\ EntriesIn(n, l, d) = e
  BY <1>5, DirectoryWritten
<1>7. \A j \in Inodes : KidsIn(n, l, j) \subseteq Inodes
  BY <1>6, EntriesAre
<1>2. OneName(n, k, L)
  BY DEF Structure
\* The entry that is new is the only one that leads to i.
<1>8. ASSUME NEW j \in L, NEW q \in ProperIn(n, l, j)
      PROVE  \/ /\ q \in ProperIn(n, k, j)
                /\ EntriesIn(n, l, j)[q].ino = EntriesIn(n, k, j)[q].ino
                /\ EntriesIn(n, l, j)[q].ino \in R
             \/ j = d /\ q \in DOMAIN e \ DOMAIN f /\ EntriesIn(n, l, j)[q].ino = i
  <2>0. ASSUME NEW y \in R, NEW r \in ProperIn(n, k, y)
        PROVE  EntriesIn(n, k, y)[r].ino \in R
    <3>1. EntriesIn(n, k, y)[r].ino \in KidsIn(n, k, y)
      BY DEF KidsIn
    <3> QED BY <3>1 DEF Closed
  <2>1. CASE j # d
    <3>1. q \in ProperIn(n, k, j) /\ EntriesIn(n, l, j) = EntriesIn(n, k, j)
      BY <1>6, <2>1
    <3>2. j \in R
      BY <3>1
    <3> QED BY <2>0, <3>1, <3>2
  <2>2. CASE j = d /\ q \in DOMAIN f
    <3>1. e[q].ino = f[q].ino /\ e[q].name = f[q].name
      BY <2>2
    <3>2. q \in ProperIn(n, k, j)
      BY <1>6, <2>2, <3>1 DEF ProperIn
    <3>3. EntriesIn(n, l, j)[q].ino = EntriesIn(n, k, j)[q].ino
      BY <1>6, <2>2, <3>1
    <3> QED BY <2>0, <2>2, <3>2, <3>3
  <2>3. CASE j = d /\ q \notin DOMAIN f
    <3>1. q \in DOMAIN e
      BY <1>6, <2>3 DEF ProperIn
    <3> QED BY <1>6, <2>3, <3>1
  <2> QED BY <2>1, <2>2, <2>3
<1>9. OneName(n, l, L)
  <2> SUFFICES ASSUME NEW j \in L, NEW q \in ProperIn(n, l, j)
               PROVE  /\ EntriesIn(n, l, j)[q].ino # Root
                      /\ \A y \in L : \A r \in ProperIn(n, l, y) :
                           EntriesIn(n, l, j)[q].ino = EntriesIn(n, l, y)[r].ino => j = y /\ q = r
    BY DEF OneName
  <2>1. EntriesIn(n, l, j)[q].ino # Root
    BY <1>2, <1>8 DEF OneName
  <2>2. ASSUME NEW y \in L, NEW r \in ProperIn(n, l, y),
               EntriesIn(n, l, j)[q].ino = EntriesIn(n, l, y)[r].ino
        PROVE  j = y /\ q = r
    <3>1. \/ /\ q \in ProperIn(n, k, j)
             /\ EntriesIn(n, l, j)[q].ino = EntriesIn(n, k, j)[q].ino
             /\ EntriesIn(n, l, j)[q].ino \in R
          \/ j = d /\ q \in DOMAIN e \ DOMAIN f /\ EntriesIn(n, l, j)[q].ino = i
      BY <1>8
    <3>2. \/ /\ r \in ProperIn(n, k, y)
             /\ EntriesIn(n, l, y)[r].ino = EntriesIn(n, k, y)[r].ino
             /\ EntriesIn(n, l, y)[r].ino \in R
          \/ y = d /\ r \in DOMAIN e \ DOMAIN f /\ EntriesIn(n, l, y)[r].ino = i
      BY <1>8
    <3>3. CASE EntriesIn(n, l, j)[q].ino = i
      BY <2>2, <3>1, <3>2, <3>3
    <3>4. CASE EntriesIn(n, l, j)[q].ino # i
      BY <1>2, <2>2, <3>1, <3>2, <3>4 DEF OneName
    <3> QED BY <3>3, <3>4
  <2> QED BY <2>1, <2>2
<1>10. \A j \in L \cap Inodes : KidsIn(n, l, j) \subseteq L
  BY <1>8 DEF KidsIn
<1>11. {Root} \subseteq Inodes /\ {Root} \subseteq L
  OBVIOUS
<1>12. ReachIn(n, l, {Root}) \subseteq L
  BY <1>7, <1>10, <1>11, ReachLeast
<1>13. Structure(n, l, L)
  BY <1>6, <1>9 DEF Structure
<1> QED BY <1>6, <1>12, <1>13

(***************************************************************************)
(* The inductive invariant.                                                *)
(***************************************************************************)
\* What ext2_delete_file and ext2_remove_directory are still to free, named no more.
Doomed ==
  IF pc \in {"wipe", "free"}
  THEN ReachIn(inode, disk, {IF stack = <<>> THEN ino ELSE stack[1].ino})
  ELSE {}

Live == Reach \cup Doomed

Typed ==
  /\ bbits \subseteq Blocks /\ ibits \subseteq Inodes
  /\ pc \in {"idle", "blocks", "inode", "link", "wipe", "free"}
  /\ kind \in {"file", "dir"} /\ dir \in Inodes /\ name \in Names \cup {"."}
  /\ size \in {0, 1} \cup Sizes
  /\ plan \subseteq Places \cup {Closing(l) : l \in Places}
  /\ got \in [Places -> {0} \cup Blocks]
  /\ ino \in {0} \cup Inodes
  /\ stack \in Seq([ino : Inodes, at : 0 .. BlockWords])
  /\ faults \in 0 .. MaxFaults /\ clean \in BOOLEAN

Marked ==
  /\ Reserved \subseteq bbits /\ {1, Root} \subseteq ibits
  /\ Reach \subseteq ibits
  /\ \A i \in Reach : Tree(i) \subseteq bbits

\* ext2_write_file and ext2_make_directory: the parent is there and has room.
Creating ==
  pc \in {"blocks", "inode", "link"} =>
    /\ dir \in Reach /\ inode[dir].mode = "dir" /\ name \in Names
    /\ Named(Entries(dir), name) = {} /\ Hosts(Entries(dir)) # {}
    /\ kind = "dir" => size = 1

\* The blocks allocated so far are marked, nowhere else, and each for one place.
Fresh ==
  \A p \in Places : got[p] # 0 =>
    /\ got[p] \in bbits \ Reserved /\ \A i \in Reach : got[p] \notin Tree(i)
    /\ \A q \in Places : got[p] = got[q] => p = q

\* A list that is stored has the blocks it points at, and will not get others.
Stored ==
  \A l \in Places : IsList(l) /\ got[l] # 0 /\ Closing(l) \notin plan =>
    /\ disk[got[l]] = List([j \in 1 .. NList |-> got[Child(l, j)]])
    /\ \A j \in 1 .. NList : Child(l, j) \notin plan

Taking ==
  pc \in {"blocks", "inode"} =>
    /\ Fresh /\ Stored
    /\ \A l \in plan \cap Places : IsList(l) => Closing(l) \in plan
    /\ kind = "dir" => \A p \in Places \ {<<1, 0, 0>>} : got[p] = 0 /\ p \notin plan

HasInode ==
  /\ pc \in {"inode", "link"} => ino \in ibits \ (Reach \cup {1})
  /\ pc = "inode" => plan = {} /\ (kind = "dir" => got[<<1, 0, 0>>] # 0)
  /\ pc = "link" => /\ Structure(inode, disk, Reach \cup {ino})
                    /\ Proper(ino) = {} /\ Tree(ino) \subseteq bbits

Removing ==
  /\ Reach \cap Doomed = {}
  /\ pc = "free" => ino \in Doomed /\ todo \subseteq Held(ino)
  /\ pc # "free" => todo = {}
  /\ pc = "wipe" => stack # <<>>
  /\ \A m \in DOMAIN stack : stack[m].ino \in Doomed
  /\ pc \notin {"blocks", "inode", "link"} => got = NothingGot

IInv ==
  /\ Typed /\ Volume(inode, disk) /\ Structure(inode, disk, Live)
  /\ Marked /\ Creating /\ Taking /\ HasInode /\ Removing

\* What the root leads to holds the root and all its directories name.
LEMMA ReachIsClosed ==
  ASSUME Volume(inode, disk)
  PROVE  Root \in Reach /\ Reach \subseteq Inodes /\ Closed(inode, disk, Reach)
<1>1. \A i \in Inodes : KidsIn(inode, disk, i) \subseteq Inodes
  BY EntriesAre
<1>2. {Root} \subseteq Inodes
  BY Numbers
<1> QED BY <1>1, <1>2, ReachHolds, Reads

\* What is being removed holds all its directories name.
LEMMA DoomedIsClosed ==
  ASSUME Volume(inode, disk), Typed, Removing, pc \in {"wipe", "free"}
  PROVE  Doomed \subseteq Inodes /\ Closed(inode, disk, Doomed)
<1> DEFINE x == IF stack = <<>> THEN ino ELSE stack[1].ino
<1>1. \A i \in Inodes : KidsIn(inode, disk, i) \subseteq Inodes
  BY EntriesAre
<1>2. x \in Inodes
  <2>1. CASE stack = <<>>
    <3>1. pc = "free" /\ ino \in Doomed
      BY <2>1 DEF Removing
    <3> QED BY <2>1, <3>1 DEF Doomed, ReachIn
  <2>2. CASE stack # <<>>
    <3>1. stack \in Seq([ino : Inodes, at : 0 .. BlockWords])
      BY DEF Typed
    <3>2. 1 \in 1 .. Len(stack)
      BY <2>2, <3>1, EmptySeq
    <3>3. stack[1] \in [ino : Inodes, at : 0 .. BlockWords]
      BY <3>1, <3>2, ElementOfSeq
    <3> QED BY <2>2, <3>3
  <2> QED BY <2>1, <2>2
<1>3. {x} \subseteq Inodes /\ Doomed = ReachIn(inode, disk, {x})
  BY <1>2 DEF Doomed
<1> QED BY <1>1, <1>3, ReachHolds

\* Nothing is read differently when neither inodes nor blocks are written.
LEMMA Still ==
  ASSUME UNCHANGED <<inode, disk>>
  PROVE  /\ Reach' = Reach /\ \A S : ReachFrom(S)' = ReachFrom(S)
         /\ \A i : /\ Held(i)' = Held(i) /\ Tree(i)' = Tree(i) /\ Entries(i)' = Entries(i)
                   /\ Proper(i)' = Proper(i)
         /\ Volume(inode, disk)' = Volume(inode, disk)
         /\ \A L : Structure(inode', disk', L) = Structure(inode, disk, L)
<1>1. inode' = inode /\ disk' = disk
  OBVIOUS
<1>2. Volume(inode, disk)' = Volume(inode, disk)
  BY <1>1 DEF Volume, Kept
<1> QED BY <1>1, <1>2, Reads, ReadsNext

\* What the root leads to is the same when none of it is written.
LEMMA ReachKept ==
  ASSUME Volume(inode, disk), Volume(inode', disk'), Sound(inode, disk, Reach),
         \A i \in Reach : inode'[i] = inode[i],
         \A i \in Reach : \A b \in TreeIn(inode, disk, i) : disk'[b] = disk[b]
  PROVE  Reach' = Reach
<1>1. {Root} \subseteq Inodes /\ Reach \subseteq Inodes /\ Reach = ReachIn(inode, disk, {Root})
  BY Numbers, ReachIsClosed, Reads
<1>2. ReachIn(inode', disk', {Root}) = Reach
  BY <1>1, ReachUntouched, SMTT(60)
<1> QED BY <1>2, ReadsNext

\* While something is created, what is reached stays as it is.
LEMMA Around ==
  ASSUME IInv, Volume(inode, disk)', pc \in {"blocks", "inode", "link"},
         pc' \in {"blocks", "inode", "link"},
         UNCHANGED <<callVars, todo, stack>>, bbits \subseteq bbits', ibits \subseteq ibits',
         \A i \in Reach : inode'[i] = inode[i],
         \A i \in Reach : \A b \in Tree(i) : disk'[b] = disk[b]
  PROVE  /\ Reach' = Reach /\ Live' = Reach /\ Structure(inode', disk', Live')
         /\ \A i \in Reach : Tree(i)' = Tree(i)
         /\ Marked' /\ Creating'
         /\ Reach' \cap Doomed' = {} /\ todo' = {}
         /\ \A m \in DOMAIN stack' : stack'[m].ino \in Doomed'
<1>1. /\ Volume(inode, disk) /\ Live = Reach /\ Structure(inode, disk, Reach)
      /\ Root \in Reach /\ Reach \subseteq Inodes /\ Doomed = {} /\ Doomed' = {}
  BY ReachIsClosed DEF IInv, Live, Doomed
<1>2. Volume(inode', disk')
  BY DEF Volume, Kept
<1>3. \A i \in Reach : \A b \in TreeIn(inode, disk, i) : disk'[b] = disk[b]
  BY Reads
<1>4. Reach' = Reach
  <2>1. Sound(inode, disk, Reach)
    BY <1>1 DEF Structure
  <2> QED BY <1>1, <1>2, <1>3, <2>1, ReachKept
<1>5. Structure(inode', disk', Reach)
  BY <1>1, <1>3, StructureSame
<1>6. Live' = Reach
  BY <1>1, <1>4 DEF Live
<1>7. ASSUME NEW i \in Reach
      PROVE  Tree(i)' = Tree(i) /\ Entries(i)' = Entries(i)
  <2>1. inode'[i] = inode[i] /\ \A b \in TreeIn(inode, disk, i) : disk'[b] = disk[b]
    BY <1>3
  <2>2. inode[i].mode = "dir" => inode[i].ptr[1] # 0
    BY <1>1 DEF Structure, Sound
  <2>3. TreeIn(inode', disk', i) = TreeIn(inode, disk, i)
    BY <2>1, TreeSame
  <2>4. EntriesIn(inode', disk', i) = EntriesIn(inode, disk, i)
    BY <2>1, <2>2, EntriesSame
  <2> QED BY <2>3, <2>4, Reads, ReadsNext
<1>8. Marked'
  <2>1. Marked
    BY DEF IInv
  <2>2. /\ Reserved \subseteq bbits' /\ {1, Root} \subseteq ibits' /\ Reach' \subseteq ibits'
    BY <1>4, <2>1 DEF Marked
  <2>3. \A i \in Reach' : Tree(i)' \subseteq bbits'
    BY <1>4, <1>7, <2>1 DEF Marked
  <2> QED BY <2>2, <2>3 DEF Marked
<1>9. Creating'
  <2>1. /\ dir \in Reach /\ inode[dir].mode = "dir" /\ name \in Names
        /\ Named(Entries(dir), name) = {} /\ Hosts(Entries(dir)) # {}
        /\ (kind = "dir" => size = 1)
    BY DEF IInv, Creating
  <2>2. dir' = dir /\ name' = name /\ kind' = kind /\ size' = size
    BY DEF callVars
  <2>3. inode'[dir] = inode[dir] /\ Entries(dir)' = Entries(dir)
    BY <1>7, <2>1, <2>2
  <2>4. Entries(dir') = Entries(dir)
    BY <2>2
  <2>5. EntriesIn(inode', disk', dir') = Entries(dir)
    BY <2>2, <2>3, ReadsNext
  <2>6. (Entries(dir))' = Entries(dir)
    BY <2>5 DEF Entries, EntriesIn, DirBlock
  <2> QED BY <1>4, <2>1, <2>2, <2>3, <2>6 DEF Creating, Named, Hosts, RealLen
<1>10. todo' = {} /\ stack' = stack
  BY DEF IInv, Removing
<1>11. \A m \in DOMAIN stack : stack[m].ino \in Doomed
  BY DEF IInv, Removing
<1> QED BY <1>1, <1>4, <1>5, <1>6, <1>7, <1>8, <1>9, <1>10, <1>11

\* With one group the blocks are those of the first bitmap.
LEMMA OneGroup ==
  ASSUME NGroups = 1
  PROVE  Blocks = 1 .. GroupBlocks /\ GroupBlocks \in Int
BY Ext2Assumption DEF Blocks

\* What is allocated is not marked.
LEMMA FirstClearIs ==
  ASSUME NEW N \in Int, NEW bits
  PROVE  /\ FirstClear(1 .. N, bits) \in {0} \cup (1 .. N)
         /\ FirstClear(1 .. N, bits) # 0 => FirstClear(1 .. N, bits) \notin bits
<1>1. CASE 1 .. N \subseteq bits
  BY <1>1 DEF FirstClear
<1>2. CASE ~(1 .. N \subseteq bits)
  <2> DEFINE T == (1 .. N) \ bits
  <2>1. T # {} /\ T \subseteq 0 .. N
    BY <1>2
  <2>2. \E x \in T : \A y \in T : x <= y
    BY <2>1, MinExists
  <2>3. Min(T) \in T
    <3> HIDE DEF T
    <3> QED BY <2>2 DEF Min
  <2>4. FirstClear(1 .. N, bits) = Min(T)
    BY <1>2 DEF FirstClear
  <2> QED BY <2>3, <2>4
<1> QED BY <1>1, <1>2

\* Places are in one order.
LEMMA BeforeOnce ==
  ASSUME NEW a, NEW b, a[1] \in Int, a[2] \in Int, a[3] \in Int,
         b[1] \in Int, b[2] \in Int, b[3] \in Int, Before(a, b)
  PROVE  ~Before(b, a)
BY DEF Before

\* The lists: the single one, the double one, and those it points at.
LEMMA ListIs ==
  ASSUME NEW l \in Places, IsList(l)
  PROVE  \/ l = <<Single, 0, 0>>
         \/ l = <<Double, 0, 0>>
         \/ l[2] \in 1 .. NList /\ l = <<Double, l[2], 0>>
BY PlacesAre, Numbers DEF IsList

\* A list is stored behind all that it points at.
LEMMA ClosingIs ==
  ASSUME NEW l \in Places, IsList(l)
  PROVE  /\ Closing(l) \notin Places /\ ~IsDirect(Closing(l))
         /\ ~Before(Closing(l), l)
         /\ \A j \in 1 .. NList : Child(l, j) \in Places /\ ~Before(Closing(l), Child(l, j))
         /\ \A j \in 1 .. NList : Child(l, j) # l
<1>1. CASE l = <<Single, 0, 0>>
  <2>1. Closing(l) = <<Single, NList + 1, 0>> /\ \A j : Child(l, j) = <<Single, j, 0>>
    BY <1>1 DEF IsList, Closing, Child
  <2> QED BY <1>1, <2>1, PlacesAre, Numbers DEF Before, IsDirect
<1>2. CASE l = <<Double, 0, 0>>
  <2>1. Closing(l) = <<Double, NList + 1, 0>> /\ \A j : Child(l, j) = <<Double, j, 0>>
    BY <1>2, Numbers DEF IsList, Closing, Child
  <2> QED BY <1>2, <2>1, PlacesAre, Numbers DEF Before, IsDirect
<1>3. CASE l[2] \in 1 .. NList /\ l = <<Double, l[2], 0>>
  <2>1. Closing(l) = <<Double, l[2], NList + 1>> /\ \A j : Child(l, j) = <<Double, l[2], j>>
    BY <1>3, Numbers DEF IsList, Closing, Child
  <2> QED BY <1>3, <2>1, PlacesAre, Numbers DEF Before, IsDirect
<1> QED BY <1>1, <1>2, <1>3, ListIs

\* No two lists are stored at the same time.
LEMMA ClosingOnce ==
  ASSUME NEW l \in Places, IsList(l), NEW m \in Places, IsList(m), Closing(l) = Closing(m)
  PROVE  l = m
<1>1. ASSUME NEW k \in Places, IsList(k)
      PROVE  \/ k = <<Single, 0, 0>> /\ Closing(k) = <<Single, NList + 1, 0>>
             \/ k = <<Double, 0, 0>> /\ Closing(k) = <<Double, NList + 1, 0>>
             \/ /\ k[2] \in 1 .. NList /\ k = <<Double, k[2], 0>>
                /\ Closing(k) = <<Double, k[2], NList + 1>>
  <2>1. CASE k = <<Single, 0, 0>>
    BY <2>1 DEF IsList, Closing, Child
  <2>2. CASE k = <<Double, 0, 0>>
    BY <2>2, Numbers DEF IsList, Closing, Child
  <2>3. CASE k[2] \in 1 .. NList /\ k = <<Double, k[2], 0>>
    BY <2>3, Numbers DEF IsList, Closing, Child
  <2> QED BY <1>1, <2>1, <2>2, <2>3, ListIs
<1>2. \/ l = <<Single, 0, 0>> /\ Closing(l) = <<Single, NList + 1, 0>>
      \/ l = <<Double, 0, 0>> /\ Closing(l) = <<Double, NList + 1, 0>>
      \/ /\ l[2] \in 1 .. NList /\ l = <<Double, l[2], 0>>
         /\ Closing(l) = <<Double, l[2], NList + 1>>
  BY <1>1
<1>3. \/ m = <<Single, 0, 0>> /\ Closing(m) = <<Single, NList + 1, 0>>
      \/ m = <<Double, 0, 0>> /\ Closing(m) = <<Double, NList + 1, 0>>
      \/ /\ m[2] \in 1 .. NList /\ m = <<Double, m[2], 0>>
         /\ Closing(m) = <<Double, m[2], NList + 1>>
  BY <1>1
<1>4. Single # Double /\ NList + 1 \notin 1 .. NList
  BY Numbers
<1> QED BY <1>2, <1>3, <1>4

\* What ext2_make_directory plans: one direct block.
LEMMA PlanOfOne == \A p \in Plan(1) \cap Places : p = <<1, 0, 0>>
<1>1. ASSUME NEW p \in DataPlaces(1) PROVE p = <<1, 0, 0>>
  <2>1. p \in Places /\ ~IsList(p) /\ Position(p) < 1
    BY DEF DataPlaces
  <2>2. /\ p = <<p[1], p[2], p[3]>> /\ p[1] \in 1 .. NDirect + 2
        /\ p[2] \in 0 .. NList /\ p[3] \in 0 .. NList
        /\ (p[2] = 0 => p[3] = 0) /\ (p[2] # 0 => p[1] \in {Single, Double})
        /\ (p[3] # 0 => p[1] = Double)
    BY <2>1, PlacesAre, Numbers
  <2>3. CASE p[1] <= NDirect
    BY <2>1, <2>2, <2>3, Numbers DEF Position, IsDirect
  <2>4. CASE p[1] = Single
    BY <2>1, <2>2, <2>4, Numbers DEF Position, IsDirect, IsList
  <2>5. CASE p[1] = Double
    <3>1. p[2] - 1 \in Nat /\ NList \in Nat /\ p[3] >= 1
      BY <2>1, <2>2, <2>5, Numbers DEF IsList
    <3> DEFINE x == (p[2] - 1) * NList
    <3>2. x \in Nat
      BY <3>1
    <3>3. Position(p) = NDirect + NList + x + p[3] - 1
      BY <2>5, Numbers DEF Position, IsDirect
    <3> HIDE DEF Position, x
    <3> QED BY <2>1, <2>2, <3>1, <3>2, <3>3, Numbers, SMTT(60)
  <2> QED BY <2>2, <2>3, <2>4, <2>5, Numbers
<1>2. ASSUME NEW l \in Filled(1) PROVE l = <<1, 0, 0>>
  <2>1. l \in Places /\ LeadsTo(l, <<1, 0, 0>>)
    BY <1>1 DEF Filled
  <2> QED BY <2>1, PlacesAre DEF LeadsTo
<1>3. ~IsList(<<1, 0, 0>>)
  BY Numbers DEF IsList
<1> QED BY <1>2, <1>3 DEF Plan, Closing

\* What is planned: places, and the storing of each list among them.
LEMMA PlanIs ==
  ASSUME NEW z
  PROVE  /\ Plan(z) \subseteq Places \cup {Closing(l) : l \in Places}
         /\ \A l \in Plan(z) \cap Places : IsList(l) => Closing(l) \in Plan(z)
<1>1. Filled(z) \subseteq Places
  BY DEF Filled
<1>2. ASSUME NEW l \in Plan(z) \cap Places, IsList(l) PROVE Closing(l) \in Plan(z)
  <2>1. CASE l \in Filled(z)
    BY <2>1 DEF Plan
  <2>2. CASE l \notin Filled(z)
    <3>1. PICK m \in Filled(z) : l = Closing(m)
      BY <2>2 DEF Plan
    <3>2. ~IsList(m)
      BY <1>1, <3>1, ClosingIs
    <3> QED BY <2>2, <3>1, <3>2 DEF Closing
  <2> QED BY <2>1, <2>2
<1> QED BY <1>1, <1>2 DEF Plan

(***************************************************************************)
(* The volume that mke2fs leaves.                                          *)
(***************************************************************************)
LEMMA RootBlockIs == RootBlock \in Blocks \ Reserved /\ Reserved \subseteq Blocks
<1>1. NReserved \in Int /\ 1 <= NReserved /\ NReserved <= GroupBlocks - 1 /\ GroupBlocks \in Int
  BY Ext2Assumption
<1>2. RootBlock \in Blocks
  BY <1>1, Ext2Assumption DEF RootBlock, Blocks
<1>3. (RootBlock - 1) % GroupBlocks = NReserved
  BY <1>1 DEF RootBlock
<1>4. RootBlock \notin Reserved
  BY <1>1, <1>3 DEF Reserved
<1> QED BY <1>2, <1>4 DEF Reserved

\* The volume mke2fs makes: a root with no names.
LEMMA EmptyRoot ==
  ASSUME NEW n, NEW k,
         n = [i \in Inodes |->
                IF i = Root THEN Inode("dir", 1, [NoBlocks EXCEPT ![1] = RootBlock])
                            ELSE Inode("none", 0, NoBlocks)],
         k = [b \in {0} \cup Blocks |->
                IF b = RootBlock THEN Dir(NewDir(Root, Root)) ELSE Data(0)]
  PROVE  /\ Volume(n, k) /\ Structure(n, k, {Root}) /\ ReachIn(n, k, {Root}) = {Root}
         /\ TreeIn(n, k, Root) = {RootBlock}
<1> DEFINE f == [NoBlocks EXCEPT ![1] = RootBlock]
<1>1. f \in [Slots -> {0} \cup Blocks] /\ f[1] = RootBlock /\ \A s \in Slots \ {1} : f[s] = 0
  BY RootBlockIs, Numbers DEF NoBlocks
<1>2. NoBlocks \in [Slots -> {0} \cup Blocks]
  BY DEF NoBlocks
<1> HIDE DEF f
<1>3. n[Root] = Inode("dir", 1, f) /\ \A i \in Inodes \ {Root} : n[i] = Inode("none", 0, NoBlocks)
  BY Numbers DEF f
<1>4. DOMAIN k = {0} \cup Blocks /\ k[RootBlock] = Dir(NewDir(Root, Root))
      /\ \A b \in {0} \cup Blocks : b # RootBlock => k[b] = Data(0)
  BY RootBlockIs
<1>5. n \in [Inodes -> [mode : {"none", "file", "dir"}, size : {0, 1} \cup Sizes,
                        ptr : [Slots -> {0} \cup Blocks]]]
  BY <1>1, <1>2, <1>3 DEF Inode
<1>6. /\ Kept(NewDir(Root, Root))
      /\ \A o \in DOMAIN NewDir(Root, Root) : NewDir(Root, Root)[o].name \in {".", ".."}
  BY NewDirIsKept, Numbers
<1>7. n[Root].mode = "dir" /\ n[Root].size = 1 /\ n[Root].ptr = f
  BY <1>3 DEF Inode
<1>8. k[RootBlock].is = "dir" /\ k[RootBlock].at = NewDir(Root, Root)
  BY <1>4 DEF Dir
<1>9. Volume(n, k)
  <2>1. ASSUME NEW b \in {0} \cup Blocks
        PROVE  /\ k[b].is \in {"data", "list", "dir"}
               /\ k[b].is = "list" => k[b].at \in [1 .. NList -> {0} \cup Blocks]
               /\ k[b].is = "dir" => Kept(k[b].at)
    BY <1>4, <1>6, <1>8 DEF Data
  <2> QED BY <1>4, <1>5, <2>1 DEF Volume
<1>10. EntriesIn(n, k, Root) = NewDir(Root, Root)
  BY <1>1, <1>7, <1>8 DEF EntriesIn
<1>11. ProperIn(n, k, Root) = {} /\ KidsIn(n, k, Root) = {}
  BY <1>6, <1>10 DEF ProperIn, KidsIn
<1>12. ASSUME NEW p \in Places
       PROVE  AtIn(k, n[Root].ptr, p) = IF p = <<1, 0, 0>> THEN RootBlock ELSE 0
  <2>1. \A s \in Slots \ {1} : n[Root].ptr[s] = 0
    BY <1>1, <1>7
  <2>2. AtIn(k, n[Root].ptr, p) = IF p = <<1, 0, 0>> THEN n[Root].ptr[1] ELSE 0
    BY <2>1, DirectoryTree
  <2> QED BY <1>1, <1>7, <2>2
<1>13. TreeIn(n, k, Root) = {RootBlock}
  <2>1. <<1, 0, 0>> \in Places /\ RootBlock # 0
    BY RootBlockIs, PlacesAre, Numbers
  <2>2. AtIn(k, n[Root].ptr, <<1, 0, 0>>) = RootBlock
    BY <1>12, <2>1
  <2>3. \A p \in Places : AtIn(k, n[Root].ptr, p) \in {0, RootBlock}
    BY <1>12
  <2> HIDE DEF RootBlock
  <2> QED BY <2>1, <2>2, <2>3 DEF TreeIn
<1>20. Root # 1
  BY DEF Root
<1> HIDE DEF Root
<1>14. Structure(n, k, {Root})
  <2>1. Sound(n, k, {Root})
    BY <1>1, <1>7, <1>8, <1>13, RootBlockIs, Numbers, <1>20 DEF Sound
  <2>2. Unshared(n, k, {Root})
    BY <1>12 DEF Unshared
  <2>3. OneName(n, k, {Root})
    BY <1>11 DEF OneName
  <2> QED BY <2>1, <2>2, <2>3 DEF Structure
<1>15. ReachIn(n, k, {Root}) = {Root}
  <2>1. \A i \in Inodes : KidsIn(n, k, i) \subseteq Inodes
    BY <1>9, EntriesAre
  <2>2. {Root} \subseteq Inodes /\ \A i \in {Root} \cap Inodes : KidsIn(n, k, i) \subseteq {Root}
    BY <1>11, Numbers
  <2>3. {Root} \subseteq ReachIn(n, k, {Root})
    BY <2>2 DEF ReachIn
  <2>4. ReachIn(n, k, {Root}) \subseteq {Root}
    BY <2>1, <2>2, ReachLeast
  <2> QED BY <2>3, <2>4
<1> QED BY <1>9, <1>13, <1>14, <1>15

\* The invariant holds at the start.
LEMMA InitIs == ASSUME Init PROVE IInv
<1>1. /\ Volume(inode, disk) /\ Structure(inode, disk, {Root}) /\ Reach = {Root}
      /\ Tree(Root) = {RootBlock}
  BY EmptyRoot, Reads DEF Init
<1>2. Doomed = {} /\ Live = {Root}
  BY <1>1 DEF Init, Doomed, Live
<1>3. Typed
  <2>1. /\ pc = "idle" /\ kind = "file" /\ dir = Root /\ name = "." /\ size = 0
        /\ plan = {} /\ got = NothingGot /\ ino = 0 /\ stack = <<>> /\ faults = 0
        /\ clean = TRUE /\ bbits = Reserved \cup {RootBlock} /\ ibits = {1, Root}
    BY DEF Init
  <2>2. NothingGot \in [Places -> {0} \cup Blocks]
    BY DEF NothingGot
  <2>3. MaxFaults \in Nat /\ <<>> \in Seq([ino : Inodes, at : 0 .. BlockWords])
    BY Ext2Assumption
  <2> QED BY <2>1, <2>2, <2>3, RootBlockIs, Numbers DEF Typed
<1>4. Marked
  BY <1>1 DEF Init, Marked
<1>5. Creating /\ Taking /\ HasInode
  BY DEF Init, Creating, Taking, HasInode
<1>6. Removing
  BY <1>2 DEF Init, Removing
<1> QED BY <1>1, <1>2, <1>3, <1>4, <1>5, <1>6 DEF IInv

(***************************************************************************)
(* One lemma for each action.                                              *)
(***************************************************************************)
LEMMA NowIs ==
  ASSUME IInv
  PROVE  /\ Volume(inode, disk) /\ Structure(inode, disk, Reach)
         /\ Reach \subseteq Inodes /\ Root \in Reach
         /\ \A i \in Reach : inode[i].mode = "dir" => DirBlock(i) # 0
         /\ \A i \in Reach : Tree(i) \subseteq bbits /\ 0 \notin Tree(i)
<1>1. Volume(inode, disk) /\ Structure(inode, disk, Live) /\ Marked
  BY DEF IInv
<1>2. Reach \subseteq Inodes /\ Root \in Reach
  BY <1>1, ReachIsClosed
<1>3. Structure(inode, disk, Reach)
  BY <1>1, StructureDown DEF Live
<1>4. \A i \in Reach : inode[i].mode = "dir" => DirBlock(i) # 0
  BY <1>3 DEF Structure, Sound, DirBlock
<1> QED BY <1>1, <1>2, <1>3, <1>4 DEF Marked, Tree

\* The end of an operation, done or not, that leaves no name behind.
LEMMA RestIs ==
  ASSUME IInv, Rest, UNCHANGED <<inode, disk>>, bbits' \subseteq Blocks, ibits' \subseteq Inodes,
         Reserved \subseteq bbits', {1, Root} \subseteq ibits', Reach \subseteq ibits',
         \A i \in Reach : Tree(i) \subseteq bbits',
         faults' \in 0 .. MaxFaults, clean' \in BOOLEAN
  PROVE  IInv'
<1>1. Volume(inode, disk)' /\ Reach' = Reach /\ \A i : Tree(i)' = Tree(i)
  BY Still DEF IInv
<1>2. pc' = "idle" /\ got' = NothingGot /\ todo' = {} /\ stack' = <<>>
  BY DEF Rest
<1>3. Doomed' = {} /\ Live' = Reach
  BY <1>1, <1>2 DEF Doomed, Live
<1>4. Structure(inode', disk', Reach)
  BY Still, NowIs
<1>5. Typed'
  <2>1. /\ NothingGot \in [Places -> {0} \cup Blocks]
        /\ <<>> \in Seq([ino : Inodes, at : 0 .. BlockWords])
    BY DEF NothingGot
  <2> QED BY <2>1, Numbers DEF Rest, Typed
<1>6. Marked'
  BY <1>1 DEF Marked
<1>7. Creating' /\ Taking' /\ HasInode'
  BY <1>2 DEF Creating, Taking, HasInode
<1>8. Removing'
  BY <1>2, <1>3 DEF Removing
<1> QED BY <1>1, <1>3, <1>4, <1>5, <1>6, <1>7, <1>8 DEF IInv

\* ext2_write_file and ext2_make_directory begin.
LEMMA BeginIs ==
  ASSUME IInv, NEW d \in Parents, NEW n \in Names, NEW k \in {"file", "dir"},
         NEW z \in {1} \cup Sizes, k = "dir" => z = 1, Begin(d, n, k, z)
  PROVE  IInv'
<1>1. /\ pc = "idle" /\ pc' = "blocks" /\ kind' = k /\ dir' = d /\ name' = n /\ size' = z
      /\ plan' = Plan(z) /\ UNCHANGED <<inode, disk>> /\ UNCHANGED <<bbits, ibits>>
      /\ UNCHANGED <<got, ino, todo, stack>> /\ UNCHANGED <<faults, clean>>
      /\ Named(Entries(d), n) = {} /\ Hosts(Entries(d)) # {}
  BY DEF Begin, Free, diskVars, faultVars
<1>2. /\ d \in Reach /\ inode[d].mode = "dir" /\ Reach \subseteq Inodes
  BY NowIs DEF Parents
<1>3. got = NothingGot /\ todo = {}
  BY <1>1 DEF IInv, Removing
<1>4. /\ Volume(inode, disk)' /\ Reach' = Reach /\ Entries(d)' = Entries(d)
      /\ \A i : Tree(i)' = Tree(i)
  BY <1>1, Still DEF IInv
<1>5. Doomed = {} /\ Doomed' = {} /\ Live' = Reach
  BY <1>1, <1>4 DEF Doomed, Live
<1>6. Structure(inode', disk', Reach)
  BY <1>1, Still, NowIs
<1>7. Typed'
  <2>1. Plan(z) \subseteq Places \cup {Closing(l) : l \in Places}
    BY PlanIs
  <2> QED BY <1>1, <1>2, <2>1 DEF IInv, Typed
<1>8. Marked'
  BY <1>1, <1>4 DEF IInv, Marked
<1>9. Creating'
  <2>1. dir' \in Reach' /\ inode'[dir'].mode = "dir" /\ name' \in Names
        /\ (kind' = "dir" => size' = 1)
    BY <1>1, <1>2, <1>4
  <2>2. Entries(d)' = Entries(dir)'
    BY <1>1, ReadsNext
  <2>3. Entries(dir)' = Entries(d)
    BY <1>4, <2>2
  <2>4. Named(Entries(dir), name)' = {} /\ Hosts(Entries(dir))' # {}
    BY <1>1, <2>3 DEF Named, Hosts, RealLen
  <2> QED BY <2>1, <2>4 DEF Creating
<1>10. Taking'
  <2>1. got' = NothingGot /\ \A p \in Places : got'[p] = 0
    BY <1>1, <1>3 DEF NothingGot
  <2>2. Fresh' /\ Stored'
    BY <2>1 DEF Fresh, Stored
  <2>3. \A l \in plan' \cap Places : IsList(l) => Closing(l) \in plan'
    BY <1>1, PlanIs
  <2>4. kind' = "dir" => \A p \in Places \ {<<1, 0, 0>>} : p \notin plan'
    BY <1>1, PlanOfOne
  <2> QED BY <2>1, <2>2, <2>3, <2>4 DEF Taking
<1>11. HasInode'
  BY <1>1 DEF HasInode
<1>12. Removing'
  <2>1. \A m \in DOMAIN stack' : stack'[m].ino \in Doomed'
    BY <1>1, <1>5 DEF IInv, Removing
  <2> QED BY <1>1, <1>3, <1>5, <2>1 DEF Removing
<1> QED BY <1>4, <1>5, <1>6, <1>7, <1>8, <1>9, <1>10, <1>11, <1>12 DEF IInv

\* A block is allocated: it was not marked, so nothing that is reached has it.
LEMMA TakeBlockIs == ASSUME IInv, TakeBlock PROVE IInv'
<1>1. PICK p \in plan \cap Places :
       LET b == FirstClear(Blocks, bbits)
       IN  /\ First(p, plan)
           /\ bbits' = bbits \cup ({b} \ {0})
           /\ got' = [got EXCEPT ![p] = b]
           /\ plan' = {q \in plan \ {p} : b = 0 /\ IsDirect(p) => ~IsDirect(q)}
           /\ disk' = IF kind = "file" /\ ~IsList(p) /\ (b # 0 \/ ~IsDirect(p))
                      THEN [disk EXCEPT ![b] = Data(Position(p))] ELSE disk
           /\ clean' = (clean /\ b # 0)
  BY DEF TakeBlock
<1> DEFINE b == FirstClear(Blocks, bbits)
<1>2. /\ pc = "blocks" /\ pc' = "blocks" /\ UNCHANGED <<ibits, inode, ino, todo, stack, faults>>
      /\ UNCHANGED callVars
  BY DEF TakeBlock
<1>3. b \in {0} \cup Blocks /\ (b # 0 => b \notin bbits)
  <2>1. Blocks = 1 .. NGroups * GroupBlocks /\ NGroups * GroupBlocks \in Int
    BY Ext2Assumption DEF Blocks
  <2> QED BY <2>1, FirstClearIs
<1>4. /\ bbits' = bbits \cup ({b} \ {0}) /\ got' = [got EXCEPT ![p] = b]
      /\ plan' = {q \in plan \ {p} : b = 0 /\ IsDirect(p) => ~IsDirect(q)}
      /\ clean' = (clean /\ b # 0)
      /\ \/ disk' = disk \/ disk' = [disk EXCEPT ![b] = Data(Position(p))]
  BY <1>1
<1> HIDE DEF b
<1>5. /\ Typed /\ Volume(inode, disk) /\ Marked /\ Taking /\ Fresh /\ Stored /\ Removing
  BY <1>2 DEF IInv, Taking
<1>6. /\ DOMAIN disk' = DOMAIN disk /\ (disk'[b] = disk[b] \/ disk'[b] = Data(Position(p)))
      /\ \A c \in {0} \cup Blocks : c # b => disk'[c] = disk[c]
  BY <1>3, <1>4, <1>5 DEF Volume
<1>7. Volume(inode', disk')
  <2>1. ASSUME NEW c \in {0} \cup Blocks
        PROVE  /\ disk'[c].is \in {"data", "list", "dir"}
               /\ disk'[c].is = "list" => disk'[c].at \in [1 .. NList -> {0} \cup Blocks]
               /\ disk'[c].is = "dir" => Kept(disk'[c].at)
    <3>1. disk'[c] = disk[c] \/ disk'[c].is = "data"
      <4>1. Data(Position(p)).is = "data"
        BY DEF Data
      <4> QED BY <1>6, <4>1
    <3>2. CASE disk'[c] = disk[c]
      BY <1>5, <3>2 DEF Volume
    <3> QED BY <3>1, <3>2
  <2>2. inode' = inode /\ DOMAIN disk' = {0} \cup Blocks
    BY <1>2, <1>5, <1>6 DEF Volume
  <2> QED BY <1>5, <2>1, <2>2 DEF Volume
<1>8. Typed'
  <2>1. got' \in [Places -> {0} \cup Blocks]
    BY <1>3, <1>4, <1>5 DEF Typed
  <2> QED BY <1>2, <1>3, <1>4, <1>5, <2>1 DEF Typed, callVars
<1>9. \A i \in Reach : \A c \in Tree(i) : c \in bbits /\ c # b /\ disk'[c] = disk[c]
  <2>1. \A i \in Reach : \A c \in Tree(i) : c \in bbits /\ c # 0
    BY NowIs
  <2> QED BY <1>3, <1>5, <1>6, <2>1 DEF Typed
<1>10. /\ Reach' = Reach /\ Live' = Reach /\ Structure(inode', disk', Live')
       /\ \A i \in Reach : Tree(i)' = Tree(i)
       /\ Marked' /\ Creating' /\ Reach' \cap Doomed' = {} /\ todo' = {}
       /\ \A m \in DOMAIN stack' : stack'[m].ino \in Doomed'
  <2>1. Volume(inode, disk)'
    BY <1>7 DEF Volume, Kept
  <2>2. UNCHANGED <<callVars, todo, stack>> /\ bbits \subseteq bbits' /\ ibits \subseteq ibits'
    BY <1>2, <1>4
  <2>3. \A i \in Reach : inode'[i] = inode[i]
    BY <1>2
  <2>4. \A i \in Reach : \A c \in Tree(i) : disk'[c] = disk[c]
    BY <1>9
  <2> QED BY <1>2, <2>1, <2>2, <2>3, <2>4, Around
<1>11. got'[p] = b /\ \A q \in Places : q # p => got'[q] = got[q]
  BY <1>4, <1>5 DEF Typed
<1>12. Fresh'
  <2> SUFFICES ASSUME NEW q \in Places, got'[q] # 0
               PROVE  /\ got'[q] \in bbits' \ Reserved
                      /\ \A i \in Reach' : got'[q] \notin Tree(i)'
                      /\ \A r \in Places : got'[q] = got'[r] => q = r
    BY DEF Fresh
  <2>1. \A r \in Places : got[r] # 0 => got[r] \in bbits
    BY <1>5 DEF Fresh
  <2>2. CASE q = p
    <3>1. b # 0 /\ b \notin bbits /\ got'[q] = b
      BY <1>3, <1>11, <2>2
    <3>2. b \in bbits' \ Reserved
      BY <1>4, <1>5, <3>1 DEF Marked
    <3>3. \A i \in Reach' : b \notin Tree(i)'
      BY <1>9, <1>10
    <3> QED BY <1>11, <2>1, <2>2, <3>1, <3>2, <3>3
  <2>3. CASE q # p
    <3>1. got'[q] = got[q] /\ got[q] \in bbits \ Reserved /\ got[q] # b
      BY <1>3, <1>5, <1>11, <2>3 DEF Fresh
    <3>2. \A i \in Reach' : got[q] \notin Tree(i)'
      BY <1>5, <1>10, <3>1 DEF Fresh
    <3>3. \A r \in Places : got'[q] = got'[r] => q = r
      BY <1>5, <1>11, <3>1 DEF Fresh
    <3> QED BY <1>4, <3>1, <3>2, <3>3
  <2> QED BY <2>2, <2>3
<1>13. ASSUME NEW l \in Places, IsList(l)
       PROVE  (Closing(l) \in plan' <=> Closing(l) \in plan) /\ (l \in plan => Closing(l) \in plan)
  <2>1. Closing(l) # p /\ ~IsDirect(Closing(l))
    BY <1>13, ClosingIs
  <2> QED BY <1>2, <1>4, <1>5, <1>13, <2>1 DEF Taking
<1>14. Stored'
  <2> SUFFICES ASSUME NEW l \in Places, IsList(l), got'[l] # 0, Closing(l) \notin plan'
               PROVE  /\ disk'[got'[l]] = List([j \in 1 .. NList |-> got'[Child(l, j)]])
                      /\ \A j \in 1 .. NList : Child(l, j) \notin plan'
    BY DEF Stored
  <2>1. l # p /\ Closing(l) \notin plan
    BY <1>13
  <2>2. /\ got'[l] = got[l] /\ got[l] # 0
        /\ disk[got[l]] = List([j \in 1 .. NList |-> got[Child(l, j)]])
        /\ \A j \in 1 .. NList : Child(l, j) \notin plan
    BY <1>5, <1>11, <2>1 DEF Stored
  <2>3. disk'[got[l]] = disk[got[l]]
    BY <1>3, <1>5, <1>6, <2>2 DEF Fresh, Typed
  <2>4. \A j \in 1 .. NList : Child(l, j) \in Places /\ Child(l, j) # p
    BY <2>2, ClosingIs
  <2>5. \A j \in 1 .. NList : got'[Child(l, j)] = got[Child(l, j)]
    BY <1>11, <2>4
  <2>6. [j \in 1 .. NList |-> got'[Child(l, j)]] = [j \in 1 .. NList |-> got[Child(l, j)]]
    BY <2>5
  <2> QED BY <1>4, <2>2, <2>3, <2>6
<1>15. Taking'
  <2>1. \A l \in plan' \cap Places : IsList(l) => Closing(l) \in plan'
    BY <1>4, <1>13
  <2>2. kind' = "dir" => \A q \in Places \ {<<1, 0, 0>>} : got'[q] = 0 /\ q \notin plan'
    BY <1>1, <1>2, <1>4, <1>5, <1>11 DEF Taking, callVars
  <2> QED BY <1>12, <1>14, <2>1, <2>2 DEF Taking
<1>16. HasInode'
  BY <1>2 DEF HasInode
<1>17. Removing'
  BY <1>2, <1>10 DEF Removing
<1> QED BY <1>7, <1>8, <1>10, <1>15, <1>16, <1>17 DEF IInv, Volume, Kept

\* A list is stored in its block, which no path leads to.
LEMMA StoreListIs == ASSUME IInv, StoreList PROVE IInv'
<1>1. PICK l \in Places :
       /\ IsList(l) /\ First(Closing(l), plan)
       /\ disk' = [disk EXCEPT ![got[l]] = List([j \in 1 .. NList |-> got[Child(l, j)]])]
       /\ plan' = plan \ {Closing(l)}
  BY DEF StoreList
<1> DEFINE c == got[l]
           f == [j \in 1 .. NList |-> got[Child(l, j)]]
<1>2. /\ pc = "blocks" /\ pc' = "blocks" /\ UNCHANGED <<bbits, ibits, inode, got, ino, todo, stack>>
      /\ UNCHANGED <<faults, clean>> /\ UNCHANGED callVars
  BY DEF StoreList, faultVars
<1>3. /\ Typed /\ Volume(inode, disk) /\ Marked /\ Taking /\ Fresh /\ Stored /\ Removing
  BY <1>2 DEF IInv, Taking
<1>4. /\ c \in {0} \cup Blocks
      /\ \A j \in 1 .. NList : Child(l, j) \in Places /\ got[Child(l, j)] \in {0} \cup Blocks
  BY <1>1, <1>3, ClosingIs DEF Typed
<1>5. f \in [1 .. NList -> {0} \cup Blocks]
  BY <1>4
<1>6. disk' = [disk EXCEPT ![c] = List(f)] /\ plan' = plan \ {Closing(l)}
  BY <1>1
<1> HIDE DEF c, f
<1>7. /\ DOMAIN disk' = {0} \cup Blocks /\ disk'[c] = List(f)
      /\ \A e \in {0} \cup Blocks : e # c => disk'[e] = disk[e]
  BY <1>3, <1>4, <1>6 DEF Volume
<1>8. disk'[c].is = "list" /\ disk'[c].at = f
  BY <1>7 DEF List
<1>9. Volume(inode', disk')
  <2>1. ASSUME NEW e \in {0} \cup Blocks
        PROVE  /\ disk'[e].is \in {"data", "list", "dir"}
               /\ disk'[e].is = "list" => disk'[e].at \in [1 .. NList -> {0} \cup Blocks]
               /\ disk'[e].is = "dir" => Kept(disk'[e].at)
    <3>1. CASE e = c
      BY <1>5, <1>8, <3>1
    <3>2. CASE e # c
      BY <1>3, <1>7, <3>2 DEF Volume
    <3> QED BY <3>1, <3>2
  <2> QED BY <1>2, <1>3, <1>7, <2>1 DEF Volume
<1>10. Typed'
  BY <1>2, <1>3, <1>6 DEF Typed, callVars
<1>11. \A i \in Reach : \A e \in Tree(i) : e # c /\ disk'[e] = disk[e]
  <2>1. ASSUME NEW i \in Reach, NEW e \in Tree(i) PROVE e # c /\ e \in Blocks
    <3>1. e \in bbits /\ e # 0
      BY NowIs
    <3> QED BY <1>3, <3>1 DEF Fresh, Typed, c
  <2> QED BY <1>7, <2>1
<1>12. /\ Reach' = Reach /\ Live' = Reach /\ Structure(inode', disk', Live')
       /\ \A i \in Reach : Tree(i)' = Tree(i)
       /\ Marked' /\ Creating' /\ Reach' \cap Doomed' = {} /\ todo' = {}
       /\ \A m \in DOMAIN stack' : stack'[m].ino \in Doomed'
  <2>1. Volume(inode, disk)'
    BY <1>9 DEF Volume, Kept
  <2>2. UNCHANGED <<callVars, todo, stack>> /\ bbits \subseteq bbits' /\ ibits \subseteq ibits'
    BY <1>2
  <2>3. \A i \in Reach : inode'[i] = inode[i]
    BY <1>2
  <2>4. \A i \in Reach : \A e \in Tree(i) : disk'[e] = disk[e]
    BY <1>11
  <2> QED BY <1>2, <2>1, <2>2, <2>3, <2>4, Around
<1>13. Fresh'
  BY <1>2, <1>3, <1>12 DEF Fresh
<1>14. Closing(l) \in plan /\ Closing(l) \notin Places
       /\ \A q \in plan : q # Closing(l) => Before(Closing(l), q)
  BY <1>1, ClosingIs DEF First
<1>15. l \notin plan
  <2>1. ~Before(Closing(l), l) /\ Closing(l) # l
    BY <1>1, ClosingIs
  <2> QED BY <1>14, <2>1
<1>16. Stored'
  <2> SUFFICES ASSUME NEW m \in Places, IsList(m), got[m] # 0, Closing(m) \notin plan'
               PROVE  /\ disk'[got[m]] = List([j \in 1 .. NList |-> got[Child(m, j)]])
                      /\ \A j \in 1 .. NList : Child(m, j) \notin plan'
    BY <1>2 DEF Stored
  <2>1. CASE m = l
    <3>1. \A j \in 1 .. NList : Child(l, j) \in Places /\ ~Before(Closing(l), Child(l, j))
      BY <1>1, ClosingIs
    <3>2. \A j \in 1 .. NList : Child(l, j) \notin plan'
      BY <1>6, <1>14, <3>1
    <3> QED BY <1>7, <2>1, <3>2 DEF c, f
  <2>2. CASE m # l
    <3>1. Closing(m) \notin plan
      BY <1>1, <1>6, <2>2, ClosingOnce
    <3>2. /\ disk[got[m]] = List([j \in 1 .. NList |-> got[Child(m, j)]])
          /\ \A j \in 1 .. NList : Child(m, j) \notin plan
      BY <1>3, <3>1 DEF Stored
    <3>3. got[m] # c /\ got[m] \in Blocks
      BY <1>3, <2>2, Numbers DEF Fresh, Typed, c
    <3>4. disk'[got[m]] = disk[got[m]]
      BY <1>7, <3>3
    <3>5. \A j \in 1 .. NList : Child(m, j) \notin plan'
      BY <1>6, <3>2
    <3> QED BY <3>2, <3>4, <3>5
  <2> QED BY <2>1, <2>2
<1>17. Taking'
  <2>1. ASSUME NEW m \in plan' \cap Places, IsList(m) PROVE Closing(m) \in plan'
    <3>1. Closing(m) \in plan /\ m # l
      BY <1>2, <1>3, <1>6, <1>15, <2>1 DEF Taking
    <3>2. m \in Places /\ IsList(m) /\ IsList(l)
      BY <1>1, <2>1
    <3>3. Closing(m) = Closing(l) => m = l
      BY <3>2, ClosingOnce
    <3> QED BY <1>6, <3>1, <3>3
  <2>2. kind' = "dir" => \A q \in Places \ {<<1, 0, 0>>} : got'[q] = 0 /\ q \notin plan'
    BY <1>2, <1>3, <1>6 DEF Taking, callVars
  <2> QED BY <1>13, <1>16, <2>1, <2>2 DEF Taking
<1>18. HasInode'
  BY <1>2 DEF HasInode
<1>19. Removing'
  BY <1>2, <1>12 DEF Removing
<1> QED BY <1>9, <1>10, <1>12, <1>17, <1>18, <1>19 DEF IInv, Volume, Kept

\* An inode is allocated, or the operation fails.
LEMMA TakeInodeIs == ASSUME IInv, TakeInode PROVE IInv'
<1> DEFINE i == FirstClear(Inodes, ibits)
           good == i # 0 /\ (kind = "dir" => got[<<1, 0, 0>>] # 0)
<1>1. i \in {0} \cup Inodes /\ (i # 0 => i \notin ibits)
  <2>1. Inodes = 1 .. NInodes /\ NInodes \in Int
    BY Ext2Assumption DEF Inodes
  <2> QED BY <2>1, FirstClearIs
<1>2. /\ pc = "blocks" /\ plan = {} /\ ibits' = ibits \cup ({i} \ {0})
      /\ UNCHANGED <<bbits, inode, disk, faults>>
      /\ \/ /\ good /\ pc' = "inode" /\ ino' = i
            /\ UNCHANGED <<callVars, plan, got, todo, stack, faultVars>>
         \/ Rest /\ clean' = FALSE
  BY DEF TakeInode
<1>3. /\ Typed /\ Volume(inode, disk) /\ Marked /\ Taking /\ Fresh /\ Stored /\ Removing
  BY <1>2 DEF IInv, Taking
<1>4. CASE Rest /\ clean' = FALSE
  <2>1. /\ bbits' \subseteq Blocks /\ ibits' \subseteq Inodes /\ Reserved \subseteq bbits'
        /\ {1, Root} \subseteq ibits' /\ Reach \subseteq ibits'
        /\ faults' \in 0 .. MaxFaults /\ clean' \in BOOLEAN
    BY <1>1, <1>2, <1>3, <1>4 DEF Typed, Marked
  <2>2. \A j \in Reach : Tree(j) \subseteq bbits'
    BY <1>2, NowIs
  <2> QED BY <1>2, <1>4, <2>1, <2>2, RestIs
<1>5. CASE /\ good /\ pc' = "inode" /\ ino' = i
           /\ UNCHANGED <<callVars, plan, got, todo, stack, faultVars>>
  <2>1. /\ Reach' = Reach /\ Live' = Reach /\ Structure(inode', disk', Live')
        /\ \A j \in Reach : Tree(j)' = Tree(j)
        /\ Marked' /\ Creating' /\ Reach' \cap Doomed' = {} /\ todo' = {}
        /\ \A m \in DOMAIN stack' : stack'[m].ino \in Doomed'
    <3>1. Volume(inode, disk)'
      BY <1>2, <1>3, Still
    <3>2. UNCHANGED <<callVars, todo, stack>> /\ bbits \subseteq bbits' /\ ibits \subseteq ibits'
      BY <1>2, <1>5
    <3>3. \A j \in Reach : inode'[j] = inode[j]
      BY <1>2
    <3>4. \A j \in Reach : \A e \in Tree(j) : disk'[e] = disk[e]
      BY <1>2
    <3> QED BY <1>2, <1>5, <3>1, <3>2, <3>3, <3>4, Around
  <2>2. Typed'
    BY <1>1, <1>2, <1>3, <1>5 DEF Typed, callVars, faultVars
  <2>3. Taking'
    <3>1. Fresh' /\ Stored'
      BY <1>2, <1>3, <1>5, <2>1 DEF Fresh, Stored
    <3>2. /\ \A l \in plan' \cap Places : IsList(l) => Closing(l) \in plan'
          /\ kind' = "dir" => \A q \in Places \ {<<1, 0, 0>>} : got'[q] = 0 /\ q \notin plan'
      BY <1>2, <1>3, <1>5 DEF Taking, callVars
    <3> QED BY <3>1, <3>2 DEF Taking
  <2>4. HasInode'
    <3>1. i \in ibits' /\ i \notin Reach /\ i # 1
      BY <1>1, <1>2, <1>3, <1>5 DEF Marked
    <3>2. plan' = {} /\ (kind' = "dir" => got'[<<1, 0, 0>>] # 0)
      BY <1>2, <1>5 DEF callVars
    <3> QED BY <1>5, <2>1, <3>1, <3>2 DEF HasInode
  <2>5. Removing'
    BY <1>3, <1>5, <2>1 DEF Removing
  <2>6. Volume(inode, disk)'
    BY <1>2, <1>3, Still
  <2> QED BY <2>1, <2>2, <2>3, <2>4, <2>5, <2>6 DEF IInv
<1> QED BY <1>2, <1>4, <1>5

\* The tree below an inode whose lists are stored has the blocks allocated for it.
LEMMA ListLeads ==
  ASSUME NEW k, NEW g, NEW l \in Places, IsList(l),
         g[l] # 0 => k[g[l]] = List([j \in 1 .. NList |-> g[Child(l, j)]]),
         NEW j \in 1 .. NList
  PROVE  PointersIn(k, g[l])[j] \in {0, g[Child(l, j)]}
<1>1. CASE g[l] = 0
  BY <1>1 DEF PointersIn
<1>2. CASE g[l] # 0
  <2> DEFINE a == [m \in 1 .. NList |-> g[Child(l, m)]]
  <2>1. k[g[l]] = List(a) /\ a[j] = g[Child(l, j)]
    BY <1>2
  <2> HIDE DEF a
  <2>2. k[g[l]].is = "list" /\ k[g[l]].at = a
    BY <2>1 DEF List
  <2> QED BY <1>2, <2>1, <2>2 DEF PointersIn
<1> QED BY <1>1, <1>2

\* ... at every place below it.
LEMMA FileTree ==
  ASSUME NEW k, NEW g,
         \A l \in Places : IsList(l) /\ g[l] # 0
                             => k[g[l]] = List([j \in 1 .. NList |-> g[Child(l, j)]]),
         NEW f, \A s \in Slots : f[s] = g[<<s, 0, 0>>], NEW p \in Places
  PROVE  AtIn(k, f, p) \in {0, g[p]}
<1>1. /\ p = <<p[1], p[2], p[3]>> /\ p[1] \in Slots
      /\ p[2] \in 0 .. NList /\ p[3] \in 0 .. NList
      /\ (p[2] = 0 => p[3] = 0) /\ (p[2] # 0 => p[1] \in {Single, Double})
      /\ (p[3] # 0 => p[1] = Double)
  BY PlacesAre
<1>2. f[p[1]] = g[<<p[1], 0, 0>>]
  BY <1>1
<1>3. CASE p[2] = 0
  BY <1>1, <1>2, <1>3 DEF AtIn
<1>4. CASE p[2] # 0 /\ p[3] = 0
  <2> DEFINE l == <<p[1], 0, 0>>
  <2>1. l \in Places /\ IsList(l) /\ Child(l, p[2]) = p /\ p[2] \in 1 .. NList
    BY <1>1, <1>4, PlacesAre, Numbers DEF IsList, Child
  <2>2. AtIn(k, f, p) = PointersIn(k, g[l])[p[2]]
    BY <1>2, <1>4 DEF AtIn
  <2> HIDE DEF l
  <2>3. g[l] # 0 => k[g[l]] = List([j \in 1 .. NList |-> g[Child(l, j)]])
    BY <2>1
  <2>4. PointersIn(k, g[l])[p[2]] \in {0, g[Child(l, p[2])]}
    BY <2>1, <2>3, ListLeads
  <2> QED BY <2>1, <2>2, <2>4
<1>5. CASE p[2] # 0 /\ p[3] # 0
  <2> DEFINE l == <<p[1], 0, 0>>
             m == <<p[1], p[2], 0>>
             c == PointersIn(k, f[p[1]])[p[2]]
  <2>1. /\ l \in Places /\ IsList(l) /\ Child(l, p[2]) = m /\ p[2] \in 1 .. NList
        /\ m \in Places /\ IsList(m) /\ Child(m, p[3]) = p /\ p[3] \in 1 .. NList
    BY <1>1, <1>5, PlacesAre, Numbers DEF IsList, Child
  <2>2. AtIn(k, f, p) = PointersIn(k, c)[p[3]] /\ c = PointersIn(k, g[l])[p[2]]
    BY <1>2, <1>5 DEF AtIn
  <2> HIDE DEF l, m, c
  <2>3. /\ g[l] # 0 => k[g[l]] = List([j \in 1 .. NList |-> g[Child(l, j)]])
        /\ g[m] # 0 => k[g[m]] = List([j \in 1 .. NList |-> g[Child(m, j)]])
    BY <2>1
  <2>4. c \in {0, g[m]}
    <3>1. PointersIn(k, g[l])[p[2]] \in {0, g[Child(l, p[2])]}
      BY <2>1, <2>3, ListLeads
    <3> QED BY <2>1, <2>2, <3>1
  <2>5. CASE c = 0
    <3>1. PointersIn(k, c)[p[3]] = 0
      BY <2>1, <2>5 DEF PointersIn
    <3> QED BY <2>2, <3>1
  <2>6. CASE c = g[m]
    <3>1. PointersIn(k, g[m])[p[3]] \in {0, g[Child(m, p[3])]}
      BY <2>1, <2>3, ListLeads
    <3> QED BY <2>1, <2>2, <2>6, <3>1
  <2> QED BY <2>4, <2>5, <2>6
<1> QED BY <1>3, <1>4, <1>5

\* An inode with blocks of its own and no names joins the structure.
LEMMA Joined ==
  ASSUME NEW n, NEW k, NEW R, Structure(n, k, R), NEW i, i \notin R,
         i # 1, n[i].mode \in {"file", "dir"},
         n[i].mode = "dir" => /\ n[i].size = 1
                              /\ \A s \in Slots \ {1} : n[i].ptr[s] = 0
                              /\ n[i].ptr[1] # 0 /\ k[n[i].ptr[1]].is = "dir",
         ProperIn(n, k, i) = {}, NEW g,
         \A p \in Places : AtIn(k, n[i].ptr, p) \in {0, g[p]},
         \A p \in Places : g[p] # 0 =>
           /\ g[p] \notin Reserved /\ \A j \in R : g[p] \notin TreeIn(n, k, j)
           /\ \A q \in Places : g[p] = g[q] => p = q
  PROVE  Structure(n, k, R \cup {i})
<1>1. ASSUME NEW p \in Places, AtIn(k, n[i].ptr, p) # 0
      PROVE  /\ AtIn(k, n[i].ptr, p) \notin Reserved
             /\ \A j \in R : \A q \in Places : AtIn(k, n[i].ptr, p) # AtIn(k, n[j].ptr, q)
             /\ \A q \in Places : AtIn(k, n[i].ptr, p) = AtIn(k, n[i].ptr, q) => p = q
  <2>1. AtIn(k, n[i].ptr, p) = g[p] /\ g[p] # 0
    BY <1>1
  <2>2. \A q \in Places : AtIn(k, n[i].ptr, q) \in {0, g[q]}
    OBVIOUS
  <2>3. g[p] \notin Reserved /\ \A q \in Places : g[p] = g[q] => p = q
    BY <2>1
  <2>4. ASSUME NEW j \in R, NEW q \in Places PROVE g[p] # AtIn(k, n[j].ptr, q)
    <3>1. g[p] \notin TreeIn(n, k, j)
      BY <2>1
    <3> QED BY <2>1, <3>1 DEF TreeIn
  <2> QED BY <2>1, <2>2, <2>3, <2>4
<1>2. Sound(n, k, R \cup {i})
  <2>1. TreeIn(n, k, i) \cap Reserved = {}
    BY <1>1 DEF TreeIn
  <2> QED BY <2>1 DEF Structure, Sound
<1>3. Unshared(n, k, R \cup {i})
  <2> SUFFICES ASSUME NEW a \in R \cup {i}, NEW c \in R \cup {i}, NEW p \in Places,
                      NEW q \in Places, AtIn(k, n[a].ptr, p) = AtIn(k, n[c].ptr, q),
                      AtIn(k, n[a].ptr, p) # 0
               PROVE  a = c /\ p = q
    BY DEF Unshared
  <2>1. CASE a \in R /\ c \in R
    BY <2>1 DEF Structure, Unshared
  <2>2. CASE a = i /\ c = i
    BY <1>1, <2>2
  <2>3. CASE a = i /\ c \in R
    BY <1>1, <2>3
  <2>4. CASE c = i /\ a \in R
    BY <1>1, <2>4
  <2> QED BY <2>1, <2>2, <2>3, <2>4
<1>4. OneName(n, k, R \cup {i})
  BY DEF Structure, OneName
<1> QED BY <1>2, <1>3, <1>4 DEF Structure

\* The inode is written: it has its tree, and no name yet.
LEMMA WriteInodeIs == ASSUME IInv, WriteInode PROVE IInv'
<1> DEFINE g == got[<<1, 0, 0>>]
           f == [s \in Slots |-> got[<<s, 0, 0>>]]
<1>1. /\ pc = "inode" /\ pc' = "link" /\ UNCHANGED <<bbits, ibits, plan, got, ino, todo, stack>>
      /\ UNCHANGED <<faults, clean>> /\ UNCHANGED callVars
      /\ inode' = [inode EXCEPT ![ino] = Inode(kind, size, f)]
      /\ disk' = IF kind = "dir" THEN [disk EXCEPT ![g] = Dir(NewDir(ino, dir))] ELSE disk
  BY DEF WriteInode, workVars, faultVars
<1>2. /\ Typed /\ Volume(inode, disk) /\ Marked /\ Taking /\ Fresh /\ Stored /\ Removing
      /\ Creating /\ HasInode
  BY <1>1 DEF IInv, Taking
<1>3. /\ plan = {} /\ (kind = "dir" => g # 0 /\ size = 1) /\ ino \in ibits /\ ino \notin Reach
      /\ ino # 1
  BY <1>1, <1>2 DEF HasInode, Creating
<1>4. /\ ino \in Inodes /\ dir \in Inodes /\ kind \in {"file", "dir"} /\ size \in {0, 1} \cup Sizes
      /\ \A p \in Places : got[p] \in {0} \cup Blocks
  BY <1>2, <1>3 DEF Typed
<1>5. f \in [Slots -> {0} \cup Blocks] /\ \A s \in Slots : f[s] = got[<<s, 0, 0>>]
  BY <1>4, PlacesAre
<1>6. f[1] = g /\ <<1, 0, 0>> \in Places /\ g \in {0} \cup Blocks
  BY <1>4, <1>5, PlacesAre, Numbers
<1> HIDE DEF f, g
<1>7. /\ DOMAIN inode = Inodes /\ inode'[ino] = Inode(kind, size, f)
      /\ \A i \in Inodes \ {ino} : inode'[i] = inode[i]
  BY <1>1, <1>2, <1>4 DEF Volume
<1>8. inode'[ino].mode = kind /\ inode'[ino].size = size /\ inode'[ino].ptr = f
  BY <1>7 DEF Inode
<1>9. /\ DOMAIN disk' = {0} \cup Blocks
      /\ \A b \in {0} \cup Blocks : (kind = "dir" /\ b = g) \/ disk'[b] = disk[b]
      /\ kind = "dir" => disk'[g].is = "dir" /\ disk'[g].at = NewDir(ino, dir)
  <2>1. CASE kind = "dir"
    <3>1. disk' = [disk EXCEPT ![g] = Dir(NewDir(ino, dir))] /\ DOMAIN disk = {0} \cup Blocks
      BY <1>1, <1>2, <2>1 DEF Volume
    <3>2. /\ DOMAIN disk' = {0} \cup Blocks /\ disk'[g] = Dir(NewDir(ino, dir))
          /\ \A b \in {0} \cup Blocks : b # g => disk'[b] = disk[b]
      BY <1>6, <3>1
    <3>3. disk'[g].is = "dir" /\ disk'[g].at = NewDir(ino, dir)
      BY <3>2 DEF Dir
    <3> QED BY <2>1, <3>2, <3>3
  <2>2. CASE kind # "dir"
    BY <1>1, <1>2, <2>2 DEF Volume
  <2> QED BY <2>1, <2>2
<1>10. /\ Kept(NewDir(ino, dir))
       /\ \A o \in DOMAIN NewDir(ino, dir) : NewDir(ino, dir)[o].name \in {".", ".."}
  BY <1>4, NewDirIsKept
<1>11. Volume(inode', disk')
  <2>1. inode' \in [Inodes -> [mode : {"none", "file", "dir"}, size : {0, 1} \cup Sizes,
                               ptr : [Slots -> {0} \cup Blocks]]]
    <3>1. Inode(kind, size, f) \in [mode : {"none", "file", "dir"}, size : {0, 1} \cup Sizes,
                                    ptr : [Slots -> {0} \cup Blocks]]
      BY <1>4, <1>5 DEF Inode
    <3>2. inode \in [Inodes -> [mode : {"none", "file", "dir"}, size : {0, 1} \cup Sizes,
                                ptr : [Slots -> {0} \cup Blocks]]]
      BY <1>2 DEF Volume
    <3> QED BY <1>1, <3>1, <3>2
  <2>2. ASSUME NEW b \in {0} \cup Blocks
        PROVE  /\ disk'[b].is \in {"data", "list", "dir"}
               /\ disk'[b].is = "list" => disk'[b].at \in [1 .. NList -> {0} \cup Blocks]
               /\ disk'[b].is = "dir" => Kept(disk'[b].at)
    <3>1. CASE kind = "dir" /\ b = g
      BY <1>9, <1>10, <3>1
    <3>2. CASE disk'[b] = disk[b]
      BY <1>2, <3>2 DEF Volume
    <3> QED BY <1>9, <3>1, <3>2
  <2> QED BY <1>9, <2>1, <2>2 DEF Volume
<1>12. Typed'
  BY <1>1, <1>2 DEF Typed, callVars
<1>13. \A i \in Reach : \A e \in Tree(i) : disk'[e] = disk[e]
  <2>1. ASSUME NEW i \in Reach, NEW e \in Tree(i) PROVE e \in Blocks /\ (e = g => g = 0)
    <3>1. e \in bbits /\ e # 0
      BY NowIs
    <3> QED BY <1>2, <1>6, <3>1 DEF Fresh, Typed, g
  <2>2. 0 \notin Blocks
    BY Numbers
  <2> QED BY <1>9, <2>1, <2>2
<1>14. /\ Reach' = Reach /\ Live' = Reach /\ Structure(inode', disk', Live')
       /\ \A i \in Reach : Tree(i)' = Tree(i)
       /\ Marked' /\ Creating' /\ Reach' \cap Doomed' = {} /\ todo' = {}
       /\ \A m \in DOMAIN stack' : stack'[m].ino \in Doomed'
  <2>1. Volume(inode, disk)'
    BY <1>11 DEF Volume, Kept
  <2>2. UNCHANGED <<callVars, todo, stack>> /\ bbits \subseteq bbits' /\ ibits \subseteq ibits'
    BY <1>1
  <2>3. \A i \in Reach : inode'[i] = inode[i]
    BY <1>3, <1>7, NowIs
  <2> QED BY <1>1, <2>1, <2>2, <2>3, <1>13, Around
<1>15. ASSUME NEW p \in Places PROVE AtIn(disk', inode'[ino].ptr, p) \in {0, got[p]}
  <2>1. CASE kind = "dir"
    <3>1. \A s \in Slots \ {1} : f[s] = 0
      <4>1. \A s \in Slots \ {1} : <<s, 0, 0>> \in Places \ {<<1, 0, 0>>}
        BY PlacesAre
      <4> QED BY <1>1, <1>2, <1>5, <2>1, <4>1 DEF Taking
    <3>2. AtIn(disk', f, p) = IF p = <<1, 0, 0>> THEN f[1] ELSE 0
      BY <3>1, DirectoryTree
    <3> QED BY <1>6, <1>8, <3>2 DEF g
  <2>2. CASE kind # "dir"
    <3>1. disk' = disk
      BY <1>1, <2>2
    <3>2. \A l \in Places : IsList(l) /\ got[l] # 0
                             => disk[got[l]] = List([j \in 1 .. NList |-> got[Child(l, j)]])
      BY <1>2, <1>3 DEF Stored
    <3>3. AtIn(disk, f, p) \in {0, got[p]}
      BY <1>5, <3>2, FileTree
    <3> QED BY <1>8, <3>1, <3>3
  <2> QED BY <2>1, <2>2
<1>16. ProperIn(inode', disk', ino) = {}
  BY <1>6, <1>8, <1>9, <1>10 DEF ProperIn, EntriesIn
<1>17. Structure(inode', disk', Reach \cup {ino})
  <2>1. inode'[ino].mode = "dir" =>
          /\ inode'[ino].size = 1 /\ \A s \in Slots \ {1} : inode'[ino].ptr[s] = 0
          /\ inode'[ino].ptr[1] # 0 /\ disk'[inode'[ino].ptr[1]].is = "dir"
    <3> SUFFICES ASSUME kind = "dir"
                 PROVE  size = 1 /\ g # 0 /\ disk'[g].is = "dir" /\ \A s \in Slots \ {1} : f[s] = 0
      BY <1>6, <1>8
    <3>1. \A s \in Slots \ {1} : <<s, 0, 0>> \in Places \ {<<1, 0, 0>>}
      BY PlacesAre
    <3>2. \A s \in Slots \ {1} : f[s] = 0
      BY <1>1, <1>2, <1>5, <3>1 DEF Taking
    <3>3. size = 1 /\ g # 0
      BY <1>3
    <3>4. disk'[g].is = "dir"
      BY <1>9
    <3> QED BY <3>2, <3>3, <3>4
  <2>2. \A p \in Places : got[p] # 0 =>
           /\ got[p] \notin Reserved /\ \A j \in Reach : got[p] \notin TreeIn(inode', disk', j)
           /\ \A q \in Places : got[p] = got[q] => p = q
    <3>1. \A j \in Reach : TreeIn(inode', disk', j) = Tree(j)
      BY <1>14, ReadsNext
    <3> QED BY <1>2, <3>1 DEF Fresh
  <2>3. Structure(inode', disk', Reach)
    BY <1>14
  <2>4. inode'[ino].mode \in {"file", "dir"}
    BY <1>4, <1>8
  <2> QED BY <1>3, <1>15, <1>16, <2>1, <2>2, <2>3, <2>4, Joined, SMTT(60)
<1>18. Tree(ino)' \subseteq bbits'
  <2>1. Tree(ino)' = TreeIn(inode', disk', ino')
    BY DEF Tree, TreeIn, BlockAt, AtIn, Pointers, PointersIn
  <2>2. TreeIn(inode', disk', ino) \subseteq bbits
    <3>1. \A p \in Places : got[p] # 0 => got[p] \in bbits
      BY <1>2 DEF Fresh
    <3> QED BY <1>15, <3>1 DEF TreeIn
  <2> QED BY <1>1, <2>1, <2>2
<1>19. HasInode'
  <2>1. Proper(ino)' = ProperIn(inode', disk', ino')
    BY DEF Proper, ProperIn, Entries, EntriesIn, DirBlock
  <2>2. Structure(inode', disk', Reach' \cup {ino'}) /\ ProperIn(inode', disk', ino') = {}
        /\ ino' \in ibits' \ (Reach' \cup {1})
    BY <1>1, <1>3, <1>14, <1>16, <1>17
  <2> QED BY <1>1, <1>18, <2>1, <2>2 DEF HasInode, Structure, Sound, Unshared, OneName
<1>20. Taking'
  BY <1>1 DEF Taking
<1>21. Removing'
  BY <1>1, <1>2, <1>14 DEF Removing
<1> QED BY <1>11, <1>12, <1>14, <1>19, <1>20, <1>21 DEF IInv, Volume, Kept

\* With short names Link writes the entry where there is none.
LEMMA LinkWrites ==
  ASSUME IInv, ShortNames, Link
  PROVE  /\ pc = "link" /\ Rest /\ UNCHANGED <<bbits, ibits, inode, faults>>
         /\ disk' = [disk EXCEPT ![DirBlock(dir)] =
                                   Dir(FirstSector(Inserted(Entries(dir), name, ino)))]
         /\ clean' = (clean /\ Named(FirstSector(Inserted(Entries(dir), name, ino)), name) # {})
<1> DEFINE f == Entries(dir)
<1>1. pc = "link" /\ Rest /\ UNCHANGED <<bbits, ibits, inode, faults>>
  BY DEF Link
<1>2. PICK j \in Inodes :
        LET d == FirstSector(Overrun(Inserted(f, name, ino), name, j))
        IN  /\ disk' = [disk EXCEPT ![DirBlock(dir)] = Dir(d)]
            /\ clean' = (clean /\ Named(d, name) # {})
  BY DEF Link
<1>3. /\ Typed /\ Volume(inode, disk) /\ Creating /\ Structure(inode, disk, Reach)
      /\ Reach \subseteq Inodes
  BY NowIs DEF IInv
<1>4. dir \in Reach /\ inode[dir].mode = "dir" /\ name \in Names /\ Hosts(f) # {}
  BY <1>1, <1>3 DEF Creating
<1>5. Whole(f)
  <2>1. Sound(inode, disk, Reach) /\ f = EntriesIn(inode, disk, dir)
    BY <1>3, Reads DEF Structure
  <2>2. Kept(f)
    BY <1>3, <1>4, <2>1, DirectoryIs
  <2> QED BY <2>2 DEF Kept
<1> HIDE DEF f
<1>6. Overrun(Inserted(f, name, ino), name, j) = Inserted(f, name, ino)
  BY <1>4, <1>5, NoOverrun
<1> QED BY <1>1, <1>2, <1>6 DEF f

\* Link writes the parent's block: the entries it had, and one for the new inode.
LEMMA LinkingIs ==
  ASSUME IInv, ShortNames, Link
  PROVE  Linking(inode, disk, Reach, ino, dir, Entries(dir),
                 FirstSector(Inserted(Entries(dir), name, ino)), disk')
<1> DEFINE f == Entries(dir)
           e == FirstSector(Inserted(f, name, ino))
<1>1. /\ pc = "link" /\ disk' = [disk EXCEPT ![DirBlock(dir)] = Dir(e)]
  BY LinkWrites
<1>2. /\ Typed /\ Volume(inode, disk) /\ Creating /\ HasInode
      /\ Structure(inode, disk, Reach) /\ Reach \subseteq Inodes /\ Root \in Reach
  BY NowIs DEF IInv
<1>3. /\ dir \in Reach /\ inode[dir].mode = "dir" /\ name \in Names /\ Hosts(f) # {}
  BY <1>1, <1>2 DEF Creating
<1>4. /\ ino \notin Reach /\ ino \in Inodes /\ Structure(inode, disk, Reach \cup {ino})
      /\ ProperIn(inode, disk, ino) = {}
  BY <1>1, <1>2, Reads DEF HasInode, Typed
<1>5. f = EntriesIn(inode, disk, dir)
  BY Reads
<1>6. Kept(f) /\ inode[dir].ptr[1] \in Blocks
  <2>1. Sound(inode, disk, Reach)
    BY <1>2 DEF Structure
  <2> QED BY <1>2, <1>3, <1>5, <2>1, DirectoryIs
<1> HIDE DEF f
<1>7. /\ Kept(e)
      /\ \A y \in DOMAIN f : y \in DOMAIN e /\ e[y].ino = f[y].ino /\ e[y].name = f[y].name
      /\ \A y, q \in DOMAIN e \ DOMAIN f : y = q
      /\ \A y \in DOMAIN e \ DOMAIN f : e[y].ino = ino
  BY <1>3, <1>4, <1>6, InsertIsKept
<1> HIDE DEF e
<1>8. Written(disk, disk', inode[dir].ptr[1], Dir(e))
  <2>1. inode[dir].ptr[1] \in DOMAIN disk
    BY <1>2, <1>6 DEF Volume
  <2> QED BY <1>1, <2>1, WrittenIs DEF DirBlock
<1>9. Closed(inode, disk, Reach)
  BY <1>2, ReachIsClosed
<1>10. Linking(inode, disk, Reach, ino, dir, f, e, disk')
  BY <1>2, <1>3, <1>4, <1>5, <1>7, <1>8, <1>9 DEF Linking
<1> QED BY <1>10 DEF e, f

\* The name is written: what it leads to is marked already.
LEMMA LinkIs == ASSUME IInv, ShortNames, Link PROVE IInv'
<1> DEFINE L == Reach \cup {ino}
<1>1. /\ pc = "link" /\ Rest /\ UNCHANGED <<bbits, ibits, inode, faults>> /\ clean' \in BOOLEAN
  <2>1. clean \in BOOLEAN
    BY DEF IInv, Typed
  <2> QED BY <2>1, LinkWrites
<1>2. /\ Typed /\ Volume(inode, disk) /\ Marked /\ HasInode
  BY DEF IInv
<1>3. /\ ino \in ibits /\ TreeIn(inode, disk, ino) \subseteq bbits
  BY <1>1, <1>2, Reads DEF HasInode
<1>4. /\ Volume(inode, disk') /\ Structure(inode, disk', L)
      /\ \A j \in L : TreeIn(inode, disk', j) = TreeIn(inode, disk, j)
      /\ ReachIn(inode, disk', {Root}) \subseteq L
  BY LinkingIs, Linked
<1> HIDE DEF L
<1>5. Reach' \subseteq L /\ \A j : Tree(j)' = TreeIn(inode', disk', j)
  BY <1>1, <1>4, ReadsNext
<1>6. Structure(inode', disk', Reach') /\ Volume(inode', disk')
  BY <1>1, <1>4, <1>5, StructureDown
<1>7. Marked'
  <2>1. \A j \in Reach' : j \in ibits' /\ Tree(j)' \subseteq bbits'
    BY <1>1, <1>2, <1>3, <1>4, <1>5, Reads DEF Marked, L
  <2> QED BY <1>1, <1>2, <2>1 DEF Marked
<1>8. pc' = "idle" /\ got' = NothingGot /\ todo' = {} /\ stack' = <<>>
  BY <1>1 DEF Rest
<1>9. Doomed' = {} /\ Live' = Reach'
  BY <1>8 DEF Doomed, Live
<1>10. Typed'
  <2>1. /\ NothingGot \in [Places -> {0} \cup Blocks]
        /\ <<>> \in Seq([ino : Inodes, at : 0 .. BlockWords])
    BY DEF NothingGot
  <2> QED BY <1>1, <1>2, <2>1, Numbers DEF Rest, Typed
<1>11. Creating' /\ Taking' /\ HasInode'
  BY <1>8 DEF Creating, Taking, HasInode
<1>12. Removing'
  BY <1>8, <1>9 DEF Removing
<1> QED BY <1>6, <1>7, <1>9, <1>10, <1>11, <1>12 DEF IInv

\* What is freed is what the inode leads to.
LEMMA FreeingIs ==
  ASSUME Typed, NEW i, Freeing(i)
  PROVE  todo' \subseteq Held(i) /\ faults' \in 0 .. MaxFaults /\ clean' \in BOOLEAN
<1>1. PICK single, double \in BOOLEAN :
         /\ todo' = FreedPlaces(i, single, double)
         /\ IF single /\ double THEN UNCHANGED faultVars ELSE Fault
  BY DEF Freeing
<1>2. faults \in 0 .. MaxFaults /\ clean \in BOOLEAN /\ MaxFaults \in Nat
  BY Ext2Assumption DEF Typed
<1>3. CASE single /\ double
  BY <1>1, <1>2, <1>3 DEF FreedPlaces, faultVars
<1>4. CASE ~(single /\ double)
  <2>1. faults < MaxFaults /\ faults' = faults + 1 /\ clean' = FALSE
    BY <1>1, <1>4 DEF Fault
  <2>2. faults' \in 0 .. MaxFaults
    BY <1>2, <2>1
  <2> QED BY <1>1, <2>1, <2>2 DEF FreedPlaces
<1> QED BY <1>3, <1>4

\* A name is taken out of a directory: what it led to, from x down, is doomed.
Parting(x) ==
  /\ Volume(inode', disk') /\ x \in ReachIn(inode', disk', {x})
  /\ Structure(inode', disk', Reach' \cup ReachIn(inode', disk', {x}))
  /\ Reach' \cap ReachIn(inode', disk', {x}) = {} /\ x \in Inodes
  /\ HeldIn(inode', disk', x) = Held(x) /\ Marked' /\ Doomed = {} /\ stack = <<>>

\* Unlink writes the parent's block: the entries it had, but for one.
LEMMA UnlinkingIs ==
  ASSUME IInv, pc = "idle", NEW d \in Parents, NEW n \in Names,
         NEW o \in Named(Entries(d), n), Unlink(d, o)
  PROVE  Unlinking(inode, disk, Reach, d, o, FirstSector(Removed(Entries(d), o)), disk')
<1> DEFINE f == Entries(d)
           e == FirstSector(Removed(f, o))
<1>1. disk' = [disk EXCEPT ![DirBlock(d)] = Dir(e)]
  BY DEF Unlink
<1>2. /\ Volume(inode, disk) /\ Structure(inode, disk, Reach) /\ Reach \subseteq Inodes
      /\ Root \in Reach
  BY NowIs
<1>3. /\ d \in Reach /\ inode[d].mode = "dir" /\ o \in DOMAIN f /\ f[o].name = n
  BY DEF Parents, Named
<1>4. f = EntriesIn(inode, disk, d)
  BY Reads
<1>5. Kept(f) /\ inode[d].ptr[1] \in Blocks
  <2>1. Sound(inode, disk, Reach)
    BY <1>2 DEF Structure
  <2> QED BY <1>2, <1>3, <1>4, <2>1, DirectoryIs
<1>6. Closed(inode, disk, Reach)
  BY <1>2, ReachIsClosed
<1> HIDE DEF f
<1>7. /\ Kept(e) /\ DOMAIN e = DOMAIN f \ {o}
      /\ \A y \in DOMAIN e : e[y].ino = f[y].ino /\ e[y].name = f[y].name
  <2>1. o \in DOMAIN f /\ f[o].name \in Names
    BY <1>3
  <2>2. e = FirstSector(Removed(f, o))
    OBVIOUS
  <2> HIDE DEF e
  <2> QED BY <1>5, <2>1, <2>2, RemoveIsKept
<1> HIDE DEF e
<1>8. Written(disk, disk', inode[d].ptr[1], Dir(e))
  <2>1. inode[d].ptr[1] \in DOMAIN disk
    BY <1>2, <1>5 DEF Volume
  <2> QED BY <1>1, <2>1, WrittenIs DEF DirBlock
<1>9. o \in ProperIn(inode, disk, d)
  BY <1>3, <1>4, DirAssumption DEF ProperIn
<1>10. Unlinking(inode, disk, Reach, d, o, e, disk')
  BY <1>2, <1>3, <1>4, <1>6, <1>7, <1>8, <1>9 DEF Unlinking
<1> QED BY <1>10 DEF e, f

\* The name goes first: what it led to is no longer reached.
LEMMA UnlinkIs ==
  ASSUME IInv, pc = "idle", NEW d \in Parents, NEW n \in Names,
         NEW o \in Named(Entries(d), n), Unlink(d, o), UNCHANGED <<bbits, ibits, inode>>,
         NEW x, x = Entries(d)[o].ino
  PROVE  Parting(x)
<1> PICK D : D = ReachIn(inode', disk', {x})
  OBVIOUS
<1> DEFINE R == Reach
<1>1. /\ inode' = inode /\ bbits' = bbits /\ ibits' = ibits
  OBVIOUS
<1>2. /\ Typed /\ Marked /\ Removing /\ R \subseteq Inodes
  BY NowIs DEF IInv
<1>3. D = ReachIn(inode, disk', {x}) /\ Reach' = ReachIn(inode, disk', {Root})
  BY <1>1, ReadsNext
<1>4. /\ Volume(inode, disk') /\ Structure(inode, disk', R)
      /\ \A i \in R : /\ TreeIn(inode, disk', i) = TreeIn(inode, disk, i)
                     /\ HeldIn(inode, disk', i) = HeldIn(inode, disk, i)
      /\ x \in R /\ Reach' \subseteq R /\ D \subseteq R /\ Reach' \cap D = {}
  <2>1. Unlinking(inode, disk, R, d, o, FirstSector(Removed(Entries(d), o)), disk')
    BY UnlinkingIs
  <2>2. x = EntriesIn(inode, disk, d)[o].ino
    BY Reads
  <2>3. /\ Volume(inode, disk') /\ Structure(inode, disk', R) /\ Parted(inode, disk', R, x)
        /\ \A i \in R : /\ TreeIn(inode, disk', i) = TreeIn(inode, disk, i)
                       /\ HeldIn(inode, disk', i) = HeldIn(inode, disk, i)
    BY <2>1, <2>2, Unlinked
  <2> QED BY <1>3, <2>3 DEF Parted
<1> HIDE DEF R
<1>5. Volume(inode', disk') /\ Structure(inode', disk', Reach' \cup D)
  BY <1>1, <1>4, StructureDown
<1>6. x \in Inodes /\ x \in D
  BY <1>2, <1>3, <1>4 DEF ReachIn
<1>7. HeldIn(inode', disk', x) = Held(x)
  BY <1>1, <1>4, Reads
<1>8. Marked'
  <2>1. \A j \in Reach' : j \in ibits' /\ TreeIn(inode', disk', j) \subseteq bbits'
    BY <1>1, <1>2, <1>4, Reads DEF Marked, R
  <2> QED BY <1>1, <1>2, <2>1, ReadsNext DEF Marked
<1>9. Doomed = {} /\ stack = <<>>
  <2>1. Doomed = {}
    BY DEF Doomed
  <2>2. stack \in Seq([ino : Inodes, at : 0 .. BlockWords]) /\ DOMAIN stack = {}
    BY <1>2, <2>1 DEF Typed, Removing
  <2>3. Len(stack) = 0
    BY <2>2, LenProperties
  <2> QED BY <2>1, <2>2, <2>3, EmptySeq
<1> QED BY <1>4, <1>5, <1>6, <1>7, <1>8, <1>9 DEF Parting

\* ext2_delete_file begins.
LEMMA DeleteFileIs ==
  ASSUME IInv, NEW d \in Parents, NEW n \in Names, DeleteFile(d, n)
  PROVE  IInv'
<1>1. PICK o \in Named(Entries(d), n) : /\ Unlink(d, o) /\ Freeing(Entries(d)[o].ino)
                                        /\ ino' = Entries(d)[o].ino
  BY DEF DeleteFile
<1>2. /\ pc = "idle" /\ pc' = "free" /\ UNCHANGED <<bbits, ibits, inode>>
      /\ UNCHANGED callVars /\ UNCHANGED <<plan, got, stack>>
  BY DEF DeleteFile
<1> PICK x : x = Entries(d)[o].ino
  OBVIOUS
<1> PICK D : D = ReachIn(inode', disk', {x})
  OBVIOUS
<1>3. /\ Volume(inode', disk') /\ Structure(inode', disk', Reach' \cup D)
      /\ Reach' \cap D = {} /\ x \in D /\ x \in Inodes /\ HeldIn(inode', disk', x) = Held(x)
      /\ Marked' /\ Doomed = {} /\ stack = <<>>
  <2>1. Parting(x)
    BY <1>1, <1>2, UnlinkIs
  <2> QED BY <2>1 DEF Parting
<1>4. /\ Typed /\ Removing
  BY DEF IInv
<1>5. todo' \subseteq Held(x) /\ faults' \in 0 .. MaxFaults /\ clean' \in BOOLEAN /\ ino' = x
  BY <1>1, <1>4, FreeingIs
<1>6. Doomed' = D
  <2>1. Doomed' = ReachIn(inode', disk', {ino'})
    BY <1>2, <1>3 DEF Doomed
  <2> QED BY <1>5, <2>1
<1>7. Live' = Reach' \cup D
  BY <1>6 DEF Live
<1>8. Typed'
  BY <1>2, <1>3, <1>4, <1>5 DEF Typed, callVars
<1>9. Creating' /\ Taking' /\ HasInode'
  BY <1>2 DEF Creating, Taking, HasInode
<1>10. Held(ino)' = Held(x)
  <2>1. Held(ino)' = HeldIn(inode', disk', ino')
    BY DEF Held, HeldIn, BlockAt, AtIn, Pointers, PointersIn
  <2> QED BY <1>3, <1>5, <2>1
<1>11. Removing'
  BY <1>2, <1>3, <1>4, <1>5, <1>6, <1>10 DEF Removing
<1> QED BY <1>3, <1>7, <1>8, <1>9, <1>11 DEF IInv

\* ext2_remove_directory begins.
LEMMA RemoveDirectoryIs ==
  ASSUME IInv, NEW d \in Parents, NEW n \in Names, RemoveDirectory(d, n)
  PROVE  IInv'
<1>1. PICK o \in Named(Entries(d), n) :
         Unlink(d, o) /\ stack' = <<[ino |-> Entries(d)[o].ino, at |-> 0]>>
  BY DEF RemoveDirectory
<1>2. /\ pc = "idle" /\ pc' = "wipe" /\ UNCHANGED <<bbits, ibits, inode>>
      /\ UNCHANGED callVars /\ UNCHANGED <<plan, got, ino, todo>> /\ UNCHANGED <<faults, clean>>
  BY DEF RemoveDirectory, faultVars
<1> PICK x : x = Entries(d)[o].ino
  OBVIOUS
<1> PICK D : D = ReachIn(inode', disk', {x})
  OBVIOUS
<1>3. /\ Volume(inode', disk') /\ Structure(inode', disk', Reach' \cup D)
      /\ Reach' \cap D = {} /\ x \in D /\ x \in Inodes /\ HeldIn(inode', disk', x) = Held(x)
      /\ Marked' /\ Doomed = {} /\ stack = <<>>
  <2>1. Parting(x)
    BY <1>1, <1>2, UnlinkIs
  <2> QED BY <2>1 DEF Parting
<1>4. /\ Typed /\ Removing
  BY DEF IInv
<1>5. /\ stack' = <<[ino |-> x, at |-> 0]>> /\ stack'[1].ino = x /\ stack' # <<>>
      /\ \A m \in DOMAIN stack' : stack'[m].ino = x
  BY <1>1
<1>6. Doomed' = D
  <2>1. Doomed' = ReachIn(inode', disk', {stack'[1].ino})
    BY <1>2, <1>5 DEF Doomed
  <2> QED BY <1>5, <2>1
<1>7. Live' = Reach' \cup D
  BY <1>6 DEF Live
<1>8. Typed'
  <2>1. stack' \in Seq([ino : Inodes, at : 0 .. BlockWords])
    BY <1>3, <1>5, Words
  <2> QED BY <1>2, <1>4, <2>1 DEF Typed, callVars
<1>9. Creating' /\ Taking' /\ HasInode'
  BY <1>2 DEF Creating, Taking, HasInode
<1>10. Removing'
  BY <1>2, <1>3, <1>4, <1>5, <1>6 DEF Removing
<1> QED BY <1>3, <1>7, <1>8, <1>9, <1>10 DEF IInv

Frames == [ino : Inodes, at : 0 .. BlockWords]
Bottom == IF stack = <<>> THEN ino ELSE stack[1].ino

\* A step of the removal that writes no inode and no block.
LEMMA Onward ==
  ASSUME IInv, UNCHANGED <<inode, disk>>, pc \in {"wipe", "free"}, pc' \in {"wipe", "free"},
         Bottom' = Bottom, Typed', Marked', got' = NothingGot,
         pc' = "free" => ino' \in Doomed /\ todo' \subseteq Held(ino'),
         pc' = "wipe" => todo' = {} /\ stack' # <<>>,
         \A m \in DOMAIN stack' : stack'[m].ino \in Doomed
  PROVE  IInv'
<1>1. Volume(inode, disk)' /\ Reach' = Reach
  BY Still DEF IInv
<1>2. Doomed' = Doomed
  BY DEF Doomed, Bottom
<1>3. Live' = Live
  BY <1>1, <1>2 DEF Live
<1>4. Structure(inode', disk', Live')
  BY <1>3, Still DEF IInv
<1>5. Held(ino)' = Held(ino')
  BY ZenonT(60) DEF Held, BlockAt, Pointers
<1>6. Creating' /\ Taking' /\ HasInode'
  BY DEF Creating, Taking, HasInode
<1>7. Removing'
  BY <1>1, <1>2, <1>5 DEF IInv, Removing
<1> QED BY <1>1, <1>4, <1>6, <1>7 DEF IInv

\* The top of the stack moves on in its directory.
LEMMA StackSet ==
  ASSUME stack \in Seq(Frames), stack # <<>>, NEW v \in 0 .. BlockWords,
         NEW on, on = [stack EXCEPT ![Len(stack)].at = v]
  PROVE  /\ on \in Seq(Frames) /\ Len(on) = Len(stack) /\ on # <<>>
         /\ \A m \in 1 .. Len(stack) : on[m].ino = stack[m].ino
<1> DEFINE k == Len(stack)
           r == [stack[k] EXCEPT !.at = v]
<1>1. /\ k \in 1 .. Len(stack) /\ DOMAIN stack = 1 .. k /\ k \in Nat
      /\ \A m \in 1 .. k : stack[m] \in Frames
  BY EmptySeq, LenProperties, ElementOfSeq
<1>2. r \in Frames /\ r.ino = stack[k].ino
  BY <1>1 DEF Frames
<1>3. on = [stack EXCEPT ![k] = r]
  OBVIOUS
<1> HIDE DEF r
<1>4. on \in Seq(Frames) /\ Len(on) = Len(stack)
  BY <1>1, <1>2, <1>3, ExceptSeq
<1>5. \A m \in 1 .. k : on[m].ino = stack[m].ino
  BY <1>1, <1>2, <1>3
<1> QED BY <1>1, <1>4, <1>5, EmptySeq

\* The callers of ext2_wipe_inode are all being removed.
LEMMA TopIs ==
  ASSUME IInv, pc = "wipe"
  PROVE  /\ stack \in Seq(Frames) /\ stack # <<>> /\ DOMAIN stack = 1 .. Len(stack)
         /\ Len(stack) \in Nat /\ Len(stack) >= 1 /\ Top = stack[Len(stack)]
         /\ Top.ino \in Doomed /\ Top.ino \in Inodes /\ Bottom = stack[1].ino
         /\ \A m \in 1 .. Len(stack) : stack[m].ino \in Doomed
<1>1. stack \in Seq(Frames) /\ stack # <<>>
  BY DEF IInv, Typed, Removing, Frames
<1>2. DOMAIN stack = 1 .. Len(stack) /\ Len(stack) \in Nat /\ Len(stack) >= 1
  BY <1>1, EmptySeq, LenProperties
<1>3. Top = stack[Len(stack)] /\ Len(stack) \in 1 .. Len(stack)
  BY <1>2 DEF Top, Last
<1>4. Top \in Frames
  BY <1>1, <1>2, <1>3, ElementOfSeq
<1>5. \A m \in 1 .. Len(stack) : stack[m].ino \in Doomed
  BY <1>2 DEF IInv, Removing
<1> QED BY <1>1, <1>2, <1>3, <1>4, <1>5 DEF Bottom, Frames

\* ext2_wipe_inode comes to an entry: what it names is being removed too.
LEMMA WipeEntryIs == ASSUME IInv, WipeEntry PROVE IInv'
<1> DEFINE d == Entries(Top.ino)
           e == d[Top.at]
           v == Top.at + e.rec
           on == [stack EXCEPT ![Len(stack)].at = v]
           new == [ino |-> e.ino, at |-> 0]
<1>1. /\ pc = "wipe" /\ pc' = "wipe" /\ Top.at \in DOMAIN d
      /\ UNCHANGED <<bbits, ibits, inode, disk, plan, got, ino, todo, faults, clean>>
      /\ UNCHANGED callVars
      /\ stack' = IF e.name \in {".", ".."} THEN on ELSE Append(on, new)
  BY DEF WipeEntry, diskVars, faultVars
<1>2. /\ Typed /\ Volume(inode, disk) /\ Marked /\ Removing
  BY DEF IInv
<1>3. /\ stack \in Seq(Frames) /\ stack # <<>> /\ DOMAIN stack = 1 .. Len(stack)
      /\ Len(stack) \in Nat /\ Len(stack) >= 1
      /\ Top.ino \in Doomed /\ Top.ino \in Inodes /\ Bottom = stack[1].ino
      /\ \A m \in 1 .. Len(stack) : stack[m].ino \in Doomed
  BY <1>1, TopIs
<1>4. v \in 0 .. BlockWords /\ e.ino \in Inodes
  <2>1. d = EntriesIn(inode, disk, Top.ino)
    BY Reads
  <2>2. Kept(d) /\ \A o \in DOMAIN d : d[o].ino \in Inodes
    BY <1>1, <1>2, <1>3, <2>1, EntriesAre
  <2>3. Whole(d)
    BY <2>2 DEF Kept
  <2> HIDE DEF d
  <2>4. /\ Top.at \in Int /\ 0 <= Top.at /\ e.rec \in Int /\ Top.at + e.rec <= BlockWords
        /\ RealLen(e) <= e.rec /\ RealLen(e) \in 3 .. 6
    BY <1>1, <2>3, EntryIs
  <2> QED BY <1>1, <2>2, <2>4, Words
<1>5. e.name \notin {".", ".."} => e.ino \in Doomed
  <2>1. e.name \notin {".", ".."} => e.ino \in KidsIn(inode, disk, Top.ino)
    BY <1>1, Reads DEF KidsIn, ProperIn
  <2>2. Closed(inode, disk, Doomed)
    BY <1>1, <1>2, DoomedIsClosed
  <2> QED BY <1>3, <2>1, <2>2 DEF Closed
<1> HIDE DEF v, e, d
<1>6. /\ on \in Seq(Frames) /\ Len(on) = Len(stack) /\ on # <<>>
      /\ \A m \in 1 .. Len(stack) : on[m].ino = stack[m].ino
  BY <1>3, <1>4, StackSet
<1> HIDE DEF on
<1>7. /\ stack' \in Seq(Frames) /\ stack' # <<>> /\ stack'[1].ino = stack[1].ino
      /\ \A m \in DOMAIN stack' : stack'[m].ino \in Doomed
  <2>1. CASE stack' = on
    <3>1. DOMAIN on = 1 .. Len(stack)
      BY <1>6, LenProperties
    <3> QED BY <1>3, <1>6, <2>1, <3>1
  <2>2. CASE e.name \notin {".", ".."} /\ stack' = Append(on, new)
    <3>1. new \in Frames /\ new.ino = e.ino
      BY <1>4, Words DEF Frames
    <3> HIDE DEF new
    <3>2. /\ Append(on, new) \in Seq(Frames) /\ Append(on, new) # <<>>
          /\ Len(Append(on, new)) = Len(on) + 1
          /\ \A m \in 1 .. Len(on) : Append(on, new)[m] = on[m]
          /\ Append(on, new)[Len(on) + 1] = new
      BY <1>6, <3>1, AppendProperties
    <3>3. DOMAIN stack' = 1 .. Len(stack) + 1
      BY <1>6, <2>2, <3>2, LenProperties
    <3>4. \A m \in 1 .. Len(stack) : stack'[m].ino = stack[m].ino
      BY <1>6, <2>2, <3>2
    <3>5. stack'[Len(stack) + 1].ino \in Doomed
      BY <1>5, <1>6, <2>2, <3>1, <3>2
    <3>6. \A m \in DOMAIN stack' : stack'[m].ino \in Doomed
      BY <1>3, <3>3, <3>4, <3>5
    <3> QED BY <1>3, <2>2, <3>2, <3>4, <3>6
  <2> QED BY <1>1, <2>1, <2>2
<1>8. Bottom' = Bottom
  BY <1>3, <1>7 DEF Bottom
<1>9. Typed'
  BY <1>1, <1>2, <1>7 DEF Typed, callVars, Frames
<1>10. Marked'
  BY <1>1, <1>2, Still DEF Marked
<1>11. got' = NothingGot /\ todo' = {}
  BY <1>1, <1>2 DEF Removing
<1> QED BY <1>1, <1>7, <1>8, <1>9, <1>10, <1>11, Onward

\* Faults are counted up to their bound.
LEMMA FaultIs ==
  ASSUME Typed, Fault
  PROVE  faults' \in 0 .. MaxFaults /\ clean' \in BOOLEAN
<1>1. faults \in 0 .. MaxFaults /\ MaxFaults \in Nat
  BY Ext2Assumption DEF Typed
<1>2. faults < MaxFaults /\ faults' = faults + 1 /\ clean' = FALSE
  BY DEF Fault
<1>3. faults' \in 0 .. MaxFaults
  BY <1>1, <1>2
<1> QED BY <1>2, <1>3

\* ext2_wipe_inode turns to the blocks of the inode itself.
LEMMA WipeSelfIs == ASSUME IInv, WipeSelf PROVE IInv'
<1>1. /\ pc = "wipe" /\ pc' = "free" /\ Freeing(Top.ino) /\ ino' = Top.ino
      /\ UNCHANGED <<bbits, ibits, inode, disk>> /\ UNCHANGED callVars
      /\ UNCHANGED <<plan, got, stack>>
  BY DEF WipeSelf, diskVars
<1>2. /\ Typed /\ Marked /\ Removing
  BY DEF IInv
<1>3. /\ stack # <<>> /\ Top.ino \in Doomed /\ Top.ino \in Inodes
  BY <1>1, TopIs
<1>4. todo' \subseteq Held(Top.ino) /\ faults' \in 0 .. MaxFaults /\ clean' \in BOOLEAN
  BY <1>1, <1>2, FreeingIs
<1>5. Bottom' = Bottom /\ \A m \in DOMAIN stack' : stack'[m].ino \in Doomed
  BY <1>1, <1>2, <1>3 DEF Bottom, Removing
<1>6. Typed'
  BY <1>1, <1>2, <1>3, <1>4 DEF Typed, callVars
<1>7. Marked'
  BY <1>1, <1>2, Still DEF Marked
<1>8. got' = NothingGot
  BY <1>1, <1>2 DEF Removing
<1>9. ino' \in Doomed /\ todo' \subseteq Held(ino')
  BY <1>1, <1>3, <1>4
<1> QED BY <1>1, <1>5, <1>6, <1>7, <1>8, <1>9, Onward

\* ext2_wipe_inode has no buffer for a directory.
LEMMA WipeNoEntriesIs == ASSUME IInv, WipeNoEntries PROVE IInv'
<1> DEFINE on == [stack EXCEPT ![Len(stack)].at = BlockWords]
<1>1. /\ pc = "wipe" /\ pc' = "wipe" /\ stack' = on /\ Fault
      /\ UNCHANGED <<bbits, ibits, inode, disk>> /\ UNCHANGED callVars
      /\ UNCHANGED <<plan, got, ino, todo>>
  BY DEF WipeNoEntries, diskVars
<1>2. /\ Typed /\ Marked /\ Removing
  BY DEF IInv
<1>3. /\ stack \in Seq(Frames) /\ stack # <<>> /\ DOMAIN stack = 1 .. Len(stack)
      /\ Len(stack) >= 1 /\ Bottom = stack[1].ino /\ Len(stack) \in Nat
      /\ \A m \in 1 .. Len(stack) : stack[m].ino \in Doomed
  BY <1>1, TopIs
<1>4. /\ on \in Seq(Frames) /\ Len(on) = Len(stack) /\ on # <<>>
      /\ \A m \in 1 .. Len(stack) : on[m].ino = stack[m].ino
  <2>1. BlockWords \in 0 .. BlockWords
    BY Words
  <2>2. on = [stack EXCEPT ![Len(stack)].at = BlockWords]
    OBVIOUS
  <2> HIDE DEF on
  <2> QED BY <1>3, <2>1, <2>2, StackSet
<1> HIDE DEF on
<1>5. \A m \in DOMAIN stack' : stack'[m].ino \in Doomed
  <2>1. DOMAIN on = 1 .. Len(stack)
    BY <1>4, LenProperties
  <2> QED BY <1>1, <1>3, <1>4, <2>1
<1>6. Bottom' = Bottom
  BY <1>1, <1>3, <1>4 DEF Bottom
<1>7. Typed'
  <2>1. faults' \in 0 .. MaxFaults /\ clean' \in BOOLEAN
    BY <1>1, <1>2, FaultIs
  <2> QED BY <1>1, <1>2, <1>4, <2>1 DEF Typed, callVars, Frames
<1>8. Marked'
  BY <1>1, <1>2, Still DEF Marked
<1>9. got' = NothingGot /\ todo' = {} /\ stack' # <<>>
  BY <1>1, <1>2, <1>4 DEF Removing
<1> QED BY <1>1, <1>5, <1>6, <1>7, <1>8, <1>9, Onward

\* ext2_wipe_inode or ext2_delete_file returns.
LEMMA ReturnIs ==
  ASSUME IInv, Return, pc \in {"wipe", "free"}, todo = {}, UNCHANGED <<inode, disk, bbits>>,
         ibits' \subseteq Inodes, {1, Root} \subseteq ibits', Reach \subseteq ibits',
         faults' \in 0 .. MaxFaults, clean' \in BOOLEAN
  PROVE  IInv'
<1>1. /\ Typed /\ Marked /\ Removing
  BY DEF IInv
<1>2. CASE Rest
  <2>1. bbits' \subseteq Blocks /\ Reserved \subseteq bbits'
    BY <1>1 DEF Typed, Marked
  <2>2. \A i \in Reach : Tree(i) \subseteq bbits'
    BY <1>1 DEF Marked
  <2> QED BY <1>2, <2>1, <2>2, RestIs
<1>3. CASE /\ Len(stack) > 1 /\ stack' = Front(stack) /\ pc' = "wipe" /\ ino' = 0
           /\ UNCHANGED <<callVars, plan, got, todo>>
  <2> DEFINE k == Len(stack)
  <2>1. stack \in Seq(Frames) /\ k \in Nat /\ k > 1 /\ DOMAIN stack = 1 .. k
    BY <1>1, <1>3, LenProperties DEF Typed, Frames
  <2>2. stack' = SubSeq(stack, 1, k - 1)
    BY <1>3 DEF Front
  <2>3. \A m \in 1 .. k - 1 : stack[m] \in Frames
    BY <2>1, ElementOfSeq
  <2>4. /\ stack' \in Seq(Frames) /\ Len(stack') = k - 1
        /\ \A m \in 1 .. k - 1 : stack'[m] = stack[m]
    <3> HIDE DEF k
    <3>1. k - 1 \in Int /\ 1 <= k - 1 /\ 1 \in Int
      BY <2>1
    <3>2. /\ SubSeq(stack, 1, k - 1) \in Seq(Frames)
          /\ Len(SubSeq(stack, 1, k - 1)) = k - 1 - 1 + 1
          /\ \A m \in 1 .. k - 1 - 1 + 1 : SubSeq(stack, 1, k - 1)[m] = stack[1 + m - 1]
      BY <2>3, <3>1, SubSeqProperties
    <3>3. ASSUME NEW m \in 1 .. k - 1 PROVE SubSeq(stack, 1, k - 1)[m] = stack[m]
      <4>1. k - 1 - 1 + 1 = k - 1 /\ 1 + m - 1 = m
        BY <2>1
      <4> QED BY <3>2, <4>1
    <3>4. k - 1 - 1 + 1 = k - 1
      BY <2>1
    <3> QED BY <2>2, <3>2, <3>3, <3>4
  <2> HIDE DEF k
  <2>5. DOMAIN stack' = 1 .. k - 1 /\ stack' # <<>>
    BY <2>1, <2>4, LenProperties, EmptySeq
  <2>6. \A m \in DOMAIN stack' : stack'[m].ino \in Doomed
    BY <1>1, <2>1, <2>4, <2>5 DEF Removing
  <2>7. Bottom' = Bottom
    <3>1. stack # <<>> /\ 1 \in 1 .. k - 1
      BY <2>1, EmptySeq DEF k
    <3> QED BY <2>4, <2>5, <3>1 DEF Bottom
  <2>8. Typed'
    BY <1>1, <1>3, <2>4, Numbers DEF Typed, callVars, Frames
  <2>9. Marked'
    <3>1. Reach' = Reach /\ \A i : Tree(i)' = Tree(i)
      BY Still
    <3> QED BY <1>1, <3>1 DEF Marked
  <2>10. got' = NothingGot /\ todo' = {}
    BY <1>1, <1>3 DEF Removing
  <2> QED BY <1>3, <2>5, <2>6, <2>7, <2>8, <2>9, <2>10, Onward
<1> QED BY <1>2, <1>3 DEF Return

\* ext2_wipe_inode has no buffer at all.
LEMMA WipeNothingIs == ASSUME IInv, WipeNothing PROVE IInv'
<1>1. /\ pc = "wipe" /\ Return /\ Fault /\ UNCHANGED <<bbits, ibits, inode, disk>>
  BY DEF WipeNothing, diskVars
<1>2. /\ Typed /\ Marked /\ Removing
  BY DEF IInv
<1>3. todo = {} /\ faults' \in 0 .. MaxFaults /\ clean' \in BOOLEAN
  BY <1>1, <1>2, FaultIs DEF Removing
<1>4. ibits' \subseteq Inodes /\ {1, Root} \subseteq ibits' /\ Reach \subseteq ibits'
  BY <1>1, <1>2 DEF Typed, Marked
<1> QED BY <1>1, <1>3, <1>4, ReturnIs

\* The power fails: nothing that is reached was in memory only.
LEMMA PowerFailsIs == ASSUME IInv, PowerFails PROVE IInv'
<1>1. /\ Rest /\ Fault /\ UNCHANGED <<bbits, ibits, inode, disk>>
  BY DEF PowerFails, diskVars
<1>2. /\ Typed /\ Marked
  BY DEF IInv
<1>3. faults' \in 0 .. MaxFaults /\ clean' \in BOOLEAN
  BY <1>1, <1>2, FaultIs
<1>4. /\ bbits' \subseteq Blocks /\ ibits' \subseteq Inodes /\ Reserved \subseteq bbits'
      /\ {1, Root} \subseteq ibits' /\ Reach \subseteq ibits'
  BY <1>1, <1>2 DEF Typed, Marked
<1>5. \A i \in Reach : Tree(i) \subseteq bbits'
  BY <1>1, <1>2 DEF Marked
<1> QED BY <1>1, <1>3, <1>4, <1>5, RestIs

\* What is being freed is in no tree that a path leads to.
LEMMA DoomedIsApart ==
  ASSUME IInv, pc = "free"
  PROVE  /\ ino \in Inodes /\ ino \in Live /\ ino \notin Reach /\ ino # 1 /\ ino # Root
         /\ \A b \in Tree(ino) : b \notin Reserved /\ \A i \in Reach : b \notin Tree(i)
         /\ Tree(ino) \subseteq Blocks
<1>1. /\ Typed /\ Removing /\ Volume(inode, disk) /\ Structure(inode, disk, Live)
      /\ Root \in Reach
  BY NowIs DEF IInv
<1>2. ino \in Doomed /\ ino \notin Reach /\ ino \in Live
  BY <1>1 DEF Removing, Live
<1>3. ino \in Inodes
  BY <1>1, <1>2, DoomedIsClosed
<1>4. ino # 1 /\ TreeIn(inode, disk, ino) \cap Reserved = {}
  BY <1>1, <1>2 DEF Structure, Sound
<1>5. ASSUME NEW i \in Reach, NEW b \in TreeIn(inode, disk, ino)
      PROVE  b \notin TreeIn(inode, disk, i)
  <2>1. Unshared(inode, disk, Live) /\ i \in Live /\ i # ino
    BY <1>1, <1>2 DEF Structure, Live
  <2> QED BY <1>2, <2>1, OtherTree
<1>6. TreeIn(inode, disk, ino) \subseteq Blocks
  BY <1>1, <1>3, TreeIsBlocks
<1> QED BY <1>1, <1>2, <1>3, <1>4, <1>5, <1>6, Reads

\* The inode is given back.
LEMMA FreeInodeIs == ASSUME IInv, FreeInode PROVE IInv'
<1>1. /\ pc = "free" /\ todo = {} /\ ibits' = ibits \ {ino} /\ Return
      /\ UNCHANGED <<bbits, inode, disk>> /\ UNCHANGED <<faults, clean>>
  BY DEF FreeInode, faultVars
<1>2. ino \notin Reach /\ ino # 1 /\ ino # Root
  BY <1>1, DoomedIsApart
<1>3. /\ Typed /\ Marked
  BY DEF IInv
<1>4. /\ ibits' \subseteq Inodes /\ {1, Root} \subseteq ibits' /\ Reach \subseteq ibits'
      /\ faults' \in 0 .. MaxFaults /\ clean' \in BOOLEAN
  BY <1>1, <1>2, <1>3 DEF Typed, Marked
<1> QED BY <1>1, <1>4, ReturnIs

\* With one group the bit that is cleared is the bit of the block.
LEMMA FreeBlockIs == ASSUME IInv, NGroups = 1, FreeBlock PROVE IInv'
<1>1. PICK p \in todo : ClearBit(BlockAt(inode[ino].ptr, p)) /\ todo' = todo \ {p}
  BY DEF FreeBlock
<1>2. /\ pc = "free" /\ pc' = "free" /\ UNCHANGED <<inode, disk, plan, got, ino, stack>>
      /\ UNCHANGED callVars /\ UNCHANGED <<faults, clean>>
  BY DEF FreeBlock, faultVars
<1> DEFINE b == BlockAt(inode[ino].ptr, p)
<1>3. /\ Typed /\ Marked /\ Removing
  BY DEF IInv
<1>4. b \in Tree(ino)
  <2>1. p \in Held(ino)
    BY <1>2, <1>3 DEF Removing
  <2> QED BY <2>1 DEF Held, Tree
<1> HIDE DEF b
<1>5. b \in Blocks /\ b \notin Reserved /\ \A i \in Reach : b \notin Tree(i)
  BY <1>2, <1>4, DoomedIsApart
<1>6. bbits' = bbits \ {b} /\ ibits' = ibits
  BY <1>1, <1>5, OneGroup DEF ClearBit, b
<1>7. Bottom' = Bottom
  BY <1>2 DEF Bottom
<1>8. Typed'
  BY <1>2, <1>3, <1>6 DEF Typed, callVars
<1>9. Marked'
  <2>1. Reach' = Reach /\ \A i : Tree(i)' = Tree(i)
    BY <1>2, Still
  <2>2. \A i \in Reach : Tree(i) \subseteq bbits \ {b}
    BY <1>3, <1>5 DEF Marked
  <2> QED BY <1>3, <1>5, <1>6, <2>1, <2>2 DEF Marked
<1>10. got' = NothingGot /\ ino' \in Doomed /\ todo' \subseteq Held(ino')
  BY <1>1, <1>2, <1>3 DEF Removing
<1>11. \A m \in DOMAIN stack' : stack'[m].ino \in Doomed
  BY <1>2, <1>3 DEF Removing
<1> QED BY <1>2, <1>7, <1>8, <1>9, <1>10, <1>11, Onward

\* A step that changes nothing.
LEMMA StutterIs == ASSUME IInv, UNCHANGED vars PROVE IInv'
<1>1. /\ UNCHANGED <<bbits, ibits, inode, disk>> /\ pc' = pc
      /\ UNCHANGED <<kind, dir, name, size>> /\ UNCHANGED <<plan, got, ino, todo, stack>>
      /\ UNCHANGED <<faults, clean>>
  BY DEF vars, diskVars, callVars, workVars, faultVars
<1>2. /\ Volume(inode, disk)' /\ Reach' = Reach
      /\ \A i : Tree(i)' = Tree(i)
  BY <1>1, Still DEF IInv
<1>3. Doomed' = Doomed
  BY <1>1 DEF Doomed
<1>4. Live' = Live
  BY <1>2, <1>3 DEF Live
<1>5. \A L : Structure(inode', disk', L) = Structure(inode, disk, L)
  BY <1>1, Still
<1>6. Structure(inode', disk', Live')
  BY <1>4, <1>5 DEF IInv
<1>7. Typed'
  BY <1>1 DEF IInv, Typed
<1>8. Marked'
  BY <1>1, <1>2 DEF IInv, Marked
<1>9. Creating'
  <2>1. Entries(dir)' = Entries(dir)
    BY <1>1 DEF Entries, DirBlock
  <2> QED BY <1>1, <1>2, <2>1 DEF IInv, Creating, Named, Hosts, RealLen
<1>10. Taking'
  <2>1. Taking
    BY DEF IInv
  <2> SUFFICES ASSUME pc \in {"blocks", "inode"} PROVE Taking'
    BY <1>1 DEF Taking
  <2>2. Fresh' /\ Stored'
    BY <1>1, <1>2, <2>1 DEF Taking, Fresh, Stored
  <2> QED BY <1>1, <2>1, <2>2 DEF Taking
<1>11. HasInode'
  <2>1. Proper(ino)' = Proper(ino) /\ Tree(ino)' = Tree(ino)
    BY <1>1 DEF Proper, Entries, DirBlock, Tree, BlockAt, Pointers
  <2>2. Structure(inode', disk', Reach' \cup {ino'}) = Structure(inode, disk, Reach \cup {ino})
    BY <1>1, <1>2
  <2> QED BY <1>1, <1>2, <2>1, <2>2 DEF IInv, HasInode
<1>12. Removing'
  <2>1. Held(ino)' = Held(ino)
    BY <1>1 DEF Held, BlockAt, Pointers
  <2> QED BY <1>1, <1>2, <1>3, <2>1 DEF IInv, Removing
<1> QED BY <1>2, <1>6, <1>7, <1>8, <1>9, <1>10, <1>11, <1>12 DEF IInv

\* Every step keeps the invariant.
LEMMA NextIs == ASSUME IInv, NGroups = 1, ShortNames, Next PROVE IInv'
<1>1. ASSUME NEW d \in Parents, NEW n \in Names, NEW z \in Sizes, WriteFile(d, n, z)
      PROVE  IInv'
  BY <1>1, BeginIs DEF WriteFile
<1>2. ASSUME NEW d \in Parents, NEW n \in Names, MakeDirectory(d, n)
      PROVE  IInv'
  BY <1>2, BeginIs DEF MakeDirectory
<1>3. ASSUME NEW d \in Parents, NEW n \in Names, DeleteFile(d, n)
      PROVE  IInv'
  BY <1>3, DeleteFileIs
<1>4. ASSUME NEW d \in Parents, NEW n \in Names, RemoveDirectory(d, n)
      PROVE  IInv'
  BY <1>4, RemoveDirectoryIs
<1> QED BY <1>1, <1>2, <1>3, <1>4, TakeBlockIs, StoreListIs, TakeInodeIs, WriteInodeIs, LinkIs,
           WipeEntryIs, WipeSelfIs, WipeNoEntriesIs, WipeNothingIs, FreeBlockIs, FreeInodeIs,
           PowerFailsIs DEF Next

\* The invariant implies the properties the runs check: the types,
LEMMA TypeIs == ASSUME IInv PROVE TypeOK
<1>1. /\ Typed /\ Volume(inode, disk) /\ Removing
  BY DEF IInv
<1>2. todo \subseteq Places /\ (todo # {} => ino # 0 /\ todo \subseteq Held(ino))
  <2>1. CASE pc = "free"
    <3>1. ino \in Inodes
      BY <2>1, DoomedIsApart
    <3> QED BY <1>1, <2>1, <3>1, Numbers DEF Removing, Held
  <2>2. CASE pc # "free"
    BY <1>1, <2>2 DEF Removing
  <2> QED BY <2>1, <2>2
<1>3. ASSUME NEW b \in {0} \cup Blocks
      PROVE  /\ disk[b].is \in {"data", "list", "dir"}
             /\ disk[b].is = "list" => disk[b].at \in [1 .. NList -> {0} \cup Blocks]
             /\ disk[b].is = "dir" => /\ Whole(disk[b].at)
                                      /\ \A o \in DOMAIN disk[b].at : disk[b].at[o].ino \in Inodes
  BY <1>1 DEF Volume, Kept
<1>4. /\ inode \in [Inodes -> [mode : {"none", "file", "dir"}, size : {0, 1} \cup Sizes,
                               ptr : [Slots -> {0} \cup Blocks]]]
      /\ DOMAIN disk = {0} \cup Blocks
  BY <1>1 DEF Volume
<1> QED BY <1>1, <1>2, <1>3, <1>4 DEF Typed, TypeOK

\* ... that what is reached is marked,
LEMMA ReachIsMarkedIs == ASSUME IInv PROVE ReachIsMarked
<1>1. Marked /\ Structure(inode, disk, Reach)
  BY NowIs DEF IInv
<1>2. \A i \in Reach : inode[i].mode # "none"
  BY <1>1 DEF Structure, Sound
<1> QED BY <1>1, <1>2 DEF Marked, ReachIsMarked

\* ... and that it is there once.
LEMMA OnePlaceIs == ASSUME IInv PROVE OnePlace
<1> DEFINE R == Reach
           blocks == UNION {{<<i, p, BlockAt(inode[i].ptr, p)>> : p \in Held(i)} : i \in R}
           links == UNION {{<<i, o, Entries(i)[o].ino>> : o \in Proper(i)} : i \in R}
<1>1. Unshared(inode, disk, R) /\ OneName(inode, disk, R)
  BY NowIs DEF Structure
<1>2. \A ptr, p : BlockAt(ptr, p) = AtIn(disk, ptr, p)
  BY DEF BlockAt, AtIn, Pointers, PointersIn
<1> HIDE DEF R
<1>3. ASSUME NEW t \in blocks, NEW u \in blocks, t[3] = u[3] PROVE t = u
  <2>1. PICK i \in R : \E p \in Held(i) : t = <<i, p, BlockAt(inode[i].ptr, p)>>
    OBVIOUS
  <2>2. PICK p \in Held(i) : t = <<i, p, BlockAt(inode[i].ptr, p)>>
    BY <2>1
  <2>3. PICK j \in R : \E q \in Held(j) : u = <<j, q, BlockAt(inode[j].ptr, q)>>
    OBVIOUS
  <2>4. PICK q \in Held(j) : u = <<j, q, BlockAt(inode[j].ptr, q)>>
    BY <2>3
  <2>5. p \in Places /\ q \in Places /\ AtIn(disk, inode[i].ptr, p) # 0
    BY <1>2 DEF Held
  <2>6. AtIn(disk, inode[i].ptr, p) = AtIn(disk, inode[j].ptr, q)
    BY <1>2, <1>3, <2>2, <2>4
  <2>7. i = j /\ p = q
    BY <1>1, <2>5, <2>6 DEF Unshared
  <2> QED BY <2>2, <2>4, <2>7
<1>4. ASSUME NEW t \in links, NEW u \in links, t[3] = u[3] PROVE t = u
  <2>1. PICK i \in R : \E o \in Proper(i) : t = <<i, o, Entries(i)[o].ino>>
    OBVIOUS
  <2>2. PICK o \in Proper(i) : t = <<i, o, Entries(i)[o].ino>>
    BY <2>1
  <2>3. PICK j \in R : \E q \in Proper(j) : u = <<j, q, Entries(j)[q].ino>>
    OBVIOUS
  <2>4. PICK q \in Proper(j) : u = <<j, q, Entries(j)[q].ino>>
    BY <2>3
  <2>5. Entries(i)[o].ino = Entries(j)[q].ino
    BY <1>4, <2>2, <2>4
  <2>6. i = j /\ o = q
    <3>1. /\ o \in ProperIn(inode, disk, i) /\ q \in ProperIn(inode, disk, j)
          /\ EntriesIn(inode, disk, i)[o].ino = EntriesIn(inode, disk, j)[q].ino
      BY <2>5, Reads
    <3> QED BY <1>1, <3>1, OneNameIs
  <2> QED BY <2>2, <2>4, <2>6
<1> QED BY <1>3, <1>4 DEF OnePlace, R

\* On a volume of one group, power-offs and failed allocations included, the
\* invariant holds in every state ext2_write_file, ext2_make_directory,
\* ext2_delete_file and ext2_remove_directory go through.
THEOREM Inductive == ASSUME NGroups = 1, ShortNames PROVE Spec => []IInv
<1>1. Init => IInv
  BY InitIs
<1>2. IInv /\ [Next]_vars => IInv'
  BY NextIs, StutterIs
<1> QED BY <1>1, <1>2, PTL DEF Spec

\* Every variable has its type, and a scan comes to every entry of a directory.
THEOREM TypeCorrect == ASSUME NGroups = 1, ShortNames PROVE Spec => []TypeOK
<1>1. IInv => TypeOK
  BY TypeIs
<1> QED BY <1>1, Inductive, PTL

\* Whatever the power interrupts, all that a path leads to is marked in the
\* bitmaps: the inode, its blocks and its lists.
THEOREM Reachable == ASSUME NGroups = 1, ShortNames PROVE Spec => []ReachIsMarked
<1>1. IInv => ReachIsMarked
  BY ReachIsMarkedIs
<1> QED BY <1>1, Inductive, PTL

\* ... and is there once: no block in two files or twice in one, no inode with
\* two names.
THEOREM OneOfEach == ASSUME NGroups = 1, ShortNames PROVE Spec => []OnePlace
<1>1. IInv => OnePlace
  BY OnePlaceIs
<1> QED BY <1>1, Inductive, PTL

(***************************************************************************)
(* What holds besides as long as nothing has failed (clean): each file has *)
(* its KBs in their places, and every bit that is set is set for a reason. *)
(***************************************************************************)
\* Each KB of a file is in the block its place leads to.
FileIs(n, k, i) ==
  n[i].mode = "file" =>
    \A p \in DataPlaces(n[i].size) :
      AtIn(k, n[i].ptr, p) # 0 /\ k[AtIn(k, n[i].ptr, p)] = Data(Position(p))

\* What has a name, or gets one by the next write.
Soon == IF pc = "link" THEN Reach \cup {ino} ELSE Reach

Readable == \A i \in Soon : FileIs(inode, disk, i)

\* ext2_write_file has a block for each place it has come to, and its KB in it.
Filling ==
  pc \in {"blocks", "inode"} =>
    /\ plan \subseteq Plan(size)
    /\ \A p \in Places : got[p] # 0 <=> p \in Filled(size) \ plan
    /\ kind = "file" => \A p \in DataPlaces(size) \ plan : disk[got[p]] = Data(Position(p))

\* The blocks that no path leads to yet, or any more.
InHand(b) ==
  \/ pc \in {"blocks", "inode"} /\ \E p \in Places : b = got[p]
  \/ pc = "link" /\ b \in TreeIn(inode, disk, ino)
  \/ pc = "wipe" /\ \E i \in Doomed \cap ibits : b \in TreeIn(inode, disk, i)
  \/ pc = "free" /\ \/ \E i \in (Doomed \cap ibits) \ {ino} : b \in TreeIn(inode, disk, i)
                    \/ \E p \in todo : b = AtIn(disk, inode[ino].ptr, p)

NoBlockLost ==
  \A b \in bbits : b \in Reserved \/ (\E i \in Reach : b \in TreeIn(inode, disk, i)) \/ InHand(b)

NoInodeLost ==
  \A i \in ibits : i = 1 \/ i \in Live \/ (pc \in {"inode", "link"} /\ i = ino)

\* Behind offset a the scan of a directory comes to all that is left of it.
AtEntry(d, a) == (\E o \in DOMAIN d : o >= a) => a \in DOMAIN d

\* ext2_wipe_inode frees what a directory names before the directory: all that a frame
\* of the stack has passed is free, but for what the next frame is in.
Wiping ==
  pc \in {"wipe", "free"} =>
    /\ \A i \in Doomed \ ibits : KidsIn(inode, disk, i) \cap ibits = {}
    /\ \A m \in DOMAIN stack :
         /\ AtEntry(EntriesIn(inode, disk, stack[m].ino), stack[m].at)
         /\ \A o \in ProperIn(inode, disk, stack[m].ino) : o < stack[m].at =>
              \/ EntriesIn(inode, disk, stack[m].ino)[o].ino \notin ibits
              \/ /\ m + 1 \in DOMAIN stack
                 /\ EntriesIn(inode, disk, stack[m].ino)[o].ino = stack[m + 1].ino
    /\ pc = "free" => /\ KidsIn(inode, disk, ino) \cap ibits = {}
                      /\ stack # <<>> => ino = Last(stack).ino

Parts == Readable /\ Filling /\ NoBlockLost /\ NoInodeLost /\ Wiping

Accounted == clean => Parts

\* The data of a file that no step has touched.
LEMMA FileSame ==
  ASSUME NEW n, NEW k, NEW m, NEW l, NEW i, FileIs(n, k, i), m[i] = n[i],
         \A b \in TreeIn(n, k, i) : l[b] = k[b]
  PROVE  FileIs(m, l, i)
<1> SUFFICES ASSUME n[i].mode = "file", NEW p \in DataPlaces(n[i].size)
             PROVE  AtIn(l, n[i].ptr, p) # 0 /\ l[AtIn(l, n[i].ptr, p)] = Data(Position(p))
  BY DEF FileIs
<1>1. p \in Places
  BY DEF DataPlaces
<1>2. AtIn(l, n[i].ptr, p) = AtIn(k, n[i].ptr, p)
  BY <1>1, DiskSame
<1>3. AtIn(k, n[i].ptr, p) # 0 /\ k[AtIn(k, n[i].ptr, p)] = Data(Position(p))
  BY DEF FileIs
<1>4. AtIn(k, n[i].ptr, p) \in TreeIn(n, k, i)
  BY <1>1, <1>3 DEF TreeIn
<1> QED BY <1>2, <1>3, <1>4

\* A write beside all that is reached changes none of it.
LEMMA BesideIs ==
  ASSUME IInv, IInv', \A i \in Reach : inode'[i] = inode[i], NEW c,
         \A b \in {0} \cup Blocks : b = c \/ disk'[b] = disk[b],
         \A i \in Reach : c \notin TreeIn(inode, disk, i)
  PROVE  /\ Reach' = Reach
         /\ \A i \in Reach : /\ TreeIn(inode', disk', i) = TreeIn(inode, disk, i)
                             /\ FileIs(inode, disk, i) => FileIs(inode', disk', i)
<1>1. /\ Volume(inode, disk) /\ Structure(inode, disk, Reach) /\ Reach \subseteq Inodes
  BY NowIs
<1>2. Volume(inode', disk')
  BY DEF IInv, Volume, Kept
<1>3. ASSUME NEW i \in Reach, NEW b \in TreeIn(inode, disk, i) PROVE disk'[b] = disk[b]
  <2>1. b \in Blocks
    BY <1>1, TreeIsBlocks
  <2> QED BY <2>1
<1>4. Reach' = Reach
  <2>1. Sound(inode, disk, Reach)
    BY <1>1 DEF Structure
  <2> QED BY <1>1, <1>2, <1>3, <2>1, ReachKept
<1>5. ASSUME NEW i \in Reach
      PROVE  /\ TreeIn(inode', disk', i) = TreeIn(inode, disk, i)
             /\ FileIs(inode, disk, i) => FileIs(inode', disk', i)
  BY <1>3, TreeSame, FileSame
<1> QED BY <1>4, <1>5

\* Outside a removal nothing is doomed.
LEMMA NoneDoomed ==
  ASSUME pc \notin {"wipe", "free"}
  PROVE  Doomed = {} /\ Live = Reach
BY DEF Doomed, Live

\* ... nor in the state after a step.
LEMMA NoneDoomedNext ==
  ASSUME pc' \notin {"wipe", "free"}
  PROVE  Doomed' = {} /\ Live' = Reach'
BY DEF Doomed, Live

(***************************************************************************)
(* The places of a file.                                                   *)
(***************************************************************************)
LEMMA DataIsFilled ==
  ASSUME NEW z
  PROVE  /\ DataPlaces(z) \subseteq Filled(z) /\ Filled(z) \subseteq Places
         /\ Filled(z) \subseteq Plan(z)
         /\ \A p \in DataPlaces(z) : ~IsList(p)
<1>1. \A p \in DataPlaces(z) : p \in Places /\ LeadsTo(p, p) /\ ~IsList(p)
  BY DEF DataPlaces, LeadsTo
<1> QED BY <1>1 DEF Filled, Plan

\* What is planned and is a place is to be filled.
LEMMA PlannedIsFilled ==
  ASSUME NEW z, NEW p \in Places, p \in Plan(z)
  PROVE  p \in Filled(z)
<1>1. CASE p \in Filled(z)
  BY <1>1
<1>2. ASSUME NEW l \in Filled(z), p = Closing(l) PROVE p \in Filled(z)
  <2>1. l \in Places
    BY DEF Filled
  <2>2. ~IsList(l)
    BY <1>2, <2>1, ClosingIs
  <2> QED BY <1>2, <2>2 DEF Closing
<1> QED BY <1>1, <1>2 DEF Plan

\* A list that leads to a place to be filled is filled.
LEMMA FilledAbove ==
  ASSUME NEW z, NEW p \in Filled(z), NEW l \in Places, LeadsTo(l, p)
  PROVE  l \in Filled(z)
<1>1. PICK q \in DataPlaces(z) : LeadsTo(p, q)
  BY DEF Filled
<1>2. p \in Places /\ q \in Places
  BY DEF Filled, DataPlaces
<1>3. p[2] \in 0 .. NList /\ p[3] \in 0 .. NList /\ (p[2] = 0 => p[3] = 0)
  BY <1>2, PlacesAre
<1>4. LeadsTo(l, q)
  BY <1>1, <1>3 DEF LeadsTo
<1> QED BY <1>4 DEF Filled

\* The lists above a place of a file are stored, and lead to the block allocated for it.
LEMMA ListFinds ==
  ASSUME NEW k, NEW g, NEW l \in Places, g[l] # 0,
         k[g[l]] = List([j \in 1 .. NList |-> g[Child(l, j)]]),
         NEW j \in 1 .. NList
  PROVE  PointersIn(k, g[l])[j] = g[Child(l, j)]
<1> DEFINE a == [m \in 1 .. NList |-> g[Child(l, m)]]
<1>1. k[g[l]] = List(a) /\ a[j] = g[Child(l, j)]
  OBVIOUS
<1> HIDE DEF a
<1>2. k[g[l]].is = "list" /\ k[g[l]].at = a
  BY <1>1 DEF List
<1> QED BY <1>1, <1>2 DEF PointersIn

\* The lists stored for a file of z KB, and its i_block f, hold what was allocated.
Growing(k, g, z, f) ==
  /\ \A l \in Places : IsList(l) /\ g[l] # 0
                          => k[g[l]] = List([j \in 1 .. NList |-> g[Child(l, j)]])
  /\ \A l \in Filled(z) : g[l] # 0
  /\ \A s \in Slots : f[s] = g[<<s, 0, 0>>]

\* Each place of the new inode leads to the block allocated for it.
LEMMA TreeFinds ==
  ASSUME NEW k, NEW g, NEW z, NEW f, Growing(k, g, z, f), NEW p \in Filled(z)
  PROVE  AtIn(k, f, p) = g[p]
<1> USE DEF Growing
<1>0. p \in Places
  BY DEF Filled
<1>1. /\ p = <<p[1], p[2], p[3]>> /\ p[1] \in Slots
      /\ p[2] \in 0 .. NList /\ p[3] \in 0 .. NList
      /\ (p[2] = 0 => p[3] = 0) /\ (p[2] # 0 => p[1] \in {Single, Double})
      /\ (p[3] # 0 => p[1] = Double)
  BY <1>0, PlacesAre
<1>2. f[p[1]] = g[<<p[1], 0, 0>>]
  BY <1>1
<1>3. CASE p[2] = 0
  BY <1>1, <1>2, <1>3 DEF AtIn
<1> DEFINE l == <<p[1], 0, 0>>
<1>4. ASSUME p[2] # 0
      PROVE  /\ l \in Places /\ IsList(l) /\ g[l] # 0 /\ p[2] \in 1 .. NList
             /\ PointersIn(k, f[p[1]])[p[2]] = g[<<p[1], p[2], 0>>]
  <2>1. l \in Places /\ IsList(l) /\ Child(l, p[2]) = <<p[1], p[2], 0>> /\ p[2] \in 1 .. NList
        /\ LeadsTo(l, p)
    BY <1>1, <1>4, PlacesAre, Numbers DEF IsList, Child, LeadsTo
  <2>2. g[l] = f[p[1]]
    BY <1>2
  <2> HIDE DEF l
  <2>3. g[l] # 0
    BY <2>1, FilledAbove
  <2>4. k[g[l]] = List([j \in 1 .. NList |-> g[Child(l, j)]])
    BY <2>1, <2>3
  <2>5. PointersIn(k, g[l])[p[2]] = g[Child(l, p[2])]
    BY <2>1, <2>3, <2>4, ListFinds
  <2> QED BY <2>1, <2>2, <2>3, <2>5
<1>5. CASE p[2] # 0 /\ p[3] = 0
  BY <1>1, <1>4, <1>5 DEF AtIn
<1>6. CASE p[2] # 0 /\ p[3] # 0
  <2> DEFINE m == <<p[1], p[2], 0>>
  <2>1. m \in Places /\ IsList(m) /\ Child(m, p[3]) = p /\ p[3] \in 1 .. NList /\ LeadsTo(m, p)
    BY <1>1, <1>6, PlacesAre, Numbers DEF IsList, Child, LeadsTo
  <2>2. AtIn(k, f, p) = PointersIn(k, g[m])[p[3]]
    BY <1>4, <1>6 DEF AtIn
  <2> HIDE DEF m
  <2>3. g[m] # 0
    BY <2>1, FilledAbove
  <2>4. k[g[m]] = List([j \in 1 .. NList |-> g[Child(m, j)]])
    BY <2>1, <2>3
  <2>5. PointersIn(k, g[m])[p[3]] = g[Child(m, p[3])]
    BY <2>1, <2>3, <2>4, ListFinds
  <2> QED BY <2>1, <2>2, <2>5
<1> QED BY <1>3, <1>5, <1>6

\* Behind an entry of a directory comes the next one, or none.
LEMMA NextEntry ==
  ASSUME NEW d, Whole(d), NEW a \in DOMAIN d
  PROVE  AtEntry(d, a + d[a].rec) /\ \A o \in DOMAIN d : o < a + d[a].rec => o <= a
<1> DEFINE v == a + d[a].rec
           S == {o \in DOMAIN d : o >= v}
<1>1. /\ DOMAIN d \subseteq 0 .. BlockWords /\ BlockWords \in Nat
      /\ \A o \in DOMAIN d : o \in Int /\ 0 <= o /\ d[o].rec \in Int
      /\ \A o, p \in DOMAIN d : o < p => o + d[o].rec <= p
      /\ \A o \in DOMAIN d \ {0} : \E p \in DOMAIN d : p < o /\ p + d[p].rec = o
      /\ d[a].rec >= 3
  <2>1. DOMAIN d \subseteq 0 .. BlockWords
    BY DEF Whole
  <2>2. \A o \in DOMAIN d : /\ o \in Int /\ 0 <= o /\ d[o].rec \in Int /\ RealLen(d[o]) \in 3 .. 6
                            /\ RealLen(d[o]) <= d[o].rec
    BY EntryIs
  <2>3. d[a].rec >= 3
    BY <2>2
  <2> QED BY <2>1, <2>2, <2>3, Words DEF Whole, Chained
<1>2. \A o \in DOMAIN d : o < v => o <= a
  BY <1>1
<1>3. ASSUME NEW y \in DOMAIN d, y >= v PROVE v \in DOMAIN d
  <2>1. S \subseteq 0 .. BlockWords /\ S # {} /\ BlockWords \in Int
    BY <1>1, <1>3
  <2> HIDE DEF S
  <2>2. PICK o \in S : \A x \in S : o <= x
    BY <2>1, MinExists
  <2>3. o \in DOMAIN d /\ o >= v /\ \A x \in DOMAIN d : x >= v => o <= x
    BY <2>2 DEF S
  <2>4. o # 0
    BY <1>1, <2>3
  <2>5. PICK p \in DOMAIN d : p < o /\ p + d[p].rec = o
    BY <1>1, <2>3, <2>4
  <2>6. p < v
    BY <1>1, <2>3, <2>5
  <2>7. p <= a
    BY <1>2, <2>6
  <2>8. p = a
    BY <1>1, <2>3, <2>5, <2>7
  <2> QED BY <2>3, <2>5, <2>8
<1> QED BY <1>2, <1>3 DEF AtEntry

\* While blocks are allocated, what is reached is as it was and as well accounted for.
LEMMA CreationIs ==
  ASSUME IInv, IInv', Parts, pc \in {"idle", "blocks", "inode"},
         pc' \in {"blocks", "inode", "link"},
         \A i \in Reach : inode'[i] = inode[i], NEW c,
         \A b \in {0} \cup Blocks : b = c \/ disk'[b] = disk[b],
         \A i \in Reach : c \notin TreeIn(inode, disk, i)
  PROVE  /\ Reach' = Reach /\ Live' = Reach /\ Live = Reach
         /\ \A i \in Reach : /\ TreeIn(inode', disk', i) = TreeIn(inode, disk, i)
                             /\ FileIs(inode', disk', i)
         /\ Wiping'
<1>1. /\ Reach' = Reach
      /\ \A i \in Reach : /\ TreeIn(inode', disk', i) = TreeIn(inode, disk, i)
                          /\ FileIs(inode, disk, i) => FileIs(inode', disk', i)
  BY BesideIs
<1>2. \A i \in Reach : FileIs(inode, disk, i)
  BY DEF Parts, Readable, Soon
<1>3. Live = Reach /\ Live' = Reach'
  BY NoneDoomed, NoneDoomedNext
<1>4. Wiping'
  BY DEF Wiping
<1> QED BY <1>1, <1>2, <1>3, <1>4

\* No block of what is reached is block 0, or one that is not marked.
LEMMA ZeroIsApart ==
  ASSUME IInv, NEW c, c = 0 \/ c \notin bbits
  PROVE  \A i \in Reach : c \notin TreeIn(inode, disk, i)
BY NowIs, Reads

\* Each step keeps the accounts. ext2_write_file and ext2_make_directory begin.
LEMMA BeginAccounts ==
  ASSUME IInv, IInv', Parts, NEW d \in Parents, NEW n \in Names, NEW k, NEW z, Begin(d, n, k, z)
  PROVE  Parts'
<1>1. /\ pc = "idle" /\ pc' = "blocks" /\ UNCHANGED <<bbits, ibits, inode, disk, got>>
      /\ size' = z /\ plan' = Plan(z)
  BY DEF Begin, diskVars
<1>2. /\ Reach' = Reach /\ Live' = Reach /\ Live = Reach
      /\ \A i \in Reach : /\ TreeIn(inode', disk', i) = TreeIn(inode, disk, i)
                          /\ FileIs(inode', disk', i)
      /\ Wiping'
  <2>1. \A i \in Reach : 0 \notin TreeIn(inode, disk, i)
    BY ZeroIsApart
  <2>2. \A b \in {0} \cup Blocks : b = 0 \/ disk'[b] = disk[b]
    BY <1>1
  <2> QED BY <1>1, <2>1, <2>2, CreationIs
<1>3. Readable'
  BY <1>1, <1>2 DEF Readable, Soon, FileIs
<1>4. Filling'
  <2>1. got' = NothingGot
    BY <1>1 DEF IInv, Removing
  <2>2. \A p \in Places : got'[p] = 0
    BY <2>1 DEF NothingGot
  <2>3. DataPlaces(z) \ Plan(z) = {} /\ Filled(z) \ Plan(z) = {}
    BY DataIsFilled
  <2> QED BY <1>1, <2>2, <2>3 DEF Filling
<1>5. NoBlockLost'
  <2>1. \A b \in bbits : b \in Reserved \/ (\E i \in Reach : b \in TreeIn(inode, disk, i))
    BY <1>1 DEF Parts, NoBlockLost, InHand
  <2> QED BY <1>1, <1>2, <2>1 DEF NoBlockLost
<1>6. NoInodeLost'
  BY <1>1, <1>2 DEF Parts, NoInodeLost
<1> QED BY <1>2, <1>3, <1>4, <1>5, <1>6 DEF Parts

\* The block that is marked is the one in hand, and the KB goes in it.
LEMMA TakeBlockAccounts ==
  ASSUME IInv, IInv', Parts, TakeBlock, clean'
  PROVE  Parts'
<1>1. PICK p \in plan \cap Places :
       LET b == FirstClear(Blocks, bbits)
       IN  /\ First(p, plan)
           /\ bbits' = bbits \cup ({b} \ {0})
           /\ got' = [got EXCEPT ![p] = b]
           /\ plan' = {q \in plan \ {p} : b = 0 /\ IsDirect(p) => ~IsDirect(q)}
           /\ disk' = IF kind = "file" /\ ~IsList(p) /\ (b # 0 \/ ~IsDirect(p))
                      THEN [disk EXCEPT ![b] = Data(Position(p))] ELSE disk
           /\ clean' = (clean /\ b # 0)
  BY DEF TakeBlock
<1> DEFINE b == FirstClear(Blocks, bbits)
<1>2. /\ pc = "blocks" /\ pc' = "blocks" /\ UNCHANGED <<ibits, inode, ino>>
      /\ kind' = kind /\ size' = size
  BY DEF TakeBlock, callVars
<1>3. b \in Blocks /\ b # 0 /\ b \notin bbits
  <2>1. Blocks = 1 .. NGroups * GroupBlocks /\ NGroups * GroupBlocks \in Int
    BY Ext2Assumption DEF Blocks
  <2>2. b # 0
    BY <1>1
  <2>3. b \in {0} \cup Blocks /\ (b # 0 => b \notin bbits)
    BY <2>1, FirstClearIs
  <2> QED BY <2>2, <2>3
<1>4. /\ bbits' = bbits \cup {b} /\ got' = [got EXCEPT ![p] = b] /\ plan' = plan \ {p}
      /\ disk' = IF kind = "file" /\ ~IsList(p)
                 THEN [disk EXCEPT ![b] = Data(Position(p))] ELSE disk
  BY <1>1, <1>3
<1> HIDE DEF b
<1>5. /\ Typed /\ Volume(inode, disk) /\ Fresh /\ Filling /\ p \in Places /\ p \in plan
  BY <1>1, <1>2 DEF IInv, Taking, Parts
<1>6. /\ \A c \in {0} \cup Blocks : c = b \/ disk'[c] = disk[c]
      /\ kind = "file" /\ ~IsList(p) => disk'[b] = Data(Position(p))
  BY <1>3, <1>4, <1>5 DEF Volume
<1>7. /\ Reach' = Reach /\ Live' = Reach /\ Live = Reach
      /\ \A i \in Reach : /\ TreeIn(inode', disk', i) = TreeIn(inode, disk, i)
                          /\ FileIs(inode', disk', i)
      /\ Wiping'
  <2>1. \A i \in Reach : b \notin TreeIn(inode, disk, i)
    BY <1>3, ZeroIsApart
  <2> QED BY <1>2, <1>6, <2>1, CreationIs
<1>8. Readable'
  BY <1>2, <1>7 DEF Readable, Soon, FileIs
<1>9. got'[p] = b /\ \A q \in Places : q # p => got'[q] = got[q]
  BY <1>4, <1>5 DEF Typed
<1>10. /\ plan \subseteq Plan(size)
       /\ \A q \in Places : got[q] # 0 <=> q \in Filled(size) \ plan
       /\ kind = "file" => \A q \in DataPlaces(size) \ plan : disk[got[q]] = Data(Position(q))
  BY <1>2, <1>5 DEF Filling
<1>11. p \in Filled(size)
  BY <1>5, <1>10, PlannedIsFilled
<1>12. Filling'
  <2>1. plan' \subseteq Plan(size')
    BY <1>2, <1>4, <1>10
  <2>2. ASSUME NEW q \in Places PROVE got'[q] # 0 <=> q \in Filled(size) \ plan'
    BY <1>3, <1>4, <1>9, <1>10, <1>11
  <2>3. ASSUME kind = "file", NEW q \in DataPlaces(size) \ plan'
        PROVE  disk'[got'[q]] = Data(Position(q))
    <3>1. q \in Filled(size) /\ q \in Places /\ ~IsList(q)
      BY DataIsFilled
    <3>2. CASE q = p
      BY <1>6, <1>9, <2>3, <3>1, <3>2
    <3>3. CASE q # p
      <4>1. q \notin plan
        BY <1>4, <3>3
      <4>2. got'[q] = got[q] /\ got[q] # 0 /\ disk[got[q]] = Data(Position(q))
        BY <1>9, <1>10, <2>3, <3>1, <3>3, <4>1
      <4>3. got[q] \in bbits /\ got[q] \in {0} \cup Blocks
        BY <1>5, <3>1, <4>2 DEF Fresh, Typed
      <4>4. disk'[got[q]] = disk[got[q]]
        BY <1>3, <1>6, <4>3
      <4> QED BY <4>2, <4>4
    <3> QED BY <3>2, <3>3
  <2> QED BY <1>2, <2>1, <2>2, <2>3 DEF Filling
<1>13. NoBlockLost'
  <2> SUFFICES ASSUME NEW c \in bbits'
               PROVE  \/ c \in Reserved \/ (\E i \in Reach : c \in TreeIn(inode, disk, i))
                      \/ \E q \in Places : c = got'[q]
    BY <1>2, <1>7 DEF NoBlockLost, InHand
  <2>1. CASE c = b
    BY <1>5, <1>9, <2>1
  <2>2. CASE c \in bbits
    <3>1. CASE \E q \in Places : c = got[q]
      <4>1. PICK q \in Places : c = got[q]
        BY <3>1
      <4>2. CASE q = p
        <5>1. c = 0
          BY <1>5, <1>10, <4>1, <4>2
        <5> QED BY <1>5, <2>2, <5>1, Numbers DEF Typed
      <4>3. CASE q # p
        BY <1>9, <4>1, <4>3
      <4> QED BY <4>2, <4>3
    <3>2. CASE c \in Reserved \/ \E i \in Reach : c \in TreeIn(inode, disk, i)
      BY <3>2
    <3>3. c \in Reserved \/ (\E i \in Reach : c \in TreeIn(inode, disk, i))
          \/ \E q \in Places : c = got[q]
      BY <1>2, <2>2 DEF Parts, NoBlockLost, InHand
    <3> QED BY <3>1, <3>2, <3>3
  <2> QED BY <1>4, <2>1, <2>2
<1>14. NoInodeLost'
  BY <1>2, <1>7 DEF Parts, NoInodeLost
<1> QED BY <1>7, <1>8, <1>12, <1>13, <1>14 DEF Parts

\* A list is stored over none of the KBs.
LEMMA StoreListAccounts ==
  ASSUME IInv, IInv', Parts, StoreList
  PROVE  Parts'
<1>1. PICK l \in Places :
       /\ IsList(l) /\ First(Closing(l), plan)
       /\ disk' = [disk EXCEPT ![got[l]] = List([j \in 1 .. NList |-> got[Child(l, j)]])]
       /\ plan' = plan \ {Closing(l)}
  BY DEF StoreList
<1>2. /\ pc = "blocks" /\ pc' = "blocks" /\ UNCHANGED <<bbits, ibits, inode, got, ino>>
      /\ kind' = kind /\ size' = size
  BY DEF StoreList, callVars
<1>3. /\ Typed /\ Volume(inode, disk) /\ Fresh /\ Filling
  BY <1>2 DEF IInv, Taking, Parts
<1> DEFINE c == got[l]
<1>4. \A e \in {0} \cup Blocks : e = c \/ disk'[e] = disk[e]
  BY <1>1, <1>3 DEF Volume
<1>5. \A i \in Reach : c \notin TreeIn(inode, disk, i)
  <2>1. c = 0 \/ \A i \in Reach : c \notin Tree(i)
    BY <1>3 DEF Fresh
  <2> QED BY <2>1, ZeroIsApart, Reads
<1>6. Closing(l) \notin Places
  BY <1>1, ClosingIs
<1> HIDE DEF c
<1>7. /\ Reach' = Reach /\ Live' = Reach /\ Live = Reach
      /\ \A i \in Reach : /\ TreeIn(inode', disk', i) = TreeIn(inode, disk, i)
                          /\ FileIs(inode', disk', i)
      /\ Wiping'
  BY <1>2, <1>4, <1>5, CreationIs
<1>8. Readable'
  BY <1>2, <1>7 DEF Readable, Soon, FileIs
<1>9. Filling'
  <2>1. /\ plan \subseteq Plan(size)
        /\ \A q \in Places : got[q] # 0 <=> q \in Filled(size) \ plan
        /\ kind = "file" => \A q \in DataPlaces(size) \ plan : disk[got[q]] = Data(Position(q))
    BY <1>2, <1>3 DEF Filling
  <2>2. \A q \in Places : q \in plan' <=> q \in plan
    BY <1>1, <1>6
  <2>3. ASSUME kind = "file", NEW q \in DataPlaces(size) \ plan'
        PROVE  disk'[got[q]] = Data(Position(q))
    <3>1. q \in Filled(size) /\ q \in Places /\ ~IsList(q) /\ q \notin plan
      BY <2>2, DataIsFilled
    <3>2. got[q] # 0 /\ disk[got[q]] = Data(Position(q))
      BY <2>1, <2>3, <3>1
    <3>3. got[q] # c /\ got[q] \in {0} \cup Blocks
      BY <1>1, <1>3, <3>1, <3>2 DEF Fresh, Typed, c
    <3> QED BY <1>4, <3>2, <3>3
  <2>4. plan' \subseteq Plan(size)
    BY <1>1, <2>1
  <2>5. \A q \in Places : got[q] # 0 <=> q \in Filled(size) \ plan'
    BY <2>1, <2>2
  <2> QED BY <1>2, <2>3, <2>4, <2>5 DEF Filling
<1>10. NoBlockLost'
  <2> SUFFICES ASSUME NEW e \in bbits
               PROVE  \/ e \in Reserved \/ (\E i \in Reach : e \in TreeIn(inode, disk, i))
                      \/ \E q \in Places : e = got[q]
    BY <1>2, <1>7 DEF NoBlockLost, InHand
  <2> QED BY <1>2 DEF Parts, NoBlockLost, InHand
<1>11. NoInodeLost'
  BY <1>2, <1>7 DEF Parts, NoInodeLost
<1> QED BY <1>7, <1>8, <1>9, <1>10, <1>11 DEF Parts

\* The inode that is marked is the one in hand.
LEMMA TakeInodeAccounts ==
  ASSUME IInv, IInv', Parts, TakeInode, clean'
  PROVE  Parts'
<1> DEFINE i == FirstClear(Inodes, ibits)
<1>1. /\ pc = "blocks" /\ pc' = "inode" /\ ibits' = ibits \cup ({i} \ {0}) /\ ino' = i
      /\ UNCHANGED <<bbits, inode, disk, plan, got>> /\ kind' = kind /\ size' = size
  BY DEF TakeInode, callVars
<1>2. /\ Reach' = Reach /\ Live' = Reach /\ Live = Reach
      /\ \A j \in Reach : /\ TreeIn(inode', disk', j) = TreeIn(inode, disk, j)
                          /\ FileIs(inode', disk', j)
      /\ Wiping'
  <2>1. \A j \in Reach : 0 \notin TreeIn(inode, disk, j)
    BY ZeroIsApart
  <2>2. \A b \in {0} \cup Blocks : b = 0 \/ disk'[b] = disk[b]
    BY <1>1
  <2> QED BY <1>1, <2>1, <2>2, CreationIs
<1> HIDE DEF i
<1>3. Readable'
  BY <1>1, <1>2 DEF Readable, Soon, FileIs
<1>4. Filling'
  BY <1>1 DEF Parts, Filling
<1>5. NoBlockLost'
  BY <1>1, <1>2 DEF Parts, NoBlockLost, InHand
<1>6. NoInodeLost'
  BY <1>1, <1>2 DEF Parts, NoInodeLost
<1> QED BY <1>2, <1>3, <1>4, <1>5, <1>6 DEF Parts

\* The blocks in hand are the tree of the new inode now.
LEMMA WriteInodeAccounts ==
  ASSUME IInv, IInv', Parts, WriteInode
  PROVE  Parts'
<1> DEFINE g == got[<<1, 0, 0>>]
           f == [s \in Slots |-> got[<<s, 0, 0>>]]
<1>1. /\ pc = "inode" /\ pc' = "link" /\ UNCHANGED <<bbits, ibits, plan, got, ino>>
      /\ inode' = [inode EXCEPT ![ino] = Inode(kind, size, f)]
      /\ disk' = IF kind = "dir" THEN [disk EXCEPT ![g] = Dir(NewDir(ino, dir))] ELSE disk
  BY DEF WriteInode, workVars
<1>2. /\ Typed /\ Volume(inode, disk) /\ Taking /\ Fresh /\ Stored /\ HasInode /\ Filling
      /\ NoBlockLost /\ NoInodeLost
  BY <1>1 DEF IInv, Taking, Parts
<1>3. /\ plan = {} /\ ino \in Inodes /\ ino \notin Reach
  BY <1>1, <1>2 DEF HasInode, Typed
<1>4. /\ <<1, 0, 0>> \in Places /\ f[1] = g
      /\ \A s \in Slots : <<s, 0, 0>> \in Places /\ f[s] = got[<<s, 0, 0>>]
  BY PlacesAre, Numbers
<1> HIDE DEF f, g
<1>5. /\ inode'[ino] = Inode(kind, size, f)
      /\ \A i \in Inodes \ {ino} : inode'[i] = inode[i]
      /\ \A b \in {0} \cup Blocks : b = g \/ disk'[b] = disk[b]
  BY <1>1, <1>2, <1>3 DEF Volume
<1>6. inode'[ino].mode = kind /\ inode'[ino].size = size /\ inode'[ino].ptr = f
  BY <1>5 DEF Inode
<1>7. /\ Reach' = Reach /\ Live' = Reach /\ Live = Reach
      /\ \A i \in Reach : /\ TreeIn(inode', disk', i) = TreeIn(inode, disk, i)
                          /\ FileIs(inode', disk', i)
      /\ Wiping'
  <2>1. \A i \in Reach : inode'[i] = inode[i]
    BY <1>3, <1>5, NowIs
  <2>2. g = 0 \/ \A i \in Reach : g \notin Tree(i)
    BY <1>2, <1>4 DEF Fresh, g
  <2>3. \A i \in Reach : g \notin TreeIn(inode, disk, i)
    BY <2>2, ZeroIsApart, Reads
  <2> QED BY <1>1, <1>5, <2>1, <2>3, CreationIs
<1>8. /\ \A p \in Places : got[p] # 0 <=> p \in Filled(size)
      /\ kind = "file" => \A p \in DataPlaces(size) : disk[got[p]] = Data(Position(p))
  BY <1>1, <1>2, <1>3 DEF Filling
<1>9. ASSUME NEW p \in Places, got[p] # 0, NEW l, l = disk \/ kind = "dir"
      PROVE  AtIn(l, f, p) = got[p]
  <2>1. CASE kind = "dir"
    <3>1. p = <<1, 0, 0>>
      BY <1>1, <1>2, <1>9, <2>1 DEF Taking
    <3>2. AtIn(l, f, p) = f[1]
      BY <3>1 DEF AtIn
    <3> QED BY <1>4, <3>1, <3>2 DEF g
  <2>2. CASE l = disk
    <3>1. \A m \in Places : IsList(m) /\ got[m] # 0
                              => disk[got[m]] = List([j \in 1 .. NList |-> got[Child(m, j)]])
      BY <1>2, <1>3 DEF Stored
    <3>2. \A m \in Filled(size) : got[m] # 0
      BY <1>8, DataIsFilled
    <3>3. \A s \in Slots : f[s] = got[<<s, 0, 0>>]
      BY <1>4
    <3>4. p \in Filled(size)
      BY <1>8, <1>9
    <3>5. AtIn(disk, f, p) = got[p]
      <4>1. Growing(disk, got, size, f)
        BY <3>1, <3>2, <3>3 DEF Growing
      <4> QED BY <3>4, <4>1, TreeFinds
    <3> QED BY <2>2, <3>5
  <2> QED BY <1>9, <2>1, <2>2
<1>10. Readable'
  <2>1. FileIs(inode', disk', ino)
    <3> SUFFICES ASSUME kind = "file", NEW p \in DataPlaces(size)
                 PROVE  AtIn(disk', f, p) # 0 /\ disk'[AtIn(disk', f, p)] = Data(Position(p))
      BY <1>6 DEF FileIs
    <3>1. p \in Places /\ p \in Filled(size)
      BY DataIsFilled
    <3>2. got[p] # 0 /\ disk[got[p]] = Data(Position(p))
      BY <1>8, <3>1
    <3>3. disk' = disk
      BY <1>1
    <3>4. AtIn(disk, f, p) = got[p]
      BY <1>9, <3>1, <3>2
    <3> QED BY <3>2, <3>3, <3>4
  <2>2. \A i \in Reach \cup {ino} : FileIs(inode', disk', i)
    BY <1>7, <2>1
  <2> QED BY <1>1, <1>7, <2>2 DEF Readable, Soon, FileIs
<1>11. Filling'
  BY <1>1 DEF Filling
<1>12. NoBlockLost'
  <2> SUFFICES ASSUME NEW b \in bbits
               PROVE  \/ b \in Reserved \/ (\E i \in Reach : b \in TreeIn(inode, disk, i))
                      \/ b \in TreeIn(inode', disk', ino)
    BY <1>1, <1>7 DEF NoBlockLost, InHand
  <2>1. ASSUME NEW p \in Places, b = got[p] PROVE b \in TreeIn(inode', disk', ino)
    <3>1. b # 0
      BY <1>2, Numbers DEF Typed
    <3>2. AtIn(disk', f, p) = b
      <4>1. disk' = disk \/ kind = "dir"
        BY <1>1
      <4> QED BY <1>9, <2>1, <3>1, <4>1
    <3> QED BY <1>6, <2>1, <3>1, <3>2 DEF TreeIn
  <2> QED BY <1>1, <1>2, <2>1 DEF NoBlockLost, InHand
<1>13. NoInodeLost'
  BY <1>1, <1>2, <1>7 DEF NoInodeLost
<1> QED BY <1>7, <1>10, <1>11, <1>12, <1>13 DEF Parts

\* Who has the name that is written is reached, and all that was reached still is.
LEMMA LinkReaches ==
  ASSUME NEW n, NEW k, NEW R, NEW i, NEW d, NEW f, NEW e, NEW l,
         Linking(n, k, R, i, d, f, e, l), R = ReachIn(n, k, {Root}),
         NEW y \in DOMAIN e, e[y].ino = i, e[y].name \notin {".", ".."}
  PROVE  ReachIn(n, l, {Root}) = R \cup {i}
<1> DEFINE L == R \cup {i}
           T == ReachIn(n, l, {Root})
<1>1. /\ Volume(n, k) /\ Root \in R /\ R \subseteq Inodes /\ i \in Inodes /\ L \subseteq Inodes
      /\ Structure(n, k, L) /\ d \in R /\ d \in L /\ n[d].mode = "dir" /\ Kept(e)
      /\ Written(k, l, n[d].ptr[1], Dir(e)) /\ f = EntriesIn(n, k, d) /\ ProperIn(n, k, i) = {}
      /\ \A q \in DOMAIN f : q \in DOMAIN e /\ e[q].ino = f[q].ino /\ e[q].name = f[q].name
  BY DEF Linking
<1> HIDE DEF L
<1>2. /\ \A j \in L \ {d} : KidsIn(n, l, j) = KidsIn(n, k, j)
      /\ EntriesIn(n, l, d) = e /\ Volume(n, l)
  BY <1>1, DirectoryWritten, SMTT(60)
<1>3. T \subseteq L
  <2>1. L = R \cup {i}
    BY DEF L
  <2> QED BY <2>1, Linked
<1>4. \A j \in Inodes : KidsIn(n, k, j) \subseteq Inodes /\ KidsIn(n, l, j) \subseteq Inodes
  BY <1>1, <1>2, EntriesAre
<1>5. Root \in T /\ T \subseteq Inodes /\ Closed(n, l, T)
  <2>1. {Root} \subseteq Inodes /\ \A j \in Inodes : KidsIn(n, l, j) \subseteq Inodes
    BY <1>1, <1>4
  <2> HIDE DEF T
  <2>2. T = ReachIn(n, l, {Root})
    BY DEF T
  <2> QED BY <2>1, <2>2, ReachHolds
<1> HIDE DEF T
<1>6. KidsIn(n, k, d) \subseteq KidsIn(n, l, d)
  BY <1>1, <1>2 DEF KidsIn, ProperIn
<1>7. KidsIn(n, k, i) = {}
  BY <1>1 DEF KidsIn
<1>8. ASSUME NEW j \in T \cap Inodes PROVE KidsIn(n, k, j) \subseteq T
  <2>1. KidsIn(n, k, j) \subseteq KidsIn(n, l, j)
    BY <1>2, <1>3, <1>6, <1>8
  <2> QED BY <1>5, <2>1 DEF Closed
<1>9. R \subseteq T
  <2>1. {Root} \subseteq Inodes /\ {Root} \subseteq T
    BY <1>1, <1>5
  <2> QED BY <1>4, <1>8, <2>1, ReachLeast
<1>10. i \in T
  <2>1. i \in KidsIn(n, l, d)
    BY <1>2 DEF KidsIn, ProperIn
  <2> QED BY <1>1, <1>5, <1>9, <2>1 DEF Closed
<1> QED BY <1>3, <1>9, <1>10 DEF T, L

\* The new inode has its name: what was in hand is reached.
LEMMA LinkAccounts ==
  ASSUME IInv, IInv', ShortNames, Parts, Link, clean'
  PROVE  Parts'
<1> DEFINE f == Entries(dir)
           e == FirstSector(Inserted(f, name, ino))
           L == Reach \cup {ino}
<1>1. /\ pc = "link" /\ pc' = "idle" /\ UNCHANGED <<bbits, ibits, inode>>
      /\ Named(e, name) # {}
  BY LinkWrites DEF Rest
<1>2. Linking(inode, disk, Reach, ino, dir, f, e, disk')
  BY LinkingIs
<1>3. /\ Named(f, name) = {} /\ name \in Names
      /\ Readable /\ NoBlockLost /\ NoInodeLost
  BY <1>1 DEF IInv, Creating, Parts
<1> HIDE DEF e, f
<1>4. PICK y \in DOMAIN e : e[y].ino = ino /\ e[y].name \notin {".", ".."}
  <2>1. PICK y \in DOMAIN e : e[y].name = name
    BY <1>1 DEF Named
  <2>2. y \notin DOMAIN f
    BY <1>2, <1>3, <2>1 DEF Linking, Named
  <2>3. e[y].ino = ino
    BY <1>2, <2>1, <2>2 DEF Linking
  <2>4. name \notin {".", ".."}
    BY <1>3, DirAssumption
  <2> QED BY <2>1, <2>3, <2>4
<1>5. Reach' = L
  <2>1. Reach = ReachIn(inode, disk, {Root}) /\ Reach' = ReachIn(inode', disk', {Root})
    BY Reads, ReadsNext
  <2>2. ReachIn(inode, disk', {Root}) = L
    BY <1>2, <1>4, <2>1, LinkReaches
  <2> QED BY <1>1, <2>1, <2>2
<1>6. \A j \in L : TreeIn(inode', disk', j) = TreeIn(inode, disk, j)
  <2>1. \A j \in L : TreeIn(inode, disk', j) = TreeIn(inode, disk, j)
    <3>1. L = Reach \cup {ino}
      OBVIOUS
    <3> HIDE DEF L
    <3> QED BY <1>2, <3>1, Linked
  <2> QED BY <1>1, <2>1
<1>7. Live' = Reach' /\ Live = Reach
  BY <1>1, NoneDoomed, NoneDoomedNext
<1>8. ASSUME NEW i \in L PROVE FileIs(inode', disk', i)
  <2>1. FileIs(inode, disk, i)
    BY <1>1, <1>3 DEF Readable, Soon
  <2>2. /\ inode[dir].mode = "dir" /\ dir \in L /\ Structure(inode, disk, L) /\ L \subseteq Inodes
        /\ Volume(inode, disk) /\ Written(disk, disk', inode[dir].ptr[1], Dir(e))
    BY <1>2 DEF Linking
  <2>3. CASE inode[i].mode # "file"
    BY <1>1, <2>3 DEF FileIs
  <2>4. CASE inode[i].mode = "file"
    <3>1. i # dir /\ Unshared(inode, disk, L) /\ Sound(inode, disk, L)
      BY <2>2, <2>4 DEF Structure
    <3>2. inode[dir].ptr[1] \in TreeIn(inode, disk, dir)
      BY <2>2, <3>1, DirectoryIs
    <3>3. inode[dir].ptr[1] \notin TreeIn(inode, disk, i)
      BY <2>2, <3>1, <3>2, OtherTree
    <3>4. ASSUME NEW b \in TreeIn(inode, disk, i) PROVE disk'[b] = disk[b]
      <4>1. b \in DOMAIN disk
        BY <2>2, TreeIsBlocks DEF Volume
      <4> QED BY <2>2, <3>3, <4>1 DEF Written
    <3> QED BY <1>1, <2>1, <3>4, FileSame
  <2> QED BY <2>3, <2>4
<1>9. Readable'
  BY <1>1, <1>5, <1>8 DEF Readable, Soon, FileIs
<1>10. Filling' /\ Wiping'
  BY <1>1 DEF Filling, Wiping
<1>11. NoBlockLost'
  <2>1. \A b \in bbits : b \in Reserved \/ \E i \in L : b \in TreeIn(inode, disk, i)
    BY <1>1, <1>3 DEF NoBlockLost, InHand
  <2> QED BY <1>1, <1>5, <1>6, <2>1 DEF NoBlockLost
<1>12. NoInodeLost'
  BY <1>1, <1>3, <1>5, <1>7 DEF NoInodeLost
<1> QED BY <1>9, <1>10, <1>11, <1>12 DEF Parts

\* What was reached before a name is taken out is reached still, or is what it led to.
LEMMA UnlinkLosesNone ==
  ASSUME NEW n, NEW k, NEW R, NEW d, NEW o, NEW e, NEW l, Unlinking(n, k, R, d, o, e, l),
         R = ReachIn(n, k, {Root}), NEW x, x = EntriesIn(n, k, d)[o].ino
  PROVE  R \subseteq ReachIn(n, l, {Root}) \cup ReachIn(n, l, {x})
<1> PICK P : P = ReachIn(n, l, {Root})
  OBVIOUS
<1> PICK D : D = ReachIn(n, l, {x})
  OBVIOUS
<1> PICK f : f = EntriesIn(n, k, d)
  OBVIOUS
<1>1. /\ Volume(n, k) /\ Root \in R /\ R \subseteq Inodes /\ Structure(n, k, R)
      /\ d \in R /\ n[d].mode = "dir" /\ Kept(e) /\ Written(k, l, n[d].ptr[1], Dir(e))
      /\ DOMAIN e = DOMAIN f \ {o}
      /\ \A y \in DOMAIN e : e[y].ino = f[y].ino /\ e[y].name = f[y].name
  BY DEF Unlinking
<1>2. /\ \A j \in R \ {d} : KidsIn(n, l, j) = KidsIn(n, k, j)
      /\ EntriesIn(n, l, d) = e /\ Volume(n, l)
  <2>1. /\ Volume(n, k) /\ R \subseteq Inodes /\ Structure(n, k, R) /\ d \in R
        /\ n[d].mode = "dir" /\ Kept(e) /\ Written(k, l, n[d].ptr[1], Dir(e))
    BY <1>1
  <2>2. /\ Volume(n, l) /\ EntriesIn(n, l, d) = e
        /\ \A j \in R \ {d} : /\ EntriesIn(n, l, j) = EntriesIn(n, k, j)
                             /\ ProperIn(n, l, j) = ProperIn(n, k, j)
                             /\ KidsIn(n, l, j) = KidsIn(n, k, j)
    BY <2>1, DirectoryWritten, SMTT(60)
  <2> QED BY <2>2
<1>3. x \in R /\ P \subseteq R /\ D \subseteq R
  <2>1. Parted(n, l, R, x)
    BY Unlinked
  <2> QED BY <2>1 DEF Parted
<1>4. \A j \in Inodes : KidsIn(n, k, j) \subseteq Inodes /\ KidsIn(n, l, j) \subseteq Inodes
  BY <1>1, <1>2, EntriesAre
<1>5. Root \in P /\ Closed(n, l, P) /\ x \in D /\ Closed(n, l, D)
  <2>1. /\ {Root} \subseteq Inodes /\ {x} \subseteq Inodes
        /\ \A j \in Inodes : KidsIn(n, l, j) \subseteq Inodes
    BY <1>1, <1>3, <1>4
  <2>2. Root \in P /\ Closed(n, l, P)
    BY <2>1, ReachHolds
  <2>3. x \in D /\ Closed(n, l, D)
    BY <2>1, ReachHolds
  <2> QED BY <2>2, <2>3
<1>6. KidsIn(n, k, d) \subseteq KidsIn(n, l, d) \cup {x}
  <2> SUFFICES ASSUME NEW q \in ProperIn(n, k, d), q # o PROVE f[q].ino \in KidsIn(n, l, d)
    BY DEF KidsIn
  <2>1. q \in DOMAIN e /\ e[q].ino = f[q].ino /\ e[q].name = f[q].name
    BY <1>1 DEF ProperIn
  <2>2. q \in ProperIn(n, l, d)
    BY <1>2, <2>1 DEF ProperIn
  <2> QED BY <1>2, <2>1, <2>2 DEF KidsIn
<1>7. ASSUME NEW j \in (P \cup D) \cap Inodes PROVE KidsIn(n, k, j) \subseteq P \cup D
  <2>1. KidsIn(n, l, j) \subseteq P \cup D
    BY <1>5, <1>7 DEF Closed
  <2>2. KidsIn(n, k, j) \subseteq KidsIn(n, l, j) \cup {x}
    BY <1>2, <1>3, <1>6, <1>7
  <2> QED BY <1>5, <2>1, <2>2
<1>8. R \subseteq P \cup D
  <2>1. {Root} \subseteq Inodes /\ {Root} \subseteq P \cup D
    BY <1>1, <1>5
  <2>2. \A j \in Inodes : KidsIn(n, k, j) \subseteq Inodes
    BY <1>4
  <2> QED BY <1>7, <2>1, <2>2, ReachLeast
<1> QED BY <1>8

\* A name is taken out: the data of what is still reached, and what the marks are for.
PartingAccounts(x) ==
  /\ Reach' \subseteq Reach /\ ReachIn(inode', disk', {x}) \subseteq Reach
  /\ Reach \subseteq Reach' \cup ReachIn(inode', disk', {x})
  /\ \A i \in Reach : /\ TreeIn(inode', disk', i) = TreeIn(inode, disk, i)
                      /\ FileIs(inode', disk', i)

\* No file changes when a name goes, and all that was reached still is, or is what
\* the name led to.
LEMMA UnlinkAccounts ==
  ASSUME IInv, Parts, pc = "idle", NEW d \in Parents, NEW n \in Names,
         NEW o \in Named(Entries(d), n), Unlink(d, o), UNCHANGED <<bbits, ibits, inode>>,
         NEW x, x = Entries(d)[o].ino
  PROVE  PartingAccounts(x)
<1> PICK e : e = FirstSector(Removed(Entries(d), o))
  OBVIOUS
<1>1. Unlinking(inode, disk, Reach, d, o, e, disk') /\ inode' = inode
  BY UnlinkingIs
<1>2. x = EntriesIn(inode, disk, d)[o].ino /\ Reach = ReachIn(inode, disk, {Root})
      /\ Reach' = ReachIn(inode, disk', {Root})
  BY <1>1, Reads, ReadsNext
<1>3. /\ Parted(inode, disk', Reach, x)
      /\ \A i \in Reach : TreeIn(inode, disk', i) = TreeIn(inode, disk, i)
  BY <1>1, <1>2, Unlinked
<1>4. Reach \subseteq Reach' \cup ReachIn(inode, disk', {x})
  BY <1>1, <1>2, UnlinkLosesNone
<1>5. ASSUME NEW i \in Reach PROVE FileIs(inode, disk', i)
  <2>1. FileIs(inode, disk, i)
    BY DEF Parts, Readable, Soon
  <2>2. /\ inode[d].mode = "dir" /\ d \in Reach /\ Structure(inode, disk, Reach)
        /\ Reach \subseteq Inodes
        /\ Volume(inode, disk) /\ Written(disk, disk', inode[d].ptr[1], Dir(e))
    BY <1>1 DEF Unlinking
  <2>3. CASE inode[i].mode # "file"
    BY <2>3 DEF FileIs
  <2>4. CASE inode[i].mode = "file"
    <3>1. i # d /\ Unshared(inode, disk, Reach) /\ Sound(inode, disk, Reach)
      BY <2>2, <2>4 DEF Structure
    <3>2. inode[d].ptr[1] \in TreeIn(inode, disk, d)
      BY <2>2, <3>1, DirectoryIs
    <3>3. inode[d].ptr[1] \notin TreeIn(inode, disk, i)
      BY <2>2, <3>1, <3>2, OtherTree
    <3>4. ASSUME NEW b \in TreeIn(inode, disk, i) PROVE disk'[b] = disk[b]
      <4>1. b \in DOMAIN disk
        BY <2>2, TreeIsBlocks DEF Volume
      <4> QED BY <2>2, <3>3, <4>1 DEF Written
    <3> QED BY <2>1, <3>4, FileSame
  <2> QED BY <2>3, <2>4
<1>6. ReachIn(inode', disk', {x}) = ReachIn(inode, disk', {x})
  BY <1>1
<1> QED BY <1>1, <1>2, <1>3, <1>4, <1>5, <1>6 DEF PartingAccounts, Parted

\* With no kmalloc refused, all that the inode leads to is freed.
LEMMA FreeingAll ==
  ASSUME NEW i, Freeing(i), clean'
  PROVE  todo' = Held(i)
<1>1. PICK single, double \in BOOLEAN :
         /\ todo' = FreedPlaces(i, single, double)
         /\ IF single /\ double THEN UNCHANGED faultVars ELSE Fault
  BY DEF Freeing
<1>2. single /\ double
  BY <1>1 DEF Fault
<1> QED BY <1>1, <1>2 DEF FreedPlaces

\* In a directory that is not read yet everything is still to come.
LEMMA FreshFrame ==
  ASSUME NEW n, NEW k, Volume(n, k), NEW i \in Inodes
  PROVE  /\ AtEntry(EntriesIn(n, k, i), 0)
         /\ \A o \in DOMAIN EntriesIn(n, k, i) : ~(o < 0)
<1> PICK d : d = EntriesIn(n, k, i)
  OBVIOUS
<1>1. CASE DOMAIN d = {}
  BY <1>1 DEF AtEntry
<1>2. CASE DOMAIN d # {}
  <2>1. Whole(d)
    BY <1>2, EntriesAre DEF Kept
  <2>2. 0 \in DOMAIN d
    BY <2>1 DEF Whole
  <2>3. \A o \in DOMAIN d : o \in Int /\ 0 <= o
    BY <2>1, EntryIs
  <2>4. \A o \in DOMAIN d : ~(o < 0)
    BY <2>3
  <2> QED BY <2>2, <2>4 DEF AtEntry
<1> QED BY <1>1, <1>2

\* What is no longer reached is to be freed: ext2_delete_file begins,
LEMMA DeleteFileAccounts ==
  ASSUME IInv, Parts, NEW d \in Parents, NEW n \in Names, DeleteFile(d, n), clean'
  PROVE  Parts'
<1>1. PICK o \in Named(Entries(d), n) :
         /\ inode[Entries(d)[o].ino].mode = "file" /\ Unlink(d, o)
         /\ Freeing(Entries(d)[o].ino) /\ ino' = Entries(d)[o].ino
  BY DEF DeleteFile
<1>2. /\ pc = "idle" /\ pc' = "free" /\ UNCHANGED <<bbits, ibits, inode>> /\ stack' = stack
  BY DEF DeleteFile
<1> PICK x : x = Entries(d)[o].ino
  OBVIOUS
<1> PICK D : D = ReachIn(inode', disk', {x})
  OBVIOUS
<1>3. /\ Reach' \subseteq Reach /\ D \subseteq Reach /\ Reach \subseteq Reach' \cup D
      /\ \A i \in Reach : /\ TreeIn(inode', disk', i) = TreeIn(inode, disk, i)
                          /\ FileIs(inode', disk', i)
  <2>1. PartingAccounts(x)
    BY <1>1, <1>2, UnlinkAccounts
  <2> QED BY <2>1 DEF PartingAccounts
<1>4. x \in D /\ stack = <<>> /\ HeldIn(inode', disk', x) = Held(x)
  <2>1. Parting(x)
    BY <1>1, <1>2, UnlinkIs
  <2> QED BY <2>1 DEF Parting
<1>5. Doomed' = D
  <2>1. Doomed' = ReachIn(inode', disk', {ino'})
    BY <1>2, <1>4 DEF Doomed
  <2> QED BY <1>1, <2>1
<1>6. Live' = Reach' \cup D /\ Live = Reach
  BY <1>2, <1>5, NoneDoomed DEF Live
<1>7. todo' = HeldIn(inode', disk', x) /\ ino' = x /\ inode'[x].mode = "file"
  BY <1>1, <1>2, <1>4, FreeingAll
<1>8. Reach \subseteq ibits /\ NoBlockLost /\ NoInodeLost
  BY DEF IInv, Marked, Parts
<1>9. Readable'
  BY <1>2, <1>3 DEF Readable, Soon, FileIs
<1>10. Filling'
  BY <1>2 DEF Filling
<1>11. NoBlockLost'
  <2> SUFFICES ASSUME NEW b \in bbits
               PROVE  \/ b \in Reserved \/ (\E i \in Reach' : b \in TreeIn(inode', disk', i))
                      \/ \E i \in (D \cap ibits) \ {x} : b \in TreeIn(inode', disk', i)
                      \/ \E p \in todo' : b = AtIn(disk', inode'[x].ptr, p)
    BY <1>2, <1>5, <1>7 DEF NoBlockLost, InHand
  <2>1. b \in Reserved \/ \E i \in Reach : b \in TreeIn(inode, disk, i)
    BY <1>2, <1>8 DEF NoBlockLost, InHand
  <2>2. ASSUME b \in TreeIn(inode', disk', x)
        PROVE  \E p \in todo' : b = AtIn(disk', inode'[x].ptr, p)
    <3>1. PICK p \in Places : b = AtIn(disk', inode'[x].ptr, p)
      BY <2>2 DEF TreeIn
    <3>2. b # 0
      BY <2>2 DEF TreeIn
    <3>3. p \in todo'
      BY <1>7, <3>1, <3>2 DEF HeldIn
    <3> QED BY <3>1, <3>3
  <2>3. ASSUME NEW i \in Reach, b \in TreeIn(inode, disk, i)
        PROVE  b \in TreeIn(inode', disk', i) /\ (i \in Reach' \/ (i \in D /\ i \in ibits))
    BY <1>3, <1>8, <2>3
  <2> QED BY <2>1, <2>2, <2>3
<1>12. NoInodeLost'
  BY <1>2, <1>3, <1>6, <1>8 DEF NoInodeLost
<1>13. Wiping'
  <2>1. D \ ibits = {}
    BY <1>3, <1>8
  <2>2. DOMAIN stack' = {} /\ stack' = <<>>
    BY <1>2, <1>4
  <2>3. KidsIn(inode', disk', x) = {}
    BY <1>7 DEF KidsIn, ProperIn, EntriesIn
  <2> QED BY <1>2, <1>5, <1>7, <2>1, <2>2, <2>3 DEF Wiping
<1> QED BY <1>9, <1>10, <1>11, <1>12, <1>13 DEF Parts

\* ... and ext2_remove_directory.
LEMMA RemoveDirectoryAccounts ==
  ASSUME IInv, IInv', Parts, NEW d \in Parents, NEW n \in Names, RemoveDirectory(d, n)
  PROVE  Parts'
<1>1. PICK o \in Named(Entries(d), n) :
         Unlink(d, o) /\ stack' = <<[ino |-> Entries(d)[o].ino, at |-> 0]>>
  BY DEF RemoveDirectory
<1>2. /\ pc = "idle" /\ pc' = "wipe" /\ UNCHANGED <<bbits, ibits, inode>>
  BY DEF RemoveDirectory
<1> PICK x : x = Entries(d)[o].ino
  OBVIOUS
<1> PICK D : D = ReachIn(inode', disk', {x})
  OBVIOUS
<1>3. /\ Reach' \subseteq Reach /\ D \subseteq Reach /\ Reach \subseteq Reach' \cup D
      /\ \A i \in Reach : /\ TreeIn(inode', disk', i) = TreeIn(inode, disk, i)
                          /\ FileIs(inode', disk', i)
  <2>1. PartingAccounts(x)
    BY <1>1, <1>2, UnlinkAccounts
  <2> QED BY <2>1 DEF PartingAccounts
<1>4. x \in Inodes /\ Volume(inode', disk')
  <2>1. Parting(x)
    BY <1>1, <1>2, UnlinkIs
  <2> QED BY <2>1 DEF Parting
<1>5. /\ stack' = <<[ino |-> x, at |-> 0]>> /\ stack'[1].ino = x /\ stack'[1].at = 0
      /\ DOMAIN stack' = {1} /\ stack' # <<>>
  BY <1>1
<1>6. Doomed' = D
  <2>1. Doomed' = ReachIn(inode', disk', {stack'[1].ino})
    BY <1>2, <1>5 DEF Doomed
  <2> QED BY <1>5, <2>1
<1>7. Live' = Reach' \cup D /\ Live = Reach
  BY <1>2, <1>6, NoneDoomed DEF Live
<1>8. Reach \subseteq ibits /\ NoBlockLost /\ NoInodeLost
  BY DEF IInv, Marked, Parts
<1>9. Readable'
  BY <1>2, <1>3 DEF Readable, Soon, FileIs
<1>10. Filling'
  BY <1>2 DEF Filling
<1>11. NoBlockLost'
  <2> SUFFICES ASSUME NEW b \in bbits
               PROVE  \/ b \in Reserved \/ (\E i \in Reach' : b \in TreeIn(inode', disk', i))
                      \/ \E i \in D \cap ibits : b \in TreeIn(inode', disk', i)
    BY <1>2, <1>6 DEF NoBlockLost, InHand
  <2>1. b \in Reserved \/ \E i \in Reach : b \in TreeIn(inode, disk, i)
    BY <1>2, <1>8 DEF NoBlockLost, InHand
  <2> QED BY <1>3, <1>8, <2>1
<1>12. NoInodeLost'
  BY <1>2, <1>3, <1>7, <1>8 DEF NoInodeLost
<1>13. Wiping'
  <2>1. D \ ibits = {}
    BY <1>3, <1>8
  <2>2. /\ AtEntry(EntriesIn(inode', disk', x), 0)
        /\ \A q \in ProperIn(inode', disk', x) : ~(q < 0)
    BY <1>4, FreshFrame DEF ProperIn
  <2> QED BY <1>2, <1>5, <1>6, <2>1, <2>2, ZenonT(60) DEF Wiping, AtEntry
<1> QED BY <1>9, <1>10, <1>11, <1>12, <1>13 DEF Parts

\* A step of the removal that writes no inode and no block leaves all files as they are.
LEMMA OnwardAccounts ==
  ASSUME Parts, UNCHANGED <<inode, disk>>, pc \in {"wipe", "free"}, pc' \in {"wipe", "free"},
         Bottom' = Bottom
  PROVE  Reach' = Reach /\ Doomed' = Doomed /\ Live' = Live /\ Readable' /\ Filling'
<1>1. Reach' = Reach
  BY Still
<1>2. Doomed' = Doomed
  BY DEF Doomed, Bottom
<1>3. Readable'
  BY <1>1 DEF Parts, Readable, Soon, FileIs
<1>4. Filling'
  BY DEF Filling
<1> QED BY <1>1, <1>2, <1>3, <1>4 DEF Live

\* The frames of the removal when ext2_wipe_inode has gone on to the next entry.
LEMMA WipeEntryStack ==
  ASSUME IInv, WipeEntry, NEW d, d = Entries(Top.ino), NEW z, z = Len(stack),
         NEW v, v = Top.at + d[Top.at].rec
  PROVE  /\ stack' # <<>> /\ Bottom' = Bottom
         /\ \A m \in 1 .. z : stack'[m].ino = stack[m].ino
         /\ \A m \in 1 .. z - 1 : stack'[m].at = stack[m].at
         /\ stack'[z].at = v
         /\ \/ DOMAIN stack' = 1 .. z /\ d[Top.at].name \in {".", ".."}
            \/ /\ DOMAIN stack' = 1 .. z + 1 /\ d[Top.at].name \notin {".", ".."}
               /\ stack'[z + 1] = [ino |-> d[Top.at].ino, at |-> 0]
<1> PICK e : e = d[Top.at]
  OBVIOUS
<1> PICK on : on = [stack EXCEPT ![Len(stack)].at = v]
  OBVIOUS
<1> PICK new : new = [ino |-> e.ino, at |-> 0]
  OBVIOUS
<1>1. /\ pc = "wipe" /\ pc' = "wipe" /\ Top.at \in DOMAIN d /\ UNCHANGED ino
      /\ stack' = IF e.name \in {".", ".."} THEN on ELSE Append(on, new)
  BY DEF WipeEntry
<1>2. Volume(inode, disk)
  BY DEF IInv
<1>3. /\ stack \in Seq(Frames) /\ stack # <<>> /\ DOMAIN stack = 1 .. z
      /\ z \in Nat /\ z >= 1 /\ Top.ino \in Inodes /\ Bottom = stack[1].ino
  BY <1>1, TopIs
<1>4. v \in 0 .. BlockWords /\ e.ino \in Inodes
  <2>1. d = EntriesIn(inode, disk, Top.ino)
    BY Reads
  <2>2. Kept(d) /\ \A o \in DOMAIN d : d[o].ino \in Inodes
    BY <1>1, <1>2, <1>3, <2>1, EntriesAre
  <2>3. Whole(d)
    BY <2>2 DEF Kept
  <2>4. /\ Top.at \in Int /\ 0 <= Top.at /\ e.rec \in Int /\ Top.at + e.rec <= BlockWords
        /\ RealLen(e) <= e.rec /\ RealLen(e) \in 3 .. 6
    BY <1>1, <2>3, EntryIs
  <2> QED BY <1>1, <2>2, <2>4, Words
<1>5. /\ on \in Seq(Frames) /\ Len(on) = z /\ on # <<>>
      /\ \A m \in 1 .. z : on[m].ino = stack[m].ino
  BY <1>3, <1>4, StackSet
<1>6. on[z].at = v /\ \A m \in 1 .. z - 1 : on[m].at = stack[m].at
  <2>1. z \in DOMAIN stack /\ stack[z] \in Frames
    BY <1>3, ElementOfSeq
  <2>2. on[z] = [stack[z] EXCEPT !.at = v]
    BY <2>1
  <2>3. on[z].at = v
    BY <2>1, <2>2 DEF Frames
  <2>4. \A m \in 1 .. z - 1 : on[m] = stack[m]
    BY <1>3
  <2> QED BY <2>3, <2>4
<1>7. DOMAIN on = 1 .. z
  BY <1>5, LenProperties
<1>8. CASE e.name \in {".", ".."}
  <2>1. stack' = on
    BY <1>1, <1>8
  <2>2. Bottom' = Bottom
    BY <1>3, <1>5, <2>1 DEF Bottom
  <2> QED BY <1>5, <1>6, <1>7, <1>8, <2>1, <2>2
<1>9. CASE e.name \notin {".", ".."}
  <2>1. stack' = Append(on, new)
    BY <1>1, <1>9
  <2>2. new \in Frames
    BY <1>4, Words DEF Frames
  <2>3. /\ Append(on, new) \in Seq(Frames) /\ Append(on, new) # <<>>
        /\ Len(Append(on, new)) = Len(on) + 1
        /\ \A m \in 1 .. Len(on) : Append(on, new)[m] = on[m]
        /\ Append(on, new)[Len(on) + 1] = new
    BY <1>5, <2>2, AppendProperties
  <2>4. /\ stack' \in Seq(Frames) /\ stack' # <<>> /\ Len(stack') = z + 1
        /\ \A m \in 1 .. z : stack'[m] = on[m]
        /\ stack'[z + 1] = new
    BY <1>5, <2>1, <2>3
  <2>5. DOMAIN stack' = 1 .. z + 1
    BY <2>4, LenProperties
  <2>6. \A m \in 1 .. z : stack'[m].ino = stack[m].ino
    BY <1>5, <2>4
  <2>7. stack'[z].at = v /\ \A m \in 1 .. z - 1 : stack'[m].at = stack[m].at
    <3>1. z \in 1 .. z /\ \A m \in 1 .. z - 1 : m \in 1 .. z
      BY <1>3
    <3>2. stack'[z].at = v
      BY <1>6, <2>4, <3>1
    <3>3. ASSUME NEW m \in 1 .. z - 1 PROVE stack'[m].at = stack[m].at
      BY <1>6, <2>4, <3>1
    <3> QED BY <3>2, <3>3
  <2>8. Bottom' = Bottom
    BY <1>3, <2>4, <2>6 DEF Bottom
  <2> QED BY <1>9, <2>4, <2>5, <2>6, <2>7, <2>8
<1> QED BY <1>8, <1>9

\* What one frame of the removal tells.
Passed(s, m, bits) ==
  /\ AtEntry(EntriesIn(inode, disk, s[m].ino), s[m].at)
  /\ \A o \in ProperIn(inode, disk, s[m].ino) : o < s[m].at =>
       \/ EntriesIn(inode, disk, s[m].ino)[o].ino \notin bits
       \/ /\ m + 1 \in DOMAIN s
          /\ EntriesIn(inode, disk, s[m].ino)[o].ino = s[m + 1].ino

\* ext2_wipe_inode goes on to the next entry: the one behind it is in the new frame.
LEMMA WipeEntryAccounts ==
  ASSUME IInv, IInv', Parts, WipeEntry
  PROVE  Parts'
<1> PICK d : d = Entries(Top.ino)
  OBVIOUS
<1> PICK z : z = Len(stack)
  OBVIOUS
<1> PICK v : v = Top.at + d[Top.at].rec
  OBVIOUS
<1>1. /\ pc = "wipe" /\ pc' = "wipe" /\ Top.at \in DOMAIN d
      /\ UNCHANGED <<bbits, ibits, inode, disk, got, todo, ino>>
  BY DEF WipeEntry, diskVars
<1>2. /\ stack' # <<>> /\ Bottom' = Bottom
      /\ \A m \in 1 .. z : stack'[m].ino = stack[m].ino
      /\ \A m \in 1 .. z - 1 : stack'[m].at = stack[m].at
      /\ stack'[z].at = v
      /\ \/ DOMAIN stack' = 1 .. z /\ d[Top.at].name \in {".", ".."}
         \/ /\ DOMAIN stack' = 1 .. z + 1 /\ d[Top.at].name \notin {".", ".."}
            /\ stack'[z + 1] = [ino |-> d[Top.at].ino, at |-> 0]
  BY WipeEntryStack
<1>3. Reach' = Reach /\ Doomed' = Doomed /\ Live' = Live /\ Readable' /\ Filling'
  BY <1>1, <1>2, OnwardAccounts
<1>4. NoBlockLost'
  BY <1>1, <1>3 DEF Parts, NoBlockLost, InHand
<1>5. NoInodeLost'
  BY <1>1, <1>3 DEF Parts, NoInodeLost
<1>6. /\ \A i \in Doomed \ ibits : KidsIn(inode, disk, i) \cap ibits = {}
      /\ \A m \in DOMAIN stack : Passed(stack, m, ibits)
  BY <1>1 DEF Parts, Wiping, Passed
<1>7. /\ DOMAIN stack = 1 .. z /\ z \in Nat /\ z >= 1 /\ Top = stack[z]
      /\ \A m \in 1 .. z : stack[m].ino \in Inodes
      /\ d = EntriesIn(inode, disk, Top.ino) /\ Volume(inode, disk)
  <2>1. stack \in Seq(Frames) /\ DOMAIN stack = 1 .. z /\ z \in Nat /\ z >= 1 /\ Top = stack[z]
    BY <1>1, TopIs
  <2>2. \A m \in 1 .. z : stack[m].ino \in Inodes
    <3>1. \A m \in 1 .. z : stack[m] \in Frames
      BY <2>1, ElementOfSeq
    <3> QED BY <3>1 DEF Frames
  <2>3. d = EntriesIn(inode, disk, Top.ino)
    BY Reads
  <2>4. Volume(inode, disk)
    BY DEF IInv
  <2> QED BY <2>1, <2>2, <2>3, <2>4
<1>8. AtEntry(d, v) /\ \A o \in DOMAIN d : o < v => o <= Top.at
  <2>1. Whole(d)
    BY <1>1, <1>7, EntriesAre DEF Kept
  <2> QED BY <1>1, <2>1, NextEntry
<1>9. ASSUME NEW m \in 1 .. z - 1 PROVE Passed(stack', m, ibits)
  <2>1. m \in 1 .. z /\ m + 1 \in 1 .. z /\ m + 1 \in DOMAIN stack'
    BY <1>2, <1>7
  <2>2. Passed(stack, m, ibits)
    BY <1>6, <1>7, <2>1
  <2>3. /\ stack'[m].ino = stack[m].ino /\ stack'[m].at = stack[m].at
        /\ stack'[m + 1].ino = stack[m + 1].ino
    BY <1>2, <2>1
  <2> QED BY <2>1, <2>2, <2>3 DEF Passed
<1>10. Passed(stack', z, ibits)
  <2>1. stack'[z].ino = Top.ino /\ stack'[z].at = v /\ z \in 1 .. z /\ z + 1 \notin 1 .. z
    BY <1>2, <1>7
  <2>2. ASSUME NEW o \in ProperIn(inode, disk, Top.ino), o < v
        PROVE  \/ d[o].ino \notin ibits
               \/ z + 1 \in DOMAIN stack' /\ d[o].ino = stack'[z + 1].ino
    <3>1. o \in DOMAIN d /\ o <= Top.at
      BY <1>7, <1>8, <2>2 DEF ProperIn
    <3>2. CASE o = Top.at
      <4>1. d[Top.at].name \notin {".", ".."}
        BY <1>7, <3>2 DEF ProperIn
      <4>2. z + 1 \in DOMAIN stack' /\ stack'[z + 1].ino = d[Top.at].ino
        BY <1>2, <1>7, <4>1, SMTT(60)
      <4> QED BY <3>2, <4>2
    <3>3. CASE o # Top.at
      <4>1. Whole(d)
        BY <1>1, <1>7, EntriesAre DEF Kept
      <4>2. o \in Int /\ Top.at \in Int
        BY <1>1, <3>1, <4>1, EntryIs
      <4>3. o < Top.at
        BY <3>1, <3>3, <4>2
      <4>4. Passed(stack, z, ibits)
        BY <1>6, <1>7
      <4>5. z + 1 \notin DOMAIN stack
        BY <1>7
      <4> QED BY <1>7, <4>3, <4>4, <4>5 DEF Passed
    <3> QED BY <3>2, <3>3
  <2> QED BY <1>7, <1>8, <2>1, <2>2 DEF Passed
<1>11. CASE DOMAIN stack' = 1 .. z
  <2>1. \A m \in DOMAIN stack' : Passed(stack', m, ibits)
    BY <1>7, <1>9, <1>10, <1>11
  <2>2. Wiping'
    BY <1>1, <1>3, <1>6, <2>1 DEF Wiping, Passed
  <2> QED BY <1>3, <1>4, <1>5, <2>2 DEF Parts
<1>12. CASE /\ DOMAIN stack' = 1 .. z + 1 /\ d[Top.at].name \notin {".", ".."}
            /\ stack'[z + 1] = [ino |-> d[Top.at].ino, at |-> 0]
  <2>1. d[Top.at].ino \in Inodes
    BY <1>1, <1>7, EntriesAre
  <2>2. /\ stack'[z + 1].ino \in Inodes /\ stack'[z + 1].at = 0
    BY <1>12, <2>1
  <2>3. Passed(stack', z + 1, ibits)
    <3>1. /\ AtEntry(EntriesIn(inode, disk, stack'[z + 1].ino), 0)
          /\ \A q \in DOMAIN EntriesIn(inode, disk, stack'[z + 1].ino) : ~(q < 0)
      BY <1>7, <2>2, FreshFrame
    <3> QED BY <2>2, <3>1 DEF Passed, ProperIn
  <2>4. \A m \in DOMAIN stack' : Passed(stack', m, ibits)
    BY <1>7, <1>9, <1>10, <1>12, <2>3
  <2>5. Wiping'
    BY <1>1, <1>3, <1>6, <2>4 DEF Wiping, Passed
  <2> QED BY <1>3, <1>4, <1>5, <2>5 DEF Parts
<1> QED BY <1>2, <1>11, <1>12

\* All that the directory named is free, its own blocks are next.
LEMMA WipeSelfAccounts ==
  ASSUME IInv, IInv', Parts, WipeSelf, clean'
  PROVE  Parts'
<1> PICK x : x = Top.ino
  OBVIOUS
<1>1. /\ pc = "wipe" /\ pc' = "free" /\ Top.at \notin DOMAIN Entries(x) /\ ino' = x
      /\ UNCHANGED <<bbits, ibits, inode, disk, got, stack>>
  BY DEF WipeSelf, diskVars
<1>2. todo' = Held(x)
  BY FreeingAll DEF WipeSelf
<1>3. /\ DOMAIN stack = 1 .. Len(stack) /\ Len(stack) \in Nat /\ Len(stack) >= 1
      /\ Top = stack[Len(stack)] /\ Volume(inode, disk) /\ x \in Inodes /\ stack # <<>>
      /\ Bottom = stack[1].ino /\ stack \in Seq(Frames)
  BY <1>1, TopIs DEF IInv
<1>4. Reach' = Reach /\ Doomed' = Doomed /\ Live' = Live /\ Readable' /\ Filling'
  <2>1. Bottom' = Bottom
    BY <1>1, <1>3 DEF Bottom
  <2> QED BY <1>1, <2>1, OnwardAccounts
<1>5. NoBlockLost'
  <2> SUFFICES ASSUME NEW b \in bbits
               PROVE  \/ b \in Reserved \/ (\E i \in Reach : b \in TreeIn(inode, disk, i))
                      \/ \E i \in (Doomed \cap ibits) \ {x} : b \in TreeIn(inode, disk, i)
                      \/ \E p \in todo' : b = AtIn(disk, inode[x].ptr, p)
    BY <1>1, <1>4 DEF NoBlockLost, InHand
  <2>1. \/ b \in Reserved \/ (\E i \in Reach : b \in TreeIn(inode, disk, i))
        \/ \E i \in Doomed \cap ibits : b \in TreeIn(inode, disk, i)
    BY <1>1 DEF Parts, NoBlockLost, InHand
  <2>2. ASSUME b \in TreeIn(inode, disk, x)
        PROVE  \E p \in todo' : b = AtIn(disk, inode[x].ptr, p)
    <3>1. PICK p \in Places : b = AtIn(disk, inode[x].ptr, p)
      BY <2>2 DEF TreeIn
    <3>2. b # 0
      BY <2>2 DEF TreeIn
    <3>3. p \in HeldIn(inode, disk, x)
      BY <3>1, <3>2 DEF HeldIn
    <3> QED BY <1>2, <3>1, <3>3, Reads
  <2> QED BY <2>1, <2>2
<1>6. NoInodeLost'
  BY <1>1, <1>4 DEF Parts, NoInodeLost
<1>7. KidsIn(inode, disk, x) \cap ibits = {}
  <2> PICK d : d = EntriesIn(inode, disk, x)
    OBVIOUS
  <2>1. AtEntry(d, Top.at) /\ Top.at \notin DOMAIN d
    BY <1>1, <1>3, Reads DEF Parts, Wiping
  <2>2. Top.at \in Int
    <3>1. Len(stack) \in 1 .. Len(stack)
      BY <1>3
    <3>2. Top \in Frames
      BY <1>3, <3>1, ElementOfSeq
    <3> QED BY <3>2, Words DEF Frames
  <2>3. \A o \in DOMAIN d : o < Top.at
    <3>1. CASE DOMAIN d = {}
      BY <3>1
    <3>2. CASE DOMAIN d # {}
      <4>1. Whole(d)
        BY <1>3, <3>2, EntriesAre DEF Kept
      <4>2. \A o \in DOMAIN d : o \in Int
        BY <4>1, EntryIs
      <4> QED BY <2>1, <2>2, <4>2 DEF AtEntry
    <3> QED BY <3>1, <3>2
  <2>4. ASSUME NEW o \in ProperIn(inode, disk, x) PROVE d[o].ino \notin ibits
    <3>1. o < Top.at
      BY <2>3 DEF ProperIn
    <3>2. Len(stack) + 1 \notin DOMAIN stack /\ Len(stack) \in DOMAIN stack
      BY <1>3
    <3>3. Passed(stack, Len(stack), ibits)
      BY <1>1, <3>2 DEF Parts, Wiping, Passed
    <3> QED BY <1>3, <3>1, <3>2, <3>3 DEF Passed
  <2> QED BY <2>4 DEF KidsIn
<1>8. Wiping'
  <2>1. ino' = Last(stack').ino
    BY <1>1, <1>3 DEF Top
  <2>2. /\ \A i \in Doomed \ ibits : KidsIn(inode, disk, i) \cap ibits = {}
        /\ \A m \in DOMAIN stack : Passed(stack, m, ibits)
    BY <1>1 DEF Parts, Wiping, Passed
  <2> QED BY <1>1, <1>4, <1>7, <2>1, <2>2 DEF Wiping, Passed
<1> QED BY <1>4, <1>5, <1>6, <1>8 DEF Parts

\* A block is given back.
LEMMA FreeBlockAccounts ==
  ASSUME IInv, IInv', NGroups = 1, Parts, FreeBlock
  PROVE  Parts'
<1>1. PICK p \in todo : ClearBit(BlockAt(inode[ino].ptr, p)) /\ todo' = todo \ {p}
  BY DEF FreeBlock
<1>2. /\ pc = "free" /\ pc' = "free" /\ UNCHANGED <<inode, disk, got, ino, stack>>
  BY DEF FreeBlock
<1> DEFINE b == BlockAt(inode[ino].ptr, p)
<1>3. b \in Tree(ino) /\ b = AtIn(disk, inode[ino].ptr, p)
  <2>1. p \in Held(ino)
    BY <1>2 DEF IInv, Removing
  <2>2. b \in Tree(ino)
    BY <2>1 DEF Held, Tree
  <2>3. b = AtIn(disk, inode[ino].ptr, p)
    BY DEF AtIn, BlockAt, Pointers, PointersIn
  <2> QED BY <2>2, <2>3
<1> HIDE DEF b
<1>4. b \in Blocks
  BY <1>2, <1>3, DoomedIsApart
<1>5. bbits' = bbits \ {b} /\ ibits' = ibits
  BY <1>1, <1>4, OneGroup DEF ClearBit, b
<1>6. Reach' = Reach /\ Doomed' = Doomed /\ Live' = Live /\ Readable' /\ Filling'
  <2>1. Bottom' = Bottom
    BY <1>2 DEF Bottom
  <2> QED BY <1>2, <2>1, OnwardAccounts
<1>7. NoBlockLost'
  <2> SUFFICES ASSUME NEW c \in bbits \ {b}
               PROVE  \/ c \in Reserved \/ (\E i \in Reach : c \in TreeIn(inode, disk, i))
                      \/ \E i \in (Doomed \cap ibits) \ {ino} : c \in TreeIn(inode, disk, i)
                      \/ \E q \in todo \ {p} : c = AtIn(disk, inode[ino].ptr, q)
    BY <1>1, <1>2, <1>5, <1>6 DEF NoBlockLost, InHand
  <2>1. \/ c \in Reserved \/ (\E i \in Reach : c \in TreeIn(inode, disk, i))
        \/ \E i \in (Doomed \cap ibits) \ {ino} : c \in TreeIn(inode, disk, i)
        \/ \E q \in todo : c = AtIn(disk, inode[ino].ptr, q)
    BY <1>2 DEF Parts, NoBlockLost, InHand
  <2> QED BY <1>3, <2>1
<1>8. NoInodeLost'
  BY <1>2, <1>5, <1>6 DEF Parts, NoInodeLost
<1>9. Wiping'
  BY <1>2, <1>5, <1>6 DEF Parts, Wiping
<1> QED BY <1>6, <1>7, <1>8, <1>9 DEF Parts

\* When the last frame returns nothing of what was removed is marked.
LEMMA LastIsFreed ==
  ASSUME IInv, Parts, pc = "free", Bottom = ino, NEW bits, bits = ibits \ {ino}
  PROVE  Doomed \cap bits = {}
<1>1. Doomed \subseteq Inodes /\ Closed(inode, disk, Doomed) /\ Volume(inode, disk)
  BY DoomedIsClosed DEF IInv
<1>2. ino \in Doomed /\ ino \in Inodes
  BY DoomedIsApart DEF IInv, Removing
<1>3. Doomed = ReachIn(inode, disk, {ino})
  <2>1. {IF stack = <<>> THEN ino ELSE stack[1].ino} = {ino}
    BY DEF Bottom
  <2> QED BY <2>1 DEF Doomed
<1>4. /\ \A i \in Doomed \ ibits : KidsIn(inode, disk, i) \cap ibits = {}
      /\ KidsIn(inode, disk, ino) \cap ibits = {}
  BY DEF Parts, Wiping
<1> DEFINE T == Doomed \ bits
<1>5. {ino} \subseteq Inodes /\ {ino} \subseteq T
  BY <1>2
<1>6. ASSUME NEW i \in T \cap Inodes PROVE KidsIn(inode, disk, i) \subseteq T
  <2>1. i \in Doomed /\ (i = ino \/ i \notin ibits)
    OBVIOUS
  <2>2. KidsIn(inode, disk, i) \cap ibits = {}
    BY <1>4, <2>1
  <2>3. KidsIn(inode, disk, i) \subseteq Doomed
    BY <1>1, <2>1 DEF Closed
  <2> QED BY <2>2, <2>3
<1>7. \A i \in Inodes : KidsIn(inode, disk, i) \subseteq Inodes
  BY <1>1, EntriesAre
<1> HIDE DEF T
<1>8. ReachIn(inode, disk, {ino}) \subseteq T
  BY <1>5, <1>6, <1>7, ReachLeast
<1> QED BY <1>3, <1>8 DEF T

\* ext2_wipe_inode returns to the directory above.
LEMMA FrontIs ==
  ASSUME stack \in Seq(Frames), NEW z, z = Len(stack), z > 1, NEW t, t = Front(stack)
  PROVE  /\ z \in Nat /\ t # <<>> /\ DOMAIN t = 1 .. z - 1 /\ DOMAIN stack = 1 .. z
         /\ \A m \in 1 .. z - 1 : t[m] = stack[m]
<1>1. z \in Nat /\ DOMAIN stack = 1 .. z
  BY LenProperties
<1>2. \A m \in 1 .. z - 1 : stack[m] \in Frames
  <2>1. \A m \in 1 .. z - 1 : m \in 1 .. Len(stack)
    BY <1>1
  <2> QED BY <2>1, ElementOfSeq
<1>3. t = SubSeq(stack, 1, z - 1)
  BY DEF Front
<1>4. z - 1 \in Int /\ 1 <= z - 1 /\ 1 \in Int /\ z - 1 - 1 + 1 = z - 1
      /\ \A m \in 1 .. z - 1 : 1 + m - 1 = m
  BY <1>1
<1>5. /\ SubSeq(stack, 1, z - 1) \in Seq(Frames)
      /\ Len(SubSeq(stack, 1, z - 1)) = z - 1 - 1 + 1
      /\ \A m \in 1 .. z - 1 - 1 + 1 : SubSeq(stack, 1, z - 1)[m] = stack[1 + m - 1]
  BY <1>2, <1>4, SubSeqProperties
<1>6. t \in Seq(Frames) /\ Len(t) = z - 1 /\ \A m \in 1 .. z - 1 : t[m] = stack[m]
  BY <1>3, <1>4, <1>5
<1>7. DOMAIN t = 1 .. z - 1
  BY <1>6, LenProperties
<1>8. t # <<>>
  BY <1>4, <1>6, EmptySeq
<1> QED BY <1>1, <1>6, <1>7, <1>8

\* The inode is given back: what the frame above has passed is free,
\* and with the last one all that was removed.
LEMMA FreeInodeAccounts ==
  ASSUME IInv, IInv', Parts, FreeInode
  PROVE  Parts'
<1>1. /\ pc = "free" /\ todo = {} /\ ibits' = ibits \ {ino} /\ Return
      /\ UNCHANGED <<bbits, inode, disk>>
  BY DEF FreeInode
<1>2. stack \in Seq(Frames) /\ (stack # <<>> => ino = Last(stack).ino)
  BY <1>1 DEF IInv, Typed, Frames, Parts, Wiping
<1>3. \A c \in bbits : \/ c \in Reserved \/ (\E i \in Reach : c \in TreeIn(inode, disk, i))
                       \/ \E i \in Doomed \cap ibits' : c \in TreeIn(inode, disk, i)
  BY <1>1 DEF Parts, NoBlockLost, InHand
<1>4. \A i \in ibits' : i = 1 \/ i \in Reach \/ i \in Doomed \cap ibits'
  BY <1>1 DEF Parts, NoInodeLost, Live
<1>5. Reach' = Reach
  BY <1>1, Still
<1>6. CASE ~(Len(stack) > 1) /\ Rest
  <2>1. pc' = "idle" /\ Doomed' = {} /\ Live' = Reach
    BY <1>5, <1>6, NoneDoomedNext DEF Rest
  <2>2. Bottom = ino
    <3>1. CASE stack = <<>>
      BY <3>1 DEF Bottom
    <3>2. CASE stack # <<>>
      <4>1. Len(stack) \in Nat /\ Len(stack) # 0
        BY <1>2, <3>2, EmptySeq, LenProperties
      <4>2. Len(stack) = 1
        <5> PICK z : z = Len(stack)
          OBVIOUS
        <5>1. ~(z > 1)
          BY <1>6
        <5> QED BY <4>1, <5>1
      <4> QED BY <1>2, <3>2, <4>2 DEF Bottom, Last
    <3> QED BY <3>1, <3>2
  <2>3. Doomed \cap ibits' = {}
    BY <1>1, <2>2, LastIsFreed
  <2>4. Readable'
    BY <1>1, <1>5, <2>1 DEF Parts, Readable, Soon, FileIs
  <2>5. NoBlockLost'
    BY <1>1, <1>3, <1>5, <2>3 DEF NoBlockLost
  <2>6. NoInodeLost'
    BY <1>4, <2>1, <2>3 DEF NoInodeLost
  <2>7. Filling' /\ Wiping'
    BY <2>1 DEF Filling, Wiping
  <2> QED BY <2>4, <2>5, <2>6, <2>7 DEF Parts
<1>7. CASE /\ Len(stack) > 1 /\ stack' = Front(stack) /\ pc' = "wipe"
  <2> PICK z : z = Len(stack)
    OBVIOUS
  <2>1. /\ z \in Nat /\ z > 1 /\ stack' # <<>>
        /\ DOMAIN stack' = 1 .. z - 1 /\ DOMAIN stack = 1 .. z
        /\ \A m \in 1 .. z - 1 : stack'[m] = stack[m]
    BY <1>2, <1>7, FrontIs
  <2>2. stack # <<>> /\ 1 \in 1 .. z - 1 /\ ino = stack[z].ino
    <3>1. stack # <<>>
      BY <1>2, <2>1, EmptySeq
    <3> QED BY <1>2, <2>1, <3>1 DEF Last
  <2>3. Reach' = Reach /\ Doomed' = Doomed /\ Live' = Live /\ Readable' /\ Filling'
    <3>1. Bottom' = Bottom
      BY <2>1, <2>2 DEF Bottom
    <3> QED BY <1>1, <1>7, <3>1, OnwardAccounts
  <2>4. NoBlockLost'
    BY <1>1, <1>3, <1>7, <2>3 DEF NoBlockLost, InHand
  <2>5. NoInodeLost'
    BY <1>4, <2>3 DEF NoInodeLost, Live
  <2>6. \A i \in Doomed \ ibits' : KidsIn(inode, disk, i) \cap ibits' = {}
    BY <1>1 DEF Parts, Wiping
  <2>7. \A m \in DOMAIN stack : Passed(stack, m, ibits)
    BY <1>1 DEF Parts, Wiping, Passed
  <2>8. ASSUME NEW m \in 1 .. z - 1 PROVE Passed(stack', m, ibits')
    <3>1. m \in 1 .. z /\ m + 1 \in 1 .. z /\ stack'[m] = stack[m]
      BY <2>1
    <3>2. Passed(stack, m, ibits)
      BY <2>1, <2>7, <3>1
    <3>3. CASE m + 1 = z
      <4>1. stack[m + 1].ino \notin ibits'
        BY <1>1, <2>2, <3>3
      <4> QED BY <1>1, <3>1, <3>2, <4>1 DEF Passed
    <3>4. CASE m + 1 # z
      <4>1. m + 1 \in 1 .. z - 1
        BY <2>1, <3>1, <3>4
      <4>2. m + 1 \in DOMAIN stack' /\ stack'[m + 1] = stack[m + 1]
        BY <2>1, <4>1
      <4> QED BY <1>1, <3>1, <3>2, <4>2 DEF Passed
    <3> QED BY <3>3, <3>4
  <2>9. Wiping'
    BY <1>1, <1>7, <2>1, <2>3, <2>6, <2>8 DEF Wiping, Passed
  <2> QED BY <2>3, <2>4, <2>5, <2>9 DEF Parts
<1> QED BY <1>1, <1>6, <1>7 DEF Return

\* What has failed stays failed.
LEMMA CleanStays ==
  ASSUME IInv, clean', Next \/ UNCHANGED vars
  PROVE  clean
<1>1. clean \in BOOLEAN
  BY DEF IInv, Typed
<1>2. CASE UNCHANGED vars
  BY <1>2 DEF vars, faultVars
<1>3. ~Fault
  BY DEF Fault
<1>4. ASSUME NEW i, Freeing(i) PROVE clean
  BY <1>3, <1>4 DEF Freeing, faultVars
<1>5. CASE Next
  <2>1. ASSUME NEW d, NEW n, NEW k, NEW z, Begin(d, n, k, z) PROVE clean
    BY <2>1 DEF Begin, faultVars
  <2>2. ASSUME NEW d, NEW n, DeleteFile(d, n) PROVE clean
    BY <1>4, <2>2 DEF DeleteFile
  <2>3. ASSUME NEW d, NEW n, RemoveDirectory(d, n) PROVE clean
    BY <2>3 DEF RemoveDirectory, faultVars
  <2>4. CASE TakeBlock \/ StoreList \/ TakeInode \/ WriteInode \/ Link
    BY <1>1, <2>4 DEF TakeBlock, StoreList, TakeInode, WriteInode, Link, faultVars
  <2>5. CASE WipeEntry \/ WipeSelf \/ FreeBlock \/ FreeInode
    BY <1>4, <2>5 DEF WipeEntry, WipeSelf, FreeBlock, FreeInode, faultVars
  <2>6. ~(WipeNoEntries \/ WipeNothing \/ PowerFails)
    BY <1>3 DEF WipeNoEntries, WipeNothing, PowerFails
  <2> QED BY <1>5, <2>1, <2>2, <2>3, <2>4, <2>5, <2>6 DEF Next, WriteFile, MakeDirectory
<1> QED BY <1>2, <1>5

\* Where no variable changes nothing does.
LEMMA StutterAccounts ==
  ASSUME IInv, Parts, UNCHANGED vars
  PROVE  Parts'
<1>1. UNCHANGED <<bbits, ibits, inode, disk, pc, kind, size, plan, got, ino, todo, stack>>
  BY DEF vars, diskVars, callVars, workVars
<1>2. Reach' = Reach
  BY <1>1, Still
<1>3. Doomed' = Doomed /\ Live' = Live
  BY <1>1, <1>2 DEF Doomed, Live
<1>4. Readable'
  BY <1>1, <1>2 DEF Parts, Readable, Soon, FileIs
<1>5. Filling'
  BY <1>1 DEF Parts, Filling
<1>6. NoBlockLost'
  BY <1>1, <1>2, <1>3 DEF Parts, NoBlockLost, InHand
<1>7. NoInodeLost'
  BY <1>1, <1>3 DEF Parts, NoInodeLost
<1>8. Wiping'
  BY <1>1, <1>3 DEF Parts, Wiping
<1> QED BY <1>4, <1>5, <1>6, <1>7, <1>8 DEF Parts

\* Every step keeps the accounts, as long as nothing fails.
LEMMA NextAccounts ==
  ASSUME IInv, NGroups = 1, ShortNames, Accounted, Next \/ UNCHANGED vars
  PROVE  Accounted'
<1> SUFFICES ASSUME clean' PROVE Parts'
  BY DEF Accounted
<1>1. Parts
  BY CleanStays DEF Accounted
<1>2. CASE UNCHANGED vars
  BY <1>1, <1>2, StutterAccounts
<1>3. CASE Next
  <2>0. IInv'
    BY <1>3, NextIs
  <2>1. ASSUME NEW d \in Parents, NEW n \in Names, NEW z \in Sizes, WriteFile(d, n, z)
        PROVE  Parts'
    BY <1>1, <2>0, <2>1, BeginAccounts DEF WriteFile
  <2>2. ASSUME NEW d \in Parents, NEW n \in Names, MakeDirectory(d, n)
        PROVE  Parts'
    BY <1>1, <2>0, <2>2, BeginAccounts DEF MakeDirectory
  <2>3. ASSUME NEW d \in Parents, NEW n \in Names, DeleteFile(d, n)
        PROVE  Parts'
    BY <1>1, <2>3, DeleteFileAccounts
  <2>4. ASSUME NEW d \in Parents, NEW n \in Names, RemoveDirectory(d, n)
        PROVE  Parts'
    BY <1>1, <2>0, <2>4, RemoveDirectoryAccounts
  <2>5. CASE TakeBlock \/ StoreList \/ TakeInode \/ WriteInode \/ Link
    BY <1>1, <2>0, <2>5, TakeBlockAccounts, StoreListAccounts, TakeInodeAccounts,
       WriteInodeAccounts, LinkAccounts
  <2>6. CASE WipeEntry \/ WipeSelf \/ FreeBlock \/ FreeInode
    BY <1>1, <2>0, <2>6, WipeEntryAccounts, WipeSelfAccounts, FreeBlockAccounts,
       FreeInodeAccounts
  <2>7. ~(WipeNoEntries \/ WipeNothing \/ PowerFails)
    BY DEF WipeNoEntries, WipeNothing, PowerFails, Fault
  <2> QED BY <1>3, <2>1, <2>2, <2>3, <2>4, <2>5, <2>6, <2>7 DEF Next
<1> QED BY <1>2, <1>3

\* The volume mke2fs makes is accounted for.
LEMMA InitAccounts == ASSUME Init PROVE Accounted
<1>1. /\ bbits = Reserved \cup {RootBlock} /\ ibits = {1, Root} /\ pc = "idle"
      /\ inode = [i \in Inodes |->
                    IF i = Root THEN Inode("dir", 1, [NoBlocks EXCEPT ![1] = RootBlock])
                                ELSE Inode("none", 0, NoBlocks)]
  BY DEF Init
<1>2. IInv
  BY InitIs
<1>3. Root \in Reach /\ Reach \subseteq Inodes /\ Root \in Inodes
  BY <1>2, ReachIsClosed, Numbers DEF IInv
<1>4. \A i \in Reach : inode[i].mode # "file"
  <2>1. ASSUME NEW i \in Inodes PROVE inode[i].mode # "file"
    BY <1>1 DEF Inode
  <2> QED BY <1>3, <2>1
<1>5. Readable
  BY <1>1, <1>4 DEF Readable, Soon, FileIs
<1>6. NoBlockLost
  <2>1. inode[Root].mode = "dir"
    BY <1>1, <1>3 DEF Inode
  <2>2. inode[Root].ptr[1] = RootBlock
    <3>1. 1 \in Slots
      BY Numbers
    <3>2. inode[Root].ptr = [NoBlocks EXCEPT ![1] = RootBlock]
      BY <1>1, <1>3 DEF Inode
    <3> QED BY <3>1, <3>2 DEF NoBlocks
  <2>3. inode[Root].ptr[1] \in TreeIn(inode, disk, Root)
    <3>1. Live \subseteq Inodes /\ Sound(inode, disk, Live) /\ Root \in Live
          /\ Volume(inode, disk)
      <4>1. Live = Reach
        BY <1>1, NoneDoomed
      <4> QED BY <1>2, <1>3, <4>1 DEF IInv, Structure
    <3> QED BY <2>1, <3>1, DirectoryIs
  <2> QED BY <1>1, <1>3, <2>2, <2>3 DEF NoBlockLost
<1>7. NoInodeLost
  BY <1>1, <1>3 DEF NoInodeLost, Live
<1>8. Filling /\ Wiping
  BY <1>1 DEF Filling, Wiping
<1> QED BY <1>5, <1>6, <1>7, <1>8 DEF Accounted, Parts

\* With no operation in progress nothing is in hand.
LEMMA NothingLeaksIs == ASSUME IInv, Accounted PROVE NothingLeaks
<1> SUFFICES ASSUME pc = "idle", clean
             PROVE  /\ bbits = Reserved \cup UNION {Tree(i) : i \in Reach}
                    /\ ibits = {1} \cup Reach
  BY DEF NothingLeaks
<1>1. NoBlockLost /\ NoInodeLost /\ Marked
  BY DEF IInv, Accounted, Parts
<1>2. \A i : Tree(i) = TreeIn(inode, disk, i)
  BY Reads
<1>3. Live = Reach
  BY NoneDoomed
<1>4. ibits = {1} \cup Reach
  BY <1>1, <1>3 DEF NoInodeLost, Marked
<1>5. \A b \in bbits : b \in Reserved \/ \E i \in Reach : b \in Tree(i)
  BY <1>1, <1>2 DEF NoBlockLost, InHand
<1>6. Reserved \subseteq bbits /\ \A i \in Reach : Tree(i) \subseteq bbits
  BY <1>1 DEF Marked
<1> QED BY <1>4, <1>5, <1>6

(***************************************************************************)
(* ext2_get_phys_block finds what ext2_write_file has stored: block k of a *)
(* file is the place whose position is k.                                  *)
(***************************************************************************)
\* The row and the column of an entry of the double indirect list.
LEMMA RowAndColumn ==
  ASSUME NEW m \in Nat, m >= 1, NEW d \in Nat, d < m * m
  PROVE  \E q, r \in 0 .. m - 1 : q = d \div m /\ r = d % m /\ d = q * m + r
<1> PICK q : q = d \div m
  OBVIOUS
<1> PICK r : r = d % m
  OBVIOUS
<1>1. q \in Int /\ r \in 0 .. m - 1 /\ d = q * m + r
  OBVIOUS
<1>2. q >= 0
  <2>1. CASE q <= -1
    <3>1. q * m <= -m
      BY <1>1, <2>1
    <3> QED BY <1>1, <3>1
  <2> QED BY <1>1, <2>1
<1>3. q <= m - 1
  <2>1. CASE q >= m
    <3>1. q * m >= m * m
      BY <1>1, <2>1
    <3>2. m * m \in Int /\ q * m \in Int
      BY <1>1
    <3> QED BY <1>1, <3>1, <3>2
  <2> QED BY <1>1, <2>1
<1> QED BY <1>1, <1>2, <1>3

\* Each block of a file has its place.
LEMMA PhysIs ==
  ASSUME NEW f, NEW k \in Nat, k < NDirect + NList + NList * NList
  PROVE  \E p \in Places : ~IsList(p) /\ Position(p) = k /\ Phys(f, k) = AtIn(disk, f, p)
<1>1. /\ NDirect \in Nat /\ NDirect >= 1 /\ NList \in Nat /\ NList >= 1
      /\ Single = NDirect + 1 /\ Double = NDirect + 2 /\ Slots = 1 .. NDirect + 2
  BY Ext2Assumption DEF Single, Double, Slots
<1>2. \A b : Pointers(b) = PointersIn(disk, b)
  BY DEF Pointers, PointersIn
<1>3. CASE k < NDirect
  <2> PICK p : p = <<k + 1, 0, 0>>
    OBVIOUS
  <2>1. p \in Places
    BY <1>1, <1>3, PlacesAre
  <2>2. ~IsList(p) /\ Position(p) = k
    BY <1>1, <1>3 DEF IsList, Position, IsDirect
  <2>3. Phys(f, k) = AtIn(disk, f, p)
    BY <1>3 DEF Phys, AtIn
  <2> QED BY <2>1, <2>2, <2>3
<1>4. CASE ~(k < NDirect) /\ k < NDirect + NList
  <2> PICK j : j = k - NDirect + 1
    OBVIOUS
  <2>0. j \in 1 .. NList /\ j # 0 /\ NDirect + j - 1 = k
    BY <1>1, <1>4
  <2> PICK p : p = <<Single, j, 0>>
    OBVIOUS
  <2>1. p \in Places
    BY <2>0, PlacesAre
  <2>2. ~IsList(p) /\ Position(p) = k
    BY <1>1, <2>0 DEF IsList, Position, IsDirect
  <2>3. Phys(f, k) = AtIn(disk, f, p)
    BY <1>2, <1>4, <2>0 DEF Phys, AtIn
  <2> QED BY <2>1, <2>2, <2>3
<1>5. CASE ~(k < NDirect) /\ ~(k < NDirect + NList)
  <2> PICK d : d = k - NDirect - NList
    OBVIOUS
  <2> PICK w : w = NList * NList
    OBVIOUS
  <2>0. w \in Int
    BY <1>1
  <2>1. d \in Nat /\ d < w
    BY <1>1, <1>5, <2>0
  <2>2. PICK q, r \in 0 .. NList - 1 :
           q = d \div NList /\ r = d % NList /\ d = q * NList + r
    BY <1>1, <2>1, RowAndColumn
  <2>3. q + 1 \in 1 .. NList /\ r + 1 \in 1 .. NList /\ q + 1 # 0 /\ r + 1 # 0
    BY <1>1
  <2> PICK p : p = <<Double, q + 1, r + 1>>
    OBVIOUS
  <2>4. p \in Places
    BY <2>3, PlacesAre
  <2>5. ~IsList(p) /\ Position(p) = k
    <3>1. ~IsList(p)
      BY <1>1, <2>3 DEF IsList
    <3>2. Position(p) = NDirect + NList + (q + 1 - 1) * NList + (r + 1) - 1
      BY <1>1 DEF Position, IsDirect
    <3>3. q + 1 - 1 = q
      OBVIOUS
    <3> PICK t : t = q * NList
      OBVIOUS
    <3>4. t \in Int
      BY <1>1
    <3>5. NDirect + NList + t + (r + 1) - 1 = k
      BY <1>1, <2>2, <3>4
    <3> QED BY <3>1, <3>2, <3>3, <3>5
  <2>6. Phys(f, k) = PointersIn(disk, PointersIn(disk, f[Double])[q + 1])[r + 1]
    BY <1>2, <1>5, <2>2 DEF Phys
  <2>7. AtIn(disk, f, p) = PointersIn(disk, PointersIn(disk, f[Double])[q + 1])[r + 1]
    BY <2>3 DEF AtIn
  <2> QED BY <2>4, <2>5, <2>6, <2>7
<1> QED BY <1>3, <1>4, <1>5

\* ... where its KB is.
LEMMA FilesAreReadIs == ASSUME IInv, Accounted PROVE ReadsWhatWasWritten
<1> SUFFICES ASSUME clean, NEW i \in Reach, inode[i].mode = "file",
                    NEW k \in 0 .. inode[i].size - 1
             PROVE  disk[Phys(inode[i].ptr, k)] = Data(k)
  BY DEF ReadsWhatWasWritten
<1> PICK z : z = inode[i].size
  OBVIOUS
<1> PICK w : w = NDirect + NList + NList * NList
  OBVIOUS
<1>1. z \in Int /\ z <= w
  <2>1. i \in Inodes /\ Volume(inode, disk)
    BY ReachIsClosed DEF IInv
  <2>2. z \in {0, 1} \cup Sizes
    BY <2>1 DEF Volume
  <2>3. Sizes \subseteq 1 .. w
    BY Ext2Assumption
  <2>4. NList * NList >= 0 /\ NList * NList \in Int
    BY Ext2Assumption
  <2>5. w \in Int /\ w >= 1
    BY <2>4, Ext2Assumption
  <2> QED BY <2>2, <2>3, <2>5
<1>2. k \in Nat /\ k < z /\ k < w
  BY <1>1
<1>3. PICK p \in Places : /\ ~IsList(p) /\ Position(p) = k
                          /\ Phys(inode[i].ptr, k) = AtIn(disk, inode[i].ptr, p)
  BY <1>2, PhysIs
<1>4. p \in DataPlaces(z)
  BY <1>2, <1>3 DEF DataPlaces
<1>5. FileIs(inode, disk, i)
  BY DEF Accounted, Parts, Readable, Soon
<1>6. disk[AtIn(disk, inode[i].ptr, p)] = Data(Position(p))
  BY <1>4, <1>5 DEF FileIs
<1> QED BY <1>3, <1>6

(***************************************************************************)
(* The theorems.                                                           *)
(***************************************************************************)
\* As long as nothing has failed every marked block and inode is accounted for, and
\* every file has its KBs where they belong.
THEOREM WellAccounted == ASSUME NGroups = 1, ShortNames PROVE Spec => []Accounted
<1>1. Init => Accounted
  BY InitAccounts
<1>2. IInv /\ Accounted /\ [Next]_vars => Accounted'
  BY NextAccounts
<1> QED BY <1>1, <1>2, Inductive, PTL DEF Spec

\* Only a power-off, a full disk, a lost entry or a refused kmalloc leaves a block or
\* an inode marked that no path leads to.
THEOREM NothingIsLost == ASSUME NGroups = 1, ShortNames PROVE Spec => []NothingLeaks
<1>1. IInv /\ Accounted => NothingLeaks
  BY NothingLeaksIs
<1> QED BY <1>1, Inductive, WellAccounted, PTL

\* ext2_read_file reads each KB of a file from the block ext2_write_file has put it in.
THEOREM FilesAreRead == ASSUME NGroups = 1, ShortNames PROVE Spec => []ReadsWhatWasWritten
<1>1. IInv /\ Accounted => ReadsWhatWasWritten
  BY FilesAreReadIs
<1> QED BY <1>1, Inductive, WellAccounted, PTL

(***************************************************************************)
(* Paths.  A way is a sequence of links <<directory, name, inode>>, each   *)
(* from where the one before it leads to.                                  *)
(***************************************************************************)
From(t, k) == IF k = 0 THEN Root ELSE t[k][3]

WayOf(L, t, n) ==
  n \in Nat /\ t \in [1 .. n -> L] /\ \A k \in 1 .. n : t[k][1] = From(t, k - 1)

NamesIn(t) == [k \in DOMAIN t |-> t[k][2]]

\* Nothing leads to the root, and two links neither lead to one inode nor have one
\* name in one directory.
Forest(L) ==
  /\ \A e \in L : e[2] \in Names /\ e[3] \in 3 .. NInodes
  /\ \A e, f \in L : e[3] = f[3] => e = f
  /\ \A e, f \in L : e[1] = f[1] /\ e[2] = f[2] => e = f

\* Two ways to one inode are the same links, counted from their ends.
LEMMA SameEnds ==
  ASSUME NEW L, Forest(L), NEW t, NEW n, NEW u, NEW m, WayOf(L, t, n), WayOf(L, u, m),
         From(t, n) = From(u, m), NEW j \in Nat, j <= n, j <= m
  PROVE  From(t, n - j) = From(u, m - j)
<1> DEFINE T == {i \in 0 .. j : From(t, n - i) # From(u, m - i)}
<1>1. SUFFICES ASSUME T # {} PROVE FALSE
  OBVIOUS
<1>2. PICK i \in T : \A y \in T : i <= y
  BY <1>1, MinExists, T \subseteq 0 .. j, j \in Int
<1>3. i \in 0 .. j /\ From(t, n - i) # From(u, m - i) /\ n \in Nat /\ m \in Nat
  BY DEF WayOf
<1>4. i # 0
  BY <1>3
<1>5. i - 1 \in 0 .. j /\ i - 1 \notin T
  BY <1>2, <1>3, <1>4
<1>6. From(t, n - (i - 1)) = From(u, m - (i - 1))
  BY <1>5
<1> PICK a : a = n - i + 1
  OBVIOUS
<1> PICK b : b = m - i + 1
  OBVIOUS
<1>7. /\ a \in 1 .. n /\ b \in 1 .. m /\ n - (i - 1) = a /\ m - (i - 1) = b
      /\ n - i = a - 1 /\ m - i = b - 1 /\ a # 0 /\ b # 0
  BY <1>3, <1>4
<1>8. t[a][3] = u[b][3]
  BY <1>6, <1>7 DEF From
<1>9. t[a] \in L /\ u[b] \in L /\ t[a][1] = From(t, a - 1) /\ u[b][1] = From(u, b - 1)
  BY <1>7 DEF WayOf
<1>10. t[a] = u[b]
  BY <1>8, <1>9 DEF Forest
<1> QED BY <1>3, <1>7, <1>9, <1>10

\* ... so there is one way to an inode.
LEMMA WayOnce ==
  ASSUME NEW L, Forest(L), NEW t, NEW n, NEW u, NEW m, WayOf(L, t, n), WayOf(L, u, m),
         From(t, n) = From(u, m)
  PROVE  n = m /\ t = u
<1>1. /\ n \in Nat /\ m \in Nat /\ From(t, 0) = Root /\ From(u, 0) = Root
      /\ \A k \in 1 .. n : From(t, k) # Root
      /\ \A k \in 1 .. m : From(u, k) # Root
  BY DEF WayOf, From, Forest, Root
<1>2. ~(n < m)
  <2> SUFFICES ASSUME n < m PROVE FALSE
    OBVIOUS
  <2>1. From(t, n - n) = From(u, m - n)
    BY <1>1, SameEnds
  <2>2. n - n = 0 /\ m - n \in 1 .. m
    BY <1>1
  <2> QED BY <1>1, <2>1, <2>2
<1>3. ~(m < n)
  <2> SUFFICES ASSUME m < n PROVE FALSE
    OBVIOUS
  <2>1. From(t, n - m) = From(u, m - m)
    BY <1>1, SameEnds
  <2>2. m - m = 0 /\ n - m \in 1 .. n
    BY <1>1
  <2> QED BY <1>1, <2>1, <2>2
<1>4. n = m
  BY <1>1, <1>2, <1>3
<1>5. ASSUME NEW k \in 1 .. n PROVE t[k] = u[k]
  <2> PICK j : j = n - k
    OBVIOUS
  <2>1. j \in Nat /\ j <= n /\ n - j = k /\ m - j = k /\ j <= m /\ k # 0
    BY <1>1, <1>4
  <2>2. From(t, k) = From(u, k)
    BY <2>1, SameEnds
  <2>3. t[k] \in L /\ u[k] \in L /\ t[k][3] = u[k][3]
    BY <1>4, <2>1, <2>2 DEF WayOf, From
  <2> QED BY <2>3 DEF Forest
<1> QED BY <1>4, <1>5 DEF WayOf

\* Names lead to one place: a way whose names begin another's begins that way.
LEMMA SameNames ==
  ASSUME NEW L, Forest(L), NEW t, NEW n, NEW u, NEW m, WayOf(L, t, n), WayOf(L, u, m),
         n <= m, \A k \in 1 .. n : t[k][2] = u[k][2]
  PROVE  \A k \in 1 .. n : t[k] = u[k]
<1> DEFINE T == {k \in 0 .. n : k # 0 /\ t[k] # u[k]}
<1>0. n \in Nat /\ m \in Nat
  BY DEF WayOf
<1>1. SUFFICES ASSUME T # {} PROVE FALSE
  OBVIOUS
<1>2. PICK i \in T : \A y \in T : i <= y
  BY <1>0, <1>1, MinExists, T \subseteq 0 .. n, n \in Int
<1>3. i \in 1 .. n /\ i \in 1 .. m /\ t[i] # u[i]
  BY <1>0, <1>2
<1>4. i - 1 \in 0 .. n /\ i - 1 \notin T
  BY <1>0, <1>2, <1>3
<1>5. From(t, i - 1) = From(u, i - 1)
  BY <1>4 DEF From
<1>6. t[i] \in L /\ u[i] \in L /\ t[i][1] = From(t, i - 1) /\ u[i][1] = From(u, i - 1)
  BY <1>3 DEF WayOf
<1> QED BY <1>3, <1>5, <1>6 DEF Forest

\* The first k links of a way are a way.
LEMMA WayFront ==
  ASSUME NEW L, NEW t, NEW n, WayOf(L, t, n), NEW k \in 0 .. n
  PROVE  \E w : WayOf(L, w, k) /\ From(w, k) = From(t, k) /\ \A j \in 1 .. k : w[j] = t[j]
<1> PICK w : w = [j \in 1 .. k |-> t[j]]
  OBVIOUS
<1>0. n \in Nat /\ k \in Nat /\ k \in Int
  BY DEF WayOf
<1>1. \A j \in 1 .. k : j \in 1 .. n /\ w[j] = t[j]
  BY <1>0
<1>2. \A j \in 0 .. k : From(w, j) = From(t, j)
  BY <1>0, <1>1 DEF From
<1>3. w \in [1 .. k -> L]
  BY <1>1 DEF WayOf
<1>4. \A j \in 1 .. k : w[j][1] = From(w, j - 1)
  <2> TAKE j \in 1 .. k
  <2>1. j - 1 \in 0 .. k /\ j \in 1 .. n
    BY <1>0
  <2> QED BY <1>1, <1>2, <2>1 DEF WayOf
<1>5. k \in 0 .. k
  BY <1>0
<1>6. WayOf(L, w, k) /\ From(w, k) = From(t, k)
  BY <1>0, <1>2, <1>3, <1>4, <1>5 DEF WayOf
<1> QED BY <1>1, <1>6

\* No way is longer than there are inodes to lead to.
LEMMA WayIsShort ==
  ASSUME NEW L, Forest(L), NEW t, NEW n, WayOf(L, t, n)
  PROVE  n <= NInodes - 2
<1> DEFINE f == [k \in 1 .. n |-> t[k][3]]
<1>0. n \in Nat /\ NInodes \in Nat /\ NInodes >= 2
  BY Ext2Assumption DEF WayOf
<1>1. f \in [1 .. n -> 3 .. NInodes]
  BY DEF WayOf, Forest
<1>2. ASSUME NEW a \in 1 .. n, NEW b \in 1 .. n, f[a] = f[b] PROVE a = b
  <2>1. a \in 0 .. n /\ b \in 0 .. n /\ a # 0 /\ b # 0
    BY <1>0
  <2>2. PICK v : WayOf(L, v, a) /\ From(v, a) = From(t, a)
    BY <2>1, WayFront
  <2>3. PICK w : WayOf(L, w, b) /\ From(w, b) = From(t, b)
    BY <2>1, WayFront
  <2>4. From(t, a) = From(t, b)
    BY <1>2, <2>1 DEF From
  <2> QED BY <2>2, <2>3, <2>4, WayOnce
<1>3. f \in Injection(1 .. n, 3 .. NInodes)
  BY <1>1, <1>2, Zenon DEF Injection, IsInjective
<1>4. Cardinality(1 .. n) <= Cardinality(3 .. NInodes)
  BY <1>3, FS_Injection, FS_Interval, <1>0
<1>5. Cardinality(1 .. n) = n
  BY <1>0, FS_Interval
<1>6. Cardinality(3 .. NInodes) = NInodes - 2
  BY <1>0, FS_Interval
<1> QED BY <1>4, <1>5, <1>6

(***************************************************************************)
(* The tree of the names that ways have.                                   *)
(***************************************************************************)
TreeOf(L, f) ==
  {<<NamesIn(t), f[From(t, Len(t))].mode>> : t \in {u \in Seq(L) : WayOf(L, u, Len(u))}}

\* A way is a sequence.
LEMMA WayIsSeq ==
  ASSUME NEW L, NEW t, NEW n, WayOf(L, t, n)
  PROVE  t \in Seq(L) /\ Len(t) = n
<1>1. n \in Nat /\ t \in [1 .. n -> L]
  BY DEF WayOf
<1>2. t \in Seq(L)
  BY <1>1, SeqDef
<1>3. Len(t) \in Nat /\ DOMAIN t = 1 .. Len(t) /\ DOMAIN t = 1 .. n
  BY <1>1, <1>2, LenProperties
<1> QED BY <1>1, <1>2, <1>3

\* A path is what a way is called, and what it leads to.
LEMMA TreeIs ==
  ASSUME NEW L, NEW f
  PROVE  /\ \A t, n : WayOf(L, t, n) => <<NamesIn(t), f[From(t, n)].mode>> \in TreeOf(L, f)
         /\ \A u \in TreeOf(L, f) : \E t, n : /\ WayOf(L, t, n)
                                              /\ u = <<NamesIn(t), f[From(t, n)].mode>>
<1>1. ASSUME NEW t, NEW n, WayOf(L, t, n)
      PROVE  <<NamesIn(t), f[From(t, n)].mode>> \in TreeOf(L, f)
  <2>1. t \in Seq(L) /\ Len(t) = n
    BY <1>1, WayIsSeq
  <2> QED BY <1>1, <2>1 DEF TreeOf
<1>2. ASSUME NEW u \in TreeOf(L, f)
      PROVE  \E t, n : WayOf(L, t, n) /\ u = <<NamesIn(t), f[From(t, n)].mode>>
  BY DEF TreeOf
<1> QED BY <1>1, <1>2

\* What a way is called, name by name.
LEMMA NamesAre ==
  ASSUME NEW L, Forest(L), NEW t, NEW n, WayOf(L, t, n), NEW s, s = NamesIn(t)
  PROVE  /\ s \in Seq(Names) /\ Len(s) = n /\ n \in Nat
         /\ \A k \in 1 .. n : s[k] = t[k][2]
<1>1. n \in Nat /\ s \in [1 .. n -> Names] /\ \A k \in 1 .. n : s[k] = t[k][2]
  BY DEF WayOf, NamesIn, Forest
<1>2. s \in Seq(Names)
  BY <1>1, SeqDef
<1>3. Len(s) \in Nat /\ DOMAIN s = 1 .. Len(s) /\ DOMAIN s = 1 .. n
  BY <1>1, <1>2, LenProperties
<1> QED BY <1>1, <1>2, <1>3

\* IsPrefix, element by element.
LEMMA PrefixIs ==
  ASSUME NEW S, NEW s \in Seq(S), NEW t \in Seq(S)
  PROVE  IsPrefix(s, t) <=> Len(s) <= Len(t) /\ \A k \in 1 .. Len(s) : s[k] = t[k]
<1> PICK n : n = Len(s)
  OBVIOUS
<1>0. n \in Nat /\ n \in Int /\ 1 \in Int /\ Len(t) \in Nat
  BY LenProperties
<1>1. CASE n <= Len(t)
  <2>1. \A k \in 1 .. n : s[k] \in S /\ t[k] \in S
    <3> TAKE k \in 1 .. n
    <3>1. k \in 1 .. Len(s) /\ k \in 1 .. Len(t)
      BY <1>0, <1>1
    <3> QED BY <3>1, ElementOfSeq
  <2> PICK a : a = SubSeq(s, 1, n)
    OBVIOUS
  <2> PICK b : b = SubSeq(t, 1, n)
    OBVIOUS
  <2>2. /\ a \in Seq(S) /\ Len(a) = (IF 1 <= n THEN n - 1 + 1 ELSE 0)
        /\ \A k \in 1 .. n - 1 + 1 : a[k] = s[1 + k - 1]
    BY <1>0, <2>1, SubSeqProperties
  <2>3. /\ b \in Seq(S) /\ Len(b) = (IF 1 <= n THEN n - 1 + 1 ELSE 0)
        /\ \A k \in 1 .. n - 1 + 1 : b[k] = t[1 + k - 1]
    BY <1>0, <2>1, SubSeqProperties
  <2>4. Len(a) = n /\ Len(b) = n /\ \A k \in 1 .. n : a[k] = s[k] /\ b[k] = t[k]
    BY <1>0, <2>2, <2>3
  <2>5. a = b <=> \A k \in 1 .. n : s[k] = t[k]
    BY <2>2, <2>3, <2>4, SeqEqual
  <2> QED BY <1>1, <2>5 DEF IsPrefix
<1>2. CASE ~(n <= Len(t))
  BY <1>2 DEF IsPrefix
<1> QED BY <1>1, <1>2

\* Append, element by element.
LEMMA AppendIs ==
  ASSUME NEW S, NEW s \in Seq(S), NEW r \in Seq(S), NEW n, n = Len(s), NEW z, z = n + 1,
         Len(r) = z, NEW x, r[z] = x, \A k \in 1 .. n : r[k] = s[k]
  PROVE  r = Append(s, x)
<1>0. n \in Nat /\ z \in 1 .. z
  BY LenProperties
<1>1. x \in S
  BY <1>0, ElementOfSeq
<1> PICK a : a = Append(s, x)
  OBVIOUS
<1>2. /\ a \in Seq(S) /\ Len(a) = z /\ a[z] = x /\ \A k \in 1 .. n : a[k] = s[k]
  BY <1>1, AppendProperties
<1>3. \A k \in 1 .. z : k = z \/ k \in 1 .. n
  BY <1>0
<1>4. \A k \in 1 .. z : r[k] = a[k]
  BY <1>2, <1>3
<1>5. r = a
  BY <1>2, <1>4, SeqEqual
<1> QED BY <1>5

\* A way goes on by a link from where it leads to.
LEMMA WayOn ==
  ASSUME NEW L, Forest(L), NEW t, NEW n, WayOf(L, t, n), NEW M, Forest(M), L \subseteq M,
         NEW e \in M, e[1] = From(t, n), NEW z, z = n + 1
  PROVE  \E u : /\ WayOf(M, u, z) /\ From(u, z) = e[3] /\ u[z] = e
                /\ NamesIn(u) = Append(NamesIn(t), e[2])
<1> PICK u : u = [k \in 1 .. n + 1 |-> IF k = n + 1 THEN e ELSE t[k]]
  OBVIOUS
<1>0. n \in Nat /\ n + 1 \in Nat /\ n + 1 # 0 /\ n + 1 \in 1 .. n + 1
  BY DEF WayOf
<1>1. u[n + 1] = e /\ \A k \in 1 .. n : k # n + 1 /\ k \in 1 .. n + 1 /\ u[k] = t[k]
  BY <1>0
<1>2. \A k \in 0 .. n : From(u, k) = From(t, k)
  BY <1>0, <1>1 DEF From
<1>3. u \in [1 .. n + 1 -> M]
  <2>1. \A k \in 1 .. n + 1 : k = n + 1 \/ k \in 1 .. n
    BY <1>0
  <2>2. \A k \in 1 .. n : t[k] \in M
    BY DEF WayOf
  <2> QED BY <2>1, <2>2
<1>4. \A k \in 1 .. n + 1 : u[k][1] = From(u, k - 1)
  <2> TAKE k \in 1 .. n + 1
  <2>1. k - 1 \in 0 .. n /\ (k = n + 1 \/ k \in 1 .. n) /\ n + 1 - 1 = n
    BY <1>0
  <2>2. From(u, k - 1) = From(t, k - 1)
    BY <1>2, <2>1
  <2> QED BY <1>1, <2>1, <2>2 DEF WayOf
<1>5. WayOf(M, u, n + 1)
  BY <1>0, <1>3, <1>4 DEF WayOf
<1>6. From(u, n + 1) = e[3]
  BY <1>0, <1>1 DEF From
<1> PICK s : s = NamesIn(t)
  OBVIOUS
<1> PICK r : r = NamesIn(u)
  OBVIOUS
<1>7. s \in Seq(Names) /\ Len(s) = n /\ \A k \in 1 .. n : s[k] = t[k][2]
  BY NamesAre
<1>8. r \in Seq(Names) /\ Len(r) = z /\ \A k \in 1 .. z : r[k] = u[k][2]
  <2>1. WayOf(M, u, z)
    BY <1>5
  <2> QED BY ONLY <2>1, NamesAre, Forest(M), r = NamesIn(u)
<1>9. \A k \in 1 .. n : r[k] = s[k]
  <2> TAKE k \in 1 .. n
  <2>1. k \in 1 .. z /\ u[k] = t[k]
    BY <1>0, <1>1
  <2>2. r[k] = u[k][2] /\ s[k] = t[k][2]
    BY <1>7, <1>8, <2>1
  <2> QED BY <2>1, <2>2, Zenon
<1>10. r[z] = e[2]
  BY <1>0, <1>1, <1>8
<1>11. r = Append(s, e[2])
  BY <1>7, <1>8, <1>9, <1>10, AppendIs
<1>12. WayOf(M, u, z) /\ From(u, z) = e[3] /\ u[z] = e
  BY <1>1, <1>5, <1>6
<1> QED BY <1>11, <1>12

(***************************************************************************)
(* How the tree of names changes when a link is added, or taken out.       *)
(***************************************************************************)
Grows(T, U) ==
  \E t \in T, n \in Names, m \in {"file", "dir"} :
    /\ t[2] = "dir"
    /\ \A u \in T : u[1] # Append(t[1], n)
    /\ U = T \cup {<<Append(t[1], n), m>>}

Shrinks(T, U) ==
  \E t \in T : t[1] # <<>> /\ U = {u \in T : ~IsPrefix(t[1], u[1])}

\* A way is one through any set that has its links.
LEMMA WayWithin ==
  ASSUME NEW L, NEW M, NEW t, NEW n, WayOf(L, t, n), \A k \in 1 .. n : t[k] \in M
  PROVE  WayOf(M, t, n)
BY DEF WayOf

\* ... and the modes of what they lead to.
LEMMA TreeSameModes ==
  ASSUME NEW L, NEW f, NEW g, f[Root].mode = g[Root].mode,
         \A e \in L : f[e[3]].mode = g[e[3]].mode
  PROVE  TreeOf(L, f) = TreeOf(L, g)
<1>1. ASSUME NEW t, NEW n, WayOf(L, t, n)
      PROVE  f[From(t, n)].mode = g[From(t, n)].mode
  <2>1. n = 0 \/ t[n] \in L
    BY <1>1 DEF WayOf
  <2> QED BY <2>1 DEF From
<1>2. TreeOf(L, f) \subseteq TreeOf(L, g)
  <2> SUFFICES ASSUME NEW u \in TreeOf(L, f) PROVE u \in TreeOf(L, g)
    OBVIOUS
  <2>1. PICK t, n : WayOf(L, t, n) /\ u = <<NamesIn(t), f[From(t, n)].mode>>
    BY TreeIs
  <2>2. u = <<NamesIn(t), g[From(t, n)].mode>>
    BY <1>1, <2>1
  <2> QED BY <2>1, <2>2, TreeIs
<1>3. TreeOf(L, g) \subseteq TreeOf(L, f)
  <2> SUFFICES ASSUME NEW u \in TreeOf(L, g) PROVE u \in TreeOf(L, f)
    OBVIOUS
  <2>1. PICK t, n : WayOf(L, t, n) /\ u = <<NamesIn(t), g[From(t, n)].mode>>
    BY TreeIs
  <2>2. u = <<NamesIn(t), f[From(t, n)].mode>>
    BY <1>1, <2>1
  <2> QED BY <2>1, <2>2, TreeIs
<1> QED BY <1>2, <1>3

Joining(K, e, M) ==
  /\ \A x : x \in M <=> x \in K \/ x = e
  /\ e \notin K /\ e[1] # e[3] /\ \A x \in K : x[1] # e[3]

\* A link to an inode that leads nowhere ends the ways that take it.
LEMMA NewIsLast ==
  ASSUME NEW K, NEW e, NEW M, Joining(K, e, M), NEW u, NEW m, WayOf(M, u, m),
         NEW k \in 1 .. m, u[k] = e
  PROVE  k = m
<1>1. SUFFICES ASSUME k # m PROVE FALSE
  OBVIOUS
<1> PICK j : j = k + 1
  OBVIOUS
<1>2. j \in 1 .. m /\ k # 0 /\ j - 1 = k
  BY <1>1 DEF WayOf
<1>3. u[j] \in M /\ u[j][1] = From(u, k)
  BY <1>2 DEF WayOf
<1>4. u[j][1] = e[3]
  BY <1>2, <1>3 DEF From
<1> QED BY <1>3, <1>4 DEF Joining

\* With such a link there is one path more, if a way comes to it.
LEMMA TreeGrows ==
  ASSUME NEW K, NEW e, NEW M, Joining(K, e, M), Forest(M), Forest(K),
         NEW f, f[e[1]].mode = "dir", f[e[3]].mode \in {"file", "dir"}
  PROVE  TreeOf(M, f) = TreeOf(K, f) \/ Grows(TreeOf(K, f), TreeOf(M, f))
<1> DEFINE T == TreeOf(K, f)
           U == TreeOf(M, f)
<1>a. /\ \A t, n : WayOf(K, t, n) => <<NamesIn(t), f[From(t, n)].mode>> \in T
      /\ \A u \in T : \E t, n : WayOf(K, t, n) /\ u = <<NamesIn(t), f[From(t, n)].mode>>
  BY TreeIs
<1>b. /\ \A t, n : WayOf(M, t, n) => <<NamesIn(t), f[From(t, n)].mode>> \in U
      /\ \A u \in U : \E t, n : WayOf(M, t, n) /\ u = <<NamesIn(t), f[From(t, n)].mode>>
  BY TreeIs
<1> HIDE DEF T, U
<1>0. e \notin K /\ \A x : x \in M <=> x \in K \/ x = e
  BY DEF Joining
<1>1. \A t, n : WayOf(K, t, n) => WayOf(M, t, n)
  BY <1>0 DEF WayOf
<1>2. ASSUME NEW u, NEW m, WayOf(M, u, m), m = 0 \/ u[m] # e PROVE WayOf(K, u, m)
  <2>1. ASSUME NEW k \in 1 .. m PROVE u[k] \in K
    <3>1. u[k] # e
      <4> SUFFICES ASSUME u[k] = e PROVE FALSE
        OBVIOUS
      <4>1. k = m
        BY <1>2, NewIsLast
      <4>2. m # 0
        BY <1>2, <4>1
      <4> QED BY <1>2, <4>1, <4>2
    <3>2. u[k] \in M
      BY <1>2 DEF WayOf
    <3> QED BY <1>0, <3>1, <3>2
  <2> QED BY <1>2, <2>1, WayWithin
<1>3. T \subseteq U
  <2> SUFFICES ASSUME NEW u \in T PROVE u \in U
    OBVIOUS
  <2>1. PICK t, n : WayOf(K, t, n) /\ u = <<NamesIn(t), f[From(t, n)].mode>>
    BY <1>a, <1>b
  <2> QED BY <1>1, <2>1, <1>a, <1>b
<1>4. ASSUME NEW w, NEW n, WayOf(K, w, n), From(w, n) = e[1]
      PROVE  Grows(T, U)
  <2> PICK z : z = n + 1
    OBVIOUS
  <2>1. K \subseteq M /\ e \in M /\ e[2] \in Names
    BY <1>0 DEF Forest
  <2>2. PICK v : /\ WayOf(M, v, z) /\ From(v, z) = e[3] /\ v[z] = e
                /\ NamesIn(v) = Append(NamesIn(w), e[2])
    BY <1>4, <2>1, WayOn
  <2>3. z \in 1 .. z
    <3>1. n \in Nat
      BY <1>4 DEF WayOf
    <3> QED BY <3>1
  <2>4. PICK t : t \in T /\ t[2] = "dir" /\ t[1] = NamesIn(w)
    <3>1. <<NamesIn(w), f[From(w, n)].mode>> \in T
      BY <1>4, <1>a
    <3> QED BY <1>4, <3>1
  <2>5. PICK a : a \in U /\ a = <<Append(t[1], e[2]), f[e[3]].mode>>
    BY <2>2, <2>4, <1>b
  <2>6. ASSUME NEW u \in T PROVE u[1] # Append(t[1], e[2])
    <3>1. PICK y, m : WayOf(K, y, m) /\ u = <<NamesIn(y), f[From(y, m)].mode>>
      BY <1>a, <1>b
    <3>2. SUFFICES ASSUME NamesIn(y) = NamesIn(v) PROVE FALSE
      BY <2>2, <2>4, <3>1
    <3> PICK s : s = NamesIn(y)
      OBVIOUS
    <3>3. Len(s) = m /\ \A k \in 1 .. m : s[k] = y[k][2]
      BY <3>1, NamesAre
    <3>4. s = NamesIn(v)
      BY <3>2
    <3>5. Len(s) = z /\ z \in Nat /\ \A k \in 1 .. z : s[k] = v[k][2]
      BY <2>2, <3>4, NamesAre
    <3>6. m = z /\ \A k \in 1 .. m : y[k][2] = v[k][2]
      BY <3>3, <3>5
    <3>7. WayOf(M, y, m) /\ m <= z
      BY <1>1, <3>1, <3>5, <3>6
    <3>8. \A k \in 1 .. m : y[k] = v[k]
      BY <2>2, <3>6, <3>7, SameNames
    <3>9. y[z] = e /\ y[z] \in K
      BY <2>2, <2>3, <3>1, <3>6, <3>8 DEF WayOf
    <3> QED BY <1>0, <3>9
  <2>7. ASSUME NEW u \in U PROVE u \in T \/ u = a
    <3>1. PICK y, m : WayOf(M, y, m) /\ u = <<NamesIn(y), f[From(y, m)].mode>>
      BY <1>a, <1>b
    <3>2. CASE m = 0 \/ y[m] # e
      BY <1>2, <3>1, <3>2, <1>a, <1>b
    <3>3. CASE m # 0 /\ y[m] = e
      <4>1. From(y, m) = e[3]
        BY <3>3 DEF From
      <4>2. y = v
        BY <2>2, <3>1, <4>1, WayOnce
      <4> QED BY <2>2, <2>4, <2>5, <3>1, <4>1, <4>2
    <3> QED BY <3>2, <3>3
  <2>8. U = T \cup {a}
    BY <1>3, <2>5, <2>7
  <2>9. f[e[3]].mode \in {"file", "dir"}
    OBVIOUS
  <2> QED BY <2>1, <2>4, <2>5, <2>6, <2>8, <2>9 DEF Grows
<1>5. ASSUME \A w, n : WayOf(K, w, n) => From(w, n) # e[1] PROVE U = T
  <2>1. ASSUME NEW u \in U PROVE u \in T
    <3>1. PICK y, m : WayOf(M, y, m) /\ u = <<NamesIn(y), f[From(y, m)].mode>>
      BY <1>a, <1>b
    <3>2. ASSUME m # 0, y[m] = e PROVE FALSE
      <4> PICK k : k = m - 1
        OBVIOUS
      <4>1. k \in 0 .. m /\ m \in 1 .. m /\ k # m /\ (k = 0 \/ k \in 1 .. m)
        BY <3>1, <3>2 DEF WayOf
      <4>2. PICK g : /\ WayOf(M, g, k) /\ From(g, k) = From(y, k)
                     /\ \A j \in 1 .. k : g[j] = y[j]
        BY <3>1, <4>1, WayFront
      <4>3. From(y, k) = e[1]
        BY <3>1, <3>2, <4>1 DEF WayOf
      <4>4. k = 0 \/ g[k] # e
        <5> SUFFICES ASSUME k # 0, g[k] = e PROVE FALSE
          OBVIOUS
        <5>1. k \in 1 .. m /\ k \in 1 .. k /\ y[k] = e
          BY <4>1, <4>2
        <5>2. k = m
          BY <3>1, <5>1, NewIsLast
        <5> QED BY <4>1, <5>2
      <4>5. WayOf(K, g, k)
        BY <1>2, <4>2, <4>4
      <4> QED BY <1>5, <4>2, <4>3, <4>5
    <3> QED BY <1>2, <3>1, <3>2, <1>a, <1>b
  <2> QED BY <1>3, <2>1
<1> QED BY <1>4, <1>5 DEF T, U

\* Without a link there are no paths through it.
LEMMA TreeShrinks ==
  ASSUME NEW K, Forest(K), NEW e \in K, NEW M, \A x : x \in M <=> x \in K /\ x # e, NEW f
  PROVE  TreeOf(M, f) = TreeOf(K, f) \/ Shrinks(TreeOf(K, f), TreeOf(M, f))
<1> DEFINE T == TreeOf(K, f)
           U == TreeOf(M, f)
<1>a. /\ \A t, n : WayOf(K, t, n) => <<NamesIn(t), f[From(t, n)].mode>> \in T
      /\ \A u \in T : \E t, n : WayOf(K, t, n) /\ u = <<NamesIn(t), f[From(t, n)].mode>>
  BY TreeIs
<1>b. /\ \A t, n : WayOf(M, t, n) => <<NamesIn(t), f[From(t, n)].mode>> \in U
      /\ \A u \in U : \E t, n : WayOf(M, t, n) /\ u = <<NamesIn(t), f[From(t, n)].mode>>
  BY TreeIs
<1> HIDE DEF T, U
<1>1. \A t, n : WayOf(M, t, n) => WayOf(K, t, n) /\ \A k \in 1 .. n : t[k] # e
  BY DEF WayOf
<1>2. ASSUME NEW u, NEW m, WayOf(K, u, m), \A k \in 1 .. m : u[k] # e PROVE WayOf(M, u, m)
  BY <1>2 DEF WayOf
<1>3. U \subseteq T
  <2> SUFFICES ASSUME NEW u \in U PROVE u \in T
    OBVIOUS
  <2>1. PICK t, n : WayOf(M, t, n) /\ u = <<NamesIn(t), f[From(t, n)].mode>>
    BY <1>a, <1>b
  <2> QED BY <1>1, <2>1, <1>a, <1>b
<1>4. ASSUME NEW y, NEW m, WayOf(K, y, m), NEW j \in 1 .. m, y[j] = e PROVE Shrinks(T, U)
  <2>1. j \in 0 .. m /\ j # 0 /\ j \in 1 .. j /\ j \in Nat
    BY <1>4 DEF WayOf
  <2>2. PICK w : /\ WayOf(K, w, j) /\ From(w, j) = From(y, j)
                /\ \A k \in 1 .. j : w[k] = y[k]
    BY <1>4, <2>1, WayFront
  <2>3. w[j] = e /\ From(w, j) = e[3]
    BY <1>4, <2>1, <2>2 DEF From
  <2> PICK s : s = NamesIn(w)
    OBVIOUS
  <2>4. PICK t : t \in T /\ t[1] = s
    <3>1. <<NamesIn(w), f[From(w, j)].mode>> \in T
      BY <2>2, <1>a
    <3> QED BY <3>1
  <2>5. s \in Seq(Names) /\ Len(s) = j /\ \A k \in 1 .. j : s[k] = w[k][2]
    BY <2>2, NamesAre
  <2>6. s # <<>>
    BY <2>1, <2>5
  <2>7. ASSUME NEW x, NEW p, WayOf(K, x, p)
        PROVE  IsPrefix(s, NamesIn(x)) <=> \E k \in 1 .. p : x[k] = e
    <3> PICK r : r = NamesIn(x)
      OBVIOUS
    <3>1. r \in Seq(Names) /\ Len(r) = p /\ p \in Nat /\ \A k \in 1 .. p : r[k] = x[k][2]
      BY <2>7, NamesAre
    <3>2. IsPrefix(s, r) <=> j <= p /\ \A k \in 1 .. j : s[k] = r[k]
      BY ONLY <2>5, <3>1, PrefixIs
    <3>3. ASSUME IsPrefix(s, r) PROVE \E k \in 1 .. p : x[k] = e
      <4>1. j <= p /\ \A k \in 1 .. j : k \in 1 .. p /\ w[k][2] = x[k][2]
        BY <2>1, <2>5, <3>1, <3>2, <3>3
      <4>2. \A k \in 1 .. j : w[k] = x[k]
        BY <2>2, <2>7, <4>1, SameNames
      <4> QED BY <2>1, <2>3, <4>1, <4>2
    <3>4. ASSUME NEW k \in 1 .. p, x[k] = e PROVE IsPrefix(s, r)
      <4>1. k \in 0 .. p /\ k # 0 /\ k \in Nat /\ k <= p
        BY <3>1
      <4>2. PICK v : /\ WayOf(K, v, k) /\ From(v, k) = From(x, k)
                     /\ \A q \in 1 .. k : v[q] = x[q]
        BY <2>7, <4>1, WayFront
      <4>3. From(v, k) = From(w, j)
        BY <2>3, <3>4, <4>1, <4>2 DEF From
      <4>4. k = j /\ v = w
        BY <2>2, <4>2, <4>3, WayOnce
      <4>5. \A q \in 1 .. j : q \in 1 .. p /\ w[q] = x[q]
        BY ONLY <3>1, <4>1, <4>2, <4>4
      <4>6. \A q \in 1 .. j : s[q] = r[q]
        BY <2>5, <3>1, <4>5
      <4> QED BY <3>2, <4>1, <4>4, <4>6
    <3> QED BY <3>3, <3>4
  <2>8. ASSUME NEW u \in T PROVE u \in U <=> ~IsPrefix(t[1], u[1])
    <3>1. PICK x, p : WayOf(K, x, p) /\ u = <<NamesIn(x), f[From(x, p)].mode>>
      BY <1>a, <1>b
    <3>2. ASSUME u \in U PROVE ~IsPrefix(s, u[1])
      <4>1. PICK z, q : WayOf(M, z, q) /\ u = <<NamesIn(z), f[From(z, q)].mode>>
        BY <3>2, <1>a, <1>b
      <4>2. WayOf(K, z, q) /\ \A k \in 1 .. q : z[k] # e
        BY <1>1, <4>1
      <4>3. u[1] = NamesIn(z)
        BY <4>1
      <4> QED BY <2>7, <4>2, <4>3
    <3>3. ASSUME ~IsPrefix(s, u[1]) PROVE u \in U
      <4>1. u[1] = NamesIn(x)
        BY <3>1
      <4>2. \A k \in 1 .. p : x[k] # e
        BY <2>7, <3>1, <3>3, <4>1
      <4>3. WayOf(M, x, p)
        BY <1>2, <3>1, <4>2
      <4> QED BY <3>1, <4>3, <1>a, <1>b
    <3> QED BY <2>4, <3>2, <3>3
  <2>9. U = {u \in T : ~IsPrefix(t[1], u[1])}
    BY <1>3, <2>8
  <2> QED BY <2>4, <2>6, <2>9 DEF Shrinks
<1>5. ASSUME \A y, m : WayOf(K, y, m) => \A j \in 1 .. m : y[j] # e PROVE U = T
  <2>1. ASSUME NEW u \in T PROVE u \in U
    <3>1. PICK t, n : WayOf(K, t, n) /\ u = <<NamesIn(t), f[From(t, n)].mode>>
      BY <1>a, <1>b
    <3>2. WayOf(M, t, n)
      BY <1>2, <1>5, <3>1
    <3> QED BY <3>1, <3>2, <1>a, <1>b
  <2> QED BY <1>3, <2>1
<1> QED BY <1>4, <1>5 DEF T, U

\* Without links there is only the root.
LEMMA EmptyTree ==
  ASSUME NEW f, f[Root].mode = "dir"
  PROVE  TreeOf({}, f) = {<<<<>>, "dir">>}
<1> PICK o : o = <<>>
  OBVIOUS
<1>1. ASSUME NEW t, NEW n, WayOf({}, t, n) PROVE n = 0
  <2> SUFFICES ASSUME n # 0 PROVE FALSE
    OBVIOUS
  <2>1. 1 \in 1 .. n /\ t \in [1 .. n -> {}]
    BY <1>1 DEF WayOf
  <2>2. t[1] \in {}
    BY <2>1
  <2> QED BY <2>2
<1>2. WayOf({}, o, 0)
  BY DEF WayOf
<1>3. ASSUME NEW t, WayOf({}, t, 0) PROVE NamesIn(t) = o
  BY <1>3 DEF WayOf, NamesIn
<1>4. \A t : From(t, 0) = Root
  BY DEF From
<1>5. \A u \in TreeOf({}, f) : u = <<o, "dir">>
  <2> TAKE u \in TreeOf({}, f)
  <2>1. PICK t, n : WayOf({}, t, n) /\ u = <<NamesIn(t), f[From(t, n)].mode>>
    BY TreeIs
  <2> QED BY <1>1, <1>3, <1>4, <2>1
<1>6. <<o, "dir">> \in TreeOf({}, f)
  <2>1. <<NamesIn(o), f[From(o, 0)].mode>> \in TreeOf({}, f)
    BY <1>2, TreeIs
  <2> QED BY <1>2, <1>3, <1>4, <2>1
<1> QED BY <1>5, <1>6

(***************************************************************************)
(* The links of an inode table and a disk, and the paths that Ext2 finds.  *)
(***************************************************************************)
LabelsIn(n, k, i) == {o \in DOMAIN EntriesIn(n, k, i) : EntriesIn(n, k, i)[o].name \in Names}
LinkAt(n, k, i, o) == <<i, EntriesIn(n, k, i)[o].name, EntriesIn(n, k, i)[o].ino>>
LinksIn(n, k, R) == UNION {{LinkAt(n, k, i, o) : o \in LabelsIn(n, k, i)} : i \in R}

PathsIn(n, k) ==
  {<<NamesIn(t), n[Goal(t)].mode>> :
     t \in {u \in BoundedSeq(LinksIn(n, k, Inodes), NInodes - 2) : Follows(u)}}

\* No directory of R has a name twice.
Distinct(n, k, R) ==
  \A i \in R : \A o, q \in LabelsIn(n, k, i) :
    EntriesIn(n, k, i)[o].name = EntriesIn(n, k, i)[q].name => o = q

\* The paths of Ext2, and what they are after a step.
LEMMA PathsRead == paths = PathsIn(inode, disk) /\ paths' = PathsIn(inode', disk')
<1>1. Links = LinksIn(inode, disk, Inodes)
  BY Reads DEF Links, LinksIn, LabelsIn, LinkAt
<1>2. Links' = LinksIn(inode', disk', Inodes)
  BY ReadsNext DEF Links, LinksIn, LabelsIn, LinkAt
<1>3. Ways = {u \in BoundedSeq(Links, NInodes - 2) : Follows(u)}
  BY DEF Ways
<1>4. Ways' = {u \in BoundedSeq(Links', NInodes - 2) : Follows(u)}
  BY DEF Ways
<1>5. paths = PathsIn(inode, disk)
  BY <1>1, <1>3 DEF paths, PathsIn, NamesIn
<1>6. paths' = PathsIn(inode', disk')
  BY <1>2, <1>4 DEF paths, PathsIn, NamesIn
<1> QED BY <1>5, <1>6

\* A link is a name that a directory has for an inode.
LEMMA LinksAre ==
  ASSUME NEW n, NEW k, NEW R
  PROVE  /\ \A l \in LinksIn(n, k, R) :
              /\ l[1] \in R
              /\ \E o \in LabelsIn(n, k, l[1]) : l = LinkAt(n, k, l[1], o)
         /\ \A i \in R : \A o \in LabelsIn(n, k, i) : LinkAt(n, k, i, o) \in LinksIn(n, k, R)
         /\ \A i \in R : \A o \in LabelsIn(n, k, i) : o \in ProperIn(n, k, i)
<1>1. ASSUME NEW l \in LinksIn(n, k, R)
      PROVE  l[1] \in R /\ \E o \in LabelsIn(n, k, l[1]) : l = LinkAt(n, k, l[1], o)
  <2>1. PICK i \in R : \E o \in LabelsIn(n, k, i) : l = LinkAt(n, k, i, o)
    BY DEF LinksIn
  <2>2. l[1] = i
    BY <2>1 DEF LinkAt
  <2> QED BY <2>1, <2>2
<1>2. \A i \in R : \A o \in LabelsIn(n, k, i) : LinkAt(n, k, i, o) \in LinksIn(n, k, R)
  BY DEF LinksIn
<1>3. \A i \in R : \A o \in LabelsIn(n, k, i) : o \in ProperIn(n, k, i)
  BY DirAssumption DEF LabelsIn, ProperIn
<1> QED BY <1>1, <1>2, <1>3

\* The directories of R and what they name are a forest.
LEMMA ForestIs ==
  ASSUME NEW n, NEW k, NEW R, R \subseteq Inodes, Structure(n, k, R), Closed(n, k, R),
         Distinct(n, k, R)
  PROVE  Forest(LinksIn(n, k, R))
<1> PICK K : K = LinksIn(n, k, R)
  OBVIOUS
<1>1. Sound(n, k, R) /\ OneName(n, k, R)
  BY DEF Structure
<1>2. ASSUME NEW e \in K
      PROVE  /\ e[1] \in R
             /\ \E o \in LabelsIn(n, k, e[1]) : e = LinkAt(n, k, e[1], o)
  BY LinksAre
<1>3. ASSUME NEW e \in K PROVE e[2] \in Names /\ e[3] \in 3 .. NInodes
  <2> PICK i : i = e[1]
    OBVIOUS
  <2>1. PICK o \in LabelsIn(n, k, i) : i \in R /\ e = LinkAt(n, k, i, o)
    BY <1>2
  <2>2. o \in ProperIn(n, k, i)
    BY <2>1, LinksAre
  <2>3. e[2] = EntriesIn(n, k, i)[o].name /\ e[3] = EntriesIn(n, k, i)[o].ino
    BY <2>1 DEF LinkAt
  <2>4. e[2] \in Names
    BY <2>1, <2>3 DEF LabelsIn
  <2>5. e[3] \in KidsIn(n, k, i)
    BY <2>2, <2>3 DEF KidsIn
  <2>6. e[3] \in R /\ e[3] # Root
    BY <1>1, <2>1, <2>2, <2>3, <2>5 DEF Closed, OneName
  <2>7. e[3] # 1 /\ e[3] \in Inodes
    BY <1>1, <2>6 DEF Sound
  <2>8. e[3] \in 1 .. NInodes /\ e[3] # 2 /\ NInodes \in Nat
    BY <2>6, <2>7, Ext2Assumption DEF Inodes, Root
  <2> QED BY <2>4, <2>7, <2>8
<1>4. ASSUME NEW e \in K, NEW f \in K, e[3] = f[3] PROVE e = f
  <2> PICK i : i = e[1]
    OBVIOUS
  <2> PICK j : j = f[1]
    OBVIOUS
  <2>1. PICK o \in LabelsIn(n, k, i) : i \in R /\ e = LinkAt(n, k, i, o)
    BY <1>2
  <2>2. PICK q \in LabelsIn(n, k, j) : j \in R /\ f = LinkAt(n, k, j, q)
    BY <1>2
  <2>3. o \in ProperIn(n, k, i) /\ q \in ProperIn(n, k, j)
    BY <2>1, <2>2, LinksAre
  <2>4. EntriesIn(n, k, i)[o].ino = EntriesIn(n, k, j)[q].ino
    BY <1>4, <2>1, <2>2 DEF LinkAt
  <2>5. i = j /\ o = q
    BY <1>1, <2>1, <2>2, <2>3, <2>4, OneNameIs
  <2> QED BY <2>1, <2>2, <2>5
<1>5. ASSUME NEW e \in K, NEW f \in K, e[1] = f[1], e[2] = f[2] PROVE e = f
  <2> PICK i : i = e[1]
    OBVIOUS
  <2>1. PICK o \in LabelsIn(n, k, i) : i \in R /\ e = LinkAt(n, k, i, o)
    BY <1>2
  <2>2. PICK q \in LabelsIn(n, k, i) : f = LinkAt(n, k, i, q)
    BY <1>2, <1>5
  <2>3. EntriesIn(n, k, i)[o].name = EntriesIn(n, k, i)[q].name
    BY <1>5, <2>1, <2>2 DEF LinkAt
  <2>4. o = q
    BY <2>1, <2>3 DEF Distinct
  <2> QED BY <2>1, <2>2, <2>4
<1>6. Forest(K)
  BY <1>3, <1>4, <1>5 DEF Forest
<1> QED BY <1>6

\* The ways that Ext2 lists are all the ways through what is reached.
LEMMA PathsAre ==
  ASSUME NEW n, NEW k, NEW R, Root \in R, R \subseteq Inodes, Closed(n, k, R),
         NEW K, K = LinksIn(n, k, R), Forest(K)
  PROVE  PathsIn(n, k) = TreeOf(K, n)
<1> PICK L : L = LinksIn(n, k, Inodes)
  OBVIOUS
<1> PICK z : z = NInodes - 2
  OBVIOUS
<1>0. z \in Nat
  BY Ext2Assumption
<1>1. PathsIn(n, k) = {<<NamesIn(t), n[Goal(t)].mode>> :
                         t \in {u \in BoundedSeq(L, z) : Follows(u)}}
  BY DEF PathsIn
<1>2. K \subseteq L
  BY DEF LinksIn
<1>3. ASSUME NEW t, NEW m \in Nat, t \in [1 .. m -> L]
      PROVE  (Follows(t) <=> WayOf(L, t, m)) /\ Goal(t) = From(t, m)
  <2>1. DOMAIN t = 1 .. m
    BY <1>3
  <2>2. \A q \in 1 .. m : (IF q = 1 THEN Root ELSE t[q - 1][3]) = From(t, q - 1)
    <3> TAKE q \in 1 .. m
    <3>1. q = 1 <=> q - 1 = 0
      OBVIOUS
    <3> QED BY <3>1 DEF From
  <2>3. Follows(t) <=> \A q \in 1 .. m : t[q][1] = From(t, q - 1)
    BY <2>1, <2>2 DEF Follows
  <2>4. t \in Seq(L)
    BY <1>3, SeqDef
  <2>5. Len(t) = m
    <3>1. Len(t) \in Nat /\ DOMAIN t = 1 .. Len(t)
      BY <2>4, LenProperties
    <3> QED BY <2>1, <3>1
  <2>6. t = <<>> <=> m = 0
    BY <2>4, <2>5, EmptySeq
  <2>7. Goal(t) = From(t, m)
    BY <2>5, <2>6 DEF Goal, From, Last
  <2> QED BY <1>3, <2>3, <2>7 DEF WayOf
<1>4. ASSUME NEW t, NEW m, WayOf(L, t, m) PROVE WayOf(K, t, m)
  <2> DEFINE T == {q \in 0 .. m : From(t, q) \notin R}
  <2>0. m \in Nat
    BY <1>4 DEF WayOf
  <2>1. ASSUME NEW q \in 1 .. m, From(t, q - 1) \in R PROVE t[q] \in K /\ From(t, q) \in R
    <3> PICK e : e = t[q]
      OBVIOUS
    <3> PICK i : i = e[1]
      OBVIOUS
    <3>1. e \in L /\ i \in R
      BY <1>4, <2>1 DEF WayOf
    <3>2. PICK o \in LabelsIn(n, k, i) : e = LinkAt(n, k, i, o)
      BY <3>1, LinksAre
    <3>3. LinkAt(n, k, i, o) \in K /\ o \in ProperIn(n, k, i)
      BY <3>1, LinksAre
    <3>4. e[3] = EntriesIn(n, k, i)[o].ino
      BY <3>2 DEF LinkAt
    <3>5. e[3] \in R
      BY <3>1, <3>3, <3>4 DEF Closed, KidsIn
    <3>6. From(t, q) = e[3]
      BY <2>0 DEF From
    <3> QED BY <3>2, <3>3, <3>5, <3>6
  <2>2. T = {}
    <3> SUFFICES ASSUME T # {} PROVE FALSE
      OBVIOUS
    <3>1. PICK q \in T : \A y \in T : q <= y
      BY <2>0, MinExists, T \subseteq 0 .. m, m \in Int
    <3>2. q \in 0 .. m /\ From(t, q) \notin R
      OBVIOUS
    <3>3. q # 0
      BY <3>2 DEF From
    <3>4. q \in 1 .. m /\ q - 1 \in 0 .. m /\ q - 1 \notin T
      BY <2>0, <3>1, <3>2, <3>3
    <3>5. From(t, q - 1) \in R
      BY <3>4
    <3> QED BY <2>1, <3>2, <3>4, <3>5
  <2>3. \A q \in 1 .. m : t[q] \in K
    <3> TAKE q \in 1 .. m
    <3>1. q - 1 \in 0 .. m
      BY <2>0
    <3>2. From(t, q - 1) \in R
      BY <2>2, <3>1
    <3> QED BY <2>1, <3>2
  <2> QED BY <1>4, <2>3, WayWithin
<1>5. ASSUME NEW u \in PathsIn(n, k) PROVE u \in TreeOf(K, n)
  <2>1. PICK t : t \in BoundedSeq(L, z) /\ Follows(t) /\ u = <<NamesIn(t), n[Goal(t)].mode>>
    BY <1>1, <1>5
  <2>2. PICK m \in 0 .. z : t \in [1 .. m -> L]
    BY <2>1 DEF BoundedSeq, SeqOf
  <2>3. m \in Nat
    BY <1>0
  <2>4. WayOf(L, t, m) /\ Goal(t) = From(t, m)
    BY <1>3, <2>1, <2>2, <2>3
  <2>5. WayOf(K, t, m)
    BY <1>4, <2>4
  <2> QED BY <2>1, <2>4, <2>5, TreeIs
<1>6. ASSUME NEW u \in TreeOf(K, n) PROVE u \in PathsIn(n, k)
  <2>1. PICK t, m : WayOf(K, t, m) /\ u = <<NamesIn(t), n[From(t, m)].mode>>
    BY TreeIs
  <2>2. m <= z /\ m \in Nat
    BY <2>1, WayIsShort DEF WayOf
  <2>3. WayOf(L, t, m) /\ t \in [1 .. m -> L] /\ m \in 0 .. z
    BY <1>0, <1>2, <2>1, <2>2 DEF WayOf
  <2>4. t \in BoundedSeq(L, z)
    BY <2>3 DEF BoundedSeq, SeqOf
  <2>5. Follows(t) /\ Goal(t) = From(t, m)
    BY <1>3, <2>2, <2>3
  <2> QED BY <1>1, <2>1, <2>4, <2>5
<1> QED BY <1>5, <1>6

(***************************************************************************)
(* Between the writes of directories that are reached the paths stay.      *)
(***************************************************************************)
OnceNamed == Distinct(inode, disk, Reach)

\* The paths of a state are the tree of what is reached.
LEMMA TreeNow ==
  ASSUME IInv, OnceNamed, NEW K, K = LinksIn(inode, disk, Reach)
  PROVE  Forest(K) /\ paths = TreeOf(K, inode)
<1>1. /\ Structure(inode, disk, Reach) /\ Reach \subseteq Inodes /\ Root \in Reach
      /\ Closed(inode, disk, Reach)
  BY NowIs, ReachIsClosed
<1>2. Forest(K)
  BY <1>1, ForestIs DEF OnceNamed
<1>3. PathsIn(inode, disk) = TreeOf(K, inode)
  BY <1>1, <1>2, PathsAre
<1> QED BY <1>2, <1>3, PathsRead

\* A block that no path leads to is written: the paths are the same.
LEMMA QuietIs ==
  ASSUME IInv, IInv', OnceNamed, \A i \in Reach : inode'[i] = inode[i], NEW c,
         \A b \in {0} \cup Blocks : b = c \/ disk'[b] = disk[b],
         \A i \in Reach : c \notin TreeIn(inode, disk, i)
  PROVE  OnceNamed' /\ paths' = paths
<1> PICK K : K = LinksIn(inode, disk, Reach)
  OBVIOUS
<1>1. /\ Volume(inode, disk) /\ Structure(inode, disk, Reach) /\ Reach \subseteq Inodes
      /\ Root \in Reach /\ Closed(inode, disk, Reach)
      /\ \A i \in Reach : inode[i].mode = "dir" => inode[i].ptr[1] # 0
  BY NowIs, ReachIsClosed DEF DirBlock
<1>2. Reach' = Reach
  BY BesideIs
<1>3. ASSUME NEW i \in Reach
      PROVE  /\ EntriesIn(inode', disk', i) = EntriesIn(inode, disk, i)
             /\ KidsIn(inode', disk', i) = KidsIn(inode, disk, i)
  <2>1. \A b \in TreeIn(inode, disk, i) : b \in Blocks
    BY <1>1, TreeIsBlocks
  <2>2. \A b \in TreeIn(inode, disk, i) : disk'[b] = disk[b]
    BY <2>1
  <2>3. inode'[i] = inode[i] /\ (inode[i].mode = "dir" => inode[i].ptr[1] # 0)
    BY <1>1
  <2> QED BY <2>2, <2>3, EntriesSame
<1>4. Distinct(inode', disk', Reach)
  BY <1>3 DEF OnceNamed, Distinct, LabelsIn
<1>5. K = LinksIn(inode', disk', Reach)
  BY <1>3 DEF LinksIn, LabelsIn, LinkAt
<1>6. Forest(K) /\ paths = TreeOf(K, inode)
  BY TreeNow
<1>7. Closed(inode', disk', Reach)
  BY <1>1, <1>3 DEF Closed
<1>8. PathsIn(inode', disk') = TreeOf(K, inode')
  BY <1>1, <1>5, <1>6, <1>7, PathsAre
<1>9. TreeOf(K, inode) = TreeOf(K, inode')
  <2>1. ASSUME NEW e \in K PROVE e[3] \in Reach
    <3> PICK i : i = e[1]
      OBVIOUS
    <3>1. PICK o \in LabelsIn(inode, disk, i) : i \in Reach /\ e = LinkAt(inode, disk, i, o)
      BY LinksAre
    <3>2. o \in ProperIn(inode, disk, i) /\ e[3] = EntriesIn(inode, disk, i)[o].ino
      BY <3>1, LinksAre DEF LinkAt
    <3>3. e[3] \in KidsIn(inode, disk, i)
      BY <3>2 DEF KidsIn
    <3> QED BY <1>1, <3>1, <3>3 DEF Closed
  <2>2. \A e \in K : inode[e[3]].mode = inode'[e[3]].mode
    BY <2>1
  <2>3. inode[Root].mode = inode'[Root].mode
    BY <1>1
  <2> QED BY <2>2, <2>3, TreeSameModes
<1>10. OnceNamed'
  BY <1>2, <1>4 DEF OnceNamed
<1> QED BY <1>6, <1>8, <1>9, <1>10, PathsRead

\* Steps that write neither an inode nor a block.
LEMMA StillQuiet ==
  ASSUME IInv, IInv', OnceNamed, UNCHANGED <<inode, disk>>
  PROVE  OnceNamed' /\ paths' = paths
<1>1. /\ \A i \in Reach : inode'[i] = inode[i]
      /\ \A b \in {0} \cup Blocks : b = 0 \/ disk'[b] = disk[b]
  OBVIOUS
<1>2. \A i \in Reach : 0 \notin TreeIn(inode, disk, i)
  BY ZeroIsApart
<1> QED BY <1>1, <1>2, QuietIs

\* A block is allocated, and data written in it.
LEMMA TakeBlockQuiet ==
  ASSUME IInv, IInv', OnceNamed, TakeBlock
  PROVE  OnceNamed' /\ paths' = paths
<1> PICK b : b = FirstClear(Blocks, bbits)
  OBVIOUS
<1>1. PICK p : /\ inode' = inode
               /\ disk' = IF kind = "file" /\ ~IsList(p) /\ (b # 0 \/ ~IsDirect(p))
                          THEN [disk EXCEPT ![b] = Data(Position(p))] ELSE disk
  BY DEF TakeBlock
<1>2. b = 0 \/ b \notin bbits
  <2>1. Blocks = 1 .. NGroups * GroupBlocks /\ NGroups * GroupBlocks \in Int
    BY Ext2Assumption DEF Blocks
  <2> QED BY <2>1, FirstClearIs
<1>3. \A c \in {0} \cup Blocks : c = b \/ disk'[c] = disk[c]
  BY <1>1, NowIs DEF Volume
<1>4. \A i \in Reach : b \notin TreeIn(inode, disk, i)
  BY <1>2, ZeroIsApart
<1>5. \A i \in Reach : inode'[i] = inode[i]
  BY <1>1
<1> QED BY <1>3, <1>4, <1>5, QuietIs

\* A list is stored in its block.
LEMMA StoreListQuiet ==
  ASSUME IInv, IInv', OnceNamed, StoreList
  PROVE  OnceNamed' /\ paths' = paths
<1>1. PICK l \in Places :
        disk' = [disk EXCEPT ![got[l]] = List([j \in 1 .. NList |-> got[Child(l, j)]])]
  BY DEF StoreList
<1>2. pc = "blocks" /\ inode' = inode
  BY DEF StoreList
<1>3. Fresh
  BY <1>2 DEF IInv, Taking
<1> PICK c : c = got[l]
  OBVIOUS
<1>4. \A e \in {0} \cup Blocks : e = c \/ disk'[e] = disk[e]
  BY <1>1, NowIs DEF Volume
<1>5. \A i \in Reach : c \notin TreeIn(inode, disk, i)
  <2>1. c = 0 \/ \A i \in Reach : c \notin Tree(i)
    BY <1>3 DEF Fresh
  <2> QED BY <2>1, ZeroIsApart, Reads
<1>6. \A i \in Reach : inode'[i] = inode[i]
  BY <1>2
<1> QED BY <1>4, <1>5, <1>6, QuietIs

\* The inode is written, and for a directory its block.
LEMMA WriteInodeQuiet ==
  ASSUME IInv, IInv', OnceNamed, WriteInode
  PROVE  OnceNamed' /\ paths' = paths
<1> PICK g : g = got[<<1, 0, 0>>]
  OBVIOUS
<1>1. /\ pc = "inode"
      /\ inode' = [inode EXCEPT ![ino] =
                     Inode(kind, size, [s \in Slots |-> got[<<s, 0, 0>>]])]
      /\ disk' = IF kind = "dir" THEN [disk EXCEPT ![g] = Dir(NewDir(ino, dir))] ELSE disk
  BY DEF WriteInode
<1>2. Fresh /\ ino \notin Reach
  BY <1>1 DEF IInv, Taking, HasInode
<1>3. \A i \in Reach : inode'[i] = inode[i]
  BY <1>1, <1>2, NowIs DEF Volume
<1>4. \A b \in {0} \cup Blocks : b = g \/ disk'[b] = disk[b]
  BY <1>1, NowIs DEF Volume
<1>5. \A i \in Reach : g \notin TreeIn(inode, disk, i)
  <2>1. g = 0 \/ \A i \in Reach : g \notin Tree(i)
    BY <1>2, PlacesAre, Numbers DEF Fresh
  <2> QED BY <2>1, ZeroIsApart, Reads
<1> QED BY <1>3, <1>4, <1>5, QuietIs

(***************************************************************************)
(* A name that is written is one path more.                                *)
(***************************************************************************)
\* The links after an entry is added: those before it, and the new one if it has its name.
LEMMA LinkedLinks ==
  ASSUME NEW n, NEW k, NEW R, NEW i, NEW d, NEW f, NEW e, NEW l,
         Linking(n, k, R, i, d, f, e, l), NEW L, L = R \cup {i},
         Distinct(n, k, R), NEW x \in Names, Named(f, x) = {},
         \A y \in DOMAIN e \ DOMAIN f : e[y].name \in {x, "torn"},
         NEW K, K = LinksIn(n, k, R), NEW M, M = LinksIn(n, l, L)
  PROVE  /\ Closed(n, l, L) /\ Distinct(n, l, L)
         /\ M = K \/ Joining(K, <<d, x, i>>, M)
<1>1. /\ Volume(n, k) /\ Root \in R /\ R \subseteq Inodes /\ i \in Inodes /\ i \notin R
      /\ Structure(n, k, L) /\ d \in R /\ n[d].mode = "dir" /\ Kept(e) /\ Closed(n, k, R)
      /\ Written(k, l, n[d].ptr[1], Dir(e)) /\ f = EntriesIn(n, k, d) /\ ProperIn(n, k, i) = {}
      /\ \A q \in DOMAIN f : q \in DOMAIN e /\ e[q].ino = f[q].ino /\ e[q].name = f[q].name
      /\ \A y, q \in DOMAIN e \ DOMAIN f : y = q
      /\ \A y \in DOMAIN e \ DOMAIN f : e[y].ino = i
  BY DEF Linking
<1>2. L \subseteq Inodes /\ d \in L /\ d # i /\ R \subseteq L /\ i \in L
  BY <1>1
<1>3. /\ \A j \in L \ {d} : /\ EntriesIn(n, l, j) = EntriesIn(n, k, j)
                           /\ KidsIn(n, l, j) = KidsIn(n, k, j)
      /\ EntriesIn(n, l, d) = e
  BY <1>1, <1>2, DirectoryWritten
<1>4. "torn" \notin Names /\ {".", ".."} \cap Names = {}
  BY DirAssumption
\* The labels of d are those it had, and the new one unless its name was torn.
<1>5. LabelsIn(n, k, d) = {o \in DOMAIN f : f[o].name \in Names}
  BY <1>1 DEF LabelsIn
<1>6. LabelsIn(n, l, d) = {o \in DOMAIN e : e[o].name \in Names}
  BY <1>3 DEF LabelsIn
<1>7. \A o \in LabelsIn(n, k, d) : /\ o \in LabelsIn(n, l, d) /\ f[o].name # x
                                   /\ LinkAt(n, l, d, o) = LinkAt(n, k, d, o)
  BY <1>1, <1>3, <1>5, <1>6 DEF LinkAt, Named
<1>8. \A o \in LabelsIn(n, l, d) \ LabelsIn(n, k, d) :
        o \in DOMAIN e \ DOMAIN f /\ e[o].name = x /\ LinkAt(n, l, d, o) = <<d, x, i>>
  BY <1>1, <1>3, <1>4, <1>5, <1>6 DEF LinkAt
<1>9. LabelsIn(n, l, i) = {}
  <2>1. EntriesIn(n, l, i) = EntriesIn(n, k, i)
    BY <1>2, <1>3
  <2>2. \A o \in LabelsIn(n, k, i) : o \in ProperIn(n, k, i)
    BY <1>4 DEF LabelsIn, ProperIn
  <2> QED BY <1>1, <2>1, <2>2 DEF LabelsIn
<1>10. \A j \in R \ {d} : /\ LabelsIn(n, l, j) = LabelsIn(n, k, j)
                         /\ EntriesIn(n, l, j) = EntriesIn(n, k, j)
                         /\ \A o : LinkAt(n, l, j, o) = LinkAt(n, k, j, o)
  BY <1>2, <1>3 DEF LabelsIn, LinkAt
<1>11. Closed(n, l, L)
  <2>1. ASSUME NEW j \in L, NEW y \in KidsIn(n, l, j) PROVE y \in L
    <3>1. CASE j = i
      <4>1. KidsIn(n, k, i) = {}
        BY <1>1 DEF KidsIn
      <4> QED BY <1>2, <1>3, <2>1, <3>1, <4>1
    <3>2. CASE j # i /\ j # d
      <4>1. j \in R /\ y \in KidsIn(n, k, j)
        BY <1>3, <2>1, <3>2
      <4> QED BY <1>1, <1>2, <4>1 DEF Closed
    <3>3. CASE j = d
      <4>1. PICK q \in DOMAIN e : e[q].name \notin {".", ".."} /\ y = e[q].ino
        BY <1>3, <2>1, <3>3 DEF KidsIn, ProperIn
      <4>2. CASE q \in DOMAIN f
        <5>1. y \in KidsIn(n, k, d)
          BY <1>1, <4>1, <4>2 DEF KidsIn, ProperIn
        <5> QED BY <1>1, <1>2, <5>1 DEF Closed
      <4>3. CASE q \notin DOMAIN f
        BY <1>1, <1>2, <4>1, <4>3
      <4> QED BY <4>2, <4>3
    <3> QED BY <3>1, <3>2, <3>3
  <2> QED BY <2>1 DEF Closed
<1>12. Distinct(n, l, L)
  <2>1. ASSUME NEW j \in L, NEW o \in LabelsIn(n, l, j), NEW q \in LabelsIn(n, l, j),
               EntriesIn(n, l, j)[o].name = EntriesIn(n, l, j)[q].name
        PROVE  o = q
    <3>1. CASE j = i
      BY <1>9, <2>1, <3>1
    <3>2. CASE j # i /\ j # d
      <4>1. j \in R
        BY <3>2
      <4> QED BY <1>10, <2>1, <3>2, <4>1 DEF Distinct
    <3>3. CASE j = d
      <4>1. e[o].name = e[q].name
        BY <1>3, <2>1, <3>3
      <4>2. CASE o \in LabelsIn(n, k, d) /\ q \in LabelsIn(n, k, d)
        <5>1. f[o].name = f[q].name
          BY <1>1, <1>5, <4>1, <4>2
        <5> QED BY <1>1, <4>2, <5>1 DEF Distinct
      <4>3. CASE o \notin LabelsIn(n, k, d) /\ q \notin LabelsIn(n, k, d)
        BY <1>1, <1>8, <2>1, <3>3, <4>3
      <4>4. CASE o \in LabelsIn(n, k, d) /\ q \notin LabelsIn(n, k, d)
        BY <1>1, <1>5, <1>7, <1>8, <2>1, <3>3, <4>1, <4>4
      <4>5. CASE o \notin LabelsIn(n, k, d) /\ q \in LabelsIn(n, k, d)
        BY <1>1, <1>5, <1>7, <1>8, <2>1, <3>3, <4>1, <4>5
      <4> QED BY <4>2, <4>3, <4>4, <4>5
    <3> QED BY <3>1, <3>2, <3>3
  <2> QED BY <2>1 DEF Distinct
<1> PICK v : v = <<d, x, i>>
  OBVIOUS
<1>13. K \subseteq M
  <2> SUFFICES ASSUME NEW y \in K PROVE y \in M
    OBVIOUS
  <2> PICK j : j = y[1]
    OBVIOUS
  <2>1. PICK o \in LabelsIn(n, k, j) : j \in R /\ y = LinkAt(n, k, j, o)
    BY LinksAre
  <2>2. j \in L /\ o \in LabelsIn(n, l, j) /\ y = LinkAt(n, l, j, o)
    BY <1>2, <1>7, <1>10, <2>1
  <2> QED BY <2>2, LinksAre
<1>14. ASSUME NEW y \in M PROVE y \in K \/ y = v
  <2> PICK j : j = y[1]
    OBVIOUS
  <2>1. PICK o \in LabelsIn(n, l, j) : j \in L /\ y = LinkAt(n, l, j, o)
    BY LinksAre
  <2>2. j # i /\ j \in R
    BY <1>9, <2>1
  <2>3. CASE o \in LabelsIn(n, k, j)
    <3>1. y = LinkAt(n, k, j, o)
      BY <1>7, <1>10, <2>1, <2>2, <2>3
    <3> QED BY <2>2, <2>3, <3>1, LinksAre
  <2>4. CASE o \notin LabelsIn(n, k, j)
    BY <1>8, <1>10, <2>1, <2>2, <2>4
  <2> QED BY <2>3, <2>4
<1>15. v \notin K /\ v[1] = d /\ v[2] = x /\ v[3] = i
  <2> SUFFICES ASSUME v \in K PROVE FALSE
    OBVIOUS
  <2>1. PICK o \in LabelsIn(n, k, d) : v = LinkAt(n, k, d, o)
    BY LinksAre
  <2>2. f[o].name = x
    BY <1>1, <2>1 DEF LinkAt
  <2> QED BY <1>7, <2>2
<1>16. \A y \in K : y[1] # i
  BY <1>1, LinksAre
<1>17. M = K \/ Joining(K, v, M)
  <2>1. CASE v \in M
    <3>1. \A y : y \in M <=> y \in K \/ y = v
      BY <1>13, <1>14, <2>1
    <3> QED BY <1>2, <1>15, <1>16, <3>1 DEF Joining
  <2>2. CASE v \notin M
    BY <1>13, <1>14, <2>2
  <2> QED BY <2>1, <2>2
<1> QED BY <1>11, <1>12, <1>17

\* Link makes one path more, or none: of a name that is torn, or in a directory without one.
LEMMA LinkGrows ==
  ASSUME IInv, ShortNames, OnceNamed, Link
  PROVE  OnceNamed' /\ (paths' = paths \/ Grows(paths, paths'))
<1> PICK f : f = Entries(dir)
  OBVIOUS
<1> PICK e : e = FirstSector(Inserted(f, name, ino))
  OBVIOUS
<1> PICK L : L = Reach \cup {ino}
  OBVIOUS
<1> PICK K : K = LinksIn(inode, disk, Reach)
  OBVIOUS
<1> PICK M : M = LinksIn(inode, disk', L)
  OBVIOUS
<1>1. pc = "link" /\ inode' = inode
  BY DEF Link
<1>2. Linking(inode, disk, Reach, ino, dir, f, e, disk')
  BY LinkingIs
<1>3. Named(f, name) = {} /\ name \in Names /\ Hosts(f) # {} /\ ino \in Inodes
  BY <1>1, <1>2 DEF IInv, Creating, Linking
<1>4. \A y \in DOMAIN e \ DOMAIN f : e[y].name \in {name, "torn"}
  <2>1. Kept(f)
    <3>1. /\ Volume(inode, disk) /\ Reach \subseteq Inodes /\ Sound(inode, disk, Reach)
          /\ dir \in Reach /\ inode[dir].mode = "dir" /\ f = EntriesIn(inode, disk, dir)
      BY <1>2, NowIs DEF Linking, Structure
    <3> QED BY <3>1, DirectoryIs
  <2> QED BY <1>3, <2>1, InsertIsKept
<1>5. /\ Closed(inode, disk', L) /\ Distinct(inode, disk', L)
      /\ M = K \/ Joining(K, <<dir, name, ino>>, M)
  BY <1>2, <1>3, <1>4, LinkedLinks DEF OnceNamed
<1>6. Structure(inode, disk', L) /\ ReachIn(inode, disk', {Root}) \subseteq L
  BY <1>2, Linked
<1>7. L \subseteq Inodes /\ Root \in L /\ dir \in L /\ ino \in L /\ inode[dir].mode = "dir"
  BY <1>2, <1>3 DEF Linking
<1>8. Forest(M)
  BY <1>5, <1>6, <1>7, ForestIs
<1>9. Forest(K) /\ paths = TreeOf(K, inode)
  BY TreeNow
<1>10. PathsIn(inode, disk') = TreeOf(M, inode)
  BY <1>5, <1>7, <1>8, PathsAre
<1>11. paths' = TreeOf(M, inode)
  BY <1>1, <1>10, PathsRead
<1>12. paths' = paths \/ Grows(paths, paths')
  <2>1. CASE M = K
    BY <1>9, <1>11, <2>1
  <2>2. CASE Joining(K, <<dir, name, ino>>, M)
    <3> PICK v : v = <<dir, name, ino>>
      OBVIOUS
    <3>1. Joining(K, v, M)
      BY <2>2
    <3>2. inode[ino].mode \in {"file", "dir"}
      BY <1>6, <1>7 DEF Structure, Sound
    <3>3. inode[v[1]].mode = "dir" /\ inode[v[3]].mode \in {"file", "dir"}
      BY <1>7, <3>2
    <3>4. TreeOf(M, inode) = TreeOf(K, inode) \/ Grows(TreeOf(K, inode), TreeOf(M, inode))
      BY <1>8, <1>9, <3>1, <3>3, TreeGrows
    <3> QED BY <1>9, <1>11, <3>4
  <2> QED BY <1>5, <2>1, <2>2
<1>13. OnceNamed'
  <2>1. Reach' \subseteq L
    BY <1>1, <1>6, ReadsNext
  <2>2. Distinct(inode', disk', Reach')
    BY <1>1, <1>5, <2>1 DEF Distinct
  <2> QED BY <2>2 DEF OnceNamed
<1> QED BY <1>12, <1>13

(***************************************************************************)
(* A name that is taken out takes all the paths through it along.          *)
(***************************************************************************)
\* The links after an entry is removed: those before it but one.
LEMMA UnlinkedLinks ==
  ASSUME NEW n, NEW k, NEW R, NEW d, NEW o, NEW e, NEW l, Unlinking(n, k, R, d, o, e, l),
         Distinct(n, k, R), o \in LabelsIn(n, k, d),
         NEW K, K = LinksIn(n, k, R), NEW M, M = LinksIn(n, l, R)
  PROVE  /\ Closed(n, l, R) /\ Distinct(n, l, R)
         /\ LinkAt(n, k, d, o) \in K
         /\ \A x : x \in M <=> x \in K /\ x # LinkAt(n, k, d, o)
<1> PICK f : f = EntriesIn(n, k, d)
  OBVIOUS
<1>1. /\ Volume(n, k) /\ R \subseteq Inodes /\ Root \in R /\ Closed(n, k, R)
      /\ Structure(n, k, R) /\ d \in R /\ n[d].mode = "dir" /\ o \in ProperIn(n, k, d)
      /\ Kept(e) /\ DOMAIN e = DOMAIN f \ {o}
      /\ \A y \in DOMAIN e : e[y].ino = f[y].ino /\ e[y].name = f[y].name
      /\ Written(k, l, n[d].ptr[1], Dir(e))
  BY DEF Unlinking
<1>2. /\ \A j \in R \ {d} : /\ EntriesIn(n, l, j) = EntriesIn(n, k, j)
                           /\ KidsIn(n, l, j) = KidsIn(n, k, j)
      /\ EntriesIn(n, l, d) = e
  BY <1>1, DirectoryWritten
<1>3. LabelsIn(n, l, d) = LabelsIn(n, k, d) \ {o}
  BY <1>1, <1>2 DEF LabelsIn
<1>4. \A q \in LabelsIn(n, l, d) : LinkAt(n, l, d, q) = LinkAt(n, k, d, q)
  BY <1>1, <1>2 DEF LabelsIn, LinkAt
<1>5. \A j \in R \ {d} : /\ LabelsIn(n, l, j) = LabelsIn(n, k, j)
                        /\ \A q : LinkAt(n, l, j, q) = LinkAt(n, k, j, q)
  BY <1>2 DEF LabelsIn, LinkAt
<1>6. KidsIn(n, l, d) \subseteq KidsIn(n, k, d)
  BY <1>1, <1>2 DEF KidsIn, ProperIn
<1>7. Closed(n, l, R)
  BY <1>1, <1>2, <1>6 DEF Closed
<1>8. Distinct(n, l, R)
  <2>1. ASSUME NEW j \in R, NEW p \in LabelsIn(n, l, j), NEW q \in LabelsIn(n, l, j),
               EntriesIn(n, l, j)[p].name = EntriesIn(n, l, j)[q].name
        PROVE  p = q
    <3>1. p \in LabelsIn(n, k, j) /\ q \in LabelsIn(n, k, j)
      BY <1>3, <1>5, <2>1
    <3>2. EntriesIn(n, k, j)[p].name = EntriesIn(n, k, j)[q].name
      <4>1. CASE j = d
        BY <1>1, <1>2, <2>1, <4>1 DEF LabelsIn
      <4>2. CASE j # d
        BY <1>2, <2>1, <4>2
      <4> QED BY <4>1, <4>2
    <3> QED BY <3>1, <3>2 DEF Distinct
  <2> QED BY <2>1 DEF Distinct
<1> PICK v : v = LinkAt(n, k, d, o)
  OBVIOUS
<1>9. v \in K
  BY <1>1, LinksAre
<1>10. ASSUME NEW x \in M PROVE x \in K /\ x # v
  <2> PICK j : j = x[1]
    OBVIOUS
  <2>1. PICK q \in LabelsIn(n, l, j) : j \in R /\ x = LinkAt(n, l, j, q)
    BY LinksAre
  <2>2. q \in LabelsIn(n, k, j) /\ x = LinkAt(n, k, j, q)
    BY <1>3, <1>4, <1>5, <2>1
  <2>3. x \in K
    BY <2>1, <2>2, LinksAre
  <2>4. ASSUME x = v PROVE FALSE
    <3>1. j = d /\ x[2] = EntriesIn(n, k, d)[q].name /\ v[2] = EntriesIn(n, k, d)[o].name
      BY <2>2, <2>4 DEF LinkAt
    <3>2. q = o
      BY <1>1, <2>2, <2>4, <3>1 DEF Distinct
    <3> QED BY <1>3, <2>1, <3>1, <3>2
  <2> QED BY <2>3, <2>4
<1>11. ASSUME NEW x \in K, x # v PROVE x \in M
  <2> PICK j : j = x[1]
    OBVIOUS
  <2>1. PICK q \in LabelsIn(n, k, j) : j \in R /\ x = LinkAt(n, k, j, q)
    BY LinksAre
  <2>2. j # d \/ q # o
    BY <1>11, <2>1
  <2>3. q \in LabelsIn(n, l, j)
    BY <1>3, <1>5, <2>1, <2>2
  <2>4. x = LinkAt(n, l, j, q)
    BY <1>4, <1>5, <2>1, <2>3
  <2> QED BY <2>1, <2>3, <2>4, LinksAre
<1> QED BY <1>7, <1>8, <1>9, <1>10, <1>11

\* Unlink takes the paths through the entry along.
LEMMA UnlinkShrinks ==
  ASSUME IInv, OnceNamed, pc = "idle", NEW d \in Parents, NEW x \in Names,
         NEW o \in Named(Entries(d), x), Unlink(d, o), inode' = inode
  PROVE  OnceNamed' /\ (paths' = paths \/ Shrinks(paths, paths'))
<1> PICK e : e = FirstSector(Removed(Entries(d), o))
  OBVIOUS
<1> PICK K : K = LinksIn(inode, disk, Reach)
  OBVIOUS
<1> PICK M : M = LinksIn(inode, disk', Reach)
  OBVIOUS
<1> PICK v : v = LinkAt(inode, disk, d, o)
  OBVIOUS
<1>1. Unlinking(inode, disk, Reach, d, o, e, disk')
  BY UnlinkingIs
<1>2. o \in LabelsIn(inode, disk, d)
  BY Reads DEF Named, LabelsIn
<1>3. /\ Closed(inode, disk', Reach) /\ Distinct(inode, disk', Reach)
      /\ v \in K /\ \A y : y \in M <=> y \in K /\ y # v
  BY <1>1, <1>2, UnlinkedLinks DEF OnceNamed
<1>4. /\ Structure(inode, disk', Reach) /\ ReachIn(inode, disk', {Root}) \subseteq Reach
  <2>1. PICK y : y = EntriesIn(inode, disk, d)[o].ino
    OBVIOUS
  <2>2. Structure(inode, disk', Reach) /\ Parted(inode, disk', Reach, y)
    BY ONLY <1>1, <2>1, Unlinked
  <2> QED BY <2>2 DEF Parted
<1>5. Reach \subseteq Inodes /\ Root \in Reach
  BY NowIs
<1>6. Forest(M)
  BY <1>3, <1>4, <1>5, ForestIs
<1>7. Forest(K) /\ paths = TreeOf(K, inode)
  BY TreeNow
<1>8. PathsIn(inode, disk') = TreeOf(M, inode)
  BY <1>3, <1>5, <1>6, PathsAre
<1>9. paths' = TreeOf(M, inode)
  BY <1>8, PathsRead
<1>10. TreeOf(M, inode) = TreeOf(K, inode) \/ Shrinks(TreeOf(K, inode), TreeOf(M, inode))
  BY <1>3, <1>7, TreeShrinks
<1>11. OnceNamed'
  <2>1. Reach' \subseteq Reach
    BY <1>4, ReadsNext
  <2>2. Distinct(inode', disk', Reach')
    BY <1>3, <2>1 DEF Distinct
  <2> QED BY <2>2 DEF OnceNamed
<1> QED BY <1>7, <1>9, <1>10, <1>11

(***************************************************************************)
(* Every step is one of the tree of names, or none.                        *)
(***************************************************************************)
\* Every step: the paths stay, grow by one, or lose one with all under it.
LEMMA NextNames ==
  ASSUME IInv, NGroups = 1, ShortNames, OnceNamed, Next \/ UNCHANGED vars
  PROVE  OnceNamed' /\ (paths' = paths \/ Grows(paths, paths') \/ Shrinks(paths, paths'))
<1>0. IInv'
  BY NextIs, StutterIs
<1>1. CASE UNCHANGED vars
  BY <1>0, <1>1, StillQuiet DEF vars, diskVars
<1>2. CASE Next
  <2>1. ASSUME NEW d \in Parents, NEW n \in Names, NEW k, NEW z, Begin(d, n, k, z)
        PROVE  OnceNamed' /\ paths' = paths
    <3>1. UNCHANGED <<inode, disk>>
      BY <2>1 DEF Begin, diskVars
    <3> QED BY <1>0, <3>1, StillQuiet
  <2>2. ASSUME pc = "idle", NEW d \in Parents, NEW n \in Names,
               DeleteFile(d, n) \/ RemoveDirectory(d, n)
        PROVE  OnceNamed' /\ (paths' = paths \/ Shrinks(paths, paths'))
    <3>1. PICK o \in Named(Entries(d), n) : Unlink(d, o)
      BY <2>2 DEF DeleteFile, RemoveDirectory
    <3>2. inode' = inode
      BY <2>2 DEF DeleteFile, RemoveDirectory
    <3> QED BY <2>2, <3>1, <3>2, UnlinkShrinks
  <2>3. CASE TakeBlock \/ StoreList \/ WriteInode
    BY <1>0, <2>3, TakeBlockQuiet, StoreListQuiet, WriteInodeQuiet
  <2>4. CASE Link
    BY <2>4, LinkGrows
  <2>5. CASE \/ TakeInode \/ WipeEntry \/ WipeSelf \/ WipeNoEntries \/ WipeNothing
             \/ FreeBlock \/ FreeInode \/ PowerFails
    <3>1. UNCHANGED <<inode, disk>>
      BY <2>5 DEF TakeInode, WipeEntry, WipeSelf, WipeNoEntries, WipeNothing, FreeBlock,
                  FreeInode, PowerFails, diskVars
    <3> QED BY <1>0, <3>1, StillQuiet
  <2> QED BY <1>2, <2>1, <2>2, <2>3, <2>4, <2>5 DEF Next, WriteFile, MakeDirectory
<1> QED BY <1>1, <1>2

\* At the start there is the root alone.
LEMMA InitNames == ASSUME Init PROVE OnceNamed /\ paths = {<<<<>>, "dir">>}
<1> PICK K : K = LinksIn(inode, disk, Reach)
  OBVIOUS
<1>1. IInv
  BY InitIs
<1>2. /\ inode = [i \in Inodes |->
                    IF i = Root THEN Inode("dir", 1, [NoBlocks EXCEPT ![1] = RootBlock])
                                ELSE Inode("none", 0, NoBlocks)]
      /\ disk = [b \in {0} \cup Blocks |->
                   IF b = RootBlock THEN Dir(NewDir(Root, Root)) ELSE Data(0)]
  BY DEF Init
<1>3. Reach = {Root} /\ inode[Root].mode = "dir"
  <2>1. ReachIn(inode, disk, {Root}) = {Root}
    BY <1>2, EmptyRoot
  <2>2. Root \in Inodes
    BY Numbers
  <2> QED BY <1>2, <2>1, <2>2, Reads DEF Inode
<1>4. LabelsIn(inode, disk, Root) = {}
  <2>1. inode[Root].ptr[1] = RootBlock
    BY <1>2, Numbers DEF Inode, NoBlocks
  <2>2. disk[RootBlock] = Dir(NewDir(Root, Root))
    BY <1>2, RootBlockIs
  <2> PICK d : d = NewDir(Root, Root)
    OBVIOUS
  <2>3. EntriesIn(inode, disk, Root) = d
    BY <1>3, <2>1, <2>2 DEF EntriesIn, Dir
  <2>4. \A o \in DOMAIN d : d[o].name \in {".", ".."}
    BY NewDirIsKept, Numbers
  <2> QED BY <2>3, <2>4, DirAssumption DEF LabelsIn
<1>5. OnceNamed
  BY <1>3, <1>4 DEF OnceNamed, Distinct
<1>6. K = {}
  BY <1>3, <1>4 DEF LinksIn
<1>7. paths = TreeOf({}, inode)
  BY <1>1, <1>5, <1>6, TreeNow
<1> QED BY <1>3, <1>5, <1>7, EmptyTree

\* No directory that is reached has a name twice.
THEOREM NamedOnce == ASSUME NGroups = 1, ShortNames PROVE Spec => []OnceNamed
<1>1. Init => OnceNamed
  BY InitNames
<1>2. IInv /\ OnceNamed /\ [Next]_vars => OnceNamed'
  BY NextNames
<1> QED BY <1>1, <1>2, Inductive, PTL DEF Spec

\* The file system implements the tree of names.
THEOREM NamesAreKept == ASSUME NGroups = 1, ShortNames PROVE Spec => KeepsTree
<1>1. Init => NamesOf!Init
  BY InitNames DEF NamesOf!Init
<1>2. IInv /\ OnceNamed /\ [Next]_vars => [NamesOf!Next]_paths
  <2> SUFFICES ASSUME IInv, OnceNamed, [Next]_vars, paths' # paths PROVE NamesOf!Next
    OBVIOUS
  <2>1. Grows(paths, paths') \/ Shrinks(paths, paths')
    BY NextNames
  <2>2. CASE Grows(paths, paths')
    BY <2>2 DEF Grows, NamesOf!Next, NamesOf!Create
  <2>3. CASE Shrinks(paths, paths')
    <3>1. \A s, t : IsPrefix(s, t) = NamesOf!IsPrefix(s, t)
      BY DEF IsPrefix, NamesOf!IsPrefix
    <3> QED BY <2>3, <3>1 DEF Shrinks, NamesOf!Next, NamesOf!RemoveTree
  <2> QED BY <2>1, <2>2, <2>3
<1> QED BY <1>1, <1>2, Inductive, NamedOnce, PTL DEF Spec, KeepsTree, NamesOf!Spec
=============================================================================
