-------------------------- MODULE FileStreamProofs --------------------------
(***************************************************************************)
(* Proofs about FileStream, for any buffer, block and request sizes.       *)
(***************************************************************************)
EXTENDS FileStream, FiniteRanges

Texts   == UNION {[0 .. k - 1 -> Bytes] : k \in Nat}
Files   == [there : BOOLEAN, size : Nat, stored : Nat, at : Texts, blocks : Nat]
FILEs   == [mode : {"none", "r", "w"}, name : Names \cup {"none"}, buf : [Cells -> Bytes],
            size : Nat, cur : Nat, loaded : 0 .. Cap]
Answers == [items : Nat, len : Nat, at : Texts]

FileInv(f) == f.stored <= f.size /\ f.at \in [0 .. f.stored - 1 -> Bytes]

\* What keeps the promise: the buffer of a writer is zero behind its text, and
\* a closed stream holds nothing.
FILEInv(f) ==
  /\ f.mode = "none" => f = NoFILE
  /\ f.mode = "w" => /\ f.size <= Cap /\ f.cur <= Cap /\ f.name \in Names
                     /\ \A i \in Cells : i >= f.size => f.buf[i] = NUL
  /\ f.mode = "r" => f.loaded <= f.size

Inv ==
  /\ disk \in [Names -> Files] /\ \A n \in Names : FileInv(disk[n])
  /\ free \in Nat
  /\ st \in [Streams -> FILEs] /\ \A s \in Streams : FILEInv(st[s])
  /\ out \in Answers /\ out.at \in [0 .. out.len - 1 -> Bytes]

LEMMA InvTypes == Inv => TypeOK
<1> SUFFICES ASSUME Inv PROVE TypeOK
  OBVIOUS
<1>1. ASSUME NEW n \in Names
      PROVE  /\ disk[n].there \in BOOLEAN /\ disk[n].size \in Nat /\ disk[n].blocks \in Nat
             /\ disk[n].stored \in 0 .. disk[n].size
             /\ disk[n].at \in [0 .. disk[n].stored - 1 -> Bytes]
  <2>1. disk[n] \in Files /\ FileInv(disk[n])
    BY DEF Inv
  <2> QED BY <2>1 DEF Files, FileInv
<1>2. free \in Nat /\ st \in [Streams -> FILEs]
  BY DEF Inv
<1>3. ASSUME NEW s \in Streams
      PROVE  /\ st[s].mode = "w" => st[s].size <= Cap /\ st[s].cur <= Cap /\ st[s].name \in Names
             /\ st[s].mode = "r" => st[s].loaded <= st[s].size
  BY DEF Inv, FILEInv
<1>4. out.items \in Nat /\ out.len \in Nat /\ out.at \in [0 .. out.len - 1 -> Bytes]
  BY DEF Inv, Answers
<1> QED BY <1>1, <1>2, <1>3, <1>4 DEF TypeOK, FILEs

(***************************************************************************)
(* The numbers of blocks.                                                  *)
(***************************************************************************)
LEMMA Constants ==
  /\ Cap \in Nat /\ Cap > 0 /\ Block \in Nat /\ Block > 0
  /\ NDirect \in Nat /\ NDirect > 0 /\ NList \in Nat /\ NList > 0 /\ FreeBlocks \in Nat
  /\ 0 \in Cells /\ Cells \subseteq Nat
BY FileStreamAssumption DEF Cells

LEMMA Quotient ==
  ASSUME NEW a \in Nat, NEW b \in Nat, b > 0
  PROVE  a \div b \in Nat
BY SMT

LEMMA Product ==
  ASSUME NEW a \in Nat, NEW b \in Nat
  PROVE  a * b \in Nat
BY SMT

LEMMA BlocksOfSize ==
  ASSUME NEW size \in Nat
  PROVE  DataBlocks(size) \in Nat
<1>1. size + Block - 1 \in Nat
  BY Constants
<1> QED BY <1>1, Constants, Quotient DEF DataBlocks

LEMMA ListsOfBlocks ==
  ASSUME NEW n \in Nat
  PROVE  Lists(n) \in Nat
<1>1. CASE n <= NDirect + NList
  BY <1>1 DEF Lists
<1>2. CASE n > NDirect + NList
  <2>1. n - NDirect - NList + NList - 1 \in Nat
    BY <1>2, Constants
  <2>2. (n - NDirect - NList + NList - 1) \div NList \in Nat
    BY <2>1, Constants, Quotient
  <2>3. Lists(n) = 2 + (n - NDirect - NList + NList - 1) \div NList
    BY <1>2, Constants DEF Lists
  <2> QED BY <2>2, <2>3
<1> QED BY <1>1, <1>2, Constants

\* The loops of ext2_write_file fill a number of data blocks, at most all.
LEMMA FilledInRange ==
  ASSUME NEW n \in Nat, free \in Nat
  PROVE  Filled(n) \in 0 .. n
<1> DEFINE T == {k \in 0 .. n : k + Lists(k) <= free}
<1>1. 0 \in T
  BY Constants DEF Lists
<1>2. PICK k \in T : \A j \in T : j <= k
  <2>1. T \subseteq 0 .. n /\ T # {} /\ n \in Int
    BY <1>1
  <2> HIDE DEF T
  <2> QED BY <2>1, MaxExists
<1>3. \E k_1 \in 0 .. n : /\ k_1 + Lists(k_1) <= free
                          /\ \A j \in 0 .. n : j + Lists(j) <= free => j <= k_1
  BY <1>2
<1> QED BY <1>3 DEF Filled

(***************************************************************************)
(* One stream, or one file, at a time.                                     *)
(***************************************************************************)
LEMMA CellsTyped ==
  /\ Cleared \in [Cells -> Bytes]
  /\ NoFILE \in FILEs /\ FILEInv(NoFILE)
  /\ NoFile \in Files /\ FileInv(NoFile)
  /\ Silent \in Answers /\ Silent.at \in [0 .. Silent.len - 1 -> Bytes]
<1>1. 0 .. 0 - 1 = {}
  OBVIOUS
<1>2. Cleared \in [Cells -> Bytes]
  BY DEF Cleared, Bytes
<1>3. [i \in {} |-> NUL] \in [0 .. 0 - 1 -> Bytes]
  BY <1>1
<1>4. [i \in {} |-> NUL] \in Texts
  BY <1>3 DEF Texts
<1>5. NoFILE \in FILEs
  BY <1>2, Constants DEF NoFILE, FILEs, Cleared
<1>6. FILEInv(NoFILE)
  BY DEF FILEInv, NoFILE
<1>7. NoFile \in Files /\ FileInv(NoFile)
  BY <1>3, <1>4 DEF NoFile, Files, FileInv
<1>8. Silent \in Answers /\ Silent.at \in [0 .. Silent.len - 1 -> Bytes]
  BY <1>3, <1>4 DEF Silent, Answers
<1> QED BY <1>2, <1>5, <1>6, <1>7, <1>8

\* A stream that loads a file.
LoadedFILE(n, f) ==
  [mode |-> "r", name |-> n, buf |-> LoadBuffer(f), size |-> f.size, cur |-> 0, loaded |-> Loaded(f)]

LEMMA LoadTyped ==
  ASSUME NEW n \in Names, NEW f \in Files, FileInv(f)
  PROVE  LoadedFILE(n, f) \in FILEs /\ FILEInv(LoadedFILE(n, f))
<1>1. f.stored \in Nat /\ f.size \in Nat /\ f.stored <= f.size
  BY DEF Files, FileInv
<1>2. Loaded(f) \in 0 .. Cap /\ Loaded(f) <= f.stored
  BY <1>1, Constants DEF Loaded, MinOf
<1>3. \A i \in Cells : i < Loaded(f) => f.at[i] \in Bytes
  <2> SUFFICES ASSUME NEW i \in Cells, i < Loaded(f) PROVE f.at[i] \in Bytes
    OBVIOUS
  <2>1. i \in 0 .. f.stored - 1
    BY <1>1, <1>2, Constants
  <2> QED BY <2>1 DEF FileInv
<1>4. LoadBuffer(f) \in [Cells -> Bytes]
  BY <1>3 DEF LoadBuffer, Bytes
<1>5. LoadedFILE(n, f) \in FILEs
  BY <1>1, <1>2, <1>4 DEF LoadedFILE, FILEs
<1>6. FILEInv(LoadedFILE(n, f))
  BY <1>1, <1>2, Constants DEF LoadedFILE, FILEInv
<1> QED BY <1>5, <1>6

\* A stream that writes.
LEMMA WriteTyped ==
  ASSUME NEW f \in FILEs, FILEInv(f), f.mode = "w", NEW k \in Nat, NEW c \in Chars
  PROVE  LET n == MinOf(k, Room(f))
         IN  /\ n \in Nat /\ f.cur + n <= Cap
             /\ Written(f, n, c) \in FILEs /\ FILEInv(Written(f, n, c))
<1> DEFINE n == MinOf(k, Room(f))
           e == f.cur + n
           z == IF n > 0 /\ e > f.size THEN e ELSE f.size
           b == [i \in Cells |-> IF f.cur <= i /\ i < e THEN c ELSE IF i = z THEN NUL ELSE f.buf[i]]
           g == [f EXCEPT !.buf = b, !.cur = e, !.size = z]
<1>1. /\ f.size \in Nat /\ f.cur \in Nat /\ f.buf \in [Cells -> Bytes]
      /\ f.name \in Names /\ f.loaded \in 0 .. Cap
  BY DEF FILEs, FILEInv
<1>2. f.size <= Cap /\ f.cur <= Cap /\ \A i \in Cells : i >= f.size => f.buf[i] = NUL
  BY DEF FILEInv
<1>3. n \in Nat /\ e \in Nat /\ e <= Cap
  BY <1>1, <1>2, Constants DEF MinOf, Room
<1>4. z \in Nat /\ z <= Cap /\ f.size <= z /\ (e <= z \/ n = 0)
  BY <1>1, <1>2, <1>3
<1>5. b \in [Cells -> Bytes]
  BY <1>1 DEF Bytes
<1>6. \A i \in Cells : i >= z => b[i] = NUL
  <2> SUFFICES ASSUME NEW i \in Cells, i >= z PROVE b[i] = NUL
    OBVIOUS
  <2>1. i \in Nat /\ i >= f.size
    BY <1>1, <1>4, Constants
  <2>2. ~(f.cur <= i /\ i < e)
    BY <2>1, <1>1, <1>3, <1>4
  <2>3. f.buf[i] = NUL
    BY <2>1, <1>2
  <2>4. b[i] = IF f.cur <= i /\ i < e THEN c ELSE IF i = z THEN NUL ELSE f.buf[i]
    OBVIOUS
  <2> QED BY <2>2, <2>3, <2>4
<1>7. Written(f, n, c) = g
  BY DEF Written
<1> HIDE DEF n, e, z, b
<1>8. g \in FILEs
  BY <1>1, <1>3, <1>4, <1>5 DEF FILEs
<1>9. g.mode = "w" /\ g.size = z /\ g.cur = e /\ g.name = f.name /\ g.buf = b
  BY <1>1 DEF FILEs
<1>10. FILEInv(g)
  <2> HIDE DEF g
  <2> QED BY <1>1, <1>3, <1>4, <1>6, <1>9 DEF FILEInv
<1> QED BY <1>3, <1>7, <1>8, <1>10 DEF n, e

LEMMA SeekTyped ==
  ASSUME NEW f \in FILEs, FILEInv(f), f.mode # "none", NEW p \in Int
  PROVE  Sought(f, p) \in FILEs /\ FILEInv(Sought(f, p))
<1>1. CASE p < 0 \/ p >= Cap
  BY <1>1 DEF Sought
<1>2. CASE ~(p < 0 \/ p >= Cap)
  <2>1. Sought(f, p) = [f EXCEPT !.cur = p] /\ p \in Nat /\ p <= Cap
    BY <1>2, Constants DEF Sought
  <2>2. [f EXCEPT !.cur = p] \in FILEs
    BY <2>1 DEF FILEs
  <2>3. FILEInv([f EXCEPT !.cur = p])
    BY <2>1 DEF FILEInv, FILEs
  <2> QED BY <2>1, <2>2, <2>3
<1> QED BY <1>1, <1>2

\* What fread answers.
ReadAnswer(f, n, size) ==
  [items |-> n \div size, len |-> n, at |-> [i \in 0 .. n - 1 |-> At(f, f.cur + i)]]

LEMMA ReadTyped ==
  ASSUME NEW f \in FILEs, FILEInv(f), f.mode = "r", NEW k \in Nat, NEW size \in Nat, size > 0
  PROVE  LET n == Taken(f, k)
             g == [f EXCEPT !.cur = @ + n]
         IN  /\ n \in Nat /\ (n > 0 => f.cur + n <= f.size)
             /\ g \in FILEs /\ FILEInv(g)
             /\ ReadAnswer(f, n, size) \in Answers
             /\ ReadAnswer(f, n, size).at \in [0 .. n - 1 -> Bytes]
<1> DEFINE n == Taken(f, k)
           g == [f EXCEPT !.cur = f.cur + n]
           a == [i \in 0 .. n - 1 |-> At(f, f.cur + i)]
<1>1. f.size \in Nat /\ f.cur \in Nat /\ f.buf \in [Cells -> Bytes]
  BY DEF FILEs
<1>2. n > 0 => f.cur + n <= f.size
  BY <1>1 DEF Taken, MinOf
<1>3. n \in Nat
  BY <1>1 DEF Taken, MinOf
<1> HIDE DEF n
<1>4. g \in FILEs
  BY <1>1, <1>3 DEF FILEs
<1>5. FILEInv(g)
  BY DEF FILEInv, FILEs
<1>6. a \in [0 .. n - 1 -> Bytes]
  BY <1>1 DEF At, Bytes
<1>7. a \in Texts
  BY <1>3, <1>6 DEF Texts
<1>8. n \div size \in Nat
  BY <1>3, Quotient
<1>9. ReadAnswer(f, n, size) \in Answers /\ ReadAnswer(f, n, size).at = a
  BY <1>3, <1>7, <1>8 DEF ReadAnswer, Answers
<1> QED BY <1>2, <1>3, <1>4, <1>5, <1>6, <1>9 DEF n

\* The file that a writer saves.
SavedFile(f) == NewFile(f.buf, FileSize(f.size), Filled(DataBlocks(FileSize(f.size))))

LEMMA SaveTyped ==
  ASSUME NEW f \in FILEs, FILEInv(f), f.mode = "w", free \in Nat
  PROVE  LET g == SavedFile(f)
         IN  /\ g \in Files /\ FileInv(g) /\ g.there
             /\ g.size = FileSize(f.size) /\ g.size \in 1 .. Cap
             /\ g.stored \in 0 .. g.size
             /\ g.at = [i \in 0 .. g.stored - 1 |-> f.buf[i]]
             /\ free - g.blocks \in Nat
<1> DEFINE z == FileSize(f.size)
           n == DataBlocks(z)
           k == MinOf(z, Filled(n) * Block)
           t == [i \in 0 .. k - 1 |-> f.buf[i]]
           m == MinOf(n + Lists(n), free)
           g == [there |-> TRUE, size |-> z, stored |-> k, at |-> t, blocks |-> m]
<1>1. f.size \in Nat /\ f.size <= Cap /\ f.buf \in [Cells -> Bytes]
  BY DEF FILEs, FILEInv
<1>2. z \in 1 .. Cap
  BY <1>1, Constants DEF FileSize
<1>3. n \in Nat
  BY <1>2, BlocksOfSize, Constants
<1> HIDE DEF n
<1>4. Filled(n) \in Nat
  BY <1>3, FilledInRange
<1>5. Filled(n) * Block \in Nat
  BY <1>4, Product, Constants
<1>6. k \in 0 .. z
  <2> HIDE DEF z
  <2> QED BY <1>2, <1>5, Constants DEF MinOf
<1>7. Lists(n) \in Nat
  BY <1>3, ListsOfBlocks
<1>8. m \in Nat /\ free - m \in Nat
  BY <1>3, <1>7 DEF MinOf
<1> HIDE DEF z, k, m
<1>9. k \in Nat /\ z \in Nat
  BY <1>6, <1>2, Constants
<1>10. t \in [0 .. k - 1 -> Bytes]
  <2>1. \A i \in 0 .. k - 1 : i \in Cells
    BY <1>9, <1>6, <1>2, Constants DEF Cells
  <2> QED BY <2>1, <1>1
<1>11. t \in Texts
  BY <1>10, <1>9 DEF Texts
<1> HIDE DEF t
<1>12. g \in Files /\ g.size = z /\ g.stored = k /\ g.at = t /\ g.blocks = m /\ g.there
  BY <1>8, <1>9, <1>11 DEF Files
<1>13. SavedFile(f) = g
  BY DEF SavedFile, NewFile, z, n, k, m, t
<1> HIDE DEF g
<1>14. FileInv(g)
  BY <1>6, <1>9, <1>10, <1>12 DEF FileInv
<1> QED BY <1>2, <1>6, <1>8, <1>12, <1>13, <1>14 DEF z, t

(***************************************************************************)
(* The invariant.                                                          *)
(***************************************************************************)
LEMMA InitInv == Init => Inv
<1> SUFFICES ASSUME Init PROVE Inv
  OBVIOUS
<1>1. ASSUME NEW n \in Names
      PROVE  disk[n] \in Files /\ FileInv(disk[n])
  <2>1. CASE Installed[n] = 0
    BY <2>1, CellsTyped DEF Init
  <2>2. CASE Installed[n] # 0
    <3> DEFINE z == Installed[n]
               t == [i \in 0 .. z - 1 |-> IMAGE]
               d == DataBlocks(z)
               m == d + Lists(d)
               f == [there |-> TRUE, size |-> z, stored |-> z, at |-> t, blocks |-> m]
    <3>1. z \in Nat
      BY FileStreamAssumption
    <3>2. d \in Nat /\ Lists(d) \in Nat
      BY <3>1, BlocksOfSize, ListsOfBlocks
    <3>3. t \in [0 .. z - 1 -> Bytes]
      BY DEF Bytes
    <3>4. t \in Texts
      BY <3>1, <3>3 DEF Texts
    <3>5. disk[n] = f
      BY <2>2 DEF Init
    <3>6. m \in Nat
      BY <3>2
    <3> HIDE DEF t, m, z
    <3>7. f \in Files /\ FileInv(f)
      BY <3>1, <3>3, <3>4, <3>6 DEF Files, FileInv
    <3> QED BY <3>5, <3>7
  <2> QED BY <2>1, <2>2
<1>2. disk \in [Names -> Files]
  <2>1. disk = [n \in Names |-> disk[n]]
    BY DEF Init
  <2> QED BY <1>1, <2>1
<1>3. st \in [Streams -> FILEs] /\ \A s \in Streams : FILEInv(st[s])
  BY CellsTyped DEF Init
<1>4. free \in Nat /\ out \in Answers /\ out.at \in [0 .. out.len - 1 -> Bytes]
  BY CellsTyped, Constants DEF Init
<1> QED BY <1>1, <1>2, <1>3, <1>4 DEF Inv

\* A step that changes one stream, or one file.
LEMMA StreamChanges ==
  ASSUME Inv, NEW s \in Streams, NEW g \in FILEs, FILEInv(g), st' = [st EXCEPT ![s] = g]
  PROVE  st' \in [Streams -> FILEs] /\ \A r \in Streams : FILEInv(st'[r])
BY DEF Inv

LEMMA FileChanges ==
  ASSUME Inv, NEW n \in Names, NEW f \in Files, FileInv(f), disk' = [disk EXCEPT ![n] = f]
  PROVE  disk' \in [Names -> Files] /\ \A m \in Names : FileInv(disk'[m])
BY DEF Inv

LEMMA StreamTyped ==
  ASSUME Inv, NEW s \in Streams
  PROVE  st[s] \in FILEs /\ FILEInv(st[s])
BY DEF Inv

LEMMA FileTyped ==
  ASSUME Inv, NEW n \in Names
  PROVE  disk[n] \in Files /\ FileInv(disk[n])
BY DEF Inv

Streaming == \E s \in Streams :
  \/ \E n \in Names : FopenRead(s, n) \/ FopenWrite(s, n)
  \/ \E size \in Sizes, count \in Counts :
       Fread(s, size, count) \/ \E c \in Chars : Fwrite(s, size, count, c)
  \/ \E offset \in Offsets : Fseek(s, offset)
  \/ Fclose(s) \/ Killed(s)

LEMMA Step == Inv /\ [Next]_vars => Inv'
<1> SUFFICES ASSUME Inv, [Next]_vars PROVE Inv'
  OBVIOUS
<1> DEFINE DiskKept == disk' \in [Names -> Files] /\ \A n \in Names : FileInv(disk'[n])
           StKept   == st' \in [Streams -> FILEs] /\ \A s \in Streams : FILEInv(st'[s])
           OutKept  == out' \in Answers /\ out'.at \in [0 .. out'.len - 1 -> Bytes]
<1>1. UNCHANGED disk => DiskKept
  BY DEF Inv
<1>2. UNCHANGED free => free' \in Nat
  BY DEF Inv
<1>3. UNCHANGED st => StKept
  BY DEF Inv
<1>4. out' = Silent => OutKept
  BY CellsTyped
<1>5. DiskKept /\ StKept /\ OutKept /\ free' \in Nat => Inv'
  BY DEF Inv
<1> HIDE DEF DiskKept, StKept, OutKept
<1>6. ASSUME NEW s \in Streams, NEW n \in Names, FopenRead(s, n) PROVE Inv'
  <2>1. st' = [st EXCEPT ![s] = LoadedFILE(n, disk[n])]
    BY <1>6 DEF FopenRead, LoadedFILE
  <2>2. LoadedFILE(n, disk[n]) \in FILEs /\ FILEInv(LoadedFILE(n, disk[n]))
    BY FileTyped, LoadTyped
  <2>3. StKept
    BY <2>1, <2>2, StreamChanges DEF StKept
  <2> QED BY <1>1, <1>2, <1>4, <1>5, <1>6, <2>3 DEF FopenRead
<1>7. ASSUME NEW s \in Streams, NEW n \in Names, FopenWrite(s, n) PROVE Inv'
  <2> DEFINE g == [mode |-> "w", name |-> n, buf |-> Cleared, size |-> 0, cur |-> 0, loaded |-> 0]
  <2>1. st' = [st EXCEPT ![s] = g]
    BY <1>7 DEF FopenWrite
  <2>2. g \in FILEs
    BY CellsTyped, Constants DEF FILEs
  <2>3. FILEInv(g)
    BY Constants DEF FILEInv, Cleared
  <2> HIDE DEF g
  <2>4. StKept
    BY <2>1, <2>2, <2>3, StreamChanges DEF StKept
  <2> QED BY <1>1, <1>2, <1>4, <1>5, <1>7, <2>4 DEF FopenWrite
<1>8. ASSUME NEW s \in Streams, NEW size \in Sizes, NEW count \in Counts, Fread(s, size, count) PROVE Inv'
  <2> DEFINE n == Taken(st[s], size * count)
             g == [st[s] EXCEPT !.cur = @ + n]
  <2>1. size \in Nat /\ size > 0 /\ size * count \in Nat
    BY FileStreamAssumption, Product
  <2>2. st[s] \in FILEs /\ FILEInv(st[s]) /\ st[s].mode = "r"
    BY <1>8, StreamTyped DEF Fread
  <2>3. /\ n \in Nat /\ g \in FILEs /\ FILEInv(g)
        /\ ReadAnswer(st[s], n, size) \in Answers
        /\ ReadAnswer(st[s], n, size).at \in [0 .. n - 1 -> Bytes]
    BY <2>1, <2>2, ReadTyped
  <2>4. st' = [st EXCEPT ![s] = g] /\ out' = ReadAnswer(st[s], n, size)
    BY <1>8 DEF Fread, ReadAnswer, Inv
  <2>5. out'.len = n
    BY <2>4 DEF ReadAnswer
  <2> HIDE DEF n, g
  <2>6. OutKept
    BY <2>3, <2>4, <2>5 DEF OutKept
  <2>7. StKept
    BY <2>3, <2>4, StreamChanges DEF StKept
  <2> QED BY <1>1, <1>2, <1>5, <1>8, <2>6, <2>7 DEF Fread
<1>9. ASSUME NEW s \in Streams, NEW size \in Sizes, NEW count \in Counts, NEW c \in Chars,
             Fwrite(s, size, count, c)
      PROVE  Inv'
  <2> DEFINE g == Written(st[s], MinOf(size * count, Room(st[s])), c)
  <2>1. size * count \in Nat
    BY FileStreamAssumption, Product
  <2>2. st[s] \in FILEs /\ FILEInv(st[s]) /\ st[s].mode = "w"
    BY <1>9, StreamTyped DEF Fwrite
  <2>3. g \in FILEs /\ FILEInv(g)
    BY <2>1, <2>2, WriteTyped
  <2>4. st' = [st EXCEPT ![s] = g]
    BY <1>9 DEF Fwrite, Inv
  <2> HIDE DEF g
  <2>5. StKept
    BY <2>3, <2>4, StreamChanges DEF StKept
  <2> QED BY <1>1, <1>2, <1>4, <1>5, <1>9, <2>5 DEF Fwrite
<1>10. ASSUME NEW s \in Streams, NEW offset \in Offsets, Fseek(s, offset) PROVE Inv'
  <2>1. st[s] \in FILEs /\ FILEInv(st[s]) /\ st[s].mode # "none"
    BY <1>10, StreamTyped DEF Fseek
  <2>2. PICK whence \in {0, st[s].cur, st[s].size} : st' = [st EXCEPT ![s] = Sought(@, whence + offset)]
    BY <1>10 DEF Fseek
  <2>3. whence + offset \in Int
    BY <2>1, FileStreamAssumption DEF FILEs
  <2> DEFINE g == Sought(st[s], whence + offset)
  <2>4. g \in FILEs /\ FILEInv(g)
    BY <2>1, <2>3, SeekTyped
  <2>5. st' = [st EXCEPT ![s] = g]
    BY <2>2 DEF Inv
  <2> HIDE DEF g
  <2>6. StKept
    BY <2>4, <2>5, StreamChanges DEF StKept
  <2> QED BY <1>1, <1>2, <1>4, <1>5, <1>10, <2>6 DEF Fseek
<1>11. ASSUME NEW s \in Streams, st' = [st EXCEPT ![s] = NoFILE] PROVE StKept
  BY <1>11, CellsTyped, StreamChanges DEF StKept
<1>12. ASSUME NEW s \in Streams, Fclose(s) PROVE Inv'
  <2>1. StKept /\ OutKept
    BY <1>4, <1>11, <1>12 DEF Fclose
  <2>2. CASE UNCHANGED <<disk, free>>
    BY <1>1, <1>2, <1>5, <2>1, <2>2
  <2>3. CASE st[s].mode = "w" /\ Saves(st[s])
    <3> DEFINE f == st[s]
               g == SavedFile(f)
    <3>1. f \in FILEs /\ FILEInv(f) /\ f.mode = "w" /\ free \in Nat
      BY <2>3, StreamTyped DEF Inv
    <3>2. g \in Files /\ FileInv(g) /\ free - g.blocks \in Nat
      BY <3>1, SaveTyped
    <3>3. f.name \in Names
      BY <3>1 DEF FILEInv
    <3>4. free' = free - g.blocks /\ (disk' = [disk EXCEPT ![f.name] = g] \/ UNCHANGED disk)
      BY <2>3 DEF Saves, SavedFile
    <3> HIDE DEF g, f
    <3>5. DiskKept
      <4>1. CASE UNCHANGED disk
        BY <4>1, <1>1
      <4>2. CASE disk' = [disk EXCEPT ![f.name] = g]
        BY <4>2, <3>2, <3>3, FileChanges DEF DiskKept
      <4> QED BY <3>4, <4>1, <4>2
    <3> QED BY <1>5, <2>1, <3>2, <3>4, <3>5
  <2> QED BY <1>12, <2>2, <2>3 DEF Fclose
<1>13. ASSUME NEW s \in Streams, Killed(s) PROVE Inv'
  BY <1>1, <1>2, <1>4, <1>5, <1>11, <1>13 DEF Killed
<1>14. ASSUME NEW n \in Names, Remove(n) PROVE Inv'
  <2>1. DiskKept
    <3>1. disk' = [disk EXCEPT ![n] = NoFile]
      BY <1>14 DEF Remove
    <3> QED BY <3>1, CellsTyped, FileChanges DEF DiskKept
  <2>2. free' \in Nat
    <3>1. disk[n].blocks \in Nat /\ free \in Nat
      BY FileTyped DEF Files, Inv
    <3> QED BY <1>14, <3>1 DEF Remove
  <2> QED BY <1>3, <1>4, <1>5, <1>14, <2>1, <2>2 DEF Remove
<1>15. CASE UNCHANGED vars
  BY <1>15 DEF vars, Inv
<1>16. CASE \E n \in Names : Remove(n)
  BY <1>14, <1>16
<1>17. CASE Streaming
  BY <1>6, <1>7, <1>8, <1>9, <1>10, <1>12, <1>13, <1>17 DEF Streaming
<1> QED BY <1>15, <1>16, <1>17 DEF Next, Streaming

\* The variables keep their types, whatever the programs write, read and seek:
\* no cursor of a writer and no size leaves the buffer of fopen.
THEOREM TypeCorrect == Spec => []TypeOK
<1>1. Spec => []Inv
  BY InitInv, Step, PTL DEF Spec
<1> QED BY <1>1, InvTypes, PTL

(***************************************************************************)
(* The promise: what a step does to the mapped files and streams.          *)
(***************************************************************************)
LEMMA MappedStream ==
  ASSUME Inv, NEW s \in Streams, NEW g, st' = [st EXCEPT ![s] = g]
  PROVE  StreamsOf' = [StreamsOf EXCEPT ![s] = StreamOf(g)]
<1>1. StreamsOf = [r \in Streams |-> StreamOf(st[r])]
  BY DEF StreamsOf
<1>2. StreamsOf' = [r \in Streams |-> StreamOf(st'[r])]
  BY DEF StreamsOf, StreamOf
<1>3. \A r \in Streams : st'[r] = IF r = s THEN g ELSE st[r]
  BY DEF Inv
<1> QED BY <1>1, <1>2, <1>3

LEMMA MappedFile ==
  ASSUME Inv, NEW n \in Names, NEW f, disk' = [disk EXCEPT ![n] = f]
  PROVE  FilesOf' = [FilesOf EXCEPT ![n] = FileOf(f)]
<1>1. FilesOf = [m \in Names |-> FileOf(disk[m])]
  BY DEF FilesOf
<1>2. FilesOf' = [m \in Names |-> FileOf(disk'[m])]
  BY DEF FilesOf, FileOf
<1>3. \A m \in Names : disk'[m] = IF m = n THEN f ELSE disk[m]
  BY DEF Inv
<1> QED BY <1>1, <1>2, <1>3

LEMMA MappedSame ==
  /\ UNCHANGED st => UNCHANGED StreamsOf
  /\ UNCHANGED disk => UNCHANGED FilesOf
BY DEF StreamsOf, FilesOf, StreamOf, FileOf

LEMMA MappedClosed == StreamOf(NoFILE) = Promise!Closed
<1>1. 0 .. 0 - 1 = {}
  OBVIOUS
<1> QED BY <1>1 DEF StreamOf, NoFILE, Promise!Closed

LEMMA MappedRemoved == FileOf(NoFile) = Promise!NoFile
<1>1. 0 .. 0 - 1 = {}
  OBVIOUS
<1> QED BY <1>1 DEF FileOf, NoFile, Promise!NoFile

LEMMA InitMaps == Init => Promise!Init
<1> SUFFICES ASSUME Init PROVE Promise!Init
  OBVIOUS
<1>1. Inv
  BY InitInv
<1>2. ASSUME NEW n \in Names PROVE FilesOf[n].len \in Nat
  <2>1. disk[n].size \in Nat
    BY <1>1, FileTyped DEF Files
  <2> QED BY <2>1 DEF FilesOf, FileOf
<1>3. StreamsOf = [s \in Streams |-> Promise!Closed]
  BY MappedClosed DEF Init, StreamsOf
<1>4. out = Promise!Silent
  BY DEF Init, Silent, Promise!Silent
<1> QED BY <1>2, <1>3, <1>4 DEF Promise!Init

LEMMA SilentIsSilent == Silent = Promise!Silent
BY DEF Silent, Promise!Silent

LEMMA MappedAt ==
  ASSUME NEW s \in Streams
  PROVE  StreamsOf[s] = StreamOf(st[s])
BY DEF StreamsOf

LEMMA MappedFields ==
  ASSUME NEW s \in Streams
  PROVE  /\ StreamsOf[s].mode = st[s].mode /\ StreamsOf[s].name = st[s].name
         /\ StreamsOf[s].len = st[s].size /\ StreamsOf[s].pos = st[s].cur
         /\ StreamsOf[s].at = StreamOf(st[s]).at
<1>1. StreamsOf[s] = StreamOf(st[s])
  BY MappedAt
<1> DEFINE f == st[s]
<1>2. /\ StreamOf(f).mode = f.mode /\ StreamOf(f).name = f.name
      /\ StreamOf(f).len = f.size /\ StreamOf(f).pos = f.cur
  BY DEF StreamOf
<1> HIDE DEF f
<1> QED BY <1>1, <1>2 DEF f

\* Moving the cursor moves the position, and nothing else.
LEMMA MovedStream ==
  ASSUME NEW f \in FILEs, NEW p \in Nat
  PROVE  StreamOf([f EXCEPT !.cur = p]) = [StreamOf(f) EXCEPT !.pos = p]
<1> DEFINE h == [f EXCEPT !.cur = p]
           at == [i \in 0 .. f.size - 1 |-> IF f.mode = "w" \/ i < f.loaded THEN f.buf[i] ELSE UNKNOWN]
<1>1. h.mode = f.mode /\ h.name = f.name /\ h.buf = f.buf /\ h.size = f.size /\ h.loaded = f.loaded /\ h.cur = p
  BY DEF FILEs
<1> HIDE DEF h
<1>2. StreamOf(h) = [mode |-> f.mode, name |-> f.name, len |-> f.size, at |-> at, pos |-> p]
  BY <1>1 DEF StreamOf
<1>3. StreamOf(f) = [mode |-> f.mode, name |-> f.name, len |-> f.size, at |-> at, pos |-> f.cur]
  BY DEF StreamOf
<1> HIDE DEF at
<1> QED BY <1>2, <1>3 DEF h

LEMMA MappedAtFile ==
  ASSUME NEW n \in Names
  PROVE  FilesOf[n] = FileOf(disk[n])
BY DEF FilesOf

LEMMA ReadOpens ==
  ASSUME Inv, NEW s \in Streams, NEW n \in Names, FopenRead(s, n)
  PROVE  Promise!OpenRead(s, n)
<1> DEFINE f == disk[n]
           g == LoadedFILE(n, f)
           at == [i \in 0 .. f.size - 1 |-> IF i < Cap THEN FileOf(f).at[i] ELSE UNKNOWN]
<1>1. f \in Files /\ FileInv(f)
  BY FileTyped
<1>2. f.size \in Nat /\ f.stored \in Nat /\ f.stored <= f.size /\ Cap \in Nat
  BY <1>1, Constants DEF Files, FileInv
<1>3. StreamOf(g).at = at
  <2>1. StreamOf(g).at = [i \in 0 .. f.size - 1 |-> IF i < Loaded(f) THEN LoadBuffer(f)[i] ELSE UNKNOWN]
    BY DEF StreamOf, LoadedFILE
  <2>2. ASSUME NEW i \in 0 .. f.size - 1
        PROVE  (IF i < Loaded(f) THEN LoadBuffer(f)[i] ELSE UNKNOWN)
                 = IF i < Cap THEN FileOf(f).at[i] ELSE UNKNOWN
    <3>1. i < Loaded(f) => i \in Cells /\ LoadBuffer(f)[i] = f.at[i]
      BY <1>2 DEF LoadBuffer, Loaded, MinOf, Cells
    <3>2. FileOf(f).at[i] = IF i < f.stored THEN f.at[i] ELSE UNKNOWN
      BY DEF FileOf
    <3>3. i < Loaded(f) <=> i < f.stored /\ i < Cap
      BY <1>2 DEF Loaded, MinOf
    <3> QED BY <3>1, <3>2, <3>3
  <2> QED BY <2>1, <2>2
<1>4. StreamOf(g) = [mode |-> "r", name |-> n, len |-> f.size, at |-> at, pos |-> 0]
  <2>1. StreamOf(g) = [mode |-> "r", name |-> n, len |-> f.size, at |-> StreamOf(g).at, pos |-> 0]
    BY DEF StreamOf, LoadedFILE
  <2> QED BY <1>3, <2>1
<1>5. st' = [st EXCEPT ![s] = g]
  BY DEF FopenRead, LoadedFILE
<1>6. FilesOf[n].there /\ FilesOf[n].len = f.size /\ FilesOf[n].at = FileOf(f).at
  <2>1. f.there /\ FilesOf[n] = FileOf(f)
    BY MappedAtFile DEF FopenRead
  <2>2. FileOf(f).there = f.there /\ FileOf(f).len = f.size
    BY DEF FileOf
  <2> QED BY <2>1, <2>2
<1>7. StreamsOf[s].mode = "none"
  BY MappedFields DEF FopenRead
<1> HIDE DEF g, at
<1>8. StreamsOf' = [StreamsOf EXCEPT ![s] = StreamOf(g)]
  BY <1>5, MappedStream
<1>9. UNCHANGED FilesOf /\ out' = Promise!Silent
  BY MappedSame, SilentIsSilent DEF FopenRead
<1> QED BY <1>4, <1>6, <1>7, <1>8, <1>9 DEF Promise!OpenRead, Promise!Open, at

LEMMA WriteOpens ==
  ASSUME Inv, NEW s \in Streams, NEW n \in Names, FopenWrite(s, n)
  PROVE  Promise!OpenWrite(s, n)
<1> DEFINE g == [mode |-> "w", name |-> n, buf |-> Cleared, size |-> 0, cur |-> 0, loaded |-> 0]
<1>1. 0 .. 0 - 1 = {}
  OBVIOUS
<1>2. StreamOf(g) = [mode |-> "w", name |-> n, len |-> 0, at |-> [i \in {} |-> NUL], pos |-> 0]
  BY <1>1 DEF StreamOf
<1>3. st' = [st EXCEPT ![s] = g]
  BY DEF FopenWrite
<1>4. StreamsOf[s].mode = "none"
  BY MappedFields DEF FopenWrite
<1> HIDE DEF g
<1>5. StreamsOf' = [StreamsOf EXCEPT ![s] = StreamOf(g)]
  BY <1>3, MappedStream
<1>6. UNCHANGED FilesOf /\ out' = Promise!Silent
  BY MappedSame, SilentIsSilent DEF FopenWrite
<1> QED BY <1>2, <1>4, <1>5, <1>6 DEF Promise!OpenWrite, Promise!Open, Promise!NoText

LEMMA SeekMaps ==
  ASSUME Inv, NEW s \in Streams, NEW offset \in Offsets, Fseek(s, offset)
  PROVE  Promise!Seek(s, offset)
<1> DEFINE f == st[s]
<1>1. f \in FILEs
  BY StreamTyped
<1>2. PICK whence \in {0, f.cur, f.size} : st' = [st EXCEPT ![s] = Sought(@, whence + offset)]
  BY DEF Fseek
<1>3. f.cur \in Nat /\ f.size \in Nat /\ whence + offset \in Int /\ Cap \in Nat
  BY <1>1, FileStreamAssumption, Constants DEF FILEs
<1>4. StreamsOf[s] = StreamOf(f) /\ StreamsOf[s].pos = f.cur /\ StreamsOf[s].len = f.size
      /\ StreamsOf[s].mode = f.mode
  BY MappedAt, MappedFields
<1>5. st' = [st EXCEPT ![s] = Sought(f, whence + offset)]
  BY <1>2 DEF Inv
<1>6. StreamsOf' = [StreamsOf EXCEPT ![s] = StreamOf(Sought(f, whence + offset))]
  BY <1>5, MappedStream
<1>7. CASE whence + offset \in 0 .. Cap - 1
  <2>1. Sought(f, whence + offset) = [f EXCEPT !.cur = whence + offset]
    BY <1>3, <1>7 DEF Sought
  <2>2. StreamOf([f EXCEPT !.cur = whence + offset]) = [StreamOf(f) EXCEPT !.pos = whence + offset]
    <3>1. whence + offset \in Nat
      BY <1>3, <1>7
    <3> QED BY <1>1, <3>1, MovedStream
  <2>3. StreamsOf' = [StreamsOf EXCEPT ![s].pos = whence + offset]
    BY <1>4, <1>6, <2>1, <2>2
  <2> QED BY <1>2, <1>4, <1>7, <2>3, MappedSame, SilentIsSilent DEF Promise!Seek, Fseek
<1>8. CASE whence + offset \notin 0 .. Cap - 1
  <2>1. Sought(f, whence + offset) = f
    BY <1>3, <1>8 DEF Sought
  <2>2. StreamsOf' = StreamsOf
    BY <1>4, <1>6, <2>1 DEF StreamsOf
  <2> QED BY <1>2, <1>4, <1>8, <2>2, MappedSame, SilentIsSilent DEF Promise!Seek, Fseek
<1> QED BY <1>7, <1>8

LEMMA ReadMaps ==
  ASSUME Inv, NEW s \in Streams, NEW size \in Sizes, NEW count \in Counts, Fread(s, size, count)
  PROVE  Promise!Read(s, size, count)
<1> DEFINE f == st[s]
           n == Taken(f, size * count)
<1>1. size \in Nat /\ size > 0 /\ size * count \in Nat
  BY FileStreamAssumption, Product
<1>2. f \in FILEs /\ FILEInv(f) /\ f.mode = "r"
  BY StreamTyped DEF Fread
<1>3. n \in Nat /\ (n > 0 => f.cur + n <= f.size)
  BY <1>1, <1>2, ReadTyped
<1>4. f.cur \in Nat /\ f.size \in Nat /\ f.loaded \in 0 .. Cap
  BY <1>2 DEF FILEs
<1>5. n = IF StreamsOf[s].pos < StreamsOf[s].len
          THEN Promise!Lesser(size * count, StreamsOf[s].len - StreamsOf[s].pos) ELSE 0
  BY MappedFields DEF Taken, MinOf, Promise!Lesser
<1>6. out'.items = n \div size /\ out'.len = n /\ out'.at = [i \in 0 .. n - 1 |-> At(f, f.cur + i)]
  BY DEF Fread
<1>7. st' = [st EXCEPT ![s] = [f EXCEPT !.cur = f.cur + n]]
  BY DEF Fread, Inv
<1> HIDE DEF n
<1>8. StreamsOf' = [StreamsOf EXCEPT ![s].pos = StreamsOf[s].pos + n]
  <2>1. f.cur + n \in Nat
    BY <1>3, <1>4
  <2>2. StreamsOf' = [StreamsOf EXCEPT ![s] = StreamOf([f EXCEPT !.cur = f.cur + n])]
    BY <1>7, MappedStream
  <2>3. StreamOf([f EXCEPT !.cur = f.cur + n]) = [StreamOf(f) EXCEPT !.pos = f.cur + n]
    BY <1>2, <2>1, MovedStream
  <2>4. StreamsOf[s] = StreamOf(f) /\ StreamsOf[s].pos = f.cur
    BY MappedAt, MappedFields
  <2> QED BY <2>2, <2>3, <2>4
<1>9. ASSUME NEW i \in 0 .. n - 1
      PROVE  StreamsOf[s].at[StreamsOf[s].pos + i] \in {UNKNOWN, out'.at[i]}
  <2>1. StreamsOf[s].pos = f.cur /\ StreamsOf[s].at = StreamOf(f).at
    BY MappedFields
  <2>2. f.cur + i \in 0 .. f.size - 1
    BY <1>3, <1>4
  <2>3. StreamOf(f).at[f.cur + i] = IF f.mode = "w" \/ f.cur + i < f.loaded THEN f.buf[f.cur + i] ELSE UNKNOWN
    BY <2>2 DEF StreamOf
  <2>4. f.cur + i < f.loaded => f.cur + i \in Cells
    BY <1>4, <2>2, Constants DEF Cells
  <2>5. out'.at[i] = IF f.cur + i \in Cells THEN f.buf[f.cur + i] ELSE STALE
    BY <1>6 DEF At
  <2> QED BY <1>2, <2>1, <2>3, <2>4, <2>5
<1>10. StreamsOf[s].mode = "r" /\ UNCHANGED FilesOf
  BY <1>2, MappedFields, MappedSame DEF Fread
<1> QED BY <1>5, <1>6, <1>8, <1>9, <1>10 DEF Promise!Read

LEMMA WriteMaps ==
  ASSUME Inv, NEW s \in Streams, NEW size \in Sizes, NEW count \in Counts, NEW c \in Chars,
         Fwrite(s, size, count, c)
  PROVE  Promise!Write(s, size, count, c)
<1> DEFINE f == st[s]
           n == MinOf(size * count, Room(f))
           e == f.cur + n
           z == IF n > 0 /\ e > f.size THEN e ELSE f.size
           b == [i \in Cells |-> IF f.cur <= i /\ i < e THEN c ELSE IF i = z THEN NUL ELSE f.buf[i]]
           g == [f EXCEPT !.buf = b, !.cur = e, !.size = z]
           at == [i \in 0 .. z - 1 |-> IF f.cur <= i /\ i < f.cur + n THEN c
                                       ELSE IF i < f.size THEN StreamOf(f).at[i] ELSE NUL]
<1>1. size * count \in Nat
  BY FileStreamAssumption, Product
<1>2. f \in FILEs /\ FILEInv(f) /\ f.mode = "w"
  BY StreamTyped DEF Fwrite
<1>3. /\ f.cur \in Nat /\ f.size \in Nat /\ f.cur <= Cap /\ f.size <= Cap /\ Cap \in Nat
      /\ \A i \in Cells : i >= f.size => f.buf[i] = NUL
  BY <1>2, Constants DEF FILEs, FILEInv
<1>4. n \in Nat /\ e \in Nat /\ e <= Cap
  BY <1>1, <1>3 DEF MinOf, Room
<1>5. n = Promise!Lesser(size * count, Cap - f.cur)
  BY DEF MinOf, Room, Promise!Lesser
<1>6. z \in Nat /\ z <= Cap /\ f.size <= z
  BY <1>3, <1>4
<1>7. Written(f, n, c) = g
  BY DEF Written
<1>8. st' = [st EXCEPT ![s] = g]
  BY <1>7 DEF Fwrite, Inv
<1>9. StreamOf(f) = [mode |-> "w", name |-> f.name, len |-> f.size, at |-> StreamOf(f).at, pos |-> f.cur]
  BY <1>2 DEF StreamOf
<1>10. \A i \in 0 .. z - 1 : b[i] = at[i]
  <2> SUFFICES ASSUME NEW i \in 0 .. z - 1 PROVE b[i] = at[i]
    OBVIOUS
  <2>1. i \in Cells /\ i \in Nat /\ i # z
    BY <1>3, <1>6 DEF Cells
  <2>2. b[i] = IF f.cur <= i /\ i < e THEN c ELSE f.buf[i]
    BY <2>1
  <2>3. i < f.size => StreamOf(f).at[i] = f.buf[i]
    BY <1>2, <1>3, <2>1 DEF StreamOf
  <2>4. ~(i < f.size) => f.buf[i] = NUL
    BY <1>3, <2>1
  <2>5. at[i] = IF f.cur <= i /\ i < f.cur + n THEN c ELSE IF i < f.size THEN StreamOf(f).at[i] ELSE NUL
    OBVIOUS
  <2> QED BY <2>2, <2>3, <2>4, <2>5
<1> HIDE DEF n, e, z, b, at
<1>11. g.mode = "w" /\ g.name = f.name /\ g.buf = b /\ g.size = z /\ g.cur = e
  BY <1>2 DEF FILEs
<1> HIDE DEF g
<1>12. StreamOf(g) = [mode |-> "w", name |-> f.name, len |-> z, at |-> at, pos |-> e]
  <2>1. StreamOf(g) = [mode |-> "w", name |-> f.name, len |-> z, at |-> [i \in 0 .. z - 1 |-> b[i]], pos |-> e]
    BY <1>11 DEF StreamOf
  <2>2. [i \in 0 .. z - 1 |-> b[i]] = at
    BY <1>10 DEF at
  <2> QED BY <2>1, <2>2
<1>13. StreamsOf' = [StreamsOf EXCEPT ![s] = StreamOf(g)]
  BY <1>8, MappedStream
<1>14. /\ StreamsOf[s].mode = "w" /\ StreamsOf[s].name = f.name
       /\ StreamsOf[s].pos = f.cur /\ StreamsOf[s].len = f.size /\ StreamsOf[s].at = StreamOf(f).at
  BY <1>2, MappedFields
<1>15. UNCHANGED FilesOf /\ out' = Promise!Silent
  BY MappedSame, SilentIsSilent DEF Fwrite
<1> QED BY <1>5, <1>12, <1>13, <1>14, <1>15 DEF Promise!Write, e, z, at

LEMMA ClosedMaps ==
  ASSUME Inv, NEW s \in Streams, st' = [st EXCEPT ![s] = NoFILE]
  PROVE  StreamsOf' = [StreamsOf EXCEPT ![s] = Promise!Closed]
BY MappedStream, MappedClosed

\* What is saved is what the promise allows: the text, at least one byte, and
\* from some place on, nothing known.
LEMMA SaveMaps ==
  ASSUME Inv, NEW s \in Streams, st[s].mode = "w",
         disk' = [disk EXCEPT ![st[s].name] = SavedFile(st[s])]
  PROVE  Promise!Saved(s)
<1> DEFINE f == st[s]
           g == SavedFile(f)
           z == IF f.size = 0 THEN 1 ELSE f.size
           k == g.stored
           at == [i \in 0 .. z - 1 |-> IF i >= k THEN UNKNOWN
                                       ELSE IF i < f.size THEN StreamOf(f).at[i] ELSE NUL]
<1>1. f \in FILEs /\ FILEInv(f) /\ f.mode = "w" /\ free \in Nat
  BY StreamTyped DEF Inv
<1>2. /\ g \in Files /\ g.there /\ g.size = FileSize(f.size) /\ g.size \in 1 .. Cap
      /\ g.stored \in 0 .. g.size /\ g.at = [i \in 0 .. g.stored - 1 |-> f.buf[i]]
  BY <1>1, SaveTyped
<1> HIDE DEF g
<1>3. f.size \in Nat /\ f.size <= Cap /\ f.name \in Names /\ \A i \in Cells : i >= f.size => f.buf[i] = NUL
  BY <1>1 DEF FILEs, FILEInv
<1>4. g.size = z
  BY <1>2 DEF FileSize
<1>5. k \in 0 .. z
  BY <1>2, <1>4
<1>6. \A i \in 0 .. z - 1 : (IF i < k THEN g.at[i] ELSE UNKNOWN) = at[i]
  <2> SUFFICES ASSUME NEW i \in 0 .. z - 1 PROVE (IF i < k THEN g.at[i] ELSE UNKNOWN) = at[i]
    OBVIOUS
  <2>1. z \in Nat /\ z <= Cap /\ k \in Nat
    BY <1>2, <1>4, <1>5
  <2>2. i \in Nat /\ i \in Cells
    BY <2>1, Constants DEF Cells
  <2>3. i < k => g.at[i] = f.buf[i]
    BY <1>2, <2>1, <2>2
  <2>4. i < f.size => StreamOf(f).at[i] = f.buf[i]
    BY <1>1, <1>3, <2>2 DEF StreamOf
  <2>5. ~(i < f.size) => f.buf[i] = NUL
    BY <1>3, <2>2
  <2>6. at[i] = IF i >= k THEN UNKNOWN ELSE IF i < f.size THEN StreamOf(f).at[i] ELSE NUL
    OBVIOUS
  <2> HIDE DEF at, k
  <2> QED BY <2>1, <2>2, <2>3, <2>4, <2>5, <2>6
<1>7. FileOf(g) = [there |-> TRUE, len |-> z, at |-> at]
  <2>1. g.there = TRUE
    BY <1>2 DEF Files
  <2>2. FileOf(g) = [there |-> TRUE, len |-> z, at |-> [i \in 0 .. z - 1 |-> IF i < k THEN g.at[i] ELSE UNKNOWN]]
    BY <1>4, <2>1 DEF FileOf
  <2> QED BY <1>6, <2>2
<1>8. FilesOf' = [FilesOf EXCEPT ![f.name] = FileOf(g)]
  BY <1>3, MappedFile DEF g
<1>9. StreamsOf[s].name = f.name /\ StreamsOf[s].len = f.size /\ StreamsOf[s].at = StreamOf(f).at
  BY MappedFields
<1> HIDE DEF k, z
<1>10. FilesOf' = [FilesOf EXCEPT ![StreamsOf[s].name] =
                     [there |-> TRUE, len |-> z,
                      at |-> [i \in 0 .. z - 1 |-> IF i >= k THEN UNKNOWN
                                                   ELSE IF i < StreamsOf[s].len THEN StreamsOf[s].at[i] ELSE NUL]]]
  BY <1>7, <1>8, <1>9
<1>11. z = IF StreamsOf[s].len = 0 THEN 1 ELSE StreamsOf[s].len
  BY <1>9 DEF z
<1> HIDE DEF at
<1> QED BY <1>5, <1>10, <1>11 DEF Promise!Saved

LEMMA CloseMaps ==
  ASSUME Inv, NEW s \in Streams, Fclose(s) \/ Killed(s)
  PROVE  Promise!Close(s)
<1>1. st[s].mode # "none" /\ st' = [st EXCEPT ![s] = NoFILE] /\ out' = Silent
  BY DEF Fclose, Killed
<1>2. StreamsOf[s].mode # "none" /\ StreamsOf' = [StreamsOf EXCEPT ![s] = Promise!Closed] /\ out' = Promise!Silent
  BY <1>1, MappedFields, ClosedMaps, SilentIsSilent
<1>3. CASE UNCHANGED disk
  BY <1>2, <1>3, MappedSame DEF Promise!Close
<1>4. CASE st[s].mode = "w" /\ Saves(st[s])
  <2>1. ~disk[st[s].name].there /\ (disk' = [disk EXCEPT ![st[s].name] = SavedFile(st[s])] \/ UNCHANGED disk)
    BY <1>4 DEF Saves, SavedFile, IsNew
  <2>2. CASE disk' = [disk EXCEPT ![st[s].name] = SavedFile(st[s])]
    <3>1. Promise!Saved(s)
      BY <1>4, <2>2, SaveMaps
    <3>2. st[s].name \in Names
      BY <1>4, StreamTyped DEF FILEInv
    <3>3. FileOf(disk[st[s].name]).there = disk[st[s].name].there
      BY DEF FileOf
    <3>4. ~FilesOf[StreamsOf[s].name].there /\ StreamsOf[s].mode = "w"
      BY <1>4, <2>1, <3>2, <3>3, MappedFields, MappedAtFile
    <3> QED BY <1>2, <3>1, <3>4 DEF Promise!Close
  <2> QED BY <1>3, <2>1, <2>2
<1> QED BY <1>3, <1>4 DEF Fclose, Killed

LEMMA RemoveMaps ==
  ASSUME Inv, NEW n \in Names, Remove(n)
  PROVE  Promise!Remove(n)
<1>1. disk' = [disk EXCEPT ![n] = NoFile]
  BY DEF Remove
<1>2. FilesOf' = [FilesOf EXCEPT ![n] = Promise!NoFile]
  BY <1>1, MappedFile, MappedRemoved
<1>3. FileOf(disk[n]).there = disk[n].there
  BY DEF FileOf
<1>4. FilesOf[n].there
  BY <1>3, MappedAtFile DEF Remove
<1> QED BY <1>2, <1>4, MappedSame, SilentIsSilent DEF Remove, Promise!Remove

LEMMA StepMaps == Inv /\ [Next]_vars => [Promise!Next]_<<FilesOf, StreamsOf, out>>
<1> SUFFICES ASSUME Inv, [Next]_vars PROVE [Promise!Next]_<<FilesOf, StreamsOf, out>>
  OBVIOUS
<1>1. CASE UNCHANGED vars
  BY <1>1, MappedSame DEF vars
<1>2. CASE \E n \in Names : Remove(n)
  BY <1>2, RemoveMaps DEF Promise!Next
<1>3. CASE Streaming
  <2>1. PICK s \in Streams :
          \/ \E n \in Names : FopenRead(s, n) \/ FopenWrite(s, n)
          \/ \E size \in Sizes, count \in Counts :
               Fread(s, size, count) \/ \E c \in Chars : Fwrite(s, size, count, c)
          \/ \E offset \in Offsets : Fseek(s, offset)
          \/ Fclose(s) \/ Killed(s)
    BY <1>3 DEF Streaming
  <2>2. CASE \E n \in Names : FopenRead(s, n) \/ FopenWrite(s, n)
    BY <2>2, ReadOpens, WriteOpens DEF Promise!Next
  <2>3. CASE \E size \in Sizes, count \in Counts : Fread(s, size, count)
    BY <2>3, ReadMaps DEF Promise!Next
  <2>4. CASE \E size \in Sizes, count \in Counts, c \in Chars : Fwrite(s, size, count, c)
    BY <2>4, WriteMaps DEF Promise!Next
  <2>5. CASE \E offset \in Offsets : Fseek(s, offset)
    BY <2>5, SeekMaps DEF Promise!Next
  <2>6. CASE Fclose(s) \/ Killed(s)
    BY <2>6, CloseMaps DEF Promise!Next
  <2> QED BY <2>1, <2>2, <2>3, <2>4, <2>5, <2>6
<1> QED BY <1>1, <1>2, <1>3 DEF Next, Streaming

\* The streams implement what a FILE promises: a reader sees the file as it was
\* when it was opened, a writer's text has zeros where it never wrote, a full
\* buffer takes no more, and what is closed is what the next fopen finds.
THEOREM PromiseKept == Spec => KeepsPromise
<1>1. Spec => []Inv
  BY InitInv, Step, PTL DEF Spec
<1>2. Spec => Promise!Init /\ [][Promise!Next]_<<FilesOf, StreamsOf, out>>
  BY <1>1, InitMaps, StepMaps, PTL DEF Spec
<1> QED BY <1>2 DEF KeepsPromise, Promise!Spec

(***************************************************************************)
(* Short files.                                                            *)
(***************************************************************************)
LEMMA RoundedUp ==
  ASSUME NEW a \in Nat, NEW b \in Nat, b > 0
  PROVE  ((a + b - 1) \div b) * b >= a
BY SMTT(30)

LEMMA FilledAll ==
  ASSUME NEW n \in Nat, free \in Nat, n + Lists(n) <= free
  PROVE  Filled(n) = n
<1> DEFINE P(k) == /\ k + Lists(k) <= free
                   /\ \A j \in 0 .. n : j + Lists(j) <= free => j <= k
<1>1. n \in 0 .. n /\ P(n)
  OBVIOUS
<1>2. \A k \in 0 .. n : P(k) => k = n
  OBVIOUS
<1>3. Filled(n) = CHOOSE k \in 0 .. n : P(k)
  BY DEF Filled
<1> HIDE DEF P
<1> QED BY <1>1, <1>2, <1>3

\* What ext2_write_file leaves out, it leaves out of a disk that is full.
LEMMA ShortIfFull ==
  ASSUME NEW f \in FILEs, FILEInv(f), f.mode = "w", free \in Nat,
         SavedFile(f).stored < SavedFile(f).size
  PROVE  free - SavedFile(f).blocks = 0
<1> DEFINE z == FileSize(f.size)
           n == DataBlocks(z)
           k == MinOf(z, Filled(n) * Block)
           m == MinOf(n + Lists(n), free)
<1>1. z \in Nat
  BY Constants DEF FILEs, FileSize
<1>2. n \in Nat /\ n * Block >= z
  BY <1>1, BlocksOfSize, RoundedUp, Constants DEF DataBlocks
<1>3. SavedFile(f).stored = k /\ SavedFile(f).size = z /\ SavedFile(f).blocks = m
  BY DEF SavedFile, NewFile
<1> HIDE DEF z, n
<1>4. Filled(n) # n
  <2> SUFFICES ASSUME Filled(n) = n PROVE FALSE
    OBVIOUS
  <2>1. n * Block \in Nat /\ k = MinOf(z, n * Block)
    BY <1>2, Product, Constants
  <2>2. k = z
    BY <1>1, <1>2, <2>1 DEF MinOf
  <2> HIDE DEF k
  <2> QED BY <1>1, <1>3, <2>2
<1>5. Lists(n) \in Nat
  BY <1>2, ListsOfBlocks
<1>6. n + Lists(n) > free
  BY <1>2, <1>4, <1>5, FilledAll
<1>7. m = free
  BY <1>2, <1>5, <1>6 DEF MinOf
<1> HIDE DEF m
<1> QED BY <1>3, <1>7

\* A file is short of its size only if saving it took the last free block.
THEOREM WholeWithRoom == Spec => WholeIfRoom
<1> DEFINE Whole == \A n \in Names :
             ~disk[n].there /\ disk'[n].there /\ disk'[n].stored < disk'[n].size => free' = 0
<1>1. ASSUME Inv, [Next]_vars PROVE [Whole]_vars
  <2>1. UNCHANGED disk => Whole
    OBVIOUS
  <2>2. ASSUME NEW n \in Names, Remove(n) PROVE Whole
    <3>1. disk' = [disk EXCEPT ![n] = NoFile] /\ ~NoFile.there
      BY <2>2 DEF Remove, NoFile
    <3> QED BY <1>1, <3>1 DEF Inv
  <2>3. ASSUME NEW s \in Streams, Fclose(s) PROVE Whole
    <3>1. CASE UNCHANGED <<disk, free>>
      BY <2>1, <3>1
    <3>2. CASE st[s].mode = "w" /\ Saves(st[s])
      <4> DEFINE g == SavedFile(st[s])
      <4>1. free' = free - g.blocks /\ (disk' = [disk EXCEPT ![st[s].name] = g] \/ UNCHANGED disk)
        BY <3>2 DEF Saves, SavedFile
      <4>2. g.stored < g.size => free - g.blocks = 0
        BY <1>1, <3>2, StreamTyped, ShortIfFull DEF Inv
      <4> HIDE DEF g
      <4>3. ASSUME NEW n \in Names, disk' = [disk EXCEPT ![st[s].name] = g],
                   ~disk[n].there, disk'[n].there, disk'[n].stored < disk'[n].size
            PROVE  free' = 0
        <5>1. disk'[n] = g
          BY <1>1, <4>3 DEF Inv
        <5> QED BY <4>1, <4>2, <4>3, <5>1
      <4> QED BY <2>1, <4>1, <4>3
    <3> QED BY <2>3, <3>1, <3>2 DEF Fclose
  <2>4. ASSUME NEW s \in Streams,
               \/ \E n \in Names : FopenRead(s, n) \/ FopenWrite(s, n)
               \/ \E size \in Sizes, count \in Counts :
                    Fread(s, size, count) \/ \E c \in Chars : Fwrite(s, size, count, c)
               \/ \E offset \in Offsets : Fseek(s, offset)
               \/ Killed(s)
        PROVE  UNCHANGED disk
    BY <2>4 DEF FopenRead, FopenWrite, Fread, Fwrite, Fseek, Killed
  <2> HIDE DEF Whole
  <2> QED BY <1>1, <2>1, <2>2, <2>3, <2>4 DEF Next, vars
<1>2. Spec => []Inv
  BY InitInv, Step, PTL DEF Spec
<1>3. Spec => [][Whole]_vars
  BY <1>1, <1>2, PTL DEF Spec
<1> QED BY <1>3 DEF WholeIfRoom
=============================================================================
