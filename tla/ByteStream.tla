------------------------------ MODULE ByteStream ------------------------------
(***************************************************************************)
(* What a FILE promises: the text of the file as it was when it was opened *)
(* or a new text, a position in it, and on closing a new file.  Nobody     *)
(* promises a byte that no block was left for, nor one past the limit of   *)
(* the buffer: such a byte is Unknown and may be read as anything.         *)
(***************************************************************************)
EXTENDS Integers

CONSTANTS Streams, Names, Chars, Zero, Unknown, Limit,
          Sizes, Counts, Offsets   \* what the programs ask for

VARIABLES files,    \* name -> [there, len, at]
          streams,  \* stream -> [mode, name, len, at, pos]
          out       \* the answer to the last fread: [items, len, at]

NoText  == [len |-> 0, at |-> [i \in {} |-> Zero]]
NoFile  == [there |-> FALSE, len |-> 0, at |-> [i \in {} |-> Zero]]
Closed  == [mode |-> "none", name |-> "none", len |-> 0, at |-> [i \in {} |-> Zero], pos |-> 0]
Silent  == [items |-> 0, len |-> 0, at |-> [i \in {} |-> Zero]]

Init ==
  /\ \A n \in Names : files[n].len \in Nat
  /\ streams = [s \in Streams |-> Closed]
  /\ out = Silent

Open(s, mode, n, f) ==
  /\ streams[s].mode = "none"
  /\ streams' = [streams EXCEPT ![s] = [mode |-> mode, name |-> n, len |-> f.len, at |-> f.at, pos |-> 0]]
  /\ UNCHANGED files /\ out' = Silent

OpenRead(s, n) ==
  /\ files[n].there
  /\ Open(s, "r", n, [len |-> files[n].len,
                      at  |-> [i \in 0 .. files[n].len - 1 |->
                                 IF i < Limit THEN files[n].at[i] ELSE Unknown]])

OpenWrite(s, n) == Open(s, "w", n, NoText)

Lesser(a, b) == IF a < b THEN a ELSE b

\* As many bytes as there are between the position and the end of the text.
Read(s, size, count) ==
  LET f == streams[s]
      n == IF f.pos < f.len THEN Lesser(size * count, f.len - f.pos) ELSE 0
  IN  /\ f.mode = "r"
      /\ streams' = [streams EXCEPT ![s].pos = f.pos + n]
      /\ out'.items = n \div size /\ out'.len = n
      /\ \A i \in 0 .. n - 1 : f.at[f.pos + i] \in {Unknown, out'.at[i]}
      /\ UNCHANGED files

\* In place or past the end; between the two, zeros.
Write(s, size, count, c) ==
  LET f == streams[s]
      n == Lesser(size * count, Limit - f.pos)
      z == IF n > 0 /\ f.pos + n > f.len THEN f.pos + n ELSE f.len
  IN  /\ f.mode = "w"
      /\ streams' = [streams EXCEPT ![s] =
           [mode |-> "w", name |-> f.name, len |-> z, pos |-> f.pos + n,
            at |-> [i \in 0 .. z - 1 |-> IF f.pos <= i /\ i < f.pos + n THEN c
                                         ELSE IF i < f.len THEN f.at[i] ELSE Zero]]]
      /\ UNCHANGED files /\ out' = Silent

Seek(s, offset) ==
  /\ streams[s].mode # "none"
  /\ \E from \in {0, streams[s].pos, streams[s].len} :
       streams' = IF from + offset \in 0 .. Limit - 1
                  THEN [streams EXCEPT ![s].pos = from + offset] ELSE streams
  /\ UNCHANGED files /\ out' = Silent

\* A text is saved under a name that nobody has, and one byte at least; what
\* there is no block for is Unknown.
Saved(s) ==
  LET f == streams[s]
      z == IF f.len = 0 THEN 1 ELSE f.len
  IN  \E k \in 0 .. z :
        files' = [files EXCEPT ![f.name] =
          [there |-> TRUE, len |-> z,
           at |-> [i \in 0 .. z - 1 |-> IF i >= k THEN Unknown
                                        ELSE IF i < f.len THEN f.at[i] ELSE Zero]]]

Close(s) ==
  /\ streams[s].mode # "none"
  /\ \/ streams[s].mode = "w" /\ ~files[streams[s].name].there /\ Saved(s)
     \/ UNCHANGED files
  /\ streams' = [streams EXCEPT ![s] = Closed]
  /\ out' = Silent

Remove(n) ==
  /\ files[n].there
  /\ files' = [files EXCEPT ![n] = NoFile]
  /\ UNCHANGED streams /\ out' = Silent

Next ==
  \/ \E s \in Streams :
       \/ \E n \in Names : OpenRead(s, n) \/ OpenWrite(s, n)
       \/ \E size \in Sizes, count \in Counts : Read(s, size, count)
       \/ \E size \in Sizes, count \in Counts, c \in Chars : Write(s, size, count, c)
       \/ \E offset \in Offsets : Seek(s, offset)
       \/ Close(s)
  \/ \E n \in Names : Remove(n)

Spec == Init /\ [][Next]_<<files, streams, out>>
=============================================================================
