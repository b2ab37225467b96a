------------------------------ MODULE EditLine ------------------------------
(***************************************************************************)
(* What typing promises: a text with a cursor in it.  A character goes in  *)
(* at the cursor as long as there is room, the one before it is deleted,   *)
(* the cursor stays between the two ends, and a line that is sent leaves   *)
(* an empty one, or stays as it is (a stutter) when it is refused.         *)
(***************************************************************************)
EXTENDS Naturals, Sequences

CONSTANT Chars

VARIABLES text, cur, room

Init == text = <<>> /\ cur = 0 /\ room \in Nat

Insert(c) ==
  /\ Len(text) < room
  /\ text' = SubSeq(text, 1, cur) \o <<c>> \o SubSeq(text, cur + 1, Len(text))
  /\ cur' = cur + 1

Delete ==
  /\ cur > 0
  /\ text' = SubSeq(text, 1, cur - 1) \o SubSeq(text, cur + 1, Len(text))
  /\ cur' = cur - 1

Move == cur' \in 0 .. Len(text) /\ UNCHANGED text

Send == text' = <<>> /\ cur' = 0

Edit == (\E c \in Chars : Insert(c)) \/ Delete \/ Move

Next == (Edit \/ Send) /\ UNCHANGED room

Spec == Init /\ [][Next]_<<text, cur, room>>
=============================================================================
