---------------------------- MODULE MCFileStream ----------------------------
(* The streams for TLC: one name, at the start that of a file of the disk    *)
(* image that is longer than the buffer.                                     *)
EXTENDS FileStream, TLC

CONSTANTS s1, s2

MCInstalled == [n \in Names |-> Cap + 1]
MCSymmetry == Permutations(Streams)   \* the streams are alike
MCOffsets == {-1, 1}
=============================================================================
