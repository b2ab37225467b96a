------------------------------- MODULE MCExt2 -------------------------------
\* Blocks and sectors of a few words, lists of two pointers, one direct block.
EXTENDS Ext2

MCNames     == {"a", "b"}
MCNameWords == [n \in MCNames |-> IF n = "a" THEN 1 ELSE 3]

\* Names of 12, 8 and 16 characters: the first two fill the sector of a directory.
LongNames     == {"a", "b", "c"}
LongNameWords == [n \in LongNames |-> IF n = "a" THEN 3 ELSE IF n = "b" THEN 2 ELSE 4]

\* What the code can still read: the rest of the inode table and of the disk is
\* garbage that is overwritten before it is looked at, as long as ReachIsMarked.
InUse  == ReachFrom({Root} \cup {stack[k].ino : k \in DOMAIN stack} \cup
                    (IF pc \in {"link", "free"} THEN {ino} ELSE {}))
View ==
  LET I == InUse
      B == UNION {Tree(i) : i \in I} \cup ({got[p] : p \in Places} \ {0})
  IN  <<bbits, ibits, [i \in I |-> inode[i]], [b \in B |-> disk[b]],
        pc, callVars, workVars, faultVars>>
=============================================================================
