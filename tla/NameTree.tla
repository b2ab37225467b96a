------------------------------ MODULE NameTree ------------------------------
(***************************************************************************)
(* What a file system promises about names: the tree of paths changes by   *)
(* one whole file or directory at a time, and what is removed takes all    *)
(* that is under it along.  A power-off changes nothing.                   *)
(***************************************************************************)
EXTENDS Sequences, SequencesExt

CONSTANT Names

VARIABLE tree   \* pairs of a path from the root, which is <<>>, and "file" or "dir"

Init == tree = {<<<<>>, "dir">>}

Create ==
  \E t \in tree, n \in Names, mode \in {"file", "dir"} :
    /\ t[2] = "dir"
    /\ \A u \in tree : u[1] # Append(t[1], n)
    /\ tree' = tree \cup {<<Append(t[1], n), mode>>}

RemoveTree ==
  \E t \in tree :
    /\ t[1] # <<>>
    /\ tree' = {u \in tree : ~IsPrefix(t[1], u[1])}

Next == tree' # tree /\ (Create \/ RemoveTree)

Spec == Init /\ [][Next]_tree
=============================================================================
