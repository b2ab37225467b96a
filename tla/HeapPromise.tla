---------------------------- MODULE HeapPromise ----------------------------
(***************************************************************************)
(* What an allocator promises to its callers: every block it has given and *)
(* not got back is a region of its own, and stays where it is.             *)
(***************************************************************************)
EXTENDS Integers

CONSTANT Sizes   \* the sizes that are asked for

VARIABLES top,   \* the heap is the addresses 0 .. top - 1; it does not grow
          given  \* the start of each live region -> its size

Cells(g, a) == a .. a + g[a] - 1

\* Region r at a is inside the heap and touches none of the other regions of g.
Fits(g, a, r) ==
  /\ a + r <= top
  /\ \A b \in DOMAIN g : b # a /\ Cells(g, b) \cap (a .. a + r - 1) = {}

Added(g, a, r) == [x \in DOMAIN g \cup {a} |-> IF x = a THEN r ELSE g[x]]
Removed(g, a)  == [x \in DOMAIN g \ {a} |-> g[x]]

Init == top \in Nat /\ given = [x \in {} |-> 0]

Alloc == \E a \in 0 .. top, r \in Sizes : Fits(given, a, r) /\ given' = Added(given, a, r)

Free == \E a \in DOMAIN given : given' = Removed(given, a)

\* realloc grows or shrinks a region in place ...
Resize == \E a \in DOMAIN given, r \in Sizes :
            /\ Fits(Removed(given, a), a, r)
            /\ given' = [given EXCEPT ![a] = r]

\* ... or moves it, to a place that is not the old one, whose bytes it copies.
Move == \E a \in DOMAIN given, b \in 0 .. top, r \in Sizes :
          /\ Fits(given, b, r)
          /\ given' = Removed(Added(given, b, r), a)

Next == (Alloc \/ Free \/ Resize \/ Move) /\ top' = top

Spec == Init /\ [][Next]_<<top, given>>
=============================================================================
