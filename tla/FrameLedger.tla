---------------------------- MODULE FrameLedger ----------------------------
(***************************************************************************)
(* What the frame allocator and its callers promise together: a frame is   *)
(* free or belongs to one owner; it changes hands only when a program that *)
(* pid 0 has loaded becomes a process, which until then had no frame.      *)
(***************************************************************************)
EXTENDS Integers

CONSTANTS Frames,  \* the frames of the pool
          Procs    \* the owners: processes, and 0 for pid 0 while it loads

Free == -1         \* no owner: processes have numbers from 0

VARIABLE owner     \* who a frame belongs to

Init == owner = [f \in Frames |-> Free]

Owned(o) == {f \in Frames : owner[f] = o}

Take(o, f) ==
  /\ owner[f] = Free
  /\ owner' = [owner EXCEPT ![f] = o]

Move(S, o) == owner' = [f \in Frames |-> IF f \in S THEN o ELSE owner[f]]

GiveBack(o) == \E S \in SUBSET Owned(o) : S # {} /\ Move(S, Free)

HandOver(p) ==
  /\ Owned(p) = {} /\ Owned(0) # {}
  /\ Move(Owned(0), p)

Next == \/ \E o \in Procs : (\E f \in Frames : Take(o, f)) \/ GiveBack(o)
        \/ \E p \in Procs \ {0} : HandOver(p)

Spec == Init /\ [][Next]_owner
=============================================================================
