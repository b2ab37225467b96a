----------------------------- MODULE MCKeyboard -----------------------------
(* The keyboard for TLC: one system per editor, and one for the readers. *)
EXTENDS Keyboard

CONSTANTS x, y

MCLimits == {[term |-> 2, box |-> 0, input |-> 0, apps |-> 1, chars |-> {x, y}],
             [term |-> 0, box |-> 2, input |-> 0, apps |-> 1, chars |-> {x, y}],
             [term |-> 0, box |-> 0, input |-> 2, apps |-> 2, chars |-> {x}]}
=============================================================================
