---------------------------- MODULE AlarmPanel ----------------------------
(* What the pilot is promised about the engine rules: a panel with one light per *)
(* rule, which is dark or shows one colour.  A light goes on or off by itself,   *)
(* and goes dark before it shows another colour.                                 *)
EXTENDS Naturals

CONSTANTS Names, AlarmColors

VARIABLE shown              \* the colours shown for each rule

Init == shown = [r \in Names |-> {}]

Light(r, c) ==
    /\ shown[r] = {}
    /\ shown' = [shown EXCEPT ![r] = {c}]

Darken(r, c) ==
    /\ shown[r] = {c}
    /\ shown' = [shown EXCEPT ![r] = {}]

Next == \E r \in Names, c \in AlarmColors : Light(r, c) \/ Darken(r, c)

Spec == Init /\ [][Next]_shown
=============================================================================
