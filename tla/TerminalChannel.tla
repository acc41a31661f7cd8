--------------------------- MODULE TerminalChannel --------------------------
(***************************************************************************)
(* What the terminal promises to the keys typed in the browser: they reach *)
(* the shell of the router in the order they were typed, each at most      *)
(* once, and only the oldest of those still under way may be dropped.      *)
(***************************************************************************)
EXTENDS Integers, Sequences

VARIABLES
  typed,    \* how many keys were stored; keys are numbered from 1
  dropped,  \* keys up to this number will not arrive any more
  arrived   \* keys the shell was given, in order

channel == <<typed, dropped, arrived>>

Init == typed = 0 /\ dropped = 0 /\ arrived = <<>>

Type == typed' = typed + 1 /\ UNCHANGED <<dropped, arrived>>

\* The shell is given the keys after the last dropped one, up to the k-th.
Arrive(k) ==
  /\ k \in dropped + 1 .. typed
  /\ arrived' = arrived \o [i \in 1 .. k - dropped |-> dropped + i]
  /\ dropped' = k
  /\ UNCHANGED typed

Drop(k) ==
  /\ k \in dropped + 1 .. typed
  /\ dropped' = k
  /\ UNCHANGED <<typed, arrived>>

Next == \/ Type
        \/ \E k \in 1..typed : Arrive(k) \/ Drop(k)

Spec == Init /\ [][Next]_channel
=============================================================================
