--------------------------- MODULE CreditAccount ---------------------------
(***************************************************************************)
(* What the software credits of a scheduling domain promise: of each type  *)
(* a fixed number of credits, every one either free or backing an event.   *)
(***************************************************************************)
EXTENDS Integers

CONSTANTS Types, Total

VARIABLES
  free,    \* credits no event uses
  stored   \* credits in use by an event not yet received

Init == free = Total /\ stored = [t \in Types |-> 0]

(* Some free credits, of one or several types, become events at once.      *)
Enqueue ==
  \E k \in [Types -> 0 .. 4] :
    /\ \A t \in Types : k[t] <= free[t]
    /\ free' = [t \in Types |-> free[t] - k[t]]
    /\ stored' = [t \in Types |-> stored[t] + k[t]]

(* Events of one type are received.                                        *)
Receive ==
  \E t \in Types :
    \E k \in 1 .. stored[t] :
      /\ free' = [free EXCEPT ![t] = @ + k]
      /\ stored' = [stored EXCEPT ![t] = @ - k]

Spec == Init /\ [][Enqueue \/ Receive]_<<free, stored>>

=============================================================================
