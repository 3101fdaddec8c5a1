----------------------------- MODULE AlertQueue -----------------------------
(***************************************************************************)
(* What a domain's alert ring promises its reader: a first-in first-out    *)
(* queue that drops an alert only when it is full (dlb2_main.c).           *)
(***************************************************************************)
EXTENDS Naturals, Sequences

CONSTANTS Alerts, Capacity

VARIABLES
  queue,          \* the alerts that were raised and not read yet
  got             \* the alert the reader deals with, or something else

Init == queue = <<>> /\ got \notin Alerts

Write(a) == Len(queue) < Capacity /\ queue' = Append(queue, a) /\ UNCHANGED got

Read == queue # <<>> /\ got' = Head(queue) /\ queue' = Tail(queue)

Other == got' \notin Alerts /\ UNCHANGED queue

Next == Read \/ Other \/ \E a \in Alerts : Write(a)

Spec == Init /\ [][Next]_<<queue, got>>
=============================================================================
