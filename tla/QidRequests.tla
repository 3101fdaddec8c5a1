----------------------------- MODULE QidRequests -----------------------------
(***************************************************************************)
(* What dlb2_hw_map_qid and dlb2_hw_unmap_qid promise an application: the  *)
(* "requested state", the set of queues each port serves as if every       *)
(* request completed at once (the comment of dlb2_hw_map_qid,              *)
(* driver/dlb2/base/dlb2_resource.c).  A map request adds one queue, an    *)
(* unmap request removes one, a port never serves more queues than it has  *)
(* slots, and whatever the driver does to finish earlier requests changes  *)
(* nothing the application can see.                                        *)
(***************************************************************************)
EXTENDS Naturals, FiniteSets

CONSTANTS Ports, Queues, NumSlots

VARIABLES
  requested,  \* the queues each port serves
  activity    \* "none", "mapping" a request, "finishing" earlier requests

vars == <<requested, activity>>

Init ==
  /\ requested = [p \in Ports |-> {}]
  /\ activity = "none"

BeginMap ==
  /\ activity = "none"
  /\ activity' = "mapping"
  /\ UNCHANGED requested

Map(p, q) ==
  /\ activity = "mapping"
  /\ q \notin requested[p]
  /\ Cardinality(requested[p]) < NumSlots
  /\ requested' = [requested EXCEPT ![p] = @ \cup {q}]
  /\ UNCHANGED activity

(* An unmap request may have to finish what it has started.                *)
Unmap(p, q) ==
  /\ activity = "none"
  /\ q \in requested[p]
  /\ requested' = [requested EXCEPT ![p] = @ \ {q}]
  /\ activity' \in {"none", "finishing"}

BeginFinish ==
  /\ activity = "none"
  /\ activity' = "finishing"
  /\ UNCHANGED requested

End ==
  /\ activity # "none"
  /\ activity' = "none"
  /\ UNCHANGED requested

Next ==
  \/ \E p \in Ports, q \in Queues : Map(p, q) \/ Unmap(p, q)
  \/ BeginMap \/ BeginFinish \/ End

Spec == Init /\ [][Next]_vars
=============================================================================
