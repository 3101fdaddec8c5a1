------------------------------ MODULE MCQidMap ------------------------------
(* QidMap for TLC: ports and queues are interchangeable model values.      *)
EXTENDS QidMap, TLC

Symmetry == Permutations(Ports) \cup Permutations(Queues)

(* A precondition on the application: it never asks again for a queue      *)
(* whose own slot waits to be handed to another queue.                     *)
NeverRerequested == \A p \in Ports : ~Rerequested(p)
=============================================================================
