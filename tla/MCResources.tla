---------------------------- MODULE MCResources ----------------------------
(* Resources for TLC: two classes of service, two domains, one vdev.       *)
EXTENDS Resources

CONSTANTS d1, d2, q1, q2, p1, p2, t1

MCMembers == [k \in {"sched_domain", "ldb_queue", "dir_port", "cos0", "cos1"} |->
  CASE k = "sched_domain" -> {d1, d2} [] k = "ldb_queue" -> {q1, q2}
    [] k = "dir_port" -> {t1} [] k = "cos0" -> {p1} [] k = "cos1" -> {p2}]
MCCosOrder == <<"cos0", "cos1">>
MCAmount == [k \in {"atomic"} |-> 1]

Ask(queues, c0, c1, any, strict, dir, hist, atomic, sn) ==
  [queues |-> queues, any_ports |-> any, cos_strict |-> strict, dir_ports |-> dir,
   cos_ports |-> [c \in {"cos0", "cos1"} |-> IF c = "cos0" THEN c0 ELSE c1],
   hist |-> hist, count |-> [k \in {"atomic", "sn0"} |-> IF k = "atomic" THEN atomic ELSE sn]]
MCRequests == {Ask(1, 0, 0, 1, FALSE, 1, 1, 1, 1), Ask(1, 0, 1, 1, FALSE, 0, 2, 0, 1),
               Ask(0, 1, 0, 0, TRUE, 0, 0, 0, 0)}

QueueArg(sn, atomic) ==
  [sequence_numbers |-> sn, count |-> [k \in {"atomic"} |-> atomic]]
MCQueueArgs == {QueueArg(0, 1), QueueArg(1, 0), QueueArg(2, 0)}
MCPortArgs == {[classes |-> <<"cos0", "cos1">>, hist |-> 1]}

(* The devices' lists are symmetric in their entries; only the initial     *)
(* order is fixed.                                                         *)
MCSymmetry == Permutations({d1, d2}) \cup Permutations({q1, q2})

===========================================================================
