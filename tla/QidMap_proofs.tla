---------------------------- MODULE QidMap_proofs ----------------------------
(***************************************************************************)
(* Proofs about QidMap, for any number of ports, queues and slots.         *)
(*                                                                         *)
(* The inductive invariant says of the driver's record dev that it is well *)
(* typed, that each port's counters count its slots, and that a pending    *)
(* removal keeps the port's CQ disabled; of the program counter op, that   *)
(* a holder of the mutex that works on a port has one.  Every helper of    *)
(* the driver that QidMap writes as a function of dev preserves the first  *)
(* three (one lemma each); every action combines helpers.                  *)
(***************************************************************************)
EXTENDS QidMap, FiniteSetTheorems, WellFoundedInduction, TLAPS

SlotType == [state : SlotStates, qid : Queues \cup {None},
             pending_qid : Queues \cup {None}]

(* TypeOK's record, with the ports' counters not yet known to be naturals. *)
Dev ==
  [qid_map : [Ports -> [Slots -> SlotType]],
   port_mappings : [Ports -> Int],
   port_removals : [Ports -> Int],
   queue_mappings : [Queues -> Int],
   queue_additions : [Queues -> Int],
   additions : Int,
   removals : Int,
   cq_disabled : [Ports -> BOOLEAN],
   cq2qid : [Ports -> [Slots -> Queues \cup {None}]],
   infl_lim : [Queues -> {"full", "closing", "zero"}],
   worker_launched : BOOLEAN,
   work_queued : BOOLEAN]

Counted(d) ==
  \A p \in Ports :
    /\ d.port_mappings[p] = Cardinality(SlotsWith(d, p, InHardware))
    /\ d.port_removals[p] = Cardinality(SlotsWith(d, p, Removing))

HeldOff(d) == \A p \in Ports : d.port_removals[p] # 0 => d.cq_disabled[p]

Good(d) == d \in Dev /\ Counted(d) /\ HeldOff(d)

-----------------------------------------------------------------------------
(* Slots.                                                                  *)

(* First, the code's "find the first slot that ...", returns a member.     *)
LEMMA FirstIn ==
  ASSUME NEW S \in SUBSET Slots, S # {}
  PROVE  First(S) \in S
<1> DEFINE Upto(x) == {t \in S : t <= x}
           Family == {Upto(x) : x \in S}
<1>1. IsFiniteSet(Slots) /\ S \subseteq Int
  BY FS_Interval, QidMapAssumption DEF Slots
<1>2. IsWellFoundedOn(StrictSubsetOrdering(Slots), SUBSET Slots)
  BY <1>1, FS_FiniteSubsetsOfFinite, FS_StrictSubsetOrderingWellFounded
<1>3. Family \subseteq SUBSET Slots /\ Family # {}
  OBVIOUS
<1>4. PICK U \in Family : \A V \in Family : <<V, U>> \notin StrictSubsetOrdering(Slots)
  <2> HIDE DEF Family
  <2> QED
    BY <1>2, <1>3, WFMin
<1>5. PICK x \in S : U = Upto(x)
  OBVIOUS
<1>6. ASSUME NEW y \in S, ~(x <= y)
      PROVE  FALSE
  <2>1. x \in Int /\ y \in Int /\ \A t \in S : t \in Int
    BY <1>1
  <2>2. \A t \in S : t <= y => t <= x
    BY <2>1, <1>6
  <2>3. /\ Upto(y) \subseteq Upto(x)
        /\ x \in Upto(x)
        /\ x \notin Upto(y)
    <3>1. Upto(y) \subseteq Upto(x)
      BY <2>2
    <3>2. x <= x
      BY <2>1
    <3> QED
      BY <3>1, <3>2, <1>6
  <2>4. <<Upto(y), U>> \in StrictSubsetOrdering(Slots)
    BY <1>5, <2>3 DEF StrictSubsetOrdering
  <2> QED
    BY <1>4, <2>4
<1> QED
  BY <1>6 DEF First

(* ... and 0 stands for "not found".                                      *)
LEMMA FirstType ==
  ASSUME NEW S \in SUBSET Slots
  PROVE  /\ First(S) \in Slots \cup {0}
         /\ First(S) # 0 => First(S) \in S
BY FirstIn DEF First

(* The slots are finitely many numbers, none of them 0.                    *)
LEMMA SlotsFinite == IsFiniteSet(Slots) /\ Slots \subseteq Nat /\ 0 \notin Slots
BY FS_Interval, QidMapAssumption DEF Slots

(* How many of a port's slots are in one of some states ... *)
HowMany(f, states) == Cardinality({t \in Slots : f[t].state \in states})

(* ... and how the number follows a change of one slot.                    *)
LEMMA CountAfter ==
  ASSUME NEW f \in [Slots -> SlotType], NEW s \in Slots, NEW v \in SlotType,
         NEW states
  PROVE  HowMany([f EXCEPT ![s] = v], states)
         = HowMany(f, states) + (IF v.state \in states THEN 1 ELSE 0)
                              - (IF f[s].state \in states THEN 1 ELSE 0)
<1> DEFINE Old == {t \in Slots : f[t].state \in states}
           New == {t \in Slots : [f EXCEPT ![s] = v][t].state \in states}
<1>1. IsFiniteSet(Old) /\ Cardinality(Old) \in Nat
  BY SlotsFinite, FS_Subset, FS_CardinalityType
<1>2. s \in Old <=> f[s].state \in states
  OBVIOUS
<1>3. CASE v.state \in states
  <2>1. New = Old \cup {s}
    BY <1>3
  <2> HIDE DEF Old, New
  <2>2. Cardinality(New) = IF s \in Old THEN Cardinality(Old) ELSE Cardinality(Old) + 1
    BY <1>1, <2>1, FS_AddElement
  <2>3. Cardinality(New) = Cardinality(Old) + (IF v.state \in states THEN 1 ELSE 0)
                           - (IF f[s].state \in states THEN 1 ELSE 0)
    BY <1>1, <1>2, <1>3, <2>2
  <2> QED
    BY <2>3 DEF Old, New, HowMany
<1>4. CASE v.state \notin states
  <2>1. New = Old \ {s}
    BY <1>4
  <2> HIDE DEF Old, New
  <2>2. Cardinality(New) = IF s \in Old THEN Cardinality(Old) - 1 ELSE Cardinality(Old)
    BY <1>1, <2>1, FS_RemoveElement
  <2>3. Cardinality(New) = Cardinality(Old) + (IF v.state \in states THEN 1 ELSE 0)
                           - (IF f[s].state \in states THEN 1 ELSE 0)
    BY <1>1, <1>2, <1>4, <2>2
  <2> QED
    BY <2>3 DEF Old, New, HowMany
<1> QED
  BY <1>3, <1>4

-----------------------------------------------------------------------------
(* slot_state_transition.                                                  *)

(* f[x] += i.                                                              *)
Bump(f, x, i) == [f EXCEPT ![x] = @ + i]

(* A counter of no queue of the domain is no counter.                      *)
LEMMA BumpType ==
  ASSUME NEW S, NEW f \in [S -> Int], NEW x, NEW i \in Int
  PROVE  Bump(f, x, i) \in [S -> Int]
<1> DEFINE g == [f EXCEPT ![x] = @ + i]
<1>1. g = [y \in S |-> IF y = x THEN f[x] + i ELSE f[y]]
  OBVIOUS
<1>2. \A y \in S : (IF y = x THEN f[x] + i ELSE f[y]) \in Int
  OBVIOUS
<1> HIDE DEF g
<1>3. g \in [S -> Int]
  BY <1>1, <1>2
<1> QED
  BY <1>3 DEF g, Bump

(* The nested switch counts what it should, on each legal transition.      *)
LEMMA Deltas ==
  ASSUME NEW old, NEW new, <<old, new>> \in Transitions
  PROVE  /\ MappingsDelta(old, new) = (IF new \in InHardware THEN 1 ELSE 0)
                                      - (IF old \in InHardware THEN 1 ELSE 0)
         /\ RemovalsDelta(old, new) = (IF new \in Removing THEN 1 ELSE 0)
                                      - (IF old \in Removing THEN 1 ELSE 0)
         /\ AdditionsDelta(old, new) \in Int
         /\ old \in SlotStates /\ new \in SlotStates
BY DEF Transitions, MappingsDelta, RemovalsDelta, AdditionsDelta, InHardware,
       Removing, SlotStates

(* A transition keeps the counters exact, and starts a removal only on a   *)
(* CQ that is disabled.                                                    *)
LEMMA TransitionGood ==
  ASSUME NEW d, Good(d), NEW p \in Ports, NEW q, NEW s \in Slots, NEW new,
         d.qid_map[p][s].state = "MAPPED" /\ new = "UNMAP_IN_PROG" => d.cq_disabled[p]
  PROVE  Good(slot_state_transition(d, p, q, s, new))
<1> DEFINE old == d.qid_map[p][s].state
           kept == [state |-> new,
                    qid |-> IF new = "UNMAPPED" THEN None ELSE d.qid_map[p][s].qid,
                    pending_qid |-> IF new = "UNMAP_IN_PROG_PENDING_MAP"
                                    THEN d.qid_map[p][s].pending_qid ELSE None]
           n == slot_state_transition(d, p, q, s, new)
<1>1. CASE <<old, new>> \notin Transitions
  BY <1>1 DEF slot_state_transition
<1>2. CASE <<old, new>> \in Transitions
  <2>1. d \in Dev /\ d.qid_map[p] \in [Slots -> SlotType]
    BY DEF Good, Dev
  <2>2. /\ MappingsDelta(old, new) = (IF new \in InHardware THEN 1 ELSE 0)
                                     - (IF old \in InHardware THEN 1 ELSE 0)
        /\ RemovalsDelta(old, new) = (IF new \in Removing THEN 1 ELSE 0)
                                     - (IF old \in Removing THEN 1 ELSE 0)
        /\ AdditionsDelta(old, new) \in Int
        /\ new \in SlotStates
    BY <1>2, Deltas
  <2>3. kept \in SlotType
    BY <2>1, <2>2 DEF SlotType
  <2>4. n = [d EXCEPT !.qid_map[p][s]   = kept,
                     !.port_mappings[p]  = @ + MappingsDelta(old, new),
                     !.queue_mappings[q] = @ + MappingsDelta(old, new),
                     !.queue_additions[q] = @ + AdditionsDelta(old, new),
                     !.additions          = @ + AdditionsDelta(old, new),
                     !.port_removals[p]  = @ + RemovalsDelta(old, new),
                     !.removals          = @ + RemovalsDelta(old, new)]
    BY <1>2 DEF slot_state_transition
  <2> HIDE DEF n, kept
  <2>5. /\ n.qid_map = [d.qid_map EXCEPT ![p] = [d.qid_map[p] EXCEPT ![s] = kept]]
        /\ n.port_mappings = [d.port_mappings EXCEPT ![p] = @ + MappingsDelta(old, new)]
        /\ n.port_removals = [d.port_removals EXCEPT ![p] = @ + RemovalsDelta(old, new)]
        /\ n.cq_disabled = d.cq_disabled
    BY <2>1, <2>4 DEF Dev
  <2>6. n \in Dev
    <3>1. /\ n.qid_map \in [Ports -> [Slots -> SlotType]]
          /\ n.port_mappings \in [Ports -> Int]
          /\ n.port_removals \in [Ports -> Int]
      BY <2>1, <2>2, <2>3, <2>5 DEF Dev
    <3>2. /\ n.queue_mappings \in [Queues -> Int]
          /\ n.queue_additions \in [Queues -> Int]
      <4>1. /\ n.queue_mappings = Bump(d.queue_mappings, q, MappingsDelta(old, new))
            /\ n.queue_additions = Bump(d.queue_additions, q, AdditionsDelta(old, new))
        BY <2>1, <2>4 DEF Dev, Bump
      <4>2. MappingsDelta(old, new) \in Int /\ AdditionsDelta(old, new) \in Int
        BY <2>2
      <4>3. /\ d.queue_mappings \in [Queues -> Int]
            /\ d.queue_additions \in [Queues -> Int]
        BY <2>1 DEF Dev
      <4> QED
        BY <4>1, <4>2, <4>3, BumpType
    <3>3. n.additions \in Int /\ n.removals \in Int
      BY <2>1, <2>2, <2>4 DEF Dev
    <3>4. n = [d EXCEPT !.qid_map = n.qid_map, !.port_mappings = n.port_mappings,
                        !.queue_mappings = n.queue_mappings,
                        !.queue_additions = n.queue_additions,
                        !.additions = n.additions, !.port_removals = n.port_removals,
                        !.removals = n.removals]
      BY <2>1, <2>4 DEF Dev
    <3> QED
      BY <2>1, <3>1, <3>2, <3>3, <3>4 DEF Dev
  <2>7. Counted(n)
    <3>1. ASSUME NEW r \in Ports, r # p
          PROVE  /\ n.port_mappings[r] = Cardinality(SlotsWith(n, r, InHardware))
                 /\ n.port_removals[r] = Cardinality(SlotsWith(n, r, Removing))
      <4>1. /\ n.qid_map[r] = d.qid_map[r]
            /\ n.port_mappings[r] = d.port_mappings[r]
            /\ n.port_removals[r] = d.port_removals[r]
        BY <2>1, <2>5, <3>1 DEF Dev
      <4> QED
        BY <4>1 DEF Good, Counted, SlotsWith
    <3>2. \A states : Cardinality(SlotsWith(n, p, states))
                      = Cardinality(SlotsWith(d, p, states))
                        + (IF new \in states THEN 1 ELSE 0)
                        - (IF old \in states THEN 1 ELSE 0)
      <4>1. n.qid_map[p] = [d.qid_map[p] EXCEPT ![s] = kept] /\ kept.state = new
        BY <2>1, <2>5 DEF Dev, kept
      <4>2. TAKE states
      <4>3. HowMany(n.qid_map[p], states)
            = HowMany(d.qid_map[p], states) + (IF new \in states THEN 1 ELSE 0)
                                            - (IF old \in states THEN 1 ELSE 0)
        BY <2>1, <2>3, <4>1, CountAfter
      <4> QED
        BY <4>3 DEF SlotsWith, HowMany
    <3>3. /\ n.port_mappings[p] = Cardinality(SlotsWith(n, p, InHardware))
          /\ n.port_removals[p] = Cardinality(SlotsWith(n, p, Removing))
      <4>1. /\ n.port_mappings[p] = d.port_mappings[p] + MappingsDelta(old, new)
            /\ n.port_removals[p] = d.port_removals[p] + RemovalsDelta(old, new)
            /\ d.port_mappings[p] \in Int /\ d.port_removals[p] \in Int
        BY <2>1, <2>5 DEF Dev
      <4>2. /\ d.port_mappings[p] = Cardinality(SlotsWith(d, p, InHardware))
            /\ d.port_removals[p] = Cardinality(SlotsWith(d, p, Removing))
        BY DEF Good, Counted
      <4> QED
        BY <2>2, <3>2, <4>1, <4>2
    <3> QED
      BY <3>1, <3>3 DEF Counted
  <2>8. HeldOff(n)
    <3>1. ASSUME NEW r \in Ports, r # p, n.port_removals[r] # 0
          PROVE  n.cq_disabled[r]
      BY <2>1, <2>5, <3>1 DEF Good, HeldOff, Dev
    <3>2. ASSUME n.port_removals[p] # 0, d.port_removals[p] = 0
          PROVE  n.cq_disabled[p]
      <4>1. RemovalsDelta(old, new) # 0
        BY <2>1, <2>2, <2>5, <3>2 DEF Dev
      <4>2. d.port_removals[p] + RemovalsDelta(old, new) \in Nat
        <5>1. n.port_removals[p] \in Nat
          <6>1. IsFiniteSet(SlotsWith(n, p, Removing))
            BY SlotsFinite, FS_Subset DEF SlotsWith
          <6> QED
            BY <2>7, <6>1, FS_CardinalityType DEF Counted
        <5> QED
          BY <2>1, <2>5, <5>1 DEF Dev
      <4>3. RemovalsDelta(old, new) = 1
        BY <2>2, <3>2, <4>1, <4>2
      <4>4. old = "MAPPED" /\ new = "UNMAP_IN_PROG"
        BY <4>3 DEF RemovalsDelta
      <4> QED
        BY <2>5, <4>4
    <3>3. ASSUME n.port_removals[p] # 0, d.port_removals[p] # 0
          PROVE  n.cq_disabled[p]
      BY <2>5, <3>3 DEF Good, HeldOff
    <3> QED
      BY <3>1, <3>2, <3>3 DEF HeldOff
  <2> QED
    BY <2>6, <2>7, <2>8 DEF Good, n
<1> QED
  BY <1>1, <1>2

-----------------------------------------------------------------------------
(* What is preserved by a helper that changes no slot's state.             *)
LEMMA SameSlotsGood ==
  ASSUME NEW d, Good(d), NEW e \in Dev,
         e.port_mappings = d.port_mappings,
         e.port_removals = d.port_removals,
         \A p \in Ports, s \in Slots : e.qid_map[p][s].state = d.qid_map[p][s].state,
         \A p \in Ports : d.port_removals[p] # 0 /\ d.cq_disabled[p] => e.cq_disabled[p]
  PROVE  Good(e)
<1>1. \A p \in Ports : \A states : SlotsWith(e, p, states) = SlotsWith(d, p, states)
  BY DEF SlotsWith
<1>2. Counted(e)
  BY <1>1 DEF Good, Counted
<1>3. HeldOff(e)
  BY DEF Good, HeldOff
<1> QED
  BY <1>2, <1>3 DEF Good

(* The enable bits of the CQs.                                             *)
LEMMA CqGood ==
  ASSUME NEW d, Good(d), NEW c \in [Ports -> BOOLEAN],
         \A p \in Ports : d.port_removals[p] # 0 /\ d.cq_disabled[p] => c[p]
  PROVE  Good([d EXCEPT !.cq_disabled = c])
<1> DEFINE e == [d EXCEPT !.cq_disabled = c]
<1>1. e \in Dev /\ e.cq_disabled = c
  BY DEF Good, Dev
<1>2. /\ e.port_mappings = d.port_mappings
      /\ e.port_removals = d.port_removals
      /\ e.qid_map = d.qid_map
  BY DEF Good, Dev
<1> HIDE DEF e
<1>3. Good(e)
  BY <1>1, <1>2, SameSlotsGood
<1> QED
  BY <1>3 DEF e

(* cq_enable and cq_disable, alone and for all CQs mapped to a queue.      *)
LEMMA CqHelpersGood ==
  ASSUME NEW d, Good(d), NEW p \in Ports, NEW q
  PROVE  /\ Good(cq_enable(d, p)) /\ Good(cq_disable(d, p))
         /\ Good(enable_if_wanted(d, p)) /\ Good(disable_if_wanted(d, p))
         /\ Good(enable_mapped_cqs(d, q)) /\ Good(disable_mapped_cqs(d, q))
<1>1. d.cq_disabled \in [Ports -> BOOLEAN] /\ d \in Dev
  BY DEF Good, Dev
<1>2. Good(cq_enable(d, p))
  <2>1. CASE d.port_removals[p] # 0
    BY <2>1 DEF cq_enable
  <2>2. CASE d.port_removals[p] = 0
    <3> DEFINE c == [d.cq_disabled EXCEPT ![p] = FALSE]
    <3>1. c \in [Ports -> BOOLEAN] /\ \A r \in Ports : r # p => c[r] = d.cq_disabled[r]
      BY <1>1
    <3>2. cq_enable(d, p) = [d EXCEPT !.cq_disabled = c]
      BY <2>2 DEF cq_enable
    <3> HIDE DEF c
    <3> QED
      BY <2>2, <3>1, <3>2, CqGood
  <2> QED
    BY <2>1, <2>2
<1>3. Good(cq_disable(d, p))
  <2> DEFINE c == [d.cq_disabled EXCEPT ![p] = TRUE]
  <2>1. /\ c \in [Ports -> BOOLEAN] /\ c[p]
        /\ \A r \in Ports : r # p => c[r] = d.cq_disabled[r]
    BY <1>1
  <2>2. cq_disable(d, p) = [d EXCEPT !.cq_disabled = c]
    BY DEF cq_disable
  <2> HIDE DEF c
  <2> QED
    BY <2>1, <2>2, CqGood
<1>4. Good(enable_if_wanted(d, p)) /\ Good(disable_if_wanted(d, p))
  BY <1>2, <1>3 DEF enable_if_wanted, disable_if_wanted
<1>5. Good(enable_mapped_cqs(d, q))
  <2> DEFINE c == [r \in Ports |-> IF HasMapped(d, r, q) /\ enabled[r] /\ d.port_removals[r] = 0
                                   THEN FALSE ELSE d.cq_disabled[r]]
  <2>1. /\ c \in [Ports -> BOOLEAN]
        /\ \A r \in Ports : d.port_removals[r] # 0 => c[r] = d.cq_disabled[r]
    BY <1>1
  <2>2. enable_mapped_cqs(d, q) = [d EXCEPT !.cq_disabled = c]
    BY DEF enable_mapped_cqs
  <2> HIDE DEF c
  <2> QED
    BY <2>1, <2>2, CqGood
<1>6. Good(disable_mapped_cqs(d, q))
  <2> DEFINE c == [r \in Ports |-> IF HasMapped(d, r, q) /\ enabled[r]
                                   THEN TRUE ELSE d.cq_disabled[r]]
  <2>1. /\ c \in [Ports -> BOOLEAN]
        /\ \A r \in Ports : d.cq_disabled[r] => c[r]
    BY <1>1
  <2>2. disable_mapped_cqs(d, q) = [d EXCEPT !.cq_disabled = c]
    BY DEF disable_mapped_cqs
  <2> HIDE DEF c
  <2> QED
    BY <2>1, <2>2, CqGood
<1> QED
  BY <1>2, <1>3, <1>4, <1>5, <1>6

(* The inflight limits and the worker's two flags.                         *)
LEMMA LimitHelpersGood ==
  ASSUME NEW d, Good(d), NEW q
  PROVE  /\ Good(set_inflight_limit(d, q)) /\ Good(zero_inflight_limit(d, q))
         /\ Good(schedule_work(d))
         /\ \A flag \in BOOLEAN : /\ Good([d EXCEPT !.work_queued = flag])
                                 /\ Good([d EXCEPT !.worker_launched = flag])
<1> DEFINE Same(e) == /\ e \in Dev
                      /\ e.port_mappings = d.port_mappings
                      /\ e.port_removals = d.port_removals
                      /\ e.qid_map = d.qid_map
                      /\ e.cq_disabled = d.cq_disabled
<1>1. \A e : Same(e) => Good(e)
  BY SameSlotsGood
<1>2. Same(set_inflight_limit(d, q))
  BY DEF Good, Dev, set_inflight_limit
<1>3. Same(zero_inflight_limit(d, q))
  BY DEF Good, Dev, zero_inflight_limit
<1>4. Same(schedule_work(d))
  BY DEF Good, Dev, schedule_work
<1>5. \A flag \in BOOLEAN : /\ Same([d EXCEPT !.work_queued = flag])
                           /\ Same([d EXCEPT !.worker_launched = flag])
  BY DEF Good, Dev
<1> HIDE DEF Same
<1> QED
  BY <1>1, <1>2, <1>3, <1>4, <1>5

(* The names a slot holds, and the device's table.                         *)
LEMMA NamesGood ==
  ASSUME NEW d, Good(d), NEW p \in Ports, NEW s \in Slots, NEW q \in Queues \cup {None}
  PROVE  /\ Good([d EXCEPT !.qid_map[p][s].qid = q])
         /\ Good([d EXCEPT !.qid_map[p][s].pending_qid = q])
         /\ Good([d EXCEPT !.cq2qid[p][s] = q])
<1> DEFINE Same(e) == /\ e \in Dev
                      /\ e.port_mappings = d.port_mappings
                      /\ e.port_removals = d.port_removals
                      /\ \A r \in Ports, t \in Slots :
                           e.qid_map[r][t].state = d.qid_map[r][t].state
                      /\ e.cq_disabled = d.cq_disabled
<1>1. \A e : Same(e) => Good(e)
  BY SameSlotsGood
<1>2. ASSUME NEW v \in SlotType, v.state = d.qid_map[p][s].state
      PROVE  Same([d EXCEPT !.qid_map[p][s] = v])
  <2> DEFINE f == [d.qid_map[p] EXCEPT ![s] = v]
             g == [d.qid_map EXCEPT ![p] = f]
  <2>1. d \in Dev /\ d.qid_map \in [Ports -> [Slots -> SlotType]]
    BY DEF Good, Dev
  <2>2. f \in [Slots -> SlotType] /\ \A t \in Slots : f[t].state = d.qid_map[p][t].state
    BY <1>2, <2>1
  <2>3. [d EXCEPT !.qid_map[p][s] = v] = [d EXCEPT !.qid_map = g]
    OBVIOUS
  <2> HIDE DEF f
  <2>4. /\ g \in [Ports -> [Slots -> SlotType]]
        /\ \A r \in Ports, t \in Slots : g[r][t].state = d.qid_map[r][t].state
    BY <2>1, <2>2
  <2> HIDE DEF g
  <2>5. Same([d EXCEPT !.qid_map = g])
    BY <2>1, <2>4 DEF Dev
  <2> HIDE DEF Same
  <2> QED
    BY <2>3, <2>5 DEF g, f
<1>3. d.qid_map[p][s] \in SlotType
  BY DEF Good, Dev
<1>4. Same([d EXCEPT !.qid_map[p][s].qid = q])
  <2> DEFINE v == [d.qid_map[p][s] EXCEPT !.qid = q]
  <2>1. v \in SlotType /\ v.state = d.qid_map[p][s].state
    BY <1>3 DEF SlotType
  <2>2. [d EXCEPT !.qid_map[p][s].qid = q] = [d EXCEPT !.qid_map[p][s] = v]
    OBVIOUS
  <2> HIDE DEF v, Same
  <2> QED
    BY <1>2, <2>1, <2>2
<1>5. Same([d EXCEPT !.qid_map[p][s].pending_qid = q])
  <2> DEFINE v == [d.qid_map[p][s] EXCEPT !.pending_qid = q]
  <2>1. v \in SlotType /\ v.state = d.qid_map[p][s].state
    BY <1>3 DEF SlotType
  <2>2. [d EXCEPT !.qid_map[p][s].pending_qid = q] = [d EXCEPT !.qid_map[p][s] = v]
    OBVIOUS
  <2> HIDE DEF v, Same
  <2> QED
    BY <1>2, <2>1, <2>2
<1>6. Same([d EXCEPT !.cq2qid[p][s] = q])
  BY DEF Good, Dev
<1> HIDE DEF Same
<1> QED
  BY <1>1, <1>4, <1>5, <1>6

-----------------------------------------------------------------------------
(* The driver's procedures.                                                *)

(* The three searches find what they are asked for, or nothing.           *)
LEMMA FindSlots ==
  ASSUME NEW d, NEW p, NEW q, NEW state
  PROVE  /\ find_slot(d, p, state) \in Slots \cup {0}
         /\ find_slot(d, p, state) # 0
              => d.qid_map[p][find_slot(d, p, state)].state = state
         /\ find_slot_queue(d, p, state, q) \in Slots \cup {0}
         /\ find_slot_queue(d, p, state, q) # 0
              => /\ d.qid_map[p][find_slot_queue(d, p, state, q)].state = state
                 /\ d.qid_map[p][find_slot_queue(d, p, state, q)].qid = q
         /\ find_slot_with_pending_map_queue(d, p, q) \in Slots \cup {0}
         /\ find_slot_with_pending_map_queue(d, p, q) # 0
              => d.qid_map[p][find_slot_with_pending_map_queue(d, p, q)].state
                   = "UNMAP_IN_PROG_PENDING_MAP"
<1>1. /\ SlotsWith(d, p, {state}) \in SUBSET Slots
      /\ {s \in SlotsWith(d, p, {state}) : d.qid_map[p][s].qid = q} \in SUBSET Slots
      /\ {s \in SlotsWith(d, p, {"UNMAP_IN_PROG_PENDING_MAP"}) :
            d.qid_map[p][s].pending_qid = q} \in SUBSET Slots
  BY DEF SlotsWith
<1>2. /\ find_slot(d, p, state) \in Slots \cup {0}
      /\ find_slot(d, p, state) # 0 => find_slot(d, p, state) \in SlotsWith(d, p, {state})
  BY <1>1, FirstType DEF find_slot
<1>3. /\ find_slot_queue(d, p, state, q) \in Slots \cup {0}
      /\ find_slot_queue(d, p, state, q) # 0
           => find_slot_queue(d, p, state, q)
                \in {s \in SlotsWith(d, p, {state}) : d.qid_map[p][s].qid = q}
  BY <1>1, FirstType DEF find_slot_queue
<1>4. /\ find_slot_with_pending_map_queue(d, p, q) \in Slots \cup {0}
      /\ find_slot_with_pending_map_queue(d, p, q) # 0
           => find_slot_with_pending_map_queue(d, p, q)
                \in SlotsWith(d, p, {"UNMAP_IN_PROG_PENDING_MAP"})
  BY <1>1, FirstType DEF find_slot_with_pending_map_queue
<1> QED
  BY <1>2, <1>3, <1>4 DEF SlotsWith

(* A static map takes a slot that is no removal, and marks it MAPPED.      *)
LEMMA StaticGood ==
  ASSUME NEW d, Good(d), NEW p \in Ports, NEW q \in Queues \cup {None}
  PROVE  Good(map_qid_static(d, p, q))
<1> DEFINE prog == find_slot_queue(d, p, "MAP_IN_PROG", q)
           same == find_slot_queue(d, p, "MAPPED", q)
           free == find_slot(d, p, "UNMAPPED")
           s == IF prog # 0 THEN prog ELSE IF same # 0 THEN same ELSE free
           inTable == [d EXCEPT !.cq2qid[p][s] = q]
           written == [inTable EXCEPT !.qid_map[p][s].qid = q]
<1>1. s \in Slots \cup {0}
  BY FindSlots
<1>2. map_qid_static(d, p, q) = IF s = 0 THEN d
                                ELSE slot_state_transition(written, p, q, s, "MAPPED")
  BY DEF map_qid_static
<1> HIDE DEF s
<1>3. CASE s # 0
  <2>1. Good(inTable)
    BY <1>1, <1>3, NamesGood
  <2> HIDE DEF inTable
  <2>2. Good(written)
    BY <1>1, <1>3, <2>1, NamesGood
  <2> HIDE DEF written
  <2> QED
    BY <1>1, <1>2, <1>3, <2>2, TransitionGood
<1> QED
  BY <1>2, <1>3

(* An unmap frees the slot it finds.                                      *)
LEMMA UnmapGood ==
  ASSUME NEW d, Good(d), NEW p \in Ports, NEW q
  PROVE  Good(unmap_qid(d, p, q))
<1> DEFINE mapped  == find_slot_queue(d, p, "MAPPED", q)
           unmap   == find_slot_queue(d, p, "UNMAP_IN_PROG", q)
           pending == find_slot_queue(d, p, "UNMAP_IN_PROG_PENDING_MAP", q)
           s == IF mapped # 0 THEN mapped ELSE IF unmap # 0 THEN unmap ELSE pending
           cleared == [d EXCEPT !.cq2qid[p][s] = None]
<1>1. s \in Slots \cup {0}
  BY FindSlots
<1>2. unmap_qid(d, p, q) = IF s = 0 THEN d
                           ELSE slot_state_transition(cleared, p, q, s, "UNMAPPED")
  BY DEF unmap_qid
<1> HIDE DEF s
<1>3. CASE s # 0
  <2>1. Good(cleared)
    BY <1>1, <1>3, NamesGood
  <2> HIDE DEF cleared
  <2> QED
    BY <1>1, <1>2, <1>3, <2>1, TransitionGood
<1> QED
  BY <1>2, <1>3

(* The tail of a dynamic map.                                              *)
LEMMA FinishMapGood ==
  ASSUME NEW d, Good(d), NEW p \in Ports, NEW q \in Queues \cup {None}
  PROVE  Good(finish_map_qid_dynamic(d, p, q))
<1> DEFINE static == map_qid_static(d, p, q)
           limited == set_inflight_limit(static, q)
           mapped == enable_mapped_cqs(limited, q)
<1>1. Good(mapped)
  BY StaticGood, LimitHelpersGood, CqHelpersGood
<1>2. Good(zero_inflight_limit(mapped, q))
  BY <1>1, LimitHelpersGood
<1>3. finish_map_qid_dynamic(d, p, q)
        = IF mapped.queue_additions[q] > 0 THEN zero_inflight_limit(mapped, q) ELSE mapped
  BY DEF finish_map_qid_dynamic
<1> HIDE DEF mapped
<1> QED
  BY <1>1, <1>2, <1>3

(* The head of a dynamic map.                                              *)
LEMMA BeginMapGood ==
  ASSUME NEW d, Good(d), NEW p \in Ports, NEW q \in Queues \cup {None}
  PROVE  Good(begin_map_qid_dynamic(d, p, q))
<1> DEFINE s == find_slot(d, p, "UNMAPPED")
           stopped == zero_inflight_limit(d, q)
           claimed == [stopped EXCEPT !.qid_map[p][s].qid = q]
<1>1. s \in Slots \cup {0}
  BY FindSlots
<1>2. begin_map_qid_dynamic(d, p, q)
        = IF s = 0 THEN stopped ELSE slot_state_transition(claimed, p, q, s, "MAP_IN_PROG")
  BY DEF begin_map_qid_dynamic
<1>3. Good(stopped)
  BY LimitHelpersGood
<1> HIDE DEF s, stopped
<1>4. CASE s # 0
  <2>1. Good(claimed)
    BY <1>1, <1>3, <1>4, NamesGood
  <2> HIDE DEF claimed
  <2> QED
    BY <1>1, <1>2, <1>4, <2>1, TransitionGood
<1> QED
  BY <1>2, <1>3, <1>4

-----------------------------------------------------------------------------
(* The inductive invariant.                                                *)

(* The program counters of a dynamic map in the middle ...                 *)
MapPcs == {"disable_cqs", "reread", "finish_map", "write_map"}

(* ... and those at which the mutex holder works on a port.                *)
PortPcs == MapPcs \cup {"unmap_slots", "map_verify", "map_done", "map_slots"}

OpType == [pc : HolderPcs, then : HolderPcs, caller : HolderPcs,
           p : Ports \cup {None}, q : Queues \cup {None}, mq : Queues \cup {None},
           s : Slots \cup {0}, todo : SUBSET Ports]

OpGood(o) == o \in OpType /\ (o.pc \in PortPcs => o.p \in Ports)

RestType ==
  /\ enabled \in [Ports -> BOOLEAN]
  /\ domain \in {"configured", "started", "stopped"}
  /\ infl \in [Ports -> [Queues -> 0 .. MaxInflights]]
  /\ efault \in BOOLEAN

IInv == Good(dev) /\ OpGood(op) /\ RestType

(* A new domain: every counter and every count of slots is zero.           *)
LEMMA InitGood == Init => IInv
<1> SUFFICES ASSUME Init
             PROVE  IInv
  OBVIOUS
<1>1. dev \in Dev
  BY DEF Init, Dev, SlotType, EmptySlot, SlotStates
<1>2. Counted(dev) /\ HeldOff(dev)
  <2>1. ASSUME NEW p \in Ports
        PROVE  /\ SlotsWith(dev, p, InHardware) = {}
               /\ SlotsWith(dev, p, Removing) = {}
               /\ dev.port_mappings[p] = 0
               /\ dev.port_removals[p] = 0
    BY DEF Init, SlotsWith, EmptySlot, InHardware, Removing
  <2> QED
    BY <2>1, FS_EmptySet DEF Counted, HeldOff
<1>3. OpGood(op)
  BY DEF Init, Idle, OpGood, OpType, HolderPcs, PortPcs, MapPcs
<1>4. RestType
  <2>1. 0 \in 0 .. MaxInflights
    BY QidMapAssumption
  <2> QED
    BY <2>1 DEF Init, RestType
<1> QED
  BY <1>1, <1>2, <1>3, <1>4 DEF IInv, Good

(* map_qid, from whichever loop or entry point it is called.               *)
LEMMA MapQidGood ==
  ASSUME NEW d, Good(d), NEW p \in Ports, NEW q \in Queues \cup {None},
         NEW return, OpGood(return), return.p = p, map_qid(d, p, q, return)
  PROVE  Good(dev') /\ OpGood(op')
<1>1. Good(map_qid_static(d, p, q))
  BY StaticGood
<1>2. Good(begin_map_qid_dynamic(d, p, q))
  BY BeginMapGood
<1>3. Good(schedule_work(begin_map_qid_dynamic(d, p, q)))
  BY <1>2, LimitHelpersGood
<1>4. OpGood([return EXCEPT !.pc = "disable_cqs", !.then = return.pc, !.mq = q])
  BY DEF OpGood, OpType, HolderPcs, PortPcs, MapPcs
<1> QED
  BY <1>1, <1>2, <1>3, <1>4 DEF map_qid

-----------------------------------------------------------------------------
(* One lemma for each kind of step.                                        *)

(* The mutex holder in the middle of a map or of a removal.                *)
LEMMA DynamicGood ==
  IInv /\ (DisableCqs \/ Reread \/ FinishMapRead \/ WriteMap) => IInv'
<1> SUFFICES ASSUME IInv, DisableCqs \/ Reread \/ FinishMapRead \/ WriteMap
             PROVE  IInv'
  OBVIOUS
<1>1. op.p \in Ports /\ op.mq \in Queues \cup {None}
  BY DEF IInv, OpGood, OpType, DisableCqs, Reread, FinishMapRead, WriteMap, At, PortPcs, MapPcs
<1>2. Good(dev')
  <2>1. CASE DisableCqs
    BY <1>1, <2>1, CqHelpersGood DEF IInv, DisableCqs
  <2>2. CASE Reread
    <3> DEFINE on == enable_mapped_cqs(enable_if_wanted(dev, op.p), op.mq)
    <3>1. Good(on)
      BY <1>1, CqHelpersGood DEF IInv
    <3>2. dev' = dev \/ dev' = schedule_work(on)
      BY <2>2 DEF Reread
    <3> HIDE DEF on
    <3> QED
      BY <3>1, <3>2, LimitHelpersGood DEF IInv
  <2>3. CASE FinishMapRead
    BY <2>3 DEF IInv, FinishMapRead
  <2>4. CASE WriteMap
    BY <1>1, <2>4, FinishMapGood DEF IInv, WriteMap
  <2> QED
    BY <2>1, <2>2, <2>3, <2>4
<1>3. OpGood(op')
  <2>1. OpGood(Idle)
    BY DEF Idle, OpGood, OpType, HolderPcs, PortPcs, MapPcs
  <2>2. OpGood(MapReturn)
    BY <1>1 DEF IInv, OpGood, OpType, MapReturn, HolderPcs
  <2>3. /\ OpGood([op EXCEPT !.pc = "reread"])
        /\ OpGood([op EXCEPT !.pc = "finish_map"])
        /\ OpGood([op EXCEPT !.pc = "write_map"])
    BY <1>1 DEF IInv, OpGood, OpType, HolderPcs
  <2> QED
    BY <2>1, <2>2, <2>3 DEF DisableCqs, Reread, FinishMapRead, WriteMap
<1>4. RestType'
  BY DEF IInv, RestType, DisableCqs, Reread, FinishMapRead, WriteMap
<1> QED
  BY <1>2, <1>3, <1>4 DEF IInv

(* The loop over the removals of a port.                                   *)
LEMMA FinishUnmapGood ==
  IInv /\ (FinishUnmapPortSlot \/ FinishUnmapPortDone) => IInv'
<1>1. ASSUME IInv, FinishUnmapPortSlot
      PROVE  IInv'
  <2> DEFINE p == op.p
             s == First({t \in SlotsWith(dev, p, Removing) : t > op.s})
             slot == dev.qid_map[p][s]
             unmapped == enable_if_wanted(unmap_qid(dev, p, slot.qid), p)
             renamed == IF unmapped.qid_map[p][s].state = "UNMAPPED" THEN unmapped
                        ELSE [unmapped EXCEPT !.qid_map[p][s].qid = slot.pending_qid]
             next == [op EXCEPT !.s = s]
  <2>1. p \in Ports
    BY <1>1 DEF IInv, OpGood, FinishUnmapPortSlot, At, PortPcs, MapPcs
  <2>2. s \in Slots /\ {t \in SlotsWith(dev, p, Removing) : t > op.s} \in SUBSET Slots
    BY <1>1, FirstType DEF FinishUnmapPortSlot, SlotsWith
  <2>3. \/ slot.state = "UNMAP_IN_PROG" /\ dev' = unmapped /\ op' = next
        \/ map_qid(renamed, p, slot.pending_qid, next)
    BY <1>1 DEF FinishUnmapPortSlot
  <2>4. OpGood(next) /\ next.p = p
    BY <1>1, <2>2 DEF IInv, OpGood, OpType
  <2> HIDE DEF s, next
  <2>5. slot.pending_qid \in Queues \cup {None}
    BY <1>1, <2>1, <2>2 DEF IInv, Good, Dev, SlotType
  <2>6. Good(unmapped)
    BY <1>1, <2>1, UnmapGood, CqHelpersGood DEF IInv
  <2> HIDE DEF unmapped
  <2>7. Good(renamed)
    BY <2>1, <2>2, <2>5, <2>6, NamesGood
  <2> HIDE DEF renamed, slot, p
  <2>8. Good(dev') /\ OpGood(op')
    BY <2>1, <2>3, <2>4, <2>5, <2>6, <2>7, MapQidGood
  <2> QED
    BY <1>1, <2>8 DEF IInv, RestType, FinishUnmapPortSlot
<1>2. ASSUME IInv, FinishUnmapPortDone
      PROVE  IInv'
  <2>1. OpGood(op')
    <3>1. CASE op.caller = "idle"
      BY <1>2, <3>1 DEF FinishUnmapPortDone, Idle, OpGood, OpType, HolderPcs, PortPcs, MapPcs
    <3>2. CASE op.caller # "idle"
      BY <1>2, <3>2 DEF IInv, FinishUnmapPortDone, At, OpGood, OpType, HolderPcs, PortPcs, MapPcs
    <3> QED
      BY <3>1, <3>2
  <2> QED
    BY <1>2, <2>1 DEF IInv, RestType, FinishUnmapPortDone
<1> QED
  BY <1>1, <1>2

(* dlb2_hw_map_qid.                                                        *)
LEMMA MapGood ==
  IInv /\ (\/ \E p \in Ports, q \in Queues : MapQid(p, q)
           \/ MapReject \/ MapAccept \/ MapDone) => IInv'
<1>1. ASSUME IInv, NEW p \in Ports, NEW q \in Queues, MapQid(p, q)
      PROVE  IInv'
  <2>1. OpGood(op')
    BY <1>1 DEF MapQid, Idle, OpGood, OpType, HolderPcs, PortPcs, MapPcs
  <2> QED
    BY <1>1, <2>1 DEF IInv, RestType, MapQid
<1>2. ASSUME IInv, MapReject
      PROVE  IInv'
  BY <1>2 DEF IInv, RestType, MapReject, Idle, OpGood, OpType, HolderPcs, PortPcs, MapPcs
<1>3. ASSUME IInv, MapAccept
      PROVE  IInv'
  <2> DEFINE p == op.p
             q == op.q
             d == disable_if_wanted(dev, p)
             unmap   == find_slot_queue(d, p, "UNMAP_IN_PROG", q)
             parking == find_slot(d, p, "UNMAP_IN_PROG")
             named == [d EXCEPT !.qid_map[p][parking].pending_qid = q]
             done == [op EXCEPT !.pc = "map_done"]
  <2>1. p \in Ports /\ q \in Queues \cup {None}
    BY <1>3 DEF IInv, OpGood, OpType, MapAccept, At, PortPcs, MapPcs
  <2>2. \/ dev' = d /\ op' = done
        \/ /\ unmap # 0
           /\ dev' = slot_state_transition(d, p, q, unmap, "MAPPED")
           /\ op' = done
        \/ /\ parking # 0
           /\ dev' = slot_state_transition(named, p, q, parking, "UNMAP_IN_PROG_PENDING_MAP")
           /\ op' = done
        \/ map_qid(d, p, q, done)
        \/ /\ dev' = IF domain = "started" THEN begin_map_qid_dynamic(d, p, q) ELSE d
           /\ op' = Idle
    BY <1>3 DEF MapAccept
  <2>3. OpGood(done) /\ done.p = p /\ OpGood(Idle)
    BY <1>3, <2>1 DEF IInv, OpGood, OpType, HolderPcs, PortPcs, MapPcs, Idle
  <2>4. Good(d)
    BY <1>3, <2>1, CqHelpersGood DEF IInv
  <2>5. unmap \in Slots \cup {0} /\ parking \in Slots \cup {0}
    BY FindSlots
  <2> HIDE DEF p, q, d, unmap, parking, done
  <2>6. parking # 0 => Good(named)
    BY <2>1, <2>4, <2>5, NamesGood
  <2> HIDE DEF named
  <2>7. /\ unmap # 0 => Good(slot_state_transition(d, p, q, unmap, "MAPPED"))
        /\ parking # 0 =>
             Good(slot_state_transition(named, p, q, parking, "UNMAP_IN_PROG_PENDING_MAP"))
    BY <2>1, <2>4, <2>5, <2>6, TransitionGood
  <2>8. Good(begin_map_qid_dynamic(d, p, q))
    BY <2>1, <2>4, BeginMapGood
  <2>9. Good(dev') /\ OpGood(op')
    <3>1. map_qid(d, p, q, done) => Good(dev') /\ OpGood(op')
      BY <2>1, <2>3, <2>4, MapQidGood
    <3> QED
      BY <2>2, <2>3, <2>4, <2>7, <2>8, <3>1
  <2>10. UNCHANGED <<enabled, domain, infl>> /\ efault' \in BOOLEAN
    BY <1>3 DEF IInv, RestType, MapAccept
  <2> QED
    BY <1>3, <2>9, <2>10 DEF IInv, RestType
<1>4. ASSUME IInv, MapDone
      PROVE  IInv'
  <2>1. op.p \in Ports
    BY <1>4 DEF IInv, OpGood, MapDone, At, PortPcs, MapPcs
  <2>2. Good(dev')
    BY <1>4, <2>1, CqHelpersGood DEF IInv, MapDone
  <2>3. OpGood(op')
    BY <1>4 DEF MapDone, Idle, OpGood, OpType, HolderPcs, PortPcs, MapPcs
  <2> QED
    BY <1>4, <2>2, <2>3 DEF IInv, RestType, MapDone
<1> QED
  BY <1>1, <1>2, <1>3, <1>4

(* dlb2_hw_unmap_qid: the CQ is disabled before its slot is marked.        *)
LEMMA UnmapQidGood ==
  ASSUME IInv, NEW p \in Ports, NEW q \in Queues, UnmapQid(p, q)
  PROVE  IInv'
<1>1. ASSUME UnmapAbort(p, q)
      PROVE  IInv'
  <2> DEFINE s == find_slot_queue(dev, p, "MAP_IN_PROG", q)
             reopened == IF dev.queue_additions[q] = 0
                         THEN set_inflight_limit(dev, q) ELSE dev
  <2>1. s \in Slots
    BY <1>1, FindSlots DEF UnmapAbort
  <2>2. dev' = slot_state_transition(reopened, p, q, s, "UNMAPPED")
    BY <1>1 DEF UnmapAbort
  <2>3. Good(reopened)
    BY LimitHelpersGood DEF IInv
  <2> HIDE DEF s, reopened
  <2>4. Good(dev')
    BY <2>1, <2>2, <2>3, TransitionGood
  <2> QED
    BY <1>1, <2>4 DEF IInv, RestType, UnmapAbort
<1>2. ASSUME UnmapWithdraw(p, q)
      PROVE  IInv'
  <2> DEFINE s == find_slot_with_pending_map_queue(dev, p, q)
  <2>1. s \in Slots /\ dev.qid_map[p][s].state = "UNMAP_IN_PROG_PENDING_MAP"
    BY <1>2, FindSlots DEF UnmapWithdraw
  <2>2. dev' = slot_state_transition(dev, p, q, s, "UNMAP_IN_PROG")
    BY <1>2 DEF UnmapWithdraw
  <2> HIDE DEF s
  <2>3. Good(dev')
    BY <2>1, <2>2, TransitionGood DEF IInv
  <2> QED
    BY <1>2, <2>3 DEF IInv, RestType, UnmapWithdraw
<1>3. ASSUME UnmapStart(p, q)
      PROVE  IInv'
  <2> DEFINE s == find_slot_queue(dev, p, "MAPPED", q)
             off == cq_disable(dev, p)
             marked == slot_state_transition(off, p, q, s, "UNMAP_IN_PROG")
  <2>1. s \in Slots
    BY <1>3, FindSlots DEF UnmapStart
  <2>2. /\ dev' = IF CqDrained(p) THEN marked ELSE schedule_work(marked)
        /\ op' = IF CqDrained(p) THEN [Idle EXCEPT !.pc = "unmap_slots", !.p = p] ELSE op
    BY <1>3 DEF UnmapStart
  <2>3. Good(off) /\ off.cq_disabled[p]
    BY CqHelpersGood DEF IInv, Good, Dev, cq_disable
  <2> HIDE DEF s, off
  <2>4. Good(marked)
    BY <2>1, <2>3, TransitionGood
  <2> HIDE DEF marked
  <2>5. Good(dev')
    BY <2>2, <2>4, LimitHelpersGood
  <2>6. OpGood(op')
    BY <2>2 DEF IInv, Idle, OpGood, OpType, HolderPcs, PortPcs, MapPcs
  <2> QED
    BY <1>3, <2>5, <2>6 DEF IInv, RestType, UnmapStart
<1> QED
  BY <1>1, <1>2, <1>3 DEF UnmapQid

(* Ports enabled and disabled, the domain started and stopped.             *)
LEMMA PortDomainGood ==
  IInv /\ (\/ \E p \in Ports : EnablePort(p) \/ DisablePort(p)
           \/ StartDomain \/ StopDomain) => IInv'
<1>1. ASSUME IInv, NEW p \in Ports, EnablePort(p) \/ DisablePort(p)
      PROVE  IInv'
  <2>1. Good(dev')
    BY <1>1, CqHelpersGood DEF IInv, EnablePort, DisablePort
  <2> QED
    BY <1>1, <2>1 DEF IInv, RestType, EnablePort, DisablePort
<1>2. ASSUME IInv, StartDomain \/ StopDomain
      PROVE  IInv'
  <2>1. 0 \in 0 .. MaxInflights
    BY QidMapAssumption
  <2> QED
    BY <1>2, <2>1 DEF IInv, RestType, StartDomain, StopDomain
<1> QED
  BY <1>1, <1>2

(* The worker.                                                             *)
LEMMA WorkerGood ==
  IInv /\ (\/ WorkerStart \/ WorkerUnmapPort \/ WorkerUnmapDone \/ WorkerMapPort
           \/ FinishMapPortSlot \/ FinishMapPortDone \/ WorkerEnd) => IInv'
<1>1. ASSUME IInv, WorkerStart \/ WorkerEnd
      PROVE  IInv'
  <2>1. Good(dev')
    <3>1. \A flag \in BOOLEAN : /\ Good([dev EXCEPT !.work_queued = flag])
                                /\ Good([dev EXCEPT !.worker_launched = flag])
      BY <1>1, LimitHelpersGood DEF IInv
    <3>2. \E flag \in BOOLEAN : \/ dev' = [dev EXCEPT !.work_queued = flag]
                                \/ dev' = [dev EXCEPT !.worker_launched = flag]
      BY <1>1 DEF WorkerStart, WorkerEnd
    <3> QED
      BY <3>1, <3>2
  <2>2. OpGood(op')
    <3>1. \A ports \in SUBSET Ports :
            OpGood([Idle EXCEPT !.pc = "worker_unmap", !.todo = ports])
      BY DEF Idle, OpGood, OpType, HolderPcs, PortPcs, MapPcs
    <3>2. OpGood(Idle)
      BY DEF Idle, OpGood, OpType, HolderPcs, PortPcs, MapPcs
    <3>3. \/ op' = Idle
          \/ \E ports \in SUBSET Ports :
               op' = [Idle EXCEPT !.pc = "worker_unmap", !.todo = ports]
      <4>1. CASE WorkerStart /\ dev.removals = 0
        BY <4>1 DEF WorkerStart
      <4>2. CASE WorkerStart /\ dev.removals # 0
        BY <4>2 DEF WorkerStart
      <4> QED
        BY <1>1, <4>1, <4>2 DEF WorkerEnd
    <3> QED
      BY <3>1, <3>2, <3>3
  <2> QED
    BY <1>1, <2>1, <2>2 DEF IInv, RestType, WorkerStart, WorkerEnd
<1>2. ASSUME IInv, WorkerUnmapPort
      PROVE  IInv'
  <2>1. PICK p \in op.todo :
          op' = IF dev.port_removals[p] > 0 /\ CqDrained(p)
                THEN [op EXCEPT !.todo = @ \ {p}, !.pc = "unmap_slots", !.p = p,
                                !.caller = "worker_unmap"]
                ELSE [op EXCEPT !.todo = @ \ {p}]
    BY <1>2 DEF WorkerUnmapPort
  <2>2. op \in OpType /\ op.pc = "worker_unmap" /\ p \in Ports
    BY <1>2, <2>1 DEF IInv, OpGood, OpType, WorkerUnmapPort, At
  <2>3. OpGood(op')
    BY <2>1, <2>2 DEF OpGood, OpType, HolderPcs, PortPcs, MapPcs
  <2> QED
    BY <1>2, <2>3 DEF IInv, RestType, WorkerUnmapPort
<1>3. ASSUME IInv, WorkerUnmapDone \/ WorkerMapPort
      PROVE  IInv'
  <2>1. op \in OpType
    BY <1>3 DEF IInv, OpGood
  <2>2. OpGood(op')
    <3>1. CASE WorkerUnmapDone
      <4>1. \E ports \in SUBSET Ports :
              op' = [op EXCEPT !.pc = "worker_map", !.todo = ports]
        BY <3>1 DEF WorkerUnmapDone
      <4> QED
        BY <2>1, <4>1 DEF OpGood, OpType, HolderPcs, PortPcs, MapPcs
    <3>2. CASE WorkerMapPort
      <4>1. PICK p \in op.todo :
              op' = [op EXCEPT !.todo = @ \ {p}, !.pc = "map_slots", !.p = p]
        BY <3>2 DEF WorkerMapPort
      <4>2. p \in Ports
        BY <2>1 DEF OpType
      <4> QED
        BY <2>1, <4>1, <4>2 DEF OpGood, OpType, HolderPcs, PortPcs, MapPcs
    <3> QED
      BY <1>3, <3>1, <3>2
  <2> QED
    BY <1>3, <2>2 DEF IInv, RestType, WorkerUnmapDone, WorkerMapPort
<1>4. ASSUME IInv, FinishMapPortSlot
      PROVE  IInv'
  <2> DEFINE s == First({t \in SlotsWith(dev, op.p, {"MAP_IN_PROG"}) : t > op.s})
             q == dev.qid_map[op.p][s].qid
  <2>1. op.p \in Ports
    BY <1>4 DEF IInv, OpGood, FinishMapPortSlot, At, PortPcs, MapPcs
  <2>2. s \in Slots
    BY <1>4, FirstType DEF FinishMapPortSlot, SlotsWith
  <2>3. op' = IF QidDrained(q)
              THEN [op EXCEPT !.s = s, !.pc = "disable_cqs", !.then = "map_slots", !.mq = q]
              ELSE [op EXCEPT !.s = s]
    BY <1>4 DEF FinishMapPortSlot
  <2> HIDE DEF s
  <2>4. q \in Queues \cup {None}
    BY <1>4, <2>1, <2>2 DEF IInv, Good, Dev, SlotType
  <2> HIDE DEF q
  <2>5. OpGood(op')
    BY <1>4, <2>1, <2>2, <2>3, <2>4 DEF IInv, OpGood, OpType, HolderPcs, PortPcs, MapPcs
  <2> QED
    BY <1>4, <2>5 DEF IInv, RestType, FinishMapPortSlot
<1>5. ASSUME IInv, FinishMapPortDone
      PROVE  IInv'
  <2>1. OpGood(op')
    BY <1>5 DEF IInv, FinishMapPortDone, OpGood, OpType, HolderPcs, PortPcs, MapPcs
  <2> QED
    BY <1>5, <2>1 DEF IInv, RestType, FinishMapPortDone
<1> QED
  BY <1>1, <1>2, <1>3, <1>4, <1>5

(* The scheduler and the application.                                      *)
LEMMA EventsGood ==
  ASSUME IInv, NEW p \in Ports, NEW q \in Queues, Schedule(p, q) \/ Complete(p, q)
  PROVE  IInv'
<1>1. MaxInflights \in Nat /\ infl[p][q] \in 0 .. MaxInflights
  BY QidMapAssumption DEF IInv, RestType
<1>2. ASSUME Schedule(p, q)
      PROVE  IInv'
  <2> DEFINE lim == [dev.infl_lim EXCEPT ![q] = IF @ = "closing" THEN "zero" ELSE @]
  <2>1. dev' = [dev EXCEPT !.infl_lim = lim] /\ lim \in [Queues -> {"full", "closing", "zero"}]
    BY <1>2 DEF Schedule, IInv, Good, Dev
  <2> HIDE DEF lim
  <2>2. /\ dev' \in Dev
        /\ dev'.port_mappings = dev.port_mappings
        /\ dev'.port_removals = dev.port_removals
        /\ dev'.qid_map = dev.qid_map
        /\ dev'.cq_disabled = dev.cq_disabled
    BY <2>1 DEF IInv, Good, Dev
  <2>3. Good(dev')
    BY <2>2, SameSlotsGood DEF IInv
  <2>4. infl' \in [Ports -> [Queues -> 0 .. MaxInflights]]
    <3>1. infl[p][q] + 1 \in 0 .. MaxInflights
      BY <1>1, <1>2 DEF Schedule
    <3> QED
      BY <1>2, <3>1 DEF Schedule, IInv, RestType
  <2> QED
    BY <1>2, <2>3, <2>4 DEF Schedule, IInv, RestType
<1>3. ASSUME Complete(p, q)
      PROVE  IInv'
  <2>1. infl[p][q] - 1 \in 0 .. MaxInflights
    BY <1>1, <1>3 DEF Complete
  <2>2. infl' \in [Ports -> [Queues -> 0 .. MaxInflights]]
    BY <1>3, <2>1 DEF Complete, IInv, RestType
  <2> QED
    BY <1>3, <2>2 DEF Complete, IInv, RestType
<1> QED
  BY <1>2, <1>3

-----------------------------------------------------------------------------
(* Every step preserves the invariant.                                     *)
LEMMA NextGood == IInv /\ [Next]_vars => IInv'
<1>1. IInv /\ UNCHANGED vars => IInv'
  BY DEF IInv, RestType, vars
<1>2. IInv /\ Ioctl => IInv'
  BY MapGood, UnmapQidGood, PortDomainGood DEF Ioctl
<1>3. IInv /\ Holder => IInv'
  BY DynamicGood, FinishUnmapGood, MapGood, WorkerGood DEF Holder
<1>4. IInv /\ WorkerStart => IInv'
  BY WorkerGood
<1> QED
  BY <1>1, <1>2, <1>3, <1>4, EventsGood DEF Next

(* ... so it always holds.                                                 *)
LEMMA Inductive == Spec => []IInv
BY InitGood, NextGood, PTL DEF Spec

(* The counters are naturals because they count.                           *)
LEMMA InvType == IInv => TypeOK
<1> SUFFICES ASSUME IInv
             PROVE  TypeOK
  OBVIOUS
<1>1. ASSUME NEW p \in Ports
      PROVE  dev.port_mappings[p] \in Nat /\ dev.port_removals[p] \in Nat
  <2>1. /\ IsFiniteSet(SlotsWith(dev, p, InHardware))
        /\ IsFiniteSet(SlotsWith(dev, p, Removing))
    BY SlotsFinite, FS_Subset DEF SlotsWith
  <2> QED
    BY <2>1, FS_CardinalityType DEF IInv, Good, Counted
<1>2. dev.port_mappings \in [Ports -> Nat] /\ dev.port_removals \in [Ports -> Nat]
  BY <1>1 DEF IInv, Good, Dev
<1> QED
  BY <1>2 DEF TypeOK, IInv, Good, Dev, SlotType, RestType, OpGood, OpType

(* Every variable keeps its type; the ports' counters, decremented in five *)
(* places, never become negative.                                          *)
THEOREM TypeCorrect == Spec => []TypeOK
BY Inductive, InvType, PTL

(* The counters a port's guards read say how many of its slots the tables  *)
(* hold and how many wait for a removal.                                   *)
THEOREM CountersCorrect == Spec => []PortCounters
<1>1. IInv => PortCounters
  BY DEF IInv, Good, Counted, PortCounters
<1> QED
  BY <1>1, Inductive, PTL

(* HeldOff, with the counter a natural.                                    *)
LEMMA InvHeldOff == IInv => RemovalKeepsCqOff
BY InvType DEF IInv, Good, HeldOff, RemovalKeepsCqOff, TypeOK

(* A CQ with a removal pending is disabled, whatever happens meanwhile.    *)
THEOREM RemovalHoldsCq == Spec => []RemovalKeepsCqOff
BY InvHeldOff, Inductive, PTL

(* ... so no event reaches the CQ: only the scheduler adds one, and the    *)
(* scheduler is held off by the disabled CQ.                               *)
THEOREM RemovalDrains == Spec => RemovalOnlyDrains
<1> DEFINE Drains == \A p \in Ports : dev.port_removals[p] > 0 =>
                       \A q \in Queues : infl'[p][q] <= infl[p][q]
<1>1. ASSUME IInv, [Next]_vars
      PROVE  Drains
  <2>1. \A p \in Ports, q \in Queues : infl[p][q] \in 0 .. MaxInflights /\ infl[p][q] \in Int
    BY <1>1 DEF IInv, RestType
  <2>2. CASE UNCHANGED infl
    BY <2>1, <2>2
  <2>3. CASE StopDomain
    BY <2>1, <2>3 DEF StopDomain
  <2>4. ASSUME NEW p \in Ports, NEW q \in Queues, Schedule(p, q)
        PROVE  Drains
    <3>1. ~ (dev.port_removals[p] > 0)
      BY <1>1, <2>4, InvHeldOff DEF Schedule, RemovalKeepsCqOff
    <3>2. \A r \in Ports : r # p => infl'[r] = infl[r]
      BY <1>1, <2>4 DEF Schedule, IInv, RestType
    <3> QED
      BY <2>1, <3>1, <3>2
  <2>5. ASSUME NEW p \in Ports, NEW q \in Queues, Complete(p, q)
        PROVE  Drains
    <3>1. infl' = [infl EXCEPT ![p][q] = @ - 1]
      BY <2>5 DEF Complete
    <3>2. \A r \in Ports, t \in Queues : infl'[r][t] <= infl[r][t]
      BY <1>1, <2>1, <3>1 DEF IInv, RestType
    <3> QED
      BY <3>2
  <2>6. \/ UNCHANGED infl
        \/ StopDomain
        \/ \E p \in Ports, q \in Queues : Schedule(p, q) \/ Complete(p, q)
    <3>1. Holder => UNCHANGED infl
      BY DEF Holder, DisableCqs, Reread, FinishMapRead, WriteMap,
             FinishUnmapPortSlot, FinishUnmapPortDone, MapReject,
             MapAccept, MapDone, WorkerUnmapPort, WorkerUnmapDone, WorkerMapPort,
             FinishMapPortSlot, FinishMapPortDone, WorkerEnd
    <3>2. Ioctl => UNCHANGED infl \/ StopDomain
      BY DEF Ioctl, MapQid, UnmapQid, UnmapAbort, UnmapWithdraw, UnmapStart,
             EnablePort, DisablePort, StartDomain
    <3>3. WorkerStart => UNCHANGED infl
      BY DEF WorkerStart
    <3> QED
      BY <1>1, <3>1, <3>2, <3>3 DEF Next, vars
  <2> QED
    BY <2>2, <2>3, <2>4, <2>5, <2>6
<1>2. IInv /\ [Next]_vars => [Drains]_vars
  BY <1>1
<1> QED
  BY <1>2, Inductive, PTL DEF Spec, RemovalOnlyDrains

-----------------------------------------------------------------------------
(* The device's table, CQ2QID: who writes it.                              *)

(* Everything but the static map and the unmap leaves it alone.            *)
LEMMA HelpersKeepTable ==
  ASSUME NEW d, Good(d), NEW p, NEW q, NEW s, NEW new
  PROVE  /\ cq_enable(d, p).cq2qid = d.cq2qid
         /\ cq_disable(d, p).cq2qid = d.cq2qid
         /\ enable_if_wanted(d, p).cq2qid = d.cq2qid
         /\ disable_if_wanted(d, p).cq2qid = d.cq2qid
         /\ enable_mapped_cqs(d, q).cq2qid = d.cq2qid
         /\ disable_mapped_cqs(d, q).cq2qid = d.cq2qid
         /\ set_inflight_limit(d, q).cq2qid = d.cq2qid
         /\ zero_inflight_limit(d, q).cq2qid = d.cq2qid
         /\ schedule_work(d).cq2qid = d.cq2qid
         /\ slot_state_transition(d, p, q, s, new).cq2qid = d.cq2qid
<1>1. d \in Dev
  BY DEF Good
<1>2. cq_enable(d, p).cq2qid = d.cq2qid /\ cq_disable(d, p).cq2qid = d.cq2qid
  BY <1>1 DEF Dev, cq_enable, cq_disable
<1>3. /\ enable_if_wanted(d, p).cq2qid = d.cq2qid
      /\ disable_if_wanted(d, p).cq2qid = d.cq2qid
  BY <1>2 DEF enable_if_wanted, disable_if_wanted
<1>4. /\ enable_mapped_cqs(d, q).cq2qid = d.cq2qid
      /\ disable_mapped_cqs(d, q).cq2qid = d.cq2qid
  BY <1>1 DEF Dev, enable_mapped_cqs, disable_mapped_cqs
<1>5. /\ set_inflight_limit(d, q).cq2qid = d.cq2qid
      /\ zero_inflight_limit(d, q).cq2qid = d.cq2qid
      /\ schedule_work(d).cq2qid = d.cq2qid
  BY <1>1 DEF Dev, set_inflight_limit, zero_inflight_limit, schedule_work
<1>6. slot_state_transition(d, p, q, s, new).cq2qid = d.cq2qid
  BY <1>1 DEF Dev, slot_state_transition
<1> QED
  BY <1>2, <1>3, <1>4, <1>5, <1>6

(* The head of a dynamic map does not write it.                            *)
LEMMA BeginKeepsTable ==
  ASSUME NEW d, Good(d), NEW p \in Ports, NEW q \in Queues \cup {None}
  PROVE  begin_map_qid_dynamic(d, p, q).cq2qid = d.cq2qid
<1> DEFINE s == find_slot(d, p, "UNMAPPED")
           stopped == zero_inflight_limit(d, q)
           claimed == [stopped EXCEPT !.qid_map[p][s].qid = q]
<1>1. s \in Slots \cup {0}
  BY FindSlots
<1>2. begin_map_qid_dynamic(d, p, q)
        = IF s = 0 THEN stopped ELSE slot_state_transition(claimed, p, q, s, "MAP_IN_PROG")
  BY DEF begin_map_qid_dynamic
<1>3. Good(stopped) /\ stopped.cq2qid = d.cq2qid
  BY LimitHelpersGood, HelpersKeepTable
<1> HIDE DEF s, stopped
<1>4. CASE s # 0
  <2>1. Good(claimed) /\ claimed.cq2qid = stopped.cq2qid
    BY <1>1, <1>3, <1>4, NamesGood DEF Good, Dev
  <2> HIDE DEF claimed
  <2> QED
    BY <1>2, <1>3, <1>4, <2>1, HelpersKeepTable
<1> QED
  BY <1>2, <1>3, <1>4

(* One entry is written.                                                   *)
LEMMA TableWrite ==
  ASSUME NEW d, Good(d), NEW p \in Ports, NEW s \in Slots, NEW v \in Queues \cup {None},
         NEW r \in Ports, NEW t \in Slots
  PROVE  /\ Good([d EXCEPT !.cq2qid[p][s] = v])
         /\ [d EXCEPT !.cq2qid[p][s] = v].cq2qid[r][t] \in {d.cq2qid[r][t], v}
<1>1. d \in Dev /\ d.cq2qid \in [Ports -> [Slots -> Queues \cup {None}]]
  BY DEF Good, Dev
<1> DEFINE f == [d.cq2qid[p] EXCEPT ![s] = v]
           g == [d.cq2qid EXCEPT ![p] = f]
<1>2. [d EXCEPT !.cq2qid[p][s] = v].cq2qid = g
  BY <1>1 DEF Dev
<1>3. f[t] \in {d.cq2qid[p][t], v}
  BY <1>1
<1> HIDE DEF f
<1>4. g[r][t] \in {d.cq2qid[r][t], v}
  BY <1>1, <1>3
<1> QED
  BY <1>2, <1>4, NamesGood

(* An unmap only clears.                                                   *)
LEMMA UnmapClearsTable ==
  ASSUME NEW d, Good(d), NEW p \in Ports, NEW q, NEW r \in Ports, NEW t \in Slots
  PROVE  unmap_qid(d, p, q).cq2qid[r][t] \in {d.cq2qid[r][t], None}
<1> DEFINE mapped  == find_slot_queue(d, p, "MAPPED", q)
           unmap   == find_slot_queue(d, p, "UNMAP_IN_PROG", q)
           pending == find_slot_queue(d, p, "UNMAP_IN_PROG_PENDING_MAP", q)
           s == IF mapped # 0 THEN mapped ELSE IF unmap # 0 THEN unmap ELSE pending
           cleared == [d EXCEPT !.cq2qid[p][s] = None]
<1>1. s \in Slots \cup {0}
  BY FindSlots
<1>2. unmap_qid(d, p, q) = IF s = 0 THEN d
                           ELSE slot_state_transition(cleared, p, q, s, "UNMAPPED")
  BY DEF unmap_qid
<1> HIDE DEF s
<1>3. CASE s # 0
  <2>1. Good(cleared) /\ cleared.cq2qid[r][t] \in {d.cq2qid[r][t], None}
    BY <1>1, <1>3, TableWrite
  <2> HIDE DEF cleared
  <2> QED
    BY <1>2, <1>3, <2>1, HelpersKeepTable
<1> QED
  BY <1>2, <1>3

(* The tail of a map writes the queue it maps.                             *)
LEMMA FinishMapTable ==
  ASSUME NEW d, Good(d), NEW p \in Ports, NEW q \in Queues \cup {None},
         NEW r \in Ports, NEW t \in Slots
  PROVE  finish_map_qid_dynamic(d, p, q).cq2qid[r][t] \in {d.cq2qid[r][t], q}
<1> DEFINE static == map_qid_static(d, p, q)
           limited == set_inflight_limit(static, q)
           mapped == enable_mapped_cqs(limited, q)
<1>1. Good(static) /\ static.cq2qid[r][t] \in {d.cq2qid[r][t], q}
  <2> DEFINE prog == find_slot_queue(d, p, "MAP_IN_PROG", q)
             same == find_slot_queue(d, p, "MAPPED", q)
             free == find_slot(d, p, "UNMAPPED")
             s == IF prog # 0 THEN prog ELSE IF same # 0 THEN same ELSE free
             inTable == [d EXCEPT !.cq2qid[p][s] = q]
             written == [inTable EXCEPT !.qid_map[p][s].qid = q]
  <2>1. s \in Slots \cup {0}
    BY FindSlots
  <2>2. map_qid_static(d, p, q) = IF s = 0 THEN d
                                  ELSE slot_state_transition(written, p, q, s, "MAPPED")
    BY DEF map_qid_static
  <2> HIDE DEF s
  <2>3. CASE s # 0
    <3>1. Good(inTable) /\ inTable.cq2qid[r][t] \in {d.cq2qid[r][t], q}
      BY <2>1, <2>3, TableWrite
    <3> HIDE DEF inTable
    <3>2. Good(written) /\ written.cq2qid = inTable.cq2qid
      BY <2>1, <2>3, <3>1, NamesGood DEF Good, Dev
    <3> HIDE DEF written
    <3> QED
      BY <2>2, <2>3, <3>1, <3>2, HelpersKeepTable, StaticGood
  <2> QED
    BY <2>2, <2>3, StaticGood
<1> HIDE DEF static
<1>2. Good(limited) /\ limited.cq2qid = static.cq2qid
  BY <1>1, LimitHelpersGood, HelpersKeepTable
<1> HIDE DEF limited
<1>3. Good(mapped) /\ mapped.cq2qid = limited.cq2qid
  <2>1. Good(enable_mapped_cqs(limited, q))
    BY <1>2, CqHelpersGood
  <2> QED
    BY <1>2, <2>1, HelpersKeepTable
<1> HIDE DEF mapped
<1>4. finish_map_qid_dynamic(d, p, q)
        = IF mapped.queue_additions[q] > 0 THEN zero_inflight_limit(mapped, q) ELSE mapped
  BY DEF finish_map_qid_dynamic, mapped, limited, static
<1> QED
  BY <1>1, <1>2, <1>3, <1>4, HelpersKeepTable

(* In a running domain map_qid itself writes nothing to the table.         *)
LEMMA MapQidKeepsTable ==
  ASSUME NEW d, Good(d), NEW p \in Ports, NEW q \in Queues \cup {None}, NEW return,
         domain = "started", map_qid(d, p, q, return)
  PROVE  dev'.cq2qid = d.cq2qid
<1>1. /\ Good(begin_map_qid_dynamic(d, p, q))
      /\ begin_map_qid_dynamic(d, p, q).cq2qid = d.cq2qid
  BY BeginMapGood, BeginKeepsTable
<1>2. schedule_work(begin_map_qid_dynamic(d, p, q)).cq2qid = d.cq2qid
  BY <1>1, HelpersKeepTable
<1> QED
  BY <1>1, <1>2 DEF map_qid

(* What a step may write into one entry of the table.                      *)
Written(r, t) == dev'.cq2qid[r][t] \in {dev.cq2qid[r][t], None}

(* The loop over a port's removals writes no queue.                        *)
LEMMA FinishUnmapTable ==
  ASSUME IInv, domain = "started", FinishUnmapPortSlot, NEW r \in Ports, NEW t \in Slots
  PROVE  Written(r, t)
<1> DEFINE p == op.p
           s == First({x \in SlotsWith(dev, p, Removing) : x > op.s})
           slot == dev.qid_map[p][s]
           freed == unmap_qid(dev, p, slot.qid)
           unmapped == enable_if_wanted(freed, p)
           renamed == IF unmapped.qid_map[p][s].state = "UNMAPPED" THEN unmapped
                      ELSE [unmapped EXCEPT !.qid_map[p][s].qid = slot.pending_qid]
           next == [op EXCEPT !.s = s]
<1>1. p \in Ports
  BY DEF IInv, OpGood, FinishUnmapPortSlot, At, PortPcs, MapPcs
<1>2. s \in Slots /\ {x \in SlotsWith(dev, p, Removing) : x > op.s} \in SUBSET Slots
  BY FirstType DEF FinishUnmapPortSlot, SlotsWith
<1>3. dev' = unmapped \/ map_qid(renamed, p, slot.pending_qid, next)
  BY DEF FinishUnmapPortSlot
<1> HIDE DEF s, next
<1>4. slot.pending_qid \in Queues \cup {None}
  BY <1>1, <1>2 DEF IInv, Good, Dev, SlotType
<1>5. Good(freed) /\ freed.cq2qid[r][t] \in {dev.cq2qid[r][t], None}
  BY <1>1, UnmapGood, UnmapClearsTable DEF IInv
<1> HIDE DEF freed
<1>6. Good(unmapped) /\ unmapped.cq2qid = freed.cq2qid
  BY <1>1, <1>5, CqHelpersGood, HelpersKeepTable
<1> HIDE DEF unmapped
<1>7. Good(renamed) /\ renamed.cq2qid = unmapped.cq2qid
  <2>1. Good([unmapped EXCEPT !.qid_map[p][s].qid = slot.pending_qid])
    BY <1>1, <1>2, <1>4, <1>6, NamesGood
  <2>2. [unmapped EXCEPT !.qid_map[p][s].qid = slot.pending_qid].cq2qid = unmapped.cq2qid
    BY <1>6 DEF Good, Dev
  <2> QED
    BY <1>6, <2>1, <2>2
<1> HIDE DEF renamed, slot, p
<1>8. map_qid(renamed, p, slot.pending_qid, next) => dev'.cq2qid = renamed.cq2qid
  BY <1>1, <1>4, <1>7, MapQidKeepsTable
<1> QED
  BY <1>3, <1>5, <1>6, <1>7, <1>8 DEF Written

(* A map request writes nothing before its last step.                      *)
LEMMA MapTable ==
  ASSUME IInv, domain = "started", MapAccept, NEW r \in Ports, NEW t \in Slots
  PROVE  Written(r, t)
<1> DEFINE p == op.p
           q == op.q
           d == disable_if_wanted(dev, p)
           unmap   == find_slot_queue(d, p, "UNMAP_IN_PROG", q)
           parking == find_slot(d, p, "UNMAP_IN_PROG")
           named == [d EXCEPT !.qid_map[p][parking].pending_qid = q]
           done == [op EXCEPT !.pc = "map_done"]
<1>1. p \in Ports /\ q \in Queues \cup {None}
  BY DEF IInv, OpGood, OpType, MapAccept, At, PortPcs, MapPcs
<1>2. \/ dev' = d
      \/ dev' = slot_state_transition(d, p, q, unmap, "MAPPED")
      \/ /\ parking # 0
         /\ dev' = slot_state_transition(named, p, q, parking, "UNMAP_IN_PROG_PENDING_MAP")
      \/ map_qid(d, p, q, done)
      \/ dev' = begin_map_qid_dynamic(d, p, q)
  BY DEF MapAccept
<1>3. Good(d) /\ d.cq2qid = dev.cq2qid
  BY <1>1, CqHelpersGood, HelpersKeepTable DEF IInv
<1>4. parking \in Slots \cup {0}
  BY FindSlots
<1> HIDE DEF p, q, d, unmap, parking, done
<1>5. parking # 0 => Good(named) /\ named.cq2qid = d.cq2qid
  BY <1>1, <1>3, <1>4, NamesGood DEF Good, Dev
<1> HIDE DEF named
<1>6. /\ slot_state_transition(d, p, q, unmap, "MAPPED").cq2qid = d.cq2qid
      /\ parking # 0 =>
           slot_state_transition(named, p, q, parking, "UNMAP_IN_PROG_PENDING_MAP").cq2qid
             = d.cq2qid
  BY <1>3, <1>5, HelpersKeepTable
<1>7. map_qid(d, p, q, done) => dev'.cq2qid = d.cq2qid
  BY <1>1, <1>3, MapQidKeepsTable
<1>8. begin_map_qid_dynamic(d, p, q).cq2qid = d.cq2qid
  BY <1>1, <1>3, BeginKeepsTable
<1> QED
  BY <1>2, <1>3, <1>6, <1>7, <1>8 DEF Written

(* An unmap request only marks.                                            *)
LEMMA UnmapTable ==
  ASSUME IInv, NEW p \in Ports, NEW q \in Queues, UnmapQid(p, q),
         NEW r \in Ports, NEW t \in Slots
  PROVE  Written(r, t)
<1>0. Good(dev)
  BY DEF IInv
<1>1. CASE UnmapAbort(p, q)
  <2> DEFINE reopened == IF dev.queue_additions[q] = 0
                         THEN set_inflight_limit(dev, q) ELSE dev
             s == find_slot_queue(dev, p, "MAP_IN_PROG", q)
  <2>1. dev' = slot_state_transition(reopened, p, q, s, "UNMAPPED")
    BY <1>1 DEF UnmapAbort
  <2>2. Good(reopened) /\ reopened.cq2qid = dev.cq2qid
    BY <1>0, LimitHelpersGood, HelpersKeepTable
  <2> HIDE DEF reopened, s
  <2> QED
    BY <2>1, <2>2, HelpersKeepTable DEF Written
<1>2. CASE UnmapWithdraw(p, q)
  BY <1>0, <1>2, HelpersKeepTable DEF UnmapWithdraw, Written
<1>3. CASE UnmapStart(p, q)
  <2> DEFINE off == cq_disable(dev, p)
             s == find_slot_queue(dev, p, "MAPPED", q)
             marked == slot_state_transition(off, p, q, s, "UNMAP_IN_PROG")
  <2>1. dev' = (IF CqDrained(p) THEN marked ELSE schedule_work(marked)) /\ s \in Slots
    BY <1>3, FindSlots DEF UnmapStart
  <2>2. Good(off) /\ off.cq_disabled[p] /\ off.cq2qid = dev.cq2qid
    <3>1. off.cq_disabled[p]
      BY <1>0 DEF Good, Dev, cq_disable
    <3> QED
      BY <1>0, <3>1, CqHelpersGood, HelpersKeepTable
  <2> HIDE DEF s, off
  <2>3. Good(marked) /\ marked.cq2qid = dev.cq2qid
    BY <2>1, <2>2, TransitionGood, HelpersKeepTable
  <2> HIDE DEF marked
  <2> QED
    BY <2>1, <2>3, HelpersKeepTable DEF Written
<1> QED
  BY <1>1, <1>2, <1>3 DEF UnmapQid

(* The last step of a dynamic map writes its queue, the earlier ones none. *)
LEMMA DynamicTable ==
  ASSUME IInv, DisableCqs \/ Reread \/ FinishMapRead \/ WriteMap,
         NEW r \in Ports, NEW t \in Slots
  PROVE  \/ Written(r, t)
         \/ op.pc = "write_map" /\ dev'.cq2qid[r][t] = op.mq
<1>1. Good(dev) /\ op.p \in Ports /\ op.mq \in Queues \cup {None}
  BY DEF IInv, OpGood, OpType, DisableCqs, Reread, FinishMapRead, WriteMap, At, PortPcs, MapPcs
<1>2. CASE DisableCqs
  <2> DEFINE half == disable_if_wanted(dev, op.p)
  <2>1. Good(half) /\ half.cq2qid = dev.cq2qid
    BY <1>1, CqHelpersGood, HelpersKeepTable
  <2>2. dev' = disable_mapped_cqs(half, op.mq)
    BY <1>2 DEF DisableCqs
  <2> HIDE DEF half
  <2> QED
    BY <2>1, <2>2, HelpersKeepTable DEF Written
<1>3. CASE Reread
  <2> DEFINE half == enable_if_wanted(dev, op.p)
             on == enable_mapped_cqs(half, op.mq)
  <2>1. Good(half) /\ half.cq2qid = dev.cq2qid
    BY <1>1, CqHelpersGood, HelpersKeepTable
  <2>2. dev' = dev \/ dev' = schedule_work(on)
    BY <1>3 DEF Reread
  <2> HIDE DEF half
  <2>3. Good(on) /\ on.cq2qid = dev.cq2qid
    BY <1>1, <2>1, CqHelpersGood, HelpersKeepTable
  <2> HIDE DEF on
  <2> QED
    BY <2>2, <2>3, HelpersKeepTable DEF Written
<1>4. CASE FinishMapRead
  BY <1>4 DEF FinishMapRead, Written
<1>5. CASE WriteMap
  BY <1>1, <1>5, FinishMapTable DEF WriteMap, At, Written
<1> QED
  BY <1>2, <1>3, <1>4, <1>5

(* In a running domain only that step writes a queue into the table.       *)
LEMMA StepTable ==
  ASSUME IInv, [Next]_vars, domain = "started", NEW p \in Ports, NEW s \in Slots
  PROVE  Written(p, s) \/ (op.pc = "write_map" /\ dev'.cq2qid[p][s] = op.mq)
<1>1. CASE UNCHANGED dev
  BY <1>1 DEF Written
<1>2. CASE Ioctl
  <2>1. (\E r \in Ports, q \in Queues : MapQid(r, q)) \/ StartDomain \/ StopDomain
          => UNCHANGED dev
    BY DEF MapQid, StartDomain, StopDomain
  <2>2. ASSUME NEW r \in Ports, NEW q \in Queues, UnmapQid(r, q)
        PROVE  Written(p, s)
    BY <2>2, UnmapTable
  <2>3. ASSUME NEW r \in Ports, EnablePort(r) \/ DisablePort(r)
        PROVE  Written(p, s)
    BY <2>3, HelpersKeepTable DEF EnablePort, DisablePort, Written, IInv
  <2> QED
    BY <1>1, <1>2, <2>1, <2>2, <2>3 DEF Ioctl
<1>3. CASE Holder
  <2>1. FinishUnmapPortSlot \/ MapAccept => Written(p, s)
    BY FinishUnmapTable, MapTable
  <2>2. MapDone => Written(p, s)
    BY HelpersKeepTable DEF MapDone, Written, IInv
  <2>3. WorkerEnd => dev'.cq2qid = dev.cq2qid
    BY DEF WorkerEnd, IInv, Good, Dev
  <2>4. \/ FinishUnmapPortDone \/ MapReject \/ WorkerUnmapPort \/ WorkerUnmapDone
        \/ WorkerMapPort \/ FinishMapPortSlot \/ FinishMapPortDone
        => UNCHANGED dev
    BY DEF FinishUnmapPortDone, MapReject, WorkerUnmapPort, WorkerUnmapDone,
           WorkerMapPort, FinishMapPortSlot, FinishMapPortDone
  <2> QED
    BY <1>1, <1>3, <2>1, <2>2, <2>3, <2>4, DynamicTable DEF Holder, Written
<1>4. CASE WorkerStart \/ \E r \in Ports, q \in Queues : Schedule(r, q) \/ Complete(r, q)
  <2>1. dev'.cq2qid = dev.cq2qid
    BY <1>4 DEF WorkerStart, Schedule, Complete, IInv, Good, Dev
  <2> QED
    BY <2>1 DEF Written
<1> QED
  BY <1>1, <1>2, <1>3, <1>4 DEF Next, vars

-----------------------------------------------------------------------------
(* What the helpers write.                                                 *)

(* Entry (p, s) of a table.                                                *)
Put(f, p, s, v) == [f EXCEPT ![p] = [f[p] EXCEPT ![s] = v]]

(* The slot m in its new state.                                            *)
Kept(m, new) ==
  [state |-> new,
   qid |-> IF new = "UNMAPPED" THEN None ELSE m.qid,
   pending_qid |-> IF new = "UNMAP_IN_PROG_PENDING_MAP" THEN m.pending_qid ELSE None]

(* A transition of the table writes one slot and adds to the counters.     *)
LEMMA TransitionEffect ==
  ASSUME NEW d \in Dev, NEW p \in Ports, NEW q, NEW s \in Slots, NEW new,
         <<d.qid_map[p][s].state, new>> \in Transitions
  PROVE  LET old == d.qid_map[p][s].state
             n == slot_state_transition(d, p, q, s, new) IN
         /\ n.qid_map = Put(d.qid_map, p, s, Kept(d.qid_map[p][s], new))
         /\ n.cq_disabled = d.cq_disabled
         /\ n.cq2qid = d.cq2qid
         /\ n.port_removals = Bump(d.port_removals, p, RemovalsDelta(old, new))
         /\ n.queue_mappings = Bump(d.queue_mappings, q, MappingsDelta(old, new))
         /\ n.queue_additions = Bump(d.queue_additions, q, AdditionsDelta(old, new))
         /\ n.additions = d.additions + AdditionsDelta(old, new)
         /\ n.removals = d.removals + RemovalsDelta(old, new)
<1> DEFINE old == d.qid_map[p][s].state
           kept == [state |-> new,
                    qid |-> IF new = "UNMAPPED" THEN None ELSE d.qid_map[p][s].qid,
                    pending_qid |-> IF new = "UNMAP_IN_PROG_PENDING_MAP"
                                    THEN d.qid_map[p][s].pending_qid ELSE None]
           n == slot_state_transition(d, p, q, s, new)
<1>1. n = [d EXCEPT !.qid_map[p][s]   = kept,
                    !.port_mappings[p]  = @ + MappingsDelta(old, new),
                    !.queue_mappings[q] = @ + MappingsDelta(old, new),
                    !.queue_additions[q] = @ + AdditionsDelta(old, new),
                    !.additions          = @ + AdditionsDelta(old, new),
                    !.port_removals[p]  = @ + RemovalsDelta(old, new),
                    !.removals          = @ + RemovalsDelta(old, new)]
  BY DEF slot_state_transition
<1>7. kept = Kept(d.qid_map[p][s], new)
  BY DEF Kept
<1> HIDE DEF n, kept
<1>2. n.qid_map = Put(d.qid_map, p, s, kept)
  BY <1>1 DEF Dev, Put
<1>3. n.cq_disabled = d.cq_disabled /\ n.cq2qid = d.cq2qid
  BY <1>1 DEF Dev
<1>4. n.port_removals = Bump(d.port_removals, p, RemovalsDelta(old, new))
  BY <1>1 DEF Dev, Bump
<1>5. /\ n.queue_mappings = Bump(d.queue_mappings, q, MappingsDelta(old, new))
      /\ n.queue_additions = Bump(d.queue_additions, q, AdditionsDelta(old, new))
  BY <1>1 DEF Dev, Bump
<1>6. /\ n.additions = d.additions + AdditionsDelta(old, new)
      /\ n.removals = d.removals + RemovalsDelta(old, new)
  BY <1>1 DEF Dev
<1> QED
  BY <1>2, <1>3, <1>4, <1>5, <1>6, <1>7 DEF n

(* Reading an entry back.                                                  *)
LEMMA PutRead ==
  ASSUME NEW X, NEW f \in [Ports -> [Slots -> X]], NEW p \in Ports, NEW s \in Slots,
         NEW v \in X
  PROVE  /\ Put(f, p, s, v) \in [Ports -> [Slots -> X]]
         /\ \A r \in Ports : r # p => Put(f, p, s, v)[r] = f[r]
         /\ \A t \in Slots : t # s => Put(f, p, s, v)[p][t] = f[p][t]
         /\ Put(f, p, s, v)[p][s] = v
BY DEF Put

LEMMA PutTwice ==
  ASSUME NEW f, NEW p \in Ports, NEW s \in Slots, NEW v, NEW w,
         f \in [Ports -> [Slots -> SlotType]]
  PROVE  Put(Put(f, p, s, w), p, s, v) = Put(f, p, s, v)
<1>1. Put(f, p, s, w)[p] = [f[p] EXCEPT ![s] = w]
  BY DEF Put
<1>2. [Put(f, p, s, w)[p] EXCEPT ![s] = v] = [f[p] EXCEPT ![s] = v]
  BY <1>1
<1> DEFINE g == [f[p] EXCEPT ![s] = v]
           h == [f[p] EXCEPT ![s] = w]
<1>3. Put(Put(f, p, s, w), p, s, v) = [[f EXCEPT ![p] = h] EXCEPT ![p] = g]
  BY <1>2 DEF Put
<1> HIDE DEF g, h
<1> QED
  BY <1>3 DEF Put, g

(* Something is found exactly if it is there.                              *)
LEMMA FoundState ==
  ASSUME NEW d, NEW p, NEW state
  PROVE  find_slot(d, p, state) # 0
           <=> \E s \in Slots : d.qid_map[p][s].state = state
<1>1. First(SlotsWith(d, p, {state})) # 0 <=> SlotsWith(d, p, {state}) # {}
  BY FirstIn, SlotsFinite DEF First, SlotsWith
<1> QED
  BY <1>1 DEF find_slot, SlotsWith

LEMMA Found ==
  ASSUME NEW d, NEW p, NEW q, NEW state
  PROVE  find_slot_queue(d, p, state, q) # 0
           <=> \E s \in Slots : d.qid_map[p][s].state = state /\ d.qid_map[p][s].qid = q
<1> DEFINE S == {s \in SlotsWith(d, p, {state}) : d.qid_map[p][s].qid = q}
<1>1. S \in SUBSET Slots
  BY DEF SlotsWith
<1>2. First(S) # 0 <=> S # {}
  BY <1>1, FirstIn, SlotsFinite DEF First
<1> QED
  BY <1>2 DEF find_slot_queue, SlotsWith

(* The two records agree on all but the registers and the worker's flags.  *)
SameBooks(e, d) ==
  /\ e.qid_map = d.qid_map
  /\ e.cq2qid = d.cq2qid
  /\ e.port_removals = d.port_removals
  /\ e.queue_mappings = d.queue_mappings
  /\ e.queue_additions = d.queue_additions
  /\ e.additions = d.additions
  /\ e.removals = d.removals

(* Helpers that write one register or start the worker do nothing else.    *)
LEMMA RegisterHelpers ==
  ASSUME NEW d \in Dev, NEW p, NEW q
  PROVE  /\ SameBooks(cq_enable(d, p), d) /\ SameBooks(cq_disable(d, p), d)
         /\ SameBooks(enable_if_wanted(d, p), d) /\ SameBooks(disable_if_wanted(d, p), d)
         /\ SameBooks(enable_mapped_cqs(d, q), d) /\ SameBooks(disable_mapped_cqs(d, q), d)
         /\ SameBooks(set_inflight_limit(d, q), d)
         /\ SameBooks(zero_inflight_limit(d, q), d)
         /\ SameBooks(schedule_work(d), d)
         /\ set_inflight_limit(d, q).cq_disabled = d.cq_disabled
         /\ zero_inflight_limit(d, q).cq_disabled = d.cq_disabled
         /\ schedule_work(d).cq_disabled = d.cq_disabled
<1>1. SameBooks(cq_enable(d, p), d) /\ SameBooks(cq_disable(d, p), d)
  BY DEF Dev, SameBooks, cq_enable, cq_disable
<1>2. SameBooks(enable_if_wanted(d, p), d) /\ SameBooks(disable_if_wanted(d, p), d)
  <2>1. SameBooks(d, d)
    BY DEF SameBooks
  <2> QED
    BY <1>1, <2>1 DEF enable_if_wanted, disable_if_wanted
<1>3. SameBooks(enable_mapped_cqs(d, q), d) /\ SameBooks(disable_mapped_cqs(d, q), d)
  BY DEF Dev, SameBooks, enable_mapped_cqs, disable_mapped_cqs
<1>4. /\ SameBooks(set_inflight_limit(d, q), d)
      /\ SameBooks(zero_inflight_limit(d, q), d)
      /\ set_inflight_limit(d, q).cq_disabled = d.cq_disabled
      /\ zero_inflight_limit(d, q).cq_disabled = d.cq_disabled
  BY DEF Dev, SameBooks, set_inflight_limit, zero_inflight_limit
<1>5. SameBooks(schedule_work(d), d) /\ schedule_work(d).cq_disabled = d.cq_disabled
  BY DEF Dev, SameBooks, schedule_work
<1> QED
  BY <1>1, <1>2, <1>3, <1>4, <1>5

(* What they write to the CQ enable bits.                                  *)
LEMMA CqEffect ==
  ASSUME NEW d \in Dev, NEW p \in Ports, NEW q, NEW r \in Ports
  PROVE  /\ cq_enable(d, p).cq_disabled[r]
              = (d.cq_disabled[r] /\ (r # p \/ d.port_removals[p] # 0))
         /\ cq_disable(d, p).cq_disabled[r] = (d.cq_disabled[r] \/ r = p)
         /\ enable_if_wanted(d, p).cq_disabled[r]
              = (d.cq_disabled[r] /\ (r # p \/ ~enabled[p] \/ d.port_removals[p] # 0))
         /\ disable_if_wanted(d, p).cq_disabled[r]
              = (d.cq_disabled[r] \/ (r = p /\ enabled[p]))
         /\ enable_mapped_cqs(d, q).cq_disabled[r]
              = (d.cq_disabled[r] /\ ~ (/\ HasMapped(d, r, q) /\ enabled[r]
                                        /\ d.port_removals[r] = 0))
         /\ disable_mapped_cqs(d, q).cq_disabled[r]
              = (d.cq_disabled[r] \/ (HasMapped(d, r, q) /\ enabled[r]))
<1> QED
  BY DEF Dev, cq_enable, cq_disable, enable_if_wanted, disable_if_wanted, enable_mapped_cqs, disable_mapped_cqs

LEMMA EnableWantedEffect ==
  ASSUME NEW d \in Dev, NEW p \in Ports
  PROVE  \A r \in Ports : enable_if_wanted(d, p).cq_disabled[r]
            = (d.cq_disabled[r] /\ (r # p \/ ~enabled[p] \/ d.port_removals[p] # 0))
BY CqEffect

LEMMA DisableWantedEffect ==
  ASSUME NEW d \in Dev, NEW p \in Ports
  PROVE  \A r \in Ports : disable_if_wanted(d, p).cq_disabled[r]
            = (d.cq_disabled[r] \/ (r = p /\ enabled[p]))
BY CqEffect

LEMMA BumpZero ==
  ASSUME NEW S, NEW f \in [S -> Int], NEW x
  PROVE  Bump(f, x, 0) = f
<1>1. \A y \in S : f[y] + 0 = f[y]
  OBVIOUS
<1>2. Bump(f, x, 0) = [y \in S |-> IF y = x THEN f[x] + 0 ELSE f[y]]
  BY DEF Bump
<1>3. [y \in S |-> IF y = x THEN f[x] + 0 ELSE f[y]] = [y \in S |-> f[y]]
  BY <1>1
<1> QED
  BY <1>2, <1>3

(* The slot that a static map fills ...                                    *)
StaticSlot(d, p, q) ==
  LET prog == find_slot_queue(d, p, "MAP_IN_PROG", q)
      same == find_slot_queue(d, p, "MAPPED", q)
      free == find_slot(d, p, "UNMAPPED")
  IN  IF prog # 0 THEN prog ELSE IF same # 0 THEN same ELSE free

(* ... is one that the queue has, in progress if possible, or a free one.  *)
LEMMA StaticSlotIs ==
  ASSUME NEW d, NEW p, NEW q, NEW s, s = StaticSlot(d, p, q)
  PROVE  /\ s \in Slots \cup {0}
         /\ (\E t \in Slots : \/ d.qid_map[p][t].state = "UNMAPPED"
                              \/ /\ d.qid_map[p][t].state \in {"MAPPED", "MAP_IN_PROG"}
                                 /\ d.qid_map[p][t].qid = q) => s # 0
         /\ s # 0 =>
              \/ d.qid_map[p][s].state = "MAP_IN_PROG" /\ d.qid_map[p][s].qid = q
              \/ /\ d.qid_map[p][s].state = "MAPPED" /\ d.qid_map[p][s].qid = q
                 /\ \A t \in Slots : ~ (/\ d.qid_map[p][t].state = "MAP_IN_PROG"
                                        /\ d.qid_map[p][t].qid = q)
              \/ /\ d.qid_map[p][s].state = "UNMAPPED"
                 /\ \A t \in Slots : ~ (/\ d.qid_map[p][t].state \in {"MAPPED", "MAP_IN_PROG"}
                                        /\ d.qid_map[p][t].qid = q)
<1> DEFINE prog == find_slot_queue(d, p, "MAP_IN_PROG", q)
           same == find_slot_queue(d, p, "MAPPED", q)
           free == find_slot(d, p, "UNMAPPED")
<1>1. s = IF prog # 0 THEN prog ELSE IF same # 0 THEN same ELSE free
  BY DEF StaticSlot
<1>2. /\ prog \in Slots \cup {0} /\ same \in Slots \cup {0} /\ free \in Slots \cup {0}
      /\ prog # 0 => d.qid_map[p][prog].state = "MAP_IN_PROG" /\ d.qid_map[p][prog].qid = q
      /\ same # 0 => d.qid_map[p][same].state = "MAPPED" /\ d.qid_map[p][same].qid = q
      /\ free # 0 => d.qid_map[p][free].state = "UNMAPPED"
  BY FindSlots
<1>3. /\ prog # 0 <=> \E t \in Slots : /\ d.qid_map[p][t].state = "MAP_IN_PROG"
                                       /\ d.qid_map[p][t].qid = q
      /\ same # 0 <=> \E t \in Slots : /\ d.qid_map[p][t].state = "MAPPED"
                                       /\ d.qid_map[p][t].qid = q
      /\ free # 0 <=> \E t \in Slots : d.qid_map[p][t].state = "UNMAPPED"
  <2>1. prog # 0 <=> \E t \in Slots : /\ d.qid_map[p][t].state = "MAP_IN_PROG"
                                      /\ d.qid_map[p][t].qid = q
    BY Found
  <2>2. same # 0 <=> \E t \in Slots : /\ d.qid_map[p][t].state = "MAPPED"
                                      /\ d.qid_map[p][t].qid = q
    BY Found
  <2>3. free # 0 <=> \E t \in Slots : d.qid_map[p][t].state = "UNMAPPED"
    BY FoundState
  <2> QED
    BY <2>1, <2>2, <2>3
<1> HIDE DEF prog, same, free
<1>4. CASE prog # 0
  BY <1>1, <1>2, <1>4
<1>5. CASE prog = 0 /\ same # 0
  BY <1>1, <1>2, <1>3, <1>5
<1>6. CASE prog = 0 /\ same = 0
  BY <1>1, <1>2, <1>3, <1>6
<1> QED
  BY <1>4, <1>5, <1>6

MappedSlot(q) == [state |-> "MAPPED", qid |-> q, pending_qid |-> None]

(* map_qid_static writes one slot, its entry of the table, and counters.   *)
LEMMA StaticEffect ==
  ASSUME NEW d, Good(d), NEW p \in Ports, NEW q \in Queues \cup {None}
  PROVE  LET s == StaticSlot(d, p, q)
             n == map_qid_static(d, p, q) IN
         /\ s = 0 => n = d
         /\ s # 0 =>
              LET old == d.qid_map[p][s].state IN
              /\ <<old, "MAPPED">> \in Transitions
              /\ n.qid_map = Put(d.qid_map, p, s, MappedSlot(q))
              /\ n.cq2qid = Put(d.cq2qid, p, s, q)
              /\ n.queue_mappings = Bump(d.queue_mappings, q, MappingsDelta(old, "MAPPED"))
              /\ n.queue_additions = Bump(d.queue_additions, q, AdditionsDelta(old, "MAPPED"))
              /\ n.additions = d.additions + AdditionsDelta(old, "MAPPED")
         /\ n.removals = d.removals
         /\ n.port_removals = d.port_removals
         /\ n.cq_disabled = d.cq_disabled
<1> DEFINE s == StaticSlot(d, p, q)
           n == map_qid_static(d, p, q)
           inTable == [d EXCEPT !.cq2qid[p][s] = q]
           written == [inTable EXCEPT !.qid_map[p][s].qid = q]
           old == d.qid_map[p][s].state
           cell == [d.qid_map[p][s] EXCEPT !.qid = q]
<1>1. s \in Slots \cup {0} /\ d \in Dev
  BY StaticSlotIs DEF Good
<1>2. n = IF s = 0 THEN d ELSE slot_state_transition(written, p, q, s, "MAPPED")
  BY DEF map_qid_static, StaticSlot
<1>3. CASE s = 0
  BY <1>2, <1>3
<1>4. CASE s # 0
  <2>1. s \in Slots
    BY <1>1, <1>4
  <2>2. <<old, "MAPPED">> \in Transitions /\ old \in {"MAP_IN_PROG", "MAPPED", "UNMAPPED"}
    BY <1>4, StaticSlotIs DEF Transitions
  <2>3. Good(inTable)
    BY <2>1, NamesGood
  <2>4. /\ inTable.qid_map = d.qid_map
        /\ inTable.cq2qid = Put(d.cq2qid, p, s, q)
        /\ inTable.cq_disabled = d.cq_disabled
        /\ inTable.port_removals = d.port_removals
        /\ inTable.queue_mappings = d.queue_mappings
        /\ inTable.queue_additions = d.queue_additions
        /\ inTable.additions = d.additions
        /\ inTable.removals = d.removals
    BY <1>1, <2>1 DEF Dev, Put
  <2> HIDE DEF inTable
  <2>5. Good(written)
    BY <2>1, <2>3, NamesGood
  <2>6. /\ written.qid_map = Put(d.qid_map, p, s, cell)
        /\ written.cq2qid = inTable.cq2qid
        /\ written.cq_disabled = inTable.cq_disabled
        /\ written.port_removals = inTable.port_removals
        /\ written.queue_mappings = inTable.queue_mappings
        /\ written.queue_additions = inTable.queue_additions
        /\ written.additions = inTable.additions
        /\ written.removals = inTable.removals
    BY <2>1, <2>3, <2>4 DEF Good, Dev, Put
  <2> HIDE DEF written
  <2>7. /\ d.qid_map \in [Ports -> [Slots -> SlotType]]
        /\ cell \in SlotType /\ cell.state = old /\ cell.qid = q
    <3>1. d.qid_map \in [Ports -> [Slots -> SlotType]]
      BY <1>1 DEF Dev
    <3>2. d.qid_map[p][s] \in SlotType
      BY <2>1, <3>1
    <3> QED
      BY <3>1, <3>2 DEF SlotType
  <2> HIDE DEF cell
  <2>8. /\ written.qid_map[p][s] = cell
        /\ written.qid_map[p][s].state = old
    <3>1. Put(d.qid_map, p, s, cell)[p][s] = cell
      BY <2>1, <2>7 DEF Put
    <3> QED
      BY <2>6, <2>7, <3>1
  <2>9. /\ Kept(written.qid_map[p][s], "MAPPED") = MappedSlot(q)
        /\ Put(written.qid_map, p, s, MappedSlot(q)) = Put(d.qid_map, p, s, MappedSlot(q))
    <3>1. written.qid_map[p][s].qid = q
      BY <2>7, <2>8
    <3>2. Put(written.qid_map, p, s, MappedSlot(q)) = Put(d.qid_map, p, s, MappedSlot(q))
      BY <2>1, <2>6, <2>7, PutTwice
    <3> QED
      BY <3>1, <3>2 DEF Kept, MappedSlot
  <2>10. n = slot_state_transition(written, p, q, s, "MAPPED")
    BY <1>2, <1>4
  <2>11. /\ n.qid_map = Put(written.qid_map, p, s, Kept(written.qid_map[p][s], "MAPPED"))
         /\ n.cq_disabled = written.cq_disabled
         /\ n.cq2qid = written.cq2qid
         /\ n.port_removals = Bump(written.port_removals, p, RemovalsDelta(old, "MAPPED"))
         /\ n.queue_mappings = Bump(written.queue_mappings, q, MappingsDelta(old, "MAPPED"))
         /\ n.queue_additions = Bump(written.queue_additions, q, AdditionsDelta(old, "MAPPED"))
         /\ n.additions = written.additions + AdditionsDelta(old, "MAPPED")
         /\ n.removals = written.removals + RemovalsDelta(old, "MAPPED")
    <3>1. written \in Dev /\ written.qid_map[p][s].state = old
      BY <2>5, <2>8 DEF Good
    <3>2. <<written.qid_map[p][s].state, "MAPPED">> \in Transitions
      BY <2>2, <3>1
    <3> HIDE DEF old
    <3> QED
      BY <2>1, <2>10, <3>1, <3>2, TransitionEffect
  <2>12. RemovalsDelta(old, "MAPPED") = 0
    BY <2>2 DEF RemovalsDelta
  <2>13. /\ Bump(written.port_removals, p, 0) = d.port_removals
         /\ written.removals + 0 = d.removals
    BY <1>1, <2>4, <2>6, BumpZero DEF Dev
  <2> QED
    BY <1>4, <2>2, <2>4, <2>6, <2>9, <2>11, <2>12, <2>13
<1> QED
  BY <1>3, <1>4

(* A slot that gets another queue's number.                                *)
Renamed(d, p, s, q) == [d EXCEPT !.qid_map[p][s].qid = q]

LEMMA RenameEffect ==
  ASSUME NEW d, Good(d), NEW p \in Ports, NEW s \in Slots, NEW q \in Queues \cup {None},
         NEW n, n = Renamed(d, p, s, q)
  PROVE  /\ Good(n)
         /\ n.qid_map[p][s] \in SlotType
         /\ n.qid_map[p][s].state = d.qid_map[p][s].state
         /\ n.qid_map[p][s].qid = q
         /\ n.qid_map[p][s].pending_qid = d.qid_map[p][s].pending_qid
         /\ n.qid_map = Put(d.qid_map, p, s, n.qid_map[p][s])
         /\ n.cq2qid = d.cq2qid
         /\ n.cq_disabled = d.cq_disabled
         /\ n.port_removals = d.port_removals
         /\ n.queue_mappings = d.queue_mappings
         /\ n.queue_additions = d.queue_additions
         /\ n.additions = d.additions
         /\ n.removals = d.removals
<1> DEFINE cell == [d.qid_map[p][s] EXCEPT !.qid = q]
<1>1. d \in Dev /\ Good(n)
  BY NamesGood DEF Good, Renamed
<1>2. /\ d.qid_map \in [Ports -> [Slots -> SlotType]]
      /\ d.qid_map[p][s] \in SlotType
  <2>1. d.qid_map \in [Ports -> [Slots -> SlotType]]
    BY <1>1 DEF Dev
  <2> QED
    BY <2>1
<1>3. /\ cell \in SlotType /\ cell.qid = q
      /\ cell.state = d.qid_map[p][s].state
      /\ cell.pending_qid = d.qid_map[p][s].pending_qid
  BY <1>2 DEF SlotType
<1>4. /\ n.qid_map = Put(d.qid_map, p, s, cell)
      /\ n.cq2qid = d.cq2qid
      /\ n.cq_disabled = d.cq_disabled
      /\ n.port_removals = d.port_removals
      /\ n.queue_mappings = d.queue_mappings
      /\ n.queue_additions = d.queue_additions
      /\ n.additions = d.additions
      /\ n.removals = d.removals
  BY <1>1 DEF Dev, Put, Renamed
<1> HIDE DEF cell
<1>5. Put(d.qid_map, p, s, cell)[p][s] = cell
  BY <1>2, <1>3 DEF Put
<1> QED
  BY <1>1, <1>3, <1>4, <1>5

PromisedSlot(q) == [state |-> "MAP_IN_PROG", qid |-> q, pending_qid |-> None]

(* The head of a dynamic map claims a free slot.                           *)
LEMMA BeginEffect ==
  ASSUME NEW d, Good(d), NEW p \in Ports, NEW q \in Queues \cup {None}
  PROVE  LET s == find_slot(d, p, "UNMAPPED")
             n == begin_map_qid_dynamic(d, p, q) IN
         /\ s \in Slots \cup {0}
         /\ s = 0 => SameBooks(n, d)
         /\ s # 0 =>
              /\ d.qid_map[p][s].state = "UNMAPPED"
              /\ n.qid_map = Put(d.qid_map, p, s, PromisedSlot(q))
              /\ n.queue_additions = Bump(d.queue_additions, q, 1)
              /\ n.additions = d.additions + 1
         /\ n.cq2qid = d.cq2qid
         /\ n.queue_mappings = d.queue_mappings
         /\ n.removals = d.removals
         /\ n.port_removals = d.port_removals
         /\ n.cq_disabled = d.cq_disabled
<1> DEFINE s == find_slot(d, p, "UNMAPPED")
           n == begin_map_qid_dynamic(d, p, q)
           stopped == zero_inflight_limit(d, q)
           claimed == [stopped EXCEPT !.qid_map[p][s].qid = q]
<1>1. s \in Slots \cup {0} /\ (s # 0 => d.qid_map[p][s].state = "UNMAPPED")
  BY FindSlots
<1>2. n = IF s = 0 THEN stopped ELSE slot_state_transition(claimed, p, q, s, "MAP_IN_PROG")
  BY DEF begin_map_qid_dynamic
<1>3. d \in Dev /\ Good(stopped) /\ SameBooks(stopped, d) /\ stopped.cq_disabled = d.cq_disabled
  BY LimitHelpersGood, RegisterHelpers DEF Good
<1> HIDE DEF stopped
<1>4. CASE s = 0
  BY <1>1, <1>2, <1>3, <1>4 DEF SameBooks
<1>5. CASE s # 0
  <2>1. s \in Slots
    BY <1>1, <1>5
  <2>13. claimed = Renamed(stopped, p, s, q)
    BY DEF Renamed
  <2> HIDE DEF claimed
  <2>3. /\ Good(claimed)
        /\ claimed.cq2qid = d.cq2qid
        /\ claimed.cq_disabled = d.cq_disabled
        /\ claimed.port_removals = d.port_removals
        /\ claimed.queue_mappings = d.queue_mappings
        /\ claimed.queue_additions = d.queue_additions
        /\ claimed.additions = d.additions
        /\ claimed.removals = d.removals
    BY <1>3, <2>1, <2>13, RenameEffect DEF SameBooks
  <2>2. /\ claimed.qid_map[p][s] \in SlotType
        /\ claimed.qid_map[p][s].state = stopped.qid_map[p][s].state
        /\ claimed.qid_map[p][s].qid = q
        /\ claimed.qid_map = Put(stopped.qid_map, p, s, claimed.qid_map[p][s])
    BY <1>3, <2>1, <2>13, RenameEffect
  <2>12. stopped.qid_map = d.qid_map
    BY <1>3 DEF SameBooks
  <2>4. /\ <<claimed.qid_map[p][s].state, "MAP_IN_PROG">> \in Transitions
        /\ claimed.qid_map[p][s].state = "UNMAPPED"
    BY <1>1, <1>5, <2>2, <2>12 DEF Transitions
  <2>5. n = slot_state_transition(claimed, p, q, s, "MAP_IN_PROG") /\ claimed \in Dev
    BY <1>2, <1>5, <2>3 DEF Good
  <2>6. /\ n.qid_map = Put(claimed.qid_map, p, s, Kept(claimed.qid_map[p][s], "MAP_IN_PROG"))
        /\ n.cq_disabled = claimed.cq_disabled
        /\ n.cq2qid = claimed.cq2qid
        /\ n.port_removals = Bump(claimed.port_removals, p, RemovalsDelta("UNMAPPED", "MAP_IN_PROG"))
        /\ n.queue_mappings = Bump(claimed.queue_mappings, q, MappingsDelta("UNMAPPED", "MAP_IN_PROG"))
        /\ n.queue_additions = Bump(claimed.queue_additions, q, AdditionsDelta("UNMAPPED", "MAP_IN_PROG"))
        /\ n.additions = claimed.additions + AdditionsDelta("UNMAPPED", "MAP_IN_PROG")
        /\ n.removals = claimed.removals + RemovalsDelta("UNMAPPED", "MAP_IN_PROG")
    BY <2>1, <2>4, <2>5, TransitionEffect
  <2>7. /\ RemovalsDelta("UNMAPPED", "MAP_IN_PROG") = 0
        /\ MappingsDelta("UNMAPPED", "MAP_IN_PROG") = 0
        /\ AdditionsDelta("UNMAPPED", "MAP_IN_PROG") = 1
    BY DEF RemovalsDelta, MappingsDelta, AdditionsDelta
  <2>8. /\ Bump(claimed.port_removals, p, 0) = d.port_removals
        /\ Bump(claimed.queue_mappings, q, 0) = d.queue_mappings
        /\ claimed.removals + 0 = d.removals
    BY <1>3, <2>3, BumpZero DEF Dev
  <2>9. Kept(claimed.qid_map[p][s], "MAP_IN_PROG") = PromisedSlot(q)
    BY <2>2 DEF Kept, PromisedSlot
  <2>10. d.qid_map \in [Ports -> [Slots -> SlotType]]
    BY <1>3 DEF Dev
  <2>11. Put(claimed.qid_map, p, s, PromisedSlot(q)) = Put(d.qid_map, p, s, PromisedSlot(q))
    BY <2>1, <2>2, <2>10, <2>12, PutTwice
  <2> QED
    BY <1>1, <1>5, <2>3, <2>6, <2>7, <2>8, <2>9, <2>11
<1> QED
  BY <1>4, <1>5

(* The slot that an unmap frees is one that has the queue.                 *)
UnmapSlot(d, p, q) ==
  LET mapped  == find_slot_queue(d, p, "MAPPED", q)
      unmap   == find_slot_queue(d, p, "UNMAP_IN_PROG", q)
      pending == find_slot_queue(d, p, "UNMAP_IN_PROG_PENDING_MAP", q)
  IN  IF mapped # 0 THEN mapped ELSE IF unmap # 0 THEN unmap ELSE pending

LEMMA UnmapSlotIs ==
  ASSUME NEW d, NEW p, NEW q, NEW s, s = UnmapSlot(d, p, q)
  PROVE  /\ s \in Slots \cup {0}
         /\ (\E t \in Slots : /\ d.qid_map[p][t].state \in InHardware
                              /\ d.qid_map[p][t].qid = q) => s # 0
         /\ s # 0 => d.qid_map[p][s].state \in InHardware /\ d.qid_map[p][s].qid = q
<1> DEFINE mapped  == find_slot_queue(d, p, "MAPPED", q)
           unmap   == find_slot_queue(d, p, "UNMAP_IN_PROG", q)
           pending == find_slot_queue(d, p, "UNMAP_IN_PROG_PENDING_MAP", q)
<1>1. s = IF mapped # 0 THEN mapped ELSE IF unmap # 0 THEN unmap ELSE pending
  BY DEF UnmapSlot
<1>2. /\ mapped \in Slots \cup {0} /\ unmap \in Slots \cup {0} /\ pending \in Slots \cup {0}
      /\ mapped # 0 => d.qid_map[p][mapped].state = "MAPPED" /\ d.qid_map[p][mapped].qid = q
      /\ unmap # 0 => d.qid_map[p][unmap].state = "UNMAP_IN_PROG" /\ d.qid_map[p][unmap].qid = q
      /\ pending # 0 => /\ d.qid_map[p][pending].state = "UNMAP_IN_PROG_PENDING_MAP"
                        /\ d.qid_map[p][pending].qid = q
  BY FindSlots
<1>3. mapped # 0 <=> \E t \in Slots : /\ d.qid_map[p][t].state = "MAPPED"
                                      /\ d.qid_map[p][t].qid = q
  BY Found
<1>4. unmap # 0 <=> \E t \in Slots : /\ d.qid_map[p][t].state = "UNMAP_IN_PROG"
                                     /\ d.qid_map[p][t].qid = q
  BY Found
<1>5. pending # 0 <=> \E t \in Slots : /\ d.qid_map[p][t].state = "UNMAP_IN_PROG_PENDING_MAP"
                                       /\ d.qid_map[p][t].qid = q
  BY Found
<1> HIDE DEF mapped, unmap, pending
<1>6. CASE mapped # 0
  BY <1>1, <1>2, <1>6 DEF InHardware
<1>7. CASE mapped = 0 /\ unmap # 0
  BY <1>1, <1>2, <1>7 DEF InHardware
<1>8. CASE mapped = 0 /\ unmap = 0
  BY <1>1, <1>2, <1>3, <1>4, <1>5, <1>8 DEF InHardware
<1> QED
  BY <1>6, <1>7, <1>8

(* unmap_qid empties one slot and its entry of the table.                  *)
LEMMA UnmapEffect ==
  ASSUME NEW d, Good(d), NEW p \in Ports, NEW q
  PROVE  LET s == UnmapSlot(d, p, q)
             n == unmap_qid(d, p, q) IN
         /\ s = 0 => n = d
         /\ s # 0 =>
              LET old == d.qid_map[p][s].state IN
              /\ n.qid_map = Put(d.qid_map, p, s, EmptySlot)
              /\ n.cq2qid = Put(d.cq2qid, p, s, None)
              /\ n.queue_mappings = Bump(d.queue_mappings, q, -1)
              /\ n.port_removals = Bump(d.port_removals, p, RemovalsDelta(old, "UNMAPPED"))
              /\ n.removals = d.removals + RemovalsDelta(old, "UNMAPPED")
         /\ n.queue_additions = d.queue_additions
         /\ n.additions = d.additions
         /\ n.cq_disabled = d.cq_disabled
<1> DEFINE s == UnmapSlot(d, p, q)
           n == unmap_qid(d, p, q)
           cleared == [d EXCEPT !.cq2qid[p][s] = None]
           old == d.qid_map[p][s].state
<1>1. s \in Slots \cup {0} /\ d \in Dev
  BY UnmapSlotIs DEF Good
<1>2. n = IF s = 0 THEN d ELSE slot_state_transition(cleared, p, q, s, "UNMAPPED")
  BY DEF unmap_qid, UnmapSlot
<1>3. CASE s = 0
  BY <1>2, <1>3
<1>4. CASE s # 0
  <2>1. s \in Slots /\ old \in InHardware
    BY <1>1, <1>4, UnmapSlotIs
  <2>2. Good(cleared)
    BY <2>1, NamesGood
  <2>3. /\ cleared.qid_map = d.qid_map
        /\ cleared.cq2qid = Put(d.cq2qid, p, s, None)
        /\ cleared.cq_disabled = d.cq_disabled
        /\ cleared.port_removals = d.port_removals
        /\ cleared.queue_mappings = d.queue_mappings
        /\ cleared.queue_additions = d.queue_additions
        /\ cleared.additions = d.additions
        /\ cleared.removals = d.removals
    BY <1>1, <2>1 DEF Dev, Put
  <2> HIDE DEF cleared
  <2>4. /\ n = slot_state_transition(cleared, p, q, s, "UNMAPPED") /\ cleared \in Dev
        /\ <<cleared.qid_map[p][s].state, "UNMAPPED">> \in Transitions
        /\ cleared.qid_map[p][s].state = old
    BY <1>2, <1>4, <2>1, <2>2, <2>3 DEF Good, Transitions, InHardware
  <2> HIDE DEF old
  <2>5. /\ n.qid_map = Put(cleared.qid_map, p, s, Kept(cleared.qid_map[p][s], "UNMAPPED"))
        /\ n.cq_disabled = cleared.cq_disabled
        /\ n.cq2qid = cleared.cq2qid
        /\ n.port_removals = Bump(cleared.port_removals, p, RemovalsDelta(old, "UNMAPPED"))
        /\ n.queue_mappings = Bump(cleared.queue_mappings, q, MappingsDelta(old, "UNMAPPED"))
        /\ n.queue_additions = Bump(cleared.queue_additions, q, AdditionsDelta(old, "UNMAPPED"))
        /\ n.additions = cleared.additions + AdditionsDelta(old, "UNMAPPED")
        /\ n.removals = cleared.removals + RemovalsDelta(old, "UNMAPPED")
    BY <2>1, <2>4, TransitionEffect
  <2>6. MappingsDelta(old, "UNMAPPED") = -1 /\ AdditionsDelta(old, "UNMAPPED") = 0
    BY <2>1 DEF MappingsDelta, AdditionsDelta, InHardware
  <2>7. Kept(cleared.qid_map[p][s], "UNMAPPED") = EmptySlot
    BY DEF Kept, EmptySlot
  <2>8. Bump(cleared.queue_additions, q, 0) = d.queue_additions
        /\ cleared.additions + 0 = d.additions
    BY <1>1, <2>3, BumpZero DEF Dev
  <2> QED
    BY <1>4, <2>3, <2>5, <2>6, <2>7, <2>8 DEF old
<1> QED
  BY <1>3, <1>4

LEMMA SameMapped ==
  ASSUME NEW d, NEW e, NEW p, NEW q, e.qid_map[p] = d.qid_map[p]
  PROVE  HasMapped(e, p, q) <=> HasMapped(d, p, q)
BY DEF HasMapped, find_slot_queue, SlotsWith

(* The tail of a dynamic map is the static map, and lets the CQs of the    *)
(* queue go on.                                                            *)
LEMMA FinishMapEffect ==
  ASSUME NEW d, Good(d), NEW p \in Ports, NEW q \in Queues \cup {None},
         NEW static, static = map_qid_static(d, p, q),
         NEW n, n = finish_map_qid_dynamic(d, p, q), NEW r \in Ports
  PROVE  /\ SameBooks(n, static)
         /\ n.cq_disabled[r] = (static.cq_disabled[r] /\ ~ (/\ HasMapped(static, r, q)
                                                            /\ enabled[r]
                                                            /\ static.port_removals[r] = 0))
<1> DEFINE limited == set_inflight_limit(static, q)
           mapped == enable_mapped_cqs(limited, q)
<1>1. Good(static) /\ static \in Dev
  BY StaticGood DEF Good
<1>2. /\ Good(limited) /\ limited \in Dev
      /\ SameBooks(limited, static) /\ limited.cq_disabled = static.cq_disabled
  BY <1>1, LimitHelpersGood, RegisterHelpers DEF Good
<1> HIDE DEF limited
<1>3. /\ Good(mapped) /\ mapped \in Dev
      /\ SameBooks(mapped, limited)
      /\ mapped.cq_disabled[r] = (limited.cq_disabled[r] /\ ~ (/\ HasMapped(limited, r, q)
                                                               /\ enabled[r]
                                                               /\ limited.port_removals[r] = 0))
  BY <1>2, CqHelpersGood, RegisterHelpers, CqEffect DEF Good
<1> HIDE DEF mapped
<1>4. /\ n = mapped \/ n = zero_inflight_limit(mapped, q)
  BY DEF finish_map_qid_dynamic, mapped, limited
<1>5. SameBooks(n, mapped) /\ n.cq_disabled = mapped.cq_disabled
  BY <1>3, <1>4, RegisterHelpers DEF SameBooks
<1>6. HasMapped(limited, r, q) <=> HasMapped(static, r, q)
  BY <1>2, SameMapped DEF SameBooks
<1>7. limited.port_removals = static.port_removals
  BY <1>2 DEF SameBooks
<1>8. SameBooks(n, static)
  BY <1>2, <1>3, <1>5 DEF SameBooks
<1> QED
  BY <1>2, <1>3, <1>5, <1>6, <1>7, <1>8

-----------------------------------------------------------------------------
(* Enabled CQs.                                                            *)

USE DEF MapPcs

(* The holder of the mutex will enable the CQ of r before it goes: the CQ  *)
(* of its request, and those a dynamic map in the middle has disabled.     *)
Waiting(r) ==
  \/ /\ op.p = r
     /\ \/ op.pc = "map_done"
        \/ op.pc \in MapPcs /\ op.then = "map_done"
  \/ /\ op.pc \in {"reread", "finish_map", "write_map"}
     /\ op.p = r \/ HasMapped(dev, r, op.mq)

(* A CQ that is off for no reason is one the holder will switch on.        *)
Served ==
  ~efault =>
    \A p \in Ports :
      enabled[p] /\ dev.port_removals[p] = 0 /\ dev.cq_disabled[p] => Waiting(p)

(* While a dynamic map is in the middle its slot is claimed.               *)
Claimed ==
  op.pc \in MapPcs =>
    /\ op.then \in {"map_done", "unmap_slots", "map_slots"}
    /\ \E s \in Slots : /\ dev.qid_map[op.p][s].state = "MAP_IN_PROG"
                        /\ dev.qid_map[op.p][s].qid = op.mq

SInv == Served /\ Claimed /\ op.caller \in {"idle", "map_verify", "worker_unmap"}

(* map_qid touches no CQ, and claims a slot before the others do.         *)
LEMMA MapQidServes ==
  ASSUME NEW d, Good(d), NEW p \in Ports, NEW q \in Queues \cup {None},
         NEW return, OpGood(return), return.p = p,
         return.pc \in {"map_done", "unmap_slots", "map_slots"},
         map_qid(d, p, q, return),
         \E s \in Slots : d.qid_map[p][s].state = "UNMAPPED"
  PROVE  /\ dev'.cq_disabled = d.cq_disabled
         /\ dev'.port_removals = d.port_removals
         /\ op'.p = p /\ op'.caller = return.caller
         /\ \/ op'.pc = return.pc
            \/ op'.pc = "disable_cqs" /\ op'.then = return.pc
         /\ Claimed'
<1>1. CASE domain # "started"
  <2>1. dev' = map_qid_static(d, p, q) /\ op' = return
    BY <1>1 DEF map_qid
  <2>2. /\ map_qid_static(d, p, q).cq_disabled = d.cq_disabled
        /\ map_qid_static(d, p, q).port_removals = d.port_removals
    BY StaticEffect
  <2> QED
    BY <2>1, <2>2 DEF Claimed
<1>2. CASE domain = "started"
  <2> DEFINE s == find_slot(d, p, "UNMAPPED")
             begun == begin_map_qid_dynamic(d, p, q)
  <2>9. s # 0
    BY FoundState
  <2>1. s \in Slots
    BY <2>9, FindSlots
  <2>2. /\ begun.cq_disabled = d.cq_disabled
        /\ begun.port_removals = d.port_removals
        /\ begun.qid_map = Put(d.qid_map, p, s, PromisedSlot(q))
        /\ Good(begun)
    BY <2>1, BeginEffect, BeginMapGood, SlotsFinite
  <2>3. d.qid_map \in [Ports -> [Slots -> SlotType]]
    BY DEF Good, Dev
  <2>4. begun.qid_map[p][s] = PromisedSlot(q)
    BY <2>1, <2>2, <2>3 DEF Put
  <2> HIDE DEF s, begun
  <2>5. SameBooks(schedule_work(begun), begun) /\ schedule_work(begun).cq_disabled = begun.cq_disabled
    BY <2>2, RegisterHelpers DEF Good
  <2>6. \/ dev' = schedule_work(begun) /\ op' = return
        \/ dev' = begun /\ op' = [return EXCEPT !.pc = "disable_cqs", !.then = return.pc, !.mq = q]
    BY <1>2 DEF map_qid, begun
  <2>7. CASE dev' = schedule_work(begun) /\ op' = return
    BY <2>2, <2>5, <2>7 DEF SameBooks, Claimed
  <2>8. CASE dev' = begun /\ op' = [return EXCEPT !.pc = "disable_cqs", !.then = return.pc, !.mq = q]
    <3>1. /\ op'.pc = "disable_cqs" /\ op'.then = return.pc /\ op'.mq = q /\ op'.p = p
          /\ op'.caller = return.caller
      BY <2>8 DEF OpGood, OpType
    <3>2. Claimed'
      BY <2>1, <2>4, <2>8, <3>1 DEF Claimed, PromisedSlot
    <3> QED
      BY <2>2, <2>8, <3>1, <3>2
  <2> QED
    BY <2>6, <2>7, <2>8
<1> QED
  BY <1>1, <1>2

LEMMA InitServed == Init => SInv
BY DEF Init, SInv, Served, Claimed, Idle

(* Nobody waits but at two places.                                         *)
LEMMA NobodyWaits ==
  ASSUME NEW p, op.pc \notin MapPcs \cup {"map_done"}
  PROVE  ~Waiting(p)
BY DEF Waiting

(* A step that switches off nothing it will not switch on again.           *)
LEMMA ServedStays ==
  ASSUME Served, efault' = efault,
         \A r \in Ports :
           enabled'[r] /\ dev'.port_removals[r] = 0 /\ dev'.cq_disabled[r]
             => \/ Waiting(r)'
                \/ /\ enabled[r] /\ dev.port_removals[r] = 0 /\ dev.cq_disabled[r]
                   /\ ~Waiting(r)
  PROVE  Served'
BY DEF Served

(* A dynamic map in the middle: the CQs it disables wait for its end.      *)
LEMMA DynamicServes ==
  IInv /\ SInv /\ (DisableCqs \/ Reread \/ FinishMapRead \/ WriteMap) => SInv'
<1> SUFFICES ASSUME IInv, SInv, DisableCqs \/ Reread \/ FinishMapRead \/ WriteMap
             PROVE  SInv'
  OBVIOUS
<1> DEFINE p == op.p
           q == op.mq
<1>1. /\ p \in Ports /\ q \in Queues \cup {None} /\ op \in OpType /\ op.pc \in MapPcs
      /\ dev \in Dev /\ Good(dev) /\ enabled \in [Ports -> BOOLEAN]
  BY DEF IInv, OpGood, OpType, RestType, DisableCqs, Reread, FinishMapRead, WriteMap, At,
         PortPcs, Good
<1>2. /\ op.then \in {"map_done", "unmap_slots", "map_slots"}
      /\ \E s \in Slots : dev.qid_map[p][s].state = "MAP_IN_PROG" /\ dev.qid_map[p][s].qid = q
  BY <1>1 DEF SInv, Claimed
<1>3. enabled' = enabled
  BY DEF DisableCqs, Reread, FinishMapRead, WriteMap
<1>4. MapReturn.pc = op.then /\ MapReturn.caller = op.caller
  BY <1>1 DEF MapReturn, OpType
<1>5. CASE DisableCqs
  <2> DEFINE off0 == disable_if_wanted(dev, p)
  <2>1. /\ dev' = disable_mapped_cqs(off0, q) /\ efault' = efault
        /\ op'.pc = "reread" /\ op'.p = p /\ op'.mq = q
        /\ op'.then = op.then /\ op'.caller = op.caller
    BY <1>1, <1>5 DEF DisableCqs, OpType
  <2> HIDE DEF p, q
  <2>2. /\ Good(off0) /\ off0 \in Dev /\ SameBooks(off0, dev)
        /\ \A r \in Ports : off0.cq_disabled[r] = (dev.cq_disabled[r] \/ (r = p /\ enabled[p]))
    BY <1>1, CqHelpersGood, RegisterHelpers, CqEffect DEF Good
  <2> HIDE DEF off0
  <2>3. /\ SameBooks(dev', off0)
        /\ \A r \in Ports : dev'.cq_disabled[r]
                              = (off0.cq_disabled[r] \/ (HasMapped(off0, r, q) /\ enabled[r]))
    BY <1>1, <2>1, <2>2, CqHelpersGood, RegisterHelpers, CqEffect DEF Good
  <2>4. dev'.qid_map = dev.qid_map /\ dev'.port_removals = dev.port_removals
    BY <2>2, <2>3 DEF SameBooks
  <2>5. \A r \in Ports : HasMapped(off0, r, q) <=> HasMapped(dev', r, q)
    BY <2>3, SameMapped DEF SameBooks
  <2>6. ASSUME NEW r \in Ports,
               enabled'[r], dev'.port_removals[r] = 0, dev'.cq_disabled[r]
        PROVE  \/ Waiting(r)'
               \/ enabled[r] /\ dev.port_removals[r] = 0 /\ dev.cq_disabled[r] /\ ~Waiting(r)
    <3>1. CASE r = p \/ HasMapped(dev', r, q)
      BY <2>1, <3>1 DEF Waiting
    <3>2. CASE r # p /\ ~HasMapped(dev', r, q)
      <4>1. enabled[r] /\ dev.port_removals[r] = 0 /\ dev.cq_disabled[r]
        BY <1>3, <2>2, <2>3, <2>4, <2>5, <2>6, <3>2
      <4>2. ~Waiting(r)
        BY <1>5, <3>2 DEF Waiting, DisableCqs, At, p
      <4> QED
        BY <4>1, <4>2
    <3> QED
      BY <3>1, <3>2
  <2>7. Served'
    BY <2>1, <2>6, ServedStays DEF SInv
  <2> QED
    BY <1>2, <2>1, <2>4, <2>7 DEF SInv, Claimed, p, q
<1>6. CASE Reread /\ QidDrained(q)
  <2>1. /\ dev' = dev /\ efault' = efault
        /\ op'.pc = "finish_map" /\ op'.p = p /\ op'.mq = q
        /\ op'.then = op.then /\ op'.caller = op.caller /\ op.pc = "reread"
    BY <1>1, <1>6 DEF Reread, OpType, At
  <2> QED
    BY <1>2, <1>3, <2>1 DEF SInv, Served, Claimed, Waiting, HasMapped, MapPcs
<1>7. CASE Reread /\ ~QidDrained(q)
  <2> DEFINE on0 == enable_if_wanted(dev, p)
             on == enable_mapped_cqs(on0, q)
  <2>1. dev' = schedule_work(on) /\ op' = MapReturn /\ efault' = efault
    BY <1>7 DEF Reread
  <2> HIDE DEF p, q
  <2>2. /\ Good(on0) /\ on0 \in Dev /\ SameBooks(on0, dev)
        /\ \A t \in Ports : on0.cq_disabled[t]
             = (dev.cq_disabled[t] /\ (t # p \/ ~enabled[p] \/ dev.port_removals[p] # 0))
    BY <1>1, CqHelpersGood, RegisterHelpers, CqEffect DEF Good
  <2> HIDE DEF on0
  <2>3. /\ on \in Dev /\ SameBooks(on, on0)
        /\ \A t \in Ports : on.cq_disabled[t]
             = (on0.cq_disabled[t] /\ ~ (/\ HasMapped(on0, t, q) /\ enabled[t]
                                         /\ on0.port_removals[t] = 0))
    BY <1>1, <2>2, CqHelpersGood, RegisterHelpers, CqEffect DEF Good
  <2> HIDE DEF on
  <2>4. SameBooks(dev', on) /\ dev'.cq_disabled = on.cq_disabled
    BY <2>1, <2>3, RegisterHelpers
  <2>5. /\ on0.port_removals = dev.port_removals
        /\ dev'.port_removals = dev.port_removals
        /\ \A t \in Ports : HasMapped(on0, t, q) <=> HasMapped(dev, t, q)
    BY <2>2, <2>3, <2>4, SameMapped DEF SameBooks
  <2>6. ASSUME NEW r \in Ports,
               enabled'[r], dev'.port_removals[r] = 0, dev'.cq_disabled[r]
        PROVE  enabled[r] /\ dev.port_removals[r] = 0 /\ dev.cq_disabled[r] /\ ~Waiting(r)
    <3>1. enabled[r] /\ dev.port_removals[r] = 0
      BY <1>3, <2>5, <2>6
    <3>2. ~HasMapped(dev, r, q) /\ r # p /\ dev.cq_disabled[r]
      BY <2>2, <2>3, <2>4, <2>5, <2>6, <3>1
    <3> QED
      BY <3>1, <3>2 DEF Waiting, p, q
  <2>7. Served'
    BY <2>1, <2>6, ServedStays DEF SInv
  <2>8. op'.pc \notin MapPcs /\ op'.caller = op.caller
    BY <1>2, <1>4, <2>1 DEF MapPcs
  <2> QED
    BY <2>7, <2>8 DEF SInv, Claimed
<1>8. CASE FinishMapRead /\ QidDrained(q)
  <2>1. /\ dev' = dev /\ efault' = efault
        /\ op'.pc = "write_map" /\ op'.p = p /\ op'.mq = q
        /\ op'.then = op.then /\ op'.caller = op.caller /\ op.pc = "finish_map"
    BY <1>1, <1>8 DEF FinishMapRead, OpType, At, IInv, RestType
  <2> QED
    BY <1>2, <1>3, <2>1 DEF SInv, Served, Claimed, Waiting, HasMapped, MapPcs
<1>9. CASE FinishMapRead /\ ~QidDrained(q)
  <2>1. efault' /\ (op' = Idle \/ op' = MapReturn)
    BY <1>9 DEF FinishMapRead
  <2>2. op'.pc \notin MapPcs /\ op'.caller \in {"idle", "map_verify", "worker_unmap"}
    BY <1>2, <1>4, <2>1 DEF MapPcs, Idle, SInv
  <2> QED
    BY <2>1, <2>2 DEF SInv, Served, Claimed
<1>10. CASE WriteMap
  <2> DEFINE static == map_qid_static(dev, p, q)
             s == StaticSlot(dev, p, q)
  <2>1. dev' = finish_map_qid_dynamic(dev, p, q) /\ op' = MapReturn /\ efault' = efault
    BY <1>10 DEF WriteMap
  <2>2. op.pc = "write_map"
    BY <1>10 DEF WriteMap, At
  <2> HIDE DEF p, q
  <2>3. s \in Slots /\ dev.qid_map[p][s].state = "MAP_IN_PROG"
    <3> HIDE DEF s
    <3>1. s = StaticSlot(dev, p, q)
      BY DEF s
    <3> QED
      BY <1>2, <3>1, StaticSlotIs DEF p, q
  <2>4. /\ static.qid_map = Put(dev.qid_map, p, s, MappedSlot(q))
        /\ static.port_removals = dev.port_removals
        /\ static.cq_disabled = dev.cq_disabled
    BY <1>1, <2>3, SlotsFinite, StaticEffect
  <2>5. dev.qid_map \in [Ports -> [Slots -> SlotType]]
    BY <1>1 DEF Dev
  <2> HIDE DEF s
  <2>6. HasMapped(static, p, q)
    <3>1. static.qid_map[p][s] = MappedSlot(q)
      BY <1>1, <2>3, <2>4, <2>5 DEF Put
    <3> QED
      BY <2>3, <3>1, Found DEF HasMapped, MappedSlot
  <2>7. \A t \in Ports : t # p => (HasMapped(static, t, q) <=> HasMapped(dev, t, q))
    <3>1. \A t \in Ports : t # p => static.qid_map[t] = dev.qid_map[t]
      BY <2>4, <2>5 DEF Put
    <3> QED
      BY <3>1, SameMapped
  <2>8. ASSUME NEW r \in Ports,
               enabled'[r], dev'.port_removals[r] = 0, dev'.cq_disabled[r]
        PROVE  enabled[r] /\ dev.port_removals[r] = 0 /\ dev.cq_disabled[r] /\ ~Waiting(r)
    <3>1. /\ SameBooks(dev', static)
          /\ dev'.cq_disabled[r] = (static.cq_disabled[r] /\ ~ (/\ HasMapped(static, r, q)
                                                                /\ enabled[r]
                                                                /\ static.port_removals[r] = 0))
      BY <1>1, <2>1, FinishMapEffect
    <3>2. dev'.port_removals = dev.port_removals
      BY <2>4, <3>1 DEF SameBooks
    <3>3. enabled[r] /\ static.port_removals[r] = 0
      BY <1>3, <2>4, <2>8, <3>2
    <3>4. ~HasMapped(static, r, q) /\ dev.cq_disabled[r]
      BY <2>4, <2>8, <3>1, <3>3
    <3>5. r # p /\ ~HasMapped(dev, r, q)
      BY <2>6, <2>7, <3>4
    <3> QED
      BY <2>4, <3>3, <3>4, <3>5 DEF Waiting, p, q
  <2>9. Served'
    BY <2>1, <2>8, ServedStays DEF SInv
  <2>10. op'.pc \notin MapPcs /\ op'.caller = op.caller
    BY <1>2, <1>4, <2>1 DEF MapPcs
  <2> QED
    BY <2>9, <2>10 DEF SInv, Claimed
<1> QED
  BY <1>5, <1>6, <1>7, <1>8, <1>9, <1>10

(* A removal frees a slot of its port; the map that waits claims it.       *)
LEMMA FinishUnmapServes == IInv /\ SInv /\ FinishUnmapPortSlot => SInv'
<1> SUFFICES ASSUME IInv, SInv, FinishUnmapPortSlot
             PROVE  SInv'
  OBVIOUS
<1> DEFINE p == op.p
           s == First({t \in SlotsWith(dev, p, Removing) : t > op.s})
           slot == dev.qid_map[p][s]
           us == UnmapSlot(dev, p, slot.qid)
           freed == unmap_qid(dev, p, slot.qid)
           unmapped == enable_if_wanted(freed, p)
           renamed == IF unmapped.qid_map[p][s].state = "UNMAPPED" THEN unmapped
                      ELSE Renamed(unmapped, p, s, slot.pending_qid)
           next == [op EXCEPT !.s = s]
<1>1. /\ p \in Ports /\ op.pc = "unmap_slots"
      /\ Good(dev) /\ dev \in Dev
      /\ enabled' = enabled /\ efault' = efault
  BY DEF IInv, OpGood, FinishUnmapPortSlot, At, PortPcs, Good
<1>2. s \in Slots /\ slot.state \in Removing /\ slot.pending_qid \in Queues \cup {None}
  <2>1. s \in SlotsWith(dev, p, Removing)
    BY FirstType DEF FinishUnmapPortSlot, SlotsWith
  <2>2. dev.qid_map \in [Ports -> [Slots -> SlotType]]
    BY <1>1 DEF Dev
  <2> HIDE DEF s
  <2>3. s \in Slots /\ dev.qid_map[p][s].state \in Removing
    BY <2>1 DEF SlotsWith
  <2>4. dev.qid_map[p][s] \in SlotType
    BY <1>1, <2>2, <2>3
  <2> QED
    BY <2>3, <2>4 DEF SlotType
<1>3. \/ slot.state = "UNMAP_IN_PROG" /\ dev' = unmapped /\ op' = next
      \/ map_qid(renamed, p, slot.pending_qid, next)
  BY DEF FinishUnmapPortSlot, Renamed
<1>4. /\ OpGood(next) /\ next.p = p /\ next.pc = "unmap_slots" /\ next.caller = op.caller
  BY <1>1, <1>2 DEF IInv, OpGood, OpType
<1> HIDE DEF s, next
<1>5. us \in Slots
  <2>1. us \in Slots \cup {0}
    BY UnmapSlotIs
  <2>2. us # 0
    <3>1. slot.state \in InHardware
      BY <1>2 DEF Removing, InHardware
    <3> QED
      BY <1>2, <3>1, UnmapSlotIs
  <2> QED
    BY <2>1, <2>2
<1>6. /\ Good(freed) /\ freed \in Dev
      /\ freed.qid_map = Put(dev.qid_map, p, us, EmptySlot)
      /\ freed.cq_disabled = dev.cq_disabled
      /\ \A r \in Ports : r # p => freed.port_removals[r] = dev.port_removals[r]
  <2>1. freed.port_removals
          = Bump(dev.port_removals, p, RemovalsDelta(dev.qid_map[p][us].state, "UNMAPPED"))
    BY <1>1, <1>5, SlotsFinite, UnmapEffect
  <2>2. freed.qid_map = Put(dev.qid_map, p, us, EmptySlot) /\ freed.cq_disabled = dev.cq_disabled
    BY <1>1, <1>5, SlotsFinite, UnmapEffect
  <2>3. dev.port_removals \in [Ports -> Int]
    BY <1>1 DEF Dev
  <2>4. Good(freed) /\ freed \in Dev
    BY <1>1, UnmapGood DEF Good
  <2> QED
    BY <2>1, <2>2, <2>3, <2>4 DEF Bump
<1> HIDE DEF us, freed
<1>7. freed.qid_map[p][us].state = "UNMAPPED"
  <2>1. dev.qid_map \in [Ports -> [Slots -> SlotType]]
    BY <1>1 DEF Dev
  <2> QED
    BY <1>1, <1>5, <1>6, <2>1 DEF Put, EmptySlot
<1>8. /\ Good(unmapped) /\ unmapped \in Dev /\ SameBooks(unmapped, freed)
      /\ \A r \in Ports : unmapped.cq_disabled[r]
           = (freed.cq_disabled[r] /\ (r # p \/ ~enabled[p] \/ freed.port_removals[p] # 0))
  <2> HIDE DEF p
  <2>1. Good(unmapped) /\ unmapped \in Dev /\ SameBooks(unmapped, freed)
    BY <1>1, <1>6, CqHelpersGood, RegisterHelpers DEF Good
  <2>2. \A r \in Ports : unmapped.cq_disabled[r]
          = (freed.cq_disabled[r] /\ (r # p \/ ~enabled[p] \/ freed.port_removals[p] # 0))
    BY <1>1, <1>6, EnableWantedEffect
  <2> QED
    BY <2>1, <2>2
<1> HIDE DEF unmapped
<1>9. /\ unmapped.qid_map[p][us].state = "UNMAPPED"
      /\ unmapped.port_removals = freed.port_removals
  BY <1>7, <1>8 DEF SameBooks
<1>10. /\ Good(renamed)
       /\ renamed.port_removals = unmapped.port_removals
       /\ renamed.cq_disabled = unmapped.cq_disabled
       /\ renamed.qid_map[p][us].state = "UNMAPPED"
  <2>1. CASE unmapped.qid_map[p][s].state = "UNMAPPED"
    BY <1>8, <1>9, <2>1
  <2>2. CASE unmapped.qid_map[p][s].state # "UNMAPPED"
    <3>1. renamed = Renamed(unmapped, p, s, slot.pending_qid)
      BY <2>2
    <3>2. unmapped.qid_map \in [Ports -> [Slots -> SlotType]]
      BY <1>8 DEF Dev
    <3> HIDE DEF renamed, slot
    <3>3. /\ Good(renamed)
          /\ renamed.port_removals = unmapped.port_removals
          /\ renamed.cq_disabled = unmapped.cq_disabled
          /\ renamed.qid_map = Put(unmapped.qid_map, p, s, renamed.qid_map[p][s])
      BY <1>1, <1>2, <1>8, <3>1, RenameEffect
    <3>4. us # s
      BY <1>9, <2>2
    <3>5. Put(unmapped.qid_map, p, s, renamed.qid_map[p][s])[p][us] = unmapped.qid_map[p][us]
      BY <1>1, <1>2, <1>5, <3>2, <3>4 DEF Put
    <3> QED
      BY <1>9, <3>3, <3>5
  <2> QED
    BY <2>1, <2>2
<1> HIDE DEF renamed
<1>11. /\ dev'.cq_disabled = unmapped.cq_disabled
       /\ dev'.port_removals = unmapped.port_removals
       /\ op'.caller = op.caller
       /\ Claimed'
  <2>1. CASE map_qid(renamed, p, slot.pending_qid, next)
    <3> HIDE DEF slot, p
    <3> QED
      BY <1>1, <1>2, <1>4, <1>5, <1>10, <2>1, MapQidServes
  <2>2. CASE dev' = unmapped /\ op' = next
    BY <1>4, <2>2 DEF Claimed
  <2> QED
    BY <1>3, <2>1, <2>2
<1>12. ASSUME NEW r \in Ports,
              enabled'[r], dev'.port_removals[r] = 0, dev'.cq_disabled[r]
       PROVE  /\ enabled[r] /\ dev.port_removals[r] = 0 /\ dev.cq_disabled[r]
              /\ ~Waiting(r)
  <2>1. ~Waiting(r)
    BY <1>1, NobodyWaits
  <2>2. r # p
    BY <1>1, <1>8, <1>9, <1>11, <1>12
  <2> QED
    <3>1. enabled[r]
      BY <1>1, <1>12
    <3>2. dev.port_removals[r] = 0
      BY <1>6, <1>9, <1>11, <1>12, <2>2
    <3>3. freed.cq_disabled[r]
      BY <1>8, <1>11, <1>12
    <3> QED
      BY <1>6, <2>1, <3>1, <3>2, <3>3
<1> QED
  BY <1>1, <1>11, <1>12, ServedStays DEF SInv

ParkedSlot(m, q) ==
  [state |-> "UNMAP_IN_PROG_PENDING_MAP", qid |-> m.qid, pending_qid |-> q]

(* A map that waits for the slot of another queue is noted in the slot,    *)
(* and in no counter.                                                      *)
LEMMA ParkEffect ==
  ASSUME NEW d, Good(d), NEW p \in Ports, NEW s \in Slots, NEW q \in Queues \cup {None},
         d.qid_map[p][s].state = "UNMAP_IN_PROG"
  PROVE  LET n == slot_state_transition([d EXCEPT !.qid_map[p][s].pending_qid = q],
                                        p, q, s, "UNMAP_IN_PROG_PENDING_MAP") IN
         /\ n.qid_map = Put(d.qid_map, p, s, ParkedSlot(d.qid_map[p][s], q))
         /\ n.cq2qid = d.cq2qid
         /\ n.cq_disabled = d.cq_disabled
         /\ n.port_removals = d.port_removals
         /\ n.queue_mappings = d.queue_mappings
         /\ n.queue_additions = d.queue_additions
         /\ n.additions = d.additions
         /\ n.removals = d.removals
<1> DEFINE named == [d EXCEPT !.qid_map[p][s].pending_qid = q]
           n == slot_state_transition(named, p, q, s, "UNMAP_IN_PROG_PENDING_MAP")
           cell == [d.qid_map[p][s] EXCEPT !.pending_qid = q]
<1>1. d \in Dev /\ Good(named) /\ named \in Dev
  BY NamesGood DEF Good
<1>2. /\ d.qid_map \in [Ports -> [Slots -> SlotType]]
      /\ d.qid_map[p][s] \in SlotType
  <2>1. d.qid_map \in [Ports -> [Slots -> SlotType]]
    BY <1>1 DEF Dev
  <2> QED
    BY <2>1
<1>3. /\ cell \in SlotType /\ cell.qid = d.qid_map[p][s].qid
      /\ cell.state = "UNMAP_IN_PROG"
      /\ cell.pending_qid = q
  BY <1>2 DEF SlotType
<1>4. /\ named.qid_map = Put(d.qid_map, p, s, cell)
      /\ named.cq2qid = d.cq2qid
      /\ named.cq_disabled = d.cq_disabled
      /\ named.port_removals = d.port_removals
      /\ named.queue_mappings = d.queue_mappings
      /\ named.queue_additions = d.queue_additions
      /\ named.additions = d.additions
      /\ named.removals = d.removals
  BY <1>1 DEF Dev, Put
<1> HIDE DEF cell, named
<1>5. named.qid_map[p][s] = cell
  BY <1>2, <1>3, <1>4 DEF Put
<1>6. <<named.qid_map[p][s].state, "UNMAP_IN_PROG_PENDING_MAP">> \in Transitions
  BY <1>3, <1>5 DEF Transitions
<1>7. LET new == "UNMAP_IN_PROG_PENDING_MAP" IN
      /\ n.qid_map = Put(named.qid_map, p, s, Kept(cell, new))
      /\ n.cq_disabled = named.cq_disabled
      /\ n.cq2qid = named.cq2qid
      /\ n.port_removals = Bump(named.port_removals, p, RemovalsDelta("UNMAP_IN_PROG", new))
      /\ n.queue_mappings = Bump(named.queue_mappings, q, MappingsDelta("UNMAP_IN_PROG", new))
      /\ n.queue_additions = Bump(named.queue_additions, q, AdditionsDelta("UNMAP_IN_PROG", new))
      /\ n.additions = named.additions + AdditionsDelta("UNMAP_IN_PROG", new)
      /\ n.removals = named.removals + RemovalsDelta("UNMAP_IN_PROG", new)
  <2>1. named.qid_map[p][s].state = "UNMAP_IN_PROG"
    BY <1>3, <1>5
  <2> HIDE DEF n
  <2>2. n = slot_state_transition(named, p, q, s, "UNMAP_IN_PROG_PENDING_MAP")
    BY DEF n
  <2> QED
    BY <1>1, <1>5, <1>6, <2>1, <2>2, TransitionEffect
<1> HIDE DEF n
<1>8. /\ RemovalsDelta("UNMAP_IN_PROG", "UNMAP_IN_PROG_PENDING_MAP") = 0
      /\ MappingsDelta("UNMAP_IN_PROG", "UNMAP_IN_PROG_PENDING_MAP") = 0
      /\ AdditionsDelta("UNMAP_IN_PROG", "UNMAP_IN_PROG_PENDING_MAP") = 0
  BY DEF RemovalsDelta, MappingsDelta, AdditionsDelta
<1>9. /\ Bump(named.port_removals, p, 0) = d.port_removals
      /\ Bump(named.queue_mappings, q, 0) = d.queue_mappings
      /\ Bump(named.queue_additions, q, 0) = d.queue_additions
      /\ named.additions + 0 = d.additions
      /\ named.removals + 0 = d.removals
  <2>1. /\ d.port_removals \in [Ports -> Int]
        /\ d.queue_mappings \in [Queues -> Int] /\ d.queue_additions \in [Queues -> Int]
        /\ d.additions \in Int /\ d.removals \in Int
    BY <1>1 DEF Dev
  <2> QED
    BY <1>4, <2>1, BumpZero
<1>10. Kept(cell, "UNMAP_IN_PROG_PENDING_MAP") = ParkedSlot(d.qid_map[p][s], q)
  BY <1>3 DEF Kept, ParkedSlot
<1>11. Put(named.qid_map, p, s, ParkedSlot(d.qid_map[p][s], q))
         = Put(d.qid_map, p, s, ParkedSlot(d.qid_map[p][s], q))
  BY <1>2, <1>4, PutTwice
<1> QED
  BY <1>4, <1>7, <1>8, <1>9, <1>10, <1>11 DEF n, named

(* An accepted request leaves its own CQ off until MapDone, unless it      *)
(* fails with an internal error.                                           *)
LEMMA MapAcceptServes == IInv /\ SInv /\ MapAccept => SInv'
<1> SUFFICES ASSUME IInv, SInv, MapAccept
             PROVE  SInv'
  OBVIOUS
<1> DEFINE p == op.p
           q == op.q
           d == disable_if_wanted(dev, p)
           unmap   == find_slot_queue(d, p, "UNMAP_IN_PROG", q)
           parking == find_slot(d, p, "UNMAP_IN_PROG")
           free    == find_slot(d, p, "UNMAPPED")
           recalled == slot_state_transition(d, p, q, unmap, "MAPPED")
           parked == slot_state_transition(
                       [d EXCEPT !.qid_map[p][parking].pending_qid = q],
                       p, q, parking, "UNMAP_IN_PROG_PENDING_MAP")
           done == [op EXCEPT !.pc = "map_done"]
<1>1. /\ p \in Ports /\ q \in Queues \cup {None} /\ op.pc = "map_verify"
      /\ Good(dev) /\ dev \in Dev
      /\ enabled' = enabled
  BY DEF IInv, OpGood, OpType, MapAccept, At, PortPcs, Good
<1>2. \/ dev' = d /\ op' = done /\ efault' = efault
      \/ unmap # 0 /\ dev' = recalled /\ op' = done /\ efault' = efault
      \/ parking # 0 /\ dev' = parked /\ op' = done /\ efault' = efault
      \/ free # 0 /\ map_qid(d, p, q, done) /\ efault' = efault
      \/ op' = Idle /\ efault' = TRUE
  BY DEF MapAccept
<1>3. OpGood(done) /\ done.p = p /\ done.pc = "map_done" /\ done.caller = op.caller
  BY <1>1 DEF IInv, OpGood, OpType, HolderPcs, PortPcs
<1> HIDE DEF done
<1>4. /\ Good(d) /\ d \in Dev /\ SameBooks(d, dev)
      /\ \A r \in Ports : r # p => d.cq_disabled[r] = dev.cq_disabled[r]
  <2>1. \A r \in Ports : d.cq_disabled[r] = (dev.cq_disabled[r] \/ (r = p /\ enabled[p]))
    BY <1>1, DisableWantedEffect
  <2>2. dev.cq_disabled \in [Ports -> BOOLEAN] /\ d \in Dev /\ Good(d) /\ SameBooks(d, dev)
    BY <1>1, CqHelpersGood, RegisterHelpers DEF Good, Dev
  <2>3. d.cq_disabled \in [Ports -> BOOLEAN]
    BY <2>2 DEF Dev
  <2> QED
    BY <2>1, <2>2, <2>3
<1> HIDE DEF d
<1>5. CASE op' = Idle /\ efault' = TRUE
  BY <1>5 DEF SInv, Served, Claimed, Idle
<1>6. ASSUME op'.p = p, op'.caller = op.caller, efault' = efault,
             op'.pc = "map_done" \/ (op'.pc = "disable_cqs" /\ op'.then = "map_done"),
             dev'.cq_disabled = d.cq_disabled,
             \A r \in Ports : r # p => dev'.port_removals[r] = d.port_removals[r],
             Claimed'
      PROVE  SInv'
  <2>1. ASSUME NEW r \in Ports,
               enabled'[r], dev'.port_removals[r] = 0, dev'.cq_disabled[r]
        PROVE  \/ Waiting(r)'
               \/ enabled[r] /\ dev.port_removals[r] = 0 /\ dev.cq_disabled[r] /\ ~Waiting(r)
    <3>1. CASE r = p
      BY <1>6, <3>1 DEF Waiting
    <3>2. CASE r # p
      <4>1. ~Waiting(r)
        BY <1>1, NobodyWaits
      <4>2. dev.cq_disabled[r] /\ dev.port_removals[r] = 0
        BY <1>4, <1>6, <2>1, <3>2 DEF SameBooks
      <4> QED
        BY <1>1, <2>1, <4>1, <4>2
    <3> QED
      BY <3>1, <3>2
  <2> QED
    BY <1>6, <2>1, ServedStays DEF SInv
<1>7. CASE dev' = d /\ op' = done /\ efault' = efault
  BY <1>3, <1>6, <1>7 DEF Claimed
<1>8. CASE unmap # 0 /\ dev' = recalled /\ op' = done /\ efault' = efault
  <2>1. unmap \in Slots /\ d.qid_map[p][unmap].state = "UNMAP_IN_PROG"
    BY <1>8, FindSlots
  <2> HIDE DEF unmap
  <2>2. <<d.qid_map[p][unmap].state, "MAPPED">> \in Transitions
    BY <2>1 DEF Transitions
  <2>3. /\ recalled.cq_disabled = d.cq_disabled
        /\ recalled.port_removals
             = Bump(d.port_removals, p, RemovalsDelta(d.qid_map[p][unmap].state, "MAPPED"))
    BY <1>1, <1>4, <2>1, <2>2, TransitionEffect
  <2>4. d.port_removals \in [Ports -> Int]
    BY <1>4 DEF Dev
  <2> HIDE DEF recalled
  <2>5. \A r \in Ports : r # p => recalled.port_removals[r] = d.port_removals[r]
    BY <2>3, <2>4 DEF Bump
  <2> QED
    BY <1>3, <1>6, <1>8, <2>3, <2>5 DEF Claimed
<1>9. CASE parking # 0 /\ dev' = parked /\ op' = done /\ efault' = efault
  <2>1. parking \in Slots /\ d.qid_map[p][parking].state = "UNMAP_IN_PROG"
    BY <1>9, FindSlots
  <2> HIDE DEF parking
  <2>2. parked.cq_disabled = d.cq_disabled /\ parked.port_removals = d.port_removals
    BY <1>1, <1>4, <2>1, ParkEffect
  <2> HIDE DEF parked
  <2> QED
    BY <1>3, <1>6, <1>9, <2>2 DEF Claimed
<1>10. CASE free # 0 /\ map_qid(d, p, q, done) /\ efault' = efault
  <2>1. \E s \in Slots : d.qid_map[p][s].state = "UNMAPPED"
    BY <1>10, FoundState
  <2> HIDE DEF p, q, free
  <2>2. /\ dev'.cq_disabled = d.cq_disabled
        /\ dev'.port_removals = d.port_removals
        /\ op'.p = p /\ op'.caller = done.caller
        /\ op'.pc = "map_done" \/ (op'.pc = "disable_cqs" /\ op'.then = "map_done")
        /\ Claimed'
    BY <1>1, <1>3, <1>4, <1>10, <2>1, MapQidServes
  <2> QED
    BY <1>3, <1>6, <1>10, <2>2
<1> QED
  BY <1>2, <1>5, <1>7, <1>8, <1>9, <1>10

(* A transition of a slot leaves the removals of other ports alone.        *)
LEMMA TransitionElsewhere ==
  ASSUME NEW d, Good(d), NEW p \in Ports, NEW q, NEW s \in Slots, NEW new,
         <<d.qid_map[p][s].state, new>> \in Transitions
  PROVE  LET n == slot_state_transition(d, p, q, s, new) IN
         /\ n.cq_disabled = d.cq_disabled
         /\ \A r \in Ports : r # p => n.port_removals[r] = d.port_removals[r]
         /\ n.port_removals[p] = d.port_removals[p] + RemovalsDelta(d.qid_map[p][s].state, new)
<1> DEFINE n == slot_state_transition(d, p, q, s, new)
<1>1. d \in Dev /\ d.port_removals \in [Ports -> Int]
  BY DEF Good, Dev
<1>2. /\ n.cq_disabled = d.cq_disabled
      /\ n.port_removals = Bump(d.port_removals, p, RemovalsDelta(d.qid_map[p][s].state, new))
  BY <1>1, TransitionEffect
<1> HIDE DEF n
<1>3. /\ \A r \in Ports : r # p => n.port_removals[r] = d.port_removals[r]
      /\ n.port_removals[p] = d.port_removals[p] + RemovalsDelta(d.qid_map[p][s].state, new)
  BY <1>1, <1>2 DEF Bump
<1> QED
  BY <1>2, <1>3 DEF n

(* A removal begins on a CQ that it has switched off, and holds it off.    *)
LEMMA UnmapQidServes ==
  ASSUME IInv, SInv, NEW p \in Ports, NEW q \in Queues, UnmapQid(p, q)
  PROVE  SInv'
<1>1. /\ op.pc = "idle" /\ Good(dev) /\ dev \in Dev
      /\ enabled' = enabled /\ efault' = efault
      /\ \A r \in Ports : ~Waiting(r)
  <2>1. op.pc = "idle" /\ enabled' = enabled /\ efault' = efault
    BY DEF UnmapQid, UnmapAbort, UnmapWithdraw, UnmapStart, MutexFree, At
  <2> QED
    BY <2>1, NobodyWaits DEF IInv, Good
<1>2. ASSUME UnmapAbort(p, q)
      PROVE  SInv'
  <2> DEFINE s == find_slot_queue(dev, p, "MAP_IN_PROG", q)
             reopened == IF dev.queue_additions[q] = 0 THEN set_inflight_limit(dev, q) ELSE dev
  <2>1. s \in Slots /\ dev.qid_map[p][s].state = "MAP_IN_PROG"
    BY <1>2, FindSlots DEF UnmapAbort
  <2>2. dev' = slot_state_transition(reopened, p, q, s, "UNMAPPED") /\ op' = op
    BY <1>2 DEF UnmapAbort
  <2> HIDE DEF s
  <2>3. /\ Good(reopened) /\ SameBooks(reopened, dev)
        /\ reopened.cq_disabled = dev.cq_disabled
    BY <1>1, LimitHelpersGood, RegisterHelpers DEF SameBooks
  <2> HIDE DEF reopened
  <2>4. reopened.qid_map[p][s].state = "MAP_IN_PROG"
    BY <2>1, <2>3 DEF SameBooks
  <2>5. /\ <<reopened.qid_map[p][s].state, "UNMAPPED">> \in Transitions
        /\ RemovalsDelta("MAP_IN_PROG", "UNMAPPED") = 0
    BY <2>4 DEF Transitions, RemovalsDelta
  <2>6. /\ dev'.cq_disabled = reopened.cq_disabled
        /\ \A r \in Ports : r # p => dev'.port_removals[r] = reopened.port_removals[r]
        /\ dev'.port_removals[p] = reopened.port_removals[p] + 0
    BY <2>1, <2>2, <2>3, <2>4, <2>5, TransitionElsewhere
  <2>7. \A r \in Ports : dev'.port_removals[r] = dev.port_removals[r]
    BY <1>1, <2>3, <2>6 DEF SameBooks, Dev
  <2> QED
    BY <1>1, <2>2, <2>3, <2>6, <2>7, ServedStays DEF SInv, Claimed
<1>3. ASSUME UnmapWithdraw(p, q)
      PROVE  SInv'
  <2> DEFINE s == find_slot_with_pending_map_queue(dev, p, q)
  <2>1. s \in Slots /\ dev.qid_map[p][s].state = "UNMAP_IN_PROG_PENDING_MAP"
    BY <1>3, FindSlots DEF UnmapWithdraw
  <2>2. dev' = slot_state_transition(dev, p, q, s, "UNMAP_IN_PROG") /\ op' = op
    BY <1>3 DEF UnmapWithdraw
  <2> HIDE DEF s
  <2>3. /\ <<dev.qid_map[p][s].state, "UNMAP_IN_PROG">> \in Transitions
        /\ RemovalsDelta("UNMAP_IN_PROG_PENDING_MAP", "UNMAP_IN_PROG") = 0
    BY <2>1 DEF Transitions, RemovalsDelta
  <2>4. /\ dev'.cq_disabled = dev.cq_disabled
        /\ \A r \in Ports : r # p => dev'.port_removals[r] = dev.port_removals[r]
        /\ dev'.port_removals[p] = dev.port_removals[p] + 0
    BY <1>1, <2>1, <2>2, <2>3, TransitionElsewhere
  <2>5. \A r \in Ports : dev'.port_removals[r] = dev.port_removals[r]
    BY <1>1, <2>4 DEF Dev
  <2> QED
    BY <1>1, <2>2, <2>4, <2>5, ServedStays DEF SInv, Claimed
<1>4. ASSUME UnmapStart(p, q)
      PROVE  SInv'
  <2> DEFINE s == find_slot_queue(dev, p, "MAPPED", q)
             off == cq_disable(dev, p)
             marked == slot_state_transition(off, p, q, s, "UNMAP_IN_PROG")
  <2>1. s \in Slots /\ dev.qid_map[p][s].state = "MAPPED"
    BY <1>4, FindSlots DEF UnmapStart
  <2>2. /\ dev' = marked \/ dev' = schedule_work(marked)
        /\ op' = op \/ op' = [Idle EXCEPT !.pc = "unmap_slots", !.p = p]
    BY <1>4 DEF UnmapStart
  <2> HIDE DEF s
  <2>3. /\ Good(off) /\ off \in Dev /\ SameBooks(off, dev)
        /\ off.cq_disabled[p]
        /\ \A r \in Ports : r # p => off.cq_disabled[r] = dev.cq_disabled[r]
    <3>1. Good(off) /\ off \in Dev /\ SameBooks(off, dev)
      BY <1>1, CqHelpersGood, RegisterHelpers DEF Good
    <3>2. off.cq_disabled = [dev.cq_disabled EXCEPT ![p] = TRUE]
      BY <1>1 DEF cq_disable, Dev
    <3> QED
      BY <1>1, <3>1, <3>2 DEF Dev
  <2> HIDE DEF off
  <2>4. off.qid_map[p][s].state = "MAPPED"
    BY <2>1, <2>3 DEF SameBooks
  <2>5. /\ <<off.qid_map[p][s].state, "UNMAP_IN_PROG">> \in Transitions
        /\ RemovalsDelta("MAPPED", "UNMAP_IN_PROG") = 1
    BY <2>4 DEF Transitions, RemovalsDelta
  <2>6. /\ marked.cq_disabled = off.cq_disabled
        /\ \A r \in Ports : r # p => marked.port_removals[r] = off.port_removals[r]
        /\ marked.port_removals[p] = off.port_removals[p] + 1
        /\ Good(marked) /\ marked \in Dev
    BY <2>1, <2>3, <2>4, <2>5, TransitionElsewhere, TransitionGood DEF Good
  <2> HIDE DEF marked
  <2>7. dev'.cq_disabled = marked.cq_disabled /\ dev'.port_removals = marked.port_removals
    BY <2>2, <2>6, RegisterHelpers DEF SameBooks
  <2>8. marked.port_removals[p] # 0
    <3>1. IsFiniteSet(SlotsWith(off, p, Removing))
      BY SlotsFinite, FS_Subset DEF SlotsWith
    <3>2. off.port_removals[p] \in Nat
      BY <2>3, <3>1, FS_CardinalityType DEF Good, Counted
    <3> QED
      BY <2>6, <3>2
  <2>9. ASSUME NEW r \in Ports,
               enabled'[r], dev'.port_removals[r] = 0, dev'.cq_disabled[r]
        PROVE  enabled[r] /\ dev.port_removals[r] = 0 /\ dev.cq_disabled[r]
    BY <1>1, <2>3, <2>6, <2>7, <2>8, <2>9 DEF SameBooks
  <2>10. Claimed' /\ op'.caller \in {"idle", "map_verify", "worker_unmap"}
    BY <1>1, <2>2 DEF Claimed, Idle, SInv
  <2> QED
    BY <1>1, <2>9, <2>10, ServedStays DEF SInv
<1> QED
  BY <1>2, <1>3, <1>4 DEF UnmapQid

(* The entry points and steps that move no slot.                           *)
LEMMA OthersServe ==
  ASSUME IInv, SInv,
         \/ \E p \in Ports, q \in Queues : MapQid(p, q)
         \/ \E p \in Ports : EnablePort(p)
         \/ \E p \in Ports : DisablePort(p)
         \/ MapReject
         \/ MapDone
         \/ FinishUnmapPortDone
         \/ StartDomain \/ StopDomain
         \/ WorkerStart \/ WorkerEnd
         \/ WorkerUnmapPort
         \/ WorkerUnmapDone \/ WorkerMapPort \/ FinishMapPortDone
         \/ FinishMapPortSlot
  PROVE  SInv'
<1>0. /\ Good(dev) /\ dev \in Dev /\ op \in OpType
      /\ enabled \in [Ports -> BOOLEAN] /\ dev.cq_disabled \in [Ports -> BOOLEAN]
  BY DEF IInv, Good, Dev, RestType, OpGood
<1>1. ASSUME UNCHANGED <<enabled, efault>>,
             dev'.cq_disabled = dev.cq_disabled, dev'.port_removals = dev.port_removals,
             op.pc \notin MapPcs \cup {"map_done"},
             op'.pc \in MapPcs => Claimed',
             op'.caller \in {"idle", "map_verify", "worker_unmap"}
      PROVE  SInv'
  <2>1. Claimed'
    BY <1>1 DEF Claimed
  <2> QED
    BY <1>1, <2>1, NobodyWaits, ServedStays DEF SInv
<1>2. ASSUME NEW p \in Ports, NEW q \in Queues, MapQid(p, q)
      PROVE  SInv'
  <2>1. op'.pc \in {"unmap_slots", "map_verify"} /\ op'.caller \in {"idle", "map_verify"}
    BY <1>2 DEF MapQid, Idle
  <2> QED
    BY <1>1, <1>2, <2>1 DEF MapQid, MutexFree, At
<1>3. CASE MapReject
  BY <1>1, <1>3 DEF MapReject, At, Idle
<1>4. CASE MapDone
  <2>1. op.p \in Ports /\ op.pc = "map_done"
    BY <1>4 DEF IInv, OpGood, MapDone, At, PortPcs
  <2> DEFINE n == enable_if_wanted(dev, op.p)
  <2>4. SameBooks(n, dev)
    BY <1>0, RegisterHelpers
  <2>5. \A r \in Ports : n.cq_disabled[r]
          = (dev.cq_disabled[r] /\ (r # op.p \/ ~enabled[op.p] \/ dev.port_removals[op.p] # 0))
    BY <1>0, <2>1 DEF enable_if_wanted, cq_enable, Dev
  <2>6. dev' = n
    BY <1>4 DEF MapDone
  <2> HIDE DEF n
  <2>2. /\ dev'.port_removals = dev.port_removals
        /\ \A r \in Ports : dev'.cq_disabled[r]
             = (dev.cq_disabled[r] /\ (r # op.p \/ ~enabled[op.p] \/ dev.port_removals[op.p] # 0))
    BY <2>4, <2>5, <2>6 DEF SameBooks
  <2>3. ASSUME NEW r \in Ports,
               enabled'[r], dev'.port_removals[r] = 0, dev'.cq_disabled[r]
        PROVE  enabled[r] /\ dev.port_removals[r] = 0 /\ dev.cq_disabled[r] /\ ~Waiting(r)
    <3>1. enabled[r] /\ dev.port_removals[r] = 0
      BY <1>4, <2>2, <2>3 DEF MapDone
    <3>2. dev.cq_disabled[r] /\ r # op.p
      BY <2>2, <2>3, <3>1
    <3> QED
      BY <2>1, <3>1, <3>2 DEF Waiting
  <2> QED
    BY <1>4, <2>3, ServedStays DEF SInv, MapDone, Claimed, Idle
<1>5. CASE FinishUnmapPortDone
  <2>1. op'.pc \notin MapPcs /\ op'.caller = "idle"
    <3>1. CASE op.caller = "idle"
      BY <1>5, <3>1 DEF FinishUnmapPortDone, Idle
    <3>2. CASE op.caller # "idle"
      BY <1>0, <1>5, <3>2 DEF FinishUnmapPortDone, SInv, OpType
    <3> QED
      BY <3>1, <3>2
  <2> QED
    BY <1>1, <1>5, <2>1 DEF FinishUnmapPortDone, At
<1>6. ASSUME NEW p \in Ports, EnablePort(p)
      PROVE  SInv'
  <2>1. /\ dev'.port_removals = dev.port_removals
        /\ \A r \in Ports : dev'.cq_disabled[r]
             = (dev.cq_disabled[r] /\ (r # p \/ dev.port_removals[p] # 0))
        /\ \A r \in Ports : r # p => enabled'[r] = enabled[r]
    <3> DEFINE n == cq_enable(dev, p)
    <3>1. SameBooks(n, dev)
      BY <1>0, RegisterHelpers
    <3>2. \A r \in Ports : n.cq_disabled[r]
            = (dev.cq_disabled[r] /\ (r # p \/ dev.port_removals[p] # 0))
      BY <1>0 DEF cq_enable, Dev
    <3>3. dev' = n
      BY <1>6 DEF EnablePort
    <3> HIDE DEF n
    <3>4. \A r \in Ports : r # p => enabled'[r] = enabled[r]
      BY <1>0, <1>6 DEF EnablePort
    <3> QED
      BY <3>1, <3>2, <3>3, <3>4 DEF SameBooks
  <2>2. op.pc = "idle" /\ op' = op /\ efault' = efault
    BY <1>6 DEF EnablePort, MutexFree, At
  <2> QED
    BY <2>1, <2>2, NobodyWaits, ServedStays DEF SInv, Claimed
<1>7. ASSUME NEW p \in Ports, DisablePort(p)
      PROVE  SInv'
  <2>1. /\ dev'.port_removals = dev.port_removals
        /\ dev'.cq_disabled = [dev.cq_disabled EXCEPT ![p] = TRUE]
        /\ enabled' = [enabled EXCEPT ![p] = FALSE]
    BY <1>0, <1>7 DEF DisablePort, cq_disable, Dev
  <2>2. op.pc = "idle" /\ op' = op /\ efault' = efault
    BY <1>7 DEF DisablePort, MutexFree, At
  <2>3. \A r \in Ports : enabled'[r] => /\ enabled[r]
                                       /\ dev'.cq_disabled[r] = dev.cq_disabled[r]
    BY <1>0, <2>1
  <2> QED
    BY <2>1, <2>2, <2>3, NobodyWaits, ServedStays DEF SInv, Claimed
<1>8. CASE StartDomain \/ StopDomain
  BY <1>1, <1>8 DEF StartDomain, StopDomain, MutexFree, At, SInv
<1>9. CASE WorkerStart \/ WorkerEnd
  <2>1. dev'.cq_disabled = dev.cq_disabled /\ dev'.port_removals = dev.port_removals
    BY <1>0, <1>9 DEF WorkerStart, WorkerEnd, Dev
  <2>2. op'.pc \notin MapPcs /\ op'.caller = "idle"
    <3>1. CASE WorkerStart
      BY <3>1 DEF WorkerStart, Idle
    <3>2. CASE WorkerEnd
      BY <3>2 DEF WorkerEnd, Idle
    <3> QED
      BY <1>9, <3>1, <3>2
  <2> QED
    BY <1>1, <1>9, <2>1, <2>2 DEF WorkerStart, WorkerEnd, MutexFree, At
<1>10. CASE WorkerUnmapPort
  <2>1. op'.pc \notin MapPcs /\ op'.caller \in {"idle", "map_verify", "worker_unmap"}
    BY <1>0, <1>10 DEF WorkerUnmapPort, At, OpType, SInv
  <2> QED
    BY <1>1, <1>10, <2>1 DEF WorkerUnmapPort, At
<1>11. CASE WorkerUnmapDone \/ WorkerMapPort \/ FinishMapPortDone
  <2>1. op'.pc \notin MapPcs /\ op'.caller = op.caller
    BY <1>0, <1>11 DEF WorkerUnmapDone, WorkerMapPort, FinishMapPortDone, OpType
  <2>2. /\ op.pc \in {"worker_unmap", "worker_map", "map_slots"}
        /\ UNCHANGED <<dev, enabled, efault>>
    BY <1>11 DEF WorkerUnmapDone, WorkerMapPort, FinishMapPortDone, At
  <2> QED
    BY <1>1, <2>1, <2>2 DEF SInv
<1>12. CASE FinishMapPortSlot
  <2> DEFINE s == First({t \in SlotsWith(dev, op.p, {"MAP_IN_PROG"}) : t > op.s})
             q == dev.qid_map[op.p][s].qid
  <2>1. s \in Slots /\ dev.qid_map[op.p][s].state = "MAP_IN_PROG"
    <3>1. s \in SlotsWith(dev, op.p, {"MAP_IN_PROG"})
      BY <1>12, FirstType DEF FinishMapPortSlot, SlotsWith
    <3> QED
      BY <3>1 DEF SlotsWith
  <2>2. /\ op' = IF QidDrained(q)
                 THEN [op EXCEPT !.s = s, !.pc = "disable_cqs", !.then = "map_slots", !.mq = q]
                 ELSE [op EXCEPT !.s = s]
        /\ op.pc = "map_slots" /\ UNCHANGED <<dev, enabled, efault>>
    BY <1>12 DEF FinishMapPortSlot, At
  <2> HIDE DEF s
  <2>3. CASE QidDrained(q)
    <3>1. op'.pc = "disable_cqs" /\ op'.then = "map_slots" /\ op'.mq = q /\ op'.p = op.p
          /\ op'.caller = op.caller
      BY <1>0, <2>2, <2>3 DEF OpType
    <3>2. Claimed'
      BY <2>1, <2>2, <3>1 DEF Claimed
    <3> QED
      BY <1>1, <2>2, <3>1, <3>2 DEF SInv
  <2>4. CASE ~QidDrained(q)
    BY <1>0, <1>1, <2>2, <2>4 DEF OpType, SInv
  <2> QED
    BY <2>3, <2>4
<1> QED
  BY <1>2, <1>3, <1>4, <1>5, <1>6, <1>7, <1>8, <1>9, <1>10, <1>11, <1>12

LEMMA EventsServe ==
  ASSUME IInv, SInv, NEW p \in Ports, NEW q \in Queues, Schedule(p, q) \/ Complete(p, q)
  PROVE  SInv'
<1>1. UNCHANGED <<enabled, op, efault>>
  BY DEF Schedule, Complete
<1>2. /\ dev'.cq_disabled = dev.cq_disabled /\ dev'.port_removals = dev.port_removals
      /\ dev'.qid_map = dev.qid_map
  BY DEF Schedule, Complete, IInv, Good, Dev
<1>3. ASSUME NEW r \in Ports
      PROVE  Waiting(r)' <=> Waiting(r)
  <2>1. HasMapped(dev', r, op.mq) <=> HasMapped(dev, r, op.mq)
    BY <1>2, SameMapped
  <2> QED
    BY <1>1, <2>1 DEF Waiting
<1>4. Served'
  BY <1>1, <1>2, <1>3 DEF SInv, Served
<1> QED
  BY <1>1, <1>2, <1>4 DEF SInv, Claimed

LEMMA NextServes == IInv /\ SInv /\ [Next]_vars => SInv'
<1>1. IInv /\ SInv /\ UNCHANGED vars => SInv'
  BY DEF SInv, Served, Claimed, Waiting, vars
<1>2. IInv /\ SInv /\ Ioctl => SInv'
  BY UnmapQidServes, OthersServe DEF Ioctl
<1>3. IInv /\ SInv /\ Holder => SInv'
  BY DynamicServes, FinishUnmapServes, MapAcceptServes, OthersServe DEF Holder
<1> QED
  BY <1>1, <1>2, <1>3, OthersServe, EventsServe DEF Next

LEMMA ServedInductive == Spec => []SInv
BY InitServed, NextServes, Inductive, PTL DEF Spec

(* A CQ that the application wants enabled, and that no removal holds, is  *)
(* enabled whenever the mutex is free: however requests, the worker, and   *)
(* the procedures of other ports that share its queues have switched it    *)
(* off and on.  An ioctl that returned -EFAULT is excepted.                *)
THEOREM EnabledPortsAreServed == Spec => []EnabledPortServed
<1>1. SInv => EnabledPortServed
  BY NobodyWaits DEF SInv, Served, EnabledPortServed, MutexFree, At
<1> QED
  BY <1>1, ServedInductive, PTL
=============================================================================
