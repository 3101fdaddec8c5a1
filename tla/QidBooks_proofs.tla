--------------------------- MODULE QidBooks_proofs ---------------------------
(***************************************************************************)
(* The driver's books about QidMap: the device's tables, the counters of   *)
(* queues and domain, and the requests the application is promised.        *)
(*                                                                         *)
(*  - The tables take a queue from a CQ only while the CQ owes nothing,    *)
(*    whatever the application asks for.                                   *)
(*  - If the application does not ask again for a queue whose own slot     *)
(*    waits to be handed over, a queue is used by one slot of a port at    *)
(*    most; then a removal frees its own slot, the device's tables are     *)
(*    the driver's, and the counters of queues and domain count.           *)
(*  - Under the same condition the tables give a queue to another CQ only  *)
(*    while none of its events is inflight, although the device runs on    *)
(*    between the driver's reads of the inflight count and the write; and  *)
(*    the asynchronous procedures implement QidRequests, requests that     *)
(*    complete at once.                                                    *)
(*                                                                         *)
(* All but the first need the history of requests: NeverRerequested, which  *)
(* one of TLC's runs assumes as well, is a hypothesis of the theorems.     *)
(***************************************************************************)
EXTENDS QidMap_proofs

(* The application asks for no queue whose own slot waits for another.     *)
NeverRerequested == \A p \in Ports : ~Rerequested(p)

-----------------------------------------------------------------------------
(* Counting the slots of all ports.                                        *)

CellsOf(f, states) == {c \in Ports \X Slots : f[c[1]][c[2]].state \in states}
HoldingOf(f, q, states) == {c \in CellsOf(f, states) : f[c[1]][c[2]].qid = q}

In(m, states) == IF m.state \in states THEN 1 ELSE 0

(* A set that gains or loses one element at most.                          *)
LEMMA CountMoved ==
  ASSUME NEW Old, NEW New, NEW c, IsFiniteSet(Old), New \ {c} = Old \ {c}
  PROVE  /\ Cardinality(Old) \in Nat
         /\ Cardinality(New) = Cardinality(Old) + (IF c \in New THEN 1 ELSE 0)
                                                - (IF c \in Old THEN 1 ELSE 0)
<1>1. Cardinality(Old) \in Nat
  BY FS_CardinalityType
<1>2. CASE c \in New
  <2>1. New = Old \cup {c}
    BY <1>2
  <2>2. Cardinality(New) = IF c \in Old THEN Cardinality(Old) ELSE Cardinality(Old) + 1
    BY <2>1, FS_AddElement
  <2> QED
    BY <1>1, <1>2, <2>2
<1>3. CASE c \notin New
  <2>1. New = Old \ {c}
    BY <1>3
  <2>2. Cardinality(New) = IF c \in Old THEN Cardinality(Old) - 1 ELSE Cardinality(Old)
    BY <2>1, FS_RemoveElement
  <2> QED
    BY <1>1, <1>3, <2>2
<1> QED
  BY <1>2, <1>3

LEMMA CellsFinite ==
  ASSUME NEW f, NEW q, NEW states
  PROVE  IsFiniteSet(CellsOf(f, states)) /\ IsFiniteSet(HoldingOf(f, q, states))
<1>1. IsFiniteSet(Ports \X Slots)
  BY SlotsFinite, QidMapAssumption, FS_Product
<1>2. /\ CellsOf(f, states) \in SUBSET (Ports \X Slots)
      /\ HoldingOf(f, q, states) \in SUBSET (Ports \X Slots)
  BY DEF CellsOf, HoldingOf
<1> QED
  BY <1>1, <1>2, FS_Subset

Table(f) == f \in [Ports -> [Slots -> SlotType]]

(* What a change of one slot does to a cell.                               *)
LEMMA CellAfter ==
  ASSUME NEW f, Table(f), NEW p \in Ports, NEW s \in Slots,
         NEW v \in SlotType
  PROVE  /\ \A r \in Ports, t \in Slots :
              Put(f, p, s, v)[r][t] = IF r = p /\ t = s THEN v ELSE f[r][t]
         /\ \A c \in Ports \X Slots :
              Put(f, p, s, v)[c[1]][c[2]] = IF c = <<p, s>> THEN v ELSE f[c[1]][c[2]]
<1>1. ASSUME NEW r \in Ports, NEW t \in Slots
      PROVE  Put(f, p, s, v)[r][t] = IF r = p /\ t = s THEN v ELSE f[r][t]
  <2>1. CASE r = p
    BY <2>1 DEF Put, Table
  <2>2. CASE r # p
    BY <2>2 DEF Put, Table
  <2> QED
    BY <2>1, <2>2
<1>2. ASSUME NEW c \in Ports \X Slots
      PROVE  Put(f, p, s, v)[c[1]][c[2]] = IF c = <<p, s>> THEN v ELSE f[c[1]][c[2]]
  <2>1. PICK r \in Ports, t \in Slots : c = <<r, t>>
    OBVIOUS
  <2>2. c[1] = r /\ c[2] = t /\ (c = <<p, s>> <=> r = p /\ t = s)
    BY <2>1
  <2> QED
    BY <1>1, <2>2
<1> QED
  BY <1>1, <1>2

(* ... and to the number of slots in some states ...                       *)
LEMMA CellsMoved ==
  ASSUME NEW f, Table(f), NEW p \in Ports, NEW s \in Slots,
         NEW v \in SlotType, NEW states
  PROVE  Cardinality(CellsOf(Put(f, p, s, v), states))
         = Cardinality(CellsOf(f, states)) + (In(v, states) - In(f[p][s], states))
<1> DEFINE g == Put(f, p, s, v)
           Old == CellsOf(f, states)
           New == CellsOf(g, states)
           c == <<p, s>>
<1>1. \A e \in Ports \X Slots : g[e[1]][e[2]] = IF e = c THEN v ELSE f[e[1]][e[2]]
  <2>1. g = Put(f, p, s, v)
    OBVIOUS
  <2> HIDE DEF g
  <2> QED
    BY <2>1, CellAfter
<1>2. c \in Ports \X Slots /\ c[1] = p /\ c[2] = s
  OBVIOUS
<1> HIDE DEF g, c
<1>3. New \ {c} = Old \ {c}
  BY <1>1 DEF CellsOf
<1>4. (c \in New <=> v.state \in states) /\ (c \in Old <=> f[p][s].state \in states)
  BY <1>1, <1>2 DEF CellsOf
<1>5. IsFiniteSet(Old)
  BY CellsFinite
<1> HIDE DEF Old, New
<1>6. /\ Cardinality(Old) \in Nat
      /\ Cardinality(New) = Cardinality(Old) + (IF c \in New THEN 1 ELSE 0)
                                             - (IF c \in Old THEN 1 ELSE 0)
  BY <1>3, <1>5, CountMoved
<1> QED
  BY <1>4, <1>6 DEF In, Old, New, g

(* A slot in one of some states has the queue q.                           *)
HasIn(m, states, q) == m.state \in states => m.qid = q

(* ... and of these to the ones that hold a queue.                         *)
LEMMA HoldingMoved ==
  ASSUME NEW f, Table(f), NEW p \in Ports, NEW s \in Slots,
         NEW v \in SlotType, NEW states, NEW q, NEW r,
         HasIn(v, states, q), HasIn(f[p][s], states, q)
  PROVE  Cardinality(HoldingOf(Put(f, p, s, v), r, states))
         = Cardinality(HoldingOf(f, r, states))
           + (IF r = q THEN In(v, states) - In(f[p][s], states) ELSE 0)
<1> DEFINE g == Put(f, p, s, v)
           Old == HoldingOf(f, r, states)
           New == HoldingOf(g, r, states)
           c == <<p, s>>
<1>1. \A e \in Ports \X Slots : g[e[1]][e[2]] = IF e = c THEN v ELSE f[e[1]][e[2]]
  <2>1. g = Put(f, p, s, v)
    OBVIOUS
  <2> HIDE DEF g
  <2> QED
    BY <2>1, CellAfter
<1>2. c \in Ports \X Slots /\ c[1] = p /\ c[2] = s
  OBVIOUS
<1> HIDE DEF g, c
<1>3. New \ {c} = Old \ {c}
  BY <1>1 DEF CellsOf, HoldingOf
<1>4. /\ c \in New <=> v.state \in states /\ r = q
      /\ c \in Old <=> f[p][s].state \in states /\ r = q
  BY <1>1, <1>2 DEF CellsOf, HoldingOf, HasIn
<1>5. IsFiniteSet(Old)
  BY CellsFinite
<1> HIDE DEF Old, New
<1>6. /\ Cardinality(Old) \in Nat
      /\ Cardinality(New) = Cardinality(Old) + (IF c \in New THEN 1 ELSE 0)
                                             - (IF c \in Old THEN 1 ELSE 0)
  BY <1>3, <1>5, CountMoved
<1> QED
  BY <1>4, <1>6 DEF In, Old, New, g

-----------------------------------------------------------------------------
(* The books.                                                              *)

(* The queues that a slot has, or will have.                               *)
UsesOf(m) ==
  (IF m.state = "UNMAPPED" THEN {} ELSE {m.qid})
  \cup (IF m.state = "UNMAP_IN_PROG_PENDING_MAP" THEN {m.pending_qid} ELSE {})

Unique(d) ==
  \A p \in Ports : \A s, t \in Slots :
    s # t => UsesOf(d.qid_map[p][s]) \cap UsesOf(d.qid_map[p][t]) = {}

EntryOf(m) == IF m.state \in InHardware THEN m.qid ELSE None

Matches(d) ==
  \A p \in Ports, s \in Slots : d.cq2qid[p][s] = EntryOf(d.qid_map[p][s])

Totals(d) ==
  /\ \A q \in Queues :
       /\ d.queue_mappings[q] = Cardinality(HoldingOf(d.qid_map, q, InHardware))
       /\ d.queue_additions[q] = Cardinality(HoldingOf(d.qid_map, q, {"MAP_IN_PROG"}))
  /\ d.additions = Cardinality(CellsOf(d.qid_map, {"MAP_IN_PROG"}))
  /\ d.removals = Cardinality(CellsOf(d.qid_map, Removing))

Books(d) == Unique(d) /\ Matches(d) /\ Totals(d)

(* The books are those of the fields that SameBooks compares.              *)
LEMMA BooksSame ==
  ASSUME NEW d, NEW e, SameBooks(e, d)
  PROVE  Books(d) => Books(e)
BY DEF SameBooks, Books, Unique, Matches, Totals

(* One counter follows.                                                    *)
LEMMA BumpRead ==
  ASSUME NEW S, NEW f \in [S -> Int], NEW x, NEW i \in Int, NEW y \in S
  PROVE  Bump(f, x, i)[y] = f[y] + (IF y = x THEN i ELSE 0)
<1>1. CASE y = x
  BY <1>1 DEF Bump
<1>2. CASE y # x
  BY <1>2 DEF Bump
<1> QED
  BY <1>1, <1>2

(* One slot goes from m to v, and the books of queue q and of the domain   *)
(* are kept.                                                               *)
Entered(d, n, p, s, m, v, q) ==
  /\ d.qid_map[p][s] = m
  /\ n.qid_map = Put(d.qid_map, p, s, v)
  /\ v.state # "UNMAPPED" => v.qid = q
  /\ m.state # "UNMAPPED" => m.qid = q
  /\ n.cq2qid = Put(d.cq2qid, p, s, EntryOf(v))
  /\ n.queue_mappings
       = Bump(d.queue_mappings, q, In(v, InHardware) - In(m, InHardware))
  /\ n.queue_additions
       = Bump(d.queue_additions, q, In(v, {"MAP_IN_PROG"}) - In(m, {"MAP_IN_PROG"}))
  /\ n.additions = d.additions + (In(v, {"MAP_IN_PROG"}) - In(m, {"MAP_IN_PROG"}))
  /\ n.removals = d.removals + (In(v, Removing) - In(m, Removing))

(* The new slot shares no queue with the other slots of the port.          *)
Apart(d, p, s, v) ==
  \A t \in Slots : t # s => UsesOf(v) \cap UsesOf(d.qid_map[p][t]) = {}

LEMMA OneSlotBooks ==
  ASSUME NEW d \in Dev, NEW n, NEW p \in Ports, NEW s \in Slots, NEW v \in SlotType,
         NEW m, NEW q,
         Books(d), Entered(d, n, p, s, m, v, q), Apart(d, p, s, v)
  PROVE  Books(n)
<1> DEFINE f == d.qid_map
           old == m
<1> USE DEF Entered
<1>0. Table(f)
  BY DEF Dev, Table
<1>1. /\ f \in [Ports -> [Slots -> SlotType]]
      /\ d.queue_mappings \in [Queues -> Int] /\ d.queue_additions \in [Queues -> Int]
      /\ d.additions \in Int /\ d.removals \in Int
      /\ d.cq2qid \in [Ports -> [Slots -> Queues \cup {None}]]
  BY DEF Dev
<1>2. \A states : In(v, states) - In(old, states) \in Int
  BY DEF In
<1>3. Unique(n)
  <2>1. /\ \A r \in Ports : r # p => n.qid_map[r] = f[r]
        /\ \A t \in Slots : t # s => n.qid_map[p][t] = f[p][t]
        /\ n.qid_map[p][s] = v
    <3> HIDE DEF f
    <3>1. \A r \in Ports, t \in Slots :
            Put(f, p, s, v)[r][t] = IF r = p /\ t = s THEN v ELSE f[r][t]
      BY <1>0, CellAfter
    <3>2. \A r \in Ports : r # p => Put(f, p, s, v)[r] = f[r]
      BY <1>1 DEF Put
    <3>3. n.qid_map = Put(f, p, s, v)
      BY DEF f
    <3> QED
      BY <3>1, <3>2, <3>3
  <2>2. ASSUME NEW r \in Ports, NEW t \in Slots, NEW u \in Slots, t # u
        PROVE  UsesOf(n.qid_map[r][t]) \cap UsesOf(n.qid_map[r][u]) = {}
    <3>1. UsesOf(f[r][t]) \cap UsesOf(f[r][u]) = {}
      BY <2>2 DEF Books, Unique
    <3>2. CASE r # p \/ (t # s /\ u # s)
      BY <2>1, <3>1, <3>2
    <3>3. CASE r = p /\ t = s
      BY <2>1, <2>2, <3>3 DEF Apart
    <3>4. CASE r = p /\ u = s
      BY <2>1, <2>2, <3>4 DEF Apart
    <3> QED
      BY <3>2, <3>3, <3>4
  <2> QED
    BY <2>2 DEF Unique
<1>4. Matches(n)
  <2>1. ASSUME NEW r \in Ports, NEW t \in Slots
        PROVE  n.cq2qid[r][t] = EntryOf(n.qid_map[r][t])
    <3>1. d.cq2qid[r][t] = EntryOf(f[r][t])
      BY DEF Books, Matches
    <3>2. CASE r # p
      BY <1>1, <3>1, <3>2 DEF Put
    <3>3. CASE r = p /\ t # s
      BY <1>1, <3>1, <3>3 DEF Put
    <3>4. CASE r = p /\ t = s
      BY <1>1, <3>4 DEF Put
    <3> QED
      BY <3>2, <3>3, <3>4
  <2> QED
    BY <2>1 DEF Matches
<1>5. Totals(n)
  <2>1. ASSUME NEW r \in Queues
        PROVE  /\ n.queue_mappings[r] = Cardinality(HoldingOf(n.qid_map, r, InHardware))
               /\ n.queue_additions[r] = Cardinality(HoldingOf(n.qid_map, r, {"MAP_IN_PROG"}))
    <3>1. /\ n.queue_mappings[r] = d.queue_mappings[r]
               + (IF r = q THEN In(v, InHardware) - In(old, InHardware) ELSE 0)
          /\ n.queue_additions[r] = d.queue_additions[r]
               + (IF r = q THEN In(v, {"MAP_IN_PROG"}) - In(old, {"MAP_IN_PROG"}) ELSE 0)
      <4> DEFINE i == In(v, InHardware) - In(old, InHardware)
                 j == In(v, {"MAP_IN_PROG"}) - In(old, {"MAP_IN_PROG"})
      <4>1. i \in Int /\ j \in Int
        BY <1>2
      <4>2. /\ n.queue_mappings = Bump(d.queue_mappings, q, i)
            /\ n.queue_additions = Bump(d.queue_additions, q, j)
        OBVIOUS
      <4> HIDE DEF i, j
      <4>3. /\ n.queue_mappings[r] = d.queue_mappings[r] + (IF r = q THEN i ELSE 0)
            /\ n.queue_additions[r] = d.queue_additions[r] + (IF r = q THEN j ELSE 0)
        BY <1>1, <4>1, <4>2, BumpRead
      <4> QED
        BY <4>3 DEF i, j
    <3>2. \A states : "UNMAPPED" \notin states =>
            Cardinality(HoldingOf(n.qid_map, r, states))
            = Cardinality(HoldingOf(f, r, states))
              + (IF r = q THEN In(v, states) - In(old, states) ELSE 0)
      <4> TAKE states
      <4> HAVE "UNMAPPED" \notin states
      <4>1. HasIn(v, states, q) /\ HasIn(old, states, q)
        BY DEF HasIn
      <4>2. n.qid_map = Put(f, p, s, v) /\ old = f[p][s]
        OBVIOUS
      <4> HIDE DEF f, old
      <4> QED
        BY <1>0, <4>1, <4>2, HoldingMoved
    <3>3. "UNMAPPED" \notin InHardware /\ "UNMAPPED" \notin {"MAP_IN_PROG"}
      BY DEF InHardware
    <3>4. /\ d.queue_mappings[r] = Cardinality(HoldingOf(f, r, InHardware))
          /\ d.queue_additions[r] = Cardinality(HoldingOf(f, r, {"MAP_IN_PROG"}))
      BY DEF Books, Totals
    <3> HIDE DEF f, old
    <3> QED
      BY <3>1, <3>2, <3>3, <3>4
  <2>2. /\ n.additions = Cardinality(CellsOf(n.qid_map, {"MAP_IN_PROG"}))
        /\ n.removals = Cardinality(CellsOf(n.qid_map, Removing))
    <3>1. /\ d.additions = Cardinality(CellsOf(f, {"MAP_IN_PROG"}))
          /\ d.removals = Cardinality(CellsOf(f, Removing))
      BY DEF Books, Totals
    <3>2. \A states : Cardinality(CellsOf(n.qid_map, states))
                      = Cardinality(CellsOf(f, states)) + (In(v, states) - In(old, states))
      <4>1. n.qid_map = Put(f, p, s, v) /\ old = f[p][s]
        OBVIOUS
      <4> HIDE DEF f, old
      <4> QED
        BY <1>0, <4>1, CellsMoved
    <3> HIDE DEF f
    <3> QED
      BY <3>1, <3>2 DEF f
  <2> QED
    BY <2>1, <2>2 DEF Totals
<1> QED
  BY <1>3, <1>4, <1>5 DEF Books

-----------------------------------------------------------------------------
(* The helpers keep the books.                                             *)

(* The nested switch counts what the states say.                           *)
LEMMA DeltasAre ==
  ASSUME NEW m, NEW v, <<m.state, v.state>> \in Transitions
  PROVE  /\ MappingsDelta(m.state, v.state) = In(v, InHardware) - In(m, InHardware)
         /\ AdditionsDelta(m.state, v.state) = In(v, {"MAP_IN_PROG"}) - In(m, {"MAP_IN_PROG"})
         /\ RemovalsDelta(m.state, v.state) = In(v, Removing) - In(m, Removing)
<1>1. MappingsDelta(m.state, v.state) = In(v, InHardware) - In(m, InHardware)
  BY DEF Transitions, MappingsDelta, In, InHardware
<1>2. AdditionsDelta(m.state, v.state) = In(v, {"MAP_IN_PROG"}) - In(m, {"MAP_IN_PROG"})
  BY DEF Transitions, AdditionsDelta, In
<1>3. RemovalsDelta(m.state, v.state) = In(v, Removing) - In(m, Removing)
  BY DEF Transitions, RemovalsDelta, In, Removing
<1> QED
  BY <1>1, <1>2, <1>3

(* An entry that is written as it was.                                     *)
LEMMA PutSame ==
  ASSUME NEW d \in Dev, NEW p \in Ports, NEW s \in Slots
  PROVE  Put(d.cq2qid, p, s, d.cq2qid[p][s]) = d.cq2qid
<1>1. d.cq2qid \in [Ports -> [Slots -> Queues \cup {None}]]
  BY DEF Dev
<1>2. [d.cq2qid[p] EXCEPT ![s] = d.cq2qid[p][s]] = d.cq2qid[p]
  BY <1>1
<1> QED
  BY <1>1, <1>2 DEF Put

(* The transitions that move a slot between two states of the tables, or   *)
(* between two states that they do not have.                               *)
LEMMA TransitionBooks ==
  ASSUME NEW d, Good(d), Books(d), NEW p \in Ports, NEW s \in Slots, NEW q, NEW new,
         <<d.qid_map[p][s].state, new>>
           \in {<<"MAP_IN_PROG", "UNMAPPED">>, <<"MAPPED", "UNMAP_IN_PROG">>,
                <<"UNMAP_IN_PROG", "MAPPED">>,
                <<"UNMAP_IN_PROG_PENDING_MAP", "UNMAP_IN_PROG">>},
         \/ d.qid_map[p][s].qid = q
         \/ d.qid_map[p][s].state = "UNMAP_IN_PROG_PENDING_MAP"
  PROVE  Books(slot_state_transition(d, p, q, s, new))
<1> DEFINE m == d.qid_map[p][s]
           n == slot_state_transition(d, p, q, s, new)
           v == Kept(m, new)
<1>1. d \in Dev /\ m \in SlotType
  <2>1. d \in Dev /\ d.qid_map \in [Ports -> [Slots -> SlotType]]
    BY DEF Good, Dev
  <2> QED
    BY <2>1
<1>2. <<m.state, new>> \in Transitions
  BY DEF Transitions
<1>3. /\ n.qid_map = Put(d.qid_map, p, s, v)
      /\ n.cq2qid = d.cq2qid
      /\ n.queue_mappings = Bump(d.queue_mappings, q, MappingsDelta(m.state, new))
      /\ n.queue_additions = Bump(d.queue_additions, q, AdditionsDelta(m.state, new))
      /\ n.additions = d.additions + AdditionsDelta(m.state, new)
      /\ n.removals = d.removals + RemovalsDelta(m.state, new)
  BY <1>1, <1>2, TransitionEffect
<1>4. d.cq2qid[p][s] = EntryOf(m)
  BY DEF Books, Matches
<1> HIDE DEF n
<1>5. /\ m.state \in SlotStates /\ m.qid \in Queues \cup {None}
      /\ m.pending_qid \in Queues \cup {None}
  BY <1>1 DEF SlotType
<1>6. /\ <<m.state, new>> \in {<<"MAP_IN_PROG", "UNMAPPED">>, <<"MAPPED", "UNMAP_IN_PROG">>,
                               <<"UNMAP_IN_PROG", "MAPPED">>,
                               <<"UNMAP_IN_PROG_PENDING_MAP", "UNMAP_IN_PROG">>}
      /\ m.qid = q \/ m.state = "UNMAP_IN_PROG_PENDING_MAP"
  OBVIOUS
<1> HIDE DEF m
<1>7. /\ v \in SlotType /\ v.state = new
      /\ v.state # "UNMAPPED" => v.qid = m.qid
      /\ EntryOf(v) = EntryOf(m)
      /\ UsesOf(v) \subseteq UsesOf(m)
  <2>1. v.state = new /\ v \in SlotType
    BY <1>5, <1>6 DEF Kept, SlotType, SlotStates
  <2>2. v.state # "UNMAPPED" => v.qid = m.qid
    BY DEF Kept
  <2>3. EntryOf(v) = EntryOf(m)
    BY <1>6, <2>1, <2>2 DEF EntryOf, InHardware
  <2>4. UsesOf(v) \subseteq UsesOf(m)
    BY <1>6, <2>1, <2>2 DEF UsesOf
  <2> QED
    BY <2>1, <2>2, <2>3, <2>4
<1> HIDE DEF v
<1>8. /\ MappingsDelta(m.state, new) = In(v, InHardware) - In(m, InHardware)
      /\ AdditionsDelta(m.state, new) = In(v, {"MAP_IN_PROG"}) - In(m, {"MAP_IN_PROG"})
      /\ RemovalsDelta(m.state, new) = In(v, Removing) - In(m, Removing)
  BY <1>2, <1>7, DeltasAre
<1>9. /\ n.queue_mappings = Bump(d.queue_mappings, m.qid, MappingsDelta(m.state, new))
      /\ n.queue_additions = Bump(d.queue_additions, m.qid, AdditionsDelta(m.state, new))
  <2>1. CASE m.qid = q
    BY <1>3, <2>1
  <2>2. CASE m.qid # q
    <3>1. MappingsDelta(m.state, new) = 0 /\ AdditionsDelta(m.state, new) = 0
      BY <1>6, <2>2 DEF MappingsDelta, AdditionsDelta
    <3>2. d.queue_mappings \in [Queues -> Int] /\ d.queue_additions \in [Queues -> Int]
      BY <1>1 DEF Dev
    <3> QED
      BY <1>3, <3>1, <3>2, BumpZero
  <2> QED
    BY <2>1, <2>2
<1>10. n.cq2qid = Put(d.cq2qid, p, s, EntryOf(v))
  BY <1>1, <1>3, <1>4, <1>7, PutSame
<1>11. Entered(d, n, p, s, m, v, m.qid)
  BY <1>3, <1>7, <1>8, <1>9, <1>10 DEF Entered, m
<1>12. Apart(d, p, s, v)
  BY <1>7 DEF Apart, Books, Unique, m
<1>13. Books(n)
  BY <1>1, <1>7, <1>11, <1>12, OneSlotBooks
<1> QED
  BY <1>13 DEF n

(* No slot of the port has the queue, or will have it.                     *)
Unused(d, p, q) == \A t \in Slots : q \notin UsesOf(d.qid_map[p][t])

(* A static map of a queue that no slot has, or that is being mapped.      *)
LEMMA StaticBooks ==
  ASSUME NEW d, Good(d), Books(d), NEW p \in Ports, NEW q \in Queues \cup {None},
         \/ Unused(d, p, q)
         \/ \E t \in Slots : d.qid_map[p][t].state = "MAP_IN_PROG" /\ d.qid_map[p][t].qid = q
  PROVE  Books(map_qid_static(d, p, q))
<1> DEFINE s == StaticSlot(d, p, q)
           n == map_qid_static(d, p, q)
           m == d.qid_map[p][s]
           v == MappedSlot(q)
<1>1. d \in Dev /\ d.qid_map \in [Ports -> [Slots -> SlotType]]
  BY DEF Good, Dev
<1>2. /\ s \in Slots \cup {0}
      /\ s # 0 =>
           \/ m.state = "MAP_IN_PROG" /\ m.qid = q
           \/ /\ m.state = "MAPPED" /\ m.qid = q
              /\ \A t \in Slots : ~ (/\ d.qid_map[p][t].state = "MAP_IN_PROG"
                                     /\ d.qid_map[p][t].qid = q)
           \/ /\ m.state = "UNMAPPED"
              /\ \A t \in Slots : ~ (/\ d.qid_map[p][t].state \in {"MAPPED", "MAP_IN_PROG"}
                                     /\ d.qid_map[p][t].qid = q)
  <2> HIDE DEF s
  <2>1. s = StaticSlot(d, p, q)
    BY DEF s
  <2> QED
    BY <2>1, StaticSlotIs
<1>3. CASE s = 0
  BY <1>3, StaticEffect
<1>4. CASE s # 0
  <2>1. /\ <<m.state, "MAPPED">> \in Transitions
        /\ n.qid_map = Put(d.qid_map, p, s, v)
        /\ n.cq2qid = Put(d.cq2qid, p, s, q)
        /\ n.queue_mappings = Bump(d.queue_mappings, q, MappingsDelta(m.state, "MAPPED"))
        /\ n.queue_additions = Bump(d.queue_additions, q, AdditionsDelta(m.state, "MAPPED"))
        /\ n.additions = d.additions + AdditionsDelta(m.state, "MAPPED")
        /\ n.removals = d.removals
    BY <1>4, StaticEffect
  <2>2. s \in Slots /\ m \in SlotType
    BY <1>1, <1>2, <1>4
  <2> HIDE DEF s, n
  <2>3. v \in SlotType /\ v.state = "MAPPED" /\ v.qid = q
        /\ UsesOf(v) = {q} /\ EntryOf(v) = q
    BY DEF MappedSlot, SlotType, SlotStates, UsesOf, EntryOf, InHardware
  <2> HIDE DEF v
  <2>4. /\ MappingsDelta(m.state, "MAPPED") = In(v, InHardware) - In(m, InHardware)
        /\ AdditionsDelta(m.state, "MAPPED") = In(v, {"MAP_IN_PROG"}) - In(m, {"MAP_IN_PROG"})
    BY <2>1, <2>3, DeltasAre
  <2>5. m.state \in {"MAP_IN_PROG", "MAPPED", "UNMAPPED"} /\ (m.state # "UNMAPPED" => m.qid = q)
    BY <1>2, <1>4
  <2>6. In(v, Removing) - In(m, Removing) = 0 /\ d.removals \in Int
    BY <1>1, <2>3, <2>5 DEF In, Removing, Dev
  <2>7. Entered(d, n, p, s, m, v, q)
    BY <2>1, <2>3, <2>4, <2>5, <2>6 DEF Entered
  <2>8. Apart(d, p, s, v)
    <3>1. CASE Unused(d, p, q)
      BY <2>3, <3>1 DEF Apart, Unused
    <3>2. CASE m.state # "UNMAPPED"
      <4>1. q \in UsesOf(m)
        BY <2>5, <3>2 DEF UsesOf
      <4> QED
        BY <2>2, <2>3, <4>1 DEF Apart, Books, Unique
    <3>3. CASE ~Unused(d, p, q) /\ m.state = "UNMAPPED"
      BY <1>2, <1>4, <3>3
    <3> QED
      BY <3>1, <3>2, <3>3
  <2>9. Books(n)
    BY <1>1, <2>2, <2>3, <2>7, <2>8, OneSlotBooks
  <2> QED
    BY <2>9 DEF n
<1> QED
  BY <1>2, <1>3, <1>4

(* The head of a dynamic map.                                              *)
LEMMA BeginBooks ==
  ASSUME NEW d, Good(d), Books(d), NEW p \in Ports, NEW q \in Queues \cup {None},
         Unused(d, p, q)
  PROVE  Books(begin_map_qid_dynamic(d, p, q))
<1> DEFINE s == find_slot(d, p, "UNMAPPED")
           n == begin_map_qid_dynamic(d, p, q)
           m == d.qid_map[p][s]
           v == PromisedSlot(q)
<1>1. d \in Dev /\ d.qid_map \in [Ports -> [Slots -> SlotType]]
  BY DEF Good, Dev
<1>2. /\ s \in Slots \cup {0}
      /\ s = 0 => SameBooks(n, d)
  BY BeginEffect
<1>3. CASE s = 0
  BY <1>2, <1>3, BooksSame
<1>4. CASE s # 0
  <2>1. /\ m.state = "UNMAPPED"
        /\ n.qid_map = Put(d.qid_map, p, s, v)
        /\ n.queue_additions = Bump(d.queue_additions, q, 1)
        /\ n.additions = d.additions + 1
        /\ n.cq2qid = d.cq2qid
        /\ n.queue_mappings = d.queue_mappings
        /\ n.removals = d.removals
    BY <1>4, BeginEffect
  <2>2. s \in Slots /\ m \in SlotType
    BY <1>1, <1>2, <1>4
  <2>3. d.cq2qid[p][s] = EntryOf(m)
    BY <2>2 DEF Books, Matches
  <2> HIDE DEF s, n
  <2>4. v \in SlotType /\ v.state = "MAP_IN_PROG" /\ v.qid = q
        /\ UsesOf(v) = {q} /\ EntryOf(v) = EntryOf(m)
    BY <2>1 DEF PromisedSlot, SlotType, SlotStates, UsesOf, EntryOf, InHardware
  <2> HIDE DEF v
  <2>5. /\ In(v, InHardware) - In(m, InHardware) = 0
        /\ In(v, {"MAP_IN_PROG"}) - In(m, {"MAP_IN_PROG"}) = 1
        /\ In(v, Removing) - In(m, Removing) = 0
    BY <2>1, <2>4 DEF In, InHardware, Removing
  <2>6. /\ n.queue_mappings = Bump(d.queue_mappings, q, 0)
        /\ n.removals = d.removals + 0
        /\ n.cq2qid = Put(d.cq2qid, p, s, EntryOf(v))
    <3>1. d.queue_mappings \in [Queues -> Int] /\ d.removals \in Int
      BY <1>1 DEF Dev
    <3> QED
      BY <1>1, <2>1, <2>2, <2>3, <2>4, <3>1, BumpZero, PutSame
  <2>7. Entered(d, n, p, s, m, v, q)
    BY <2>1, <2>4, <2>5, <2>6 DEF Entered
  <2>8. Apart(d, p, s, v)
    BY <2>4 DEF Apart, Unused
  <2>9. Books(n)
    BY <1>1, <2>2, <2>4, <2>7, <2>8, OneSlotBooks
  <2> QED
    BY <2>9 DEF n
<1> QED
  BY <1>2, <1>3, <1>4

(* A map that waits for a slot.                                            *)
LEMMA ParkBooks ==
  ASSUME NEW d, Good(d), Books(d), NEW p \in Ports, NEW s \in Slots,
         NEW q \in Queues \cup {None},
         d.qid_map[p][s].state = "UNMAP_IN_PROG", Unused(d, p, q)
  PROVE  Books(slot_state_transition([d EXCEPT !.qid_map[p][s].pending_qid = q],
                                     p, q, s, "UNMAP_IN_PROG_PENDING_MAP"))
<1> DEFINE n == slot_state_transition([d EXCEPT !.qid_map[p][s].pending_qid = q],
                                      p, q, s, "UNMAP_IN_PROG_PENDING_MAP")
           m == d.qid_map[p][s]
           v == ParkedSlot(m, q)
<1>1. d \in Dev /\ d.qid_map \in [Ports -> [Slots -> SlotType]]
  BY DEF Good, Dev
<1>2. /\ n.qid_map = Put(d.qid_map, p, s, v)
      /\ n.cq2qid = d.cq2qid
      /\ n.queue_mappings = d.queue_mappings
      /\ n.queue_additions = d.queue_additions
      /\ n.additions = d.additions
      /\ n.removals = d.removals
  BY ParkEffect
<1>3. m \in SlotType /\ m.state = "UNMAP_IN_PROG"
  BY <1>1
<1>4. d.cq2qid[p][s] = EntryOf(m)
  BY DEF Books, Matches
<1> HIDE DEF n, m
<1>5. v \in SlotType /\ v.state = "UNMAP_IN_PROG_PENDING_MAP" /\ v.qid = m.qid
      /\ UsesOf(v) = UsesOf(m) \cup {q} /\ EntryOf(v) = EntryOf(m)
  BY <1>3 DEF ParkedSlot, SlotType, SlotStates, UsesOf, EntryOf, InHardware
<1> HIDE DEF v
<1>6. /\ In(v, InHardware) - In(m, InHardware) = 0
      /\ In(v, {"MAP_IN_PROG"}) - In(m, {"MAP_IN_PROG"}) = 0
      /\ In(v, Removing) - In(m, Removing) = 0
  BY <1>3, <1>5 DEF In, InHardware, Removing
<1>7. /\ n.queue_mappings = Bump(d.queue_mappings, m.qid, 0)
      /\ n.queue_additions = Bump(d.queue_additions, m.qid, 0)
      /\ n.additions = d.additions + 0
      /\ n.removals = d.removals + 0
      /\ n.cq2qid = Put(d.cq2qid, p, s, EntryOf(v))
  <2>1. /\ d.queue_mappings \in [Queues -> Int] /\ d.queue_additions \in [Queues -> Int]
        /\ d.additions \in Int /\ d.removals \in Int
    BY <1>1 DEF Dev
  <2> QED
    BY <1>1, <1>2, <1>4, <1>5, <2>1, BumpZero, PutSame
<1>8. Entered(d, n, p, s, m, v, m.qid)
  BY <1>2, <1>5, <1>6, <1>7 DEF Entered, m
<1>9. Apart(d, p, s, v)
  BY <1>5 DEF Apart, Unused, Books, Unique, m
<1>10. Books(n)
  BY <1>1, <1>5, <1>8, <1>9, OneSlotBooks
<1> QED
  BY <1>10 DEF n

(* A removal looks its slot up by the queue, and finds it.                 *)
LEMMA UnmapBooks ==
  ASSUME NEW d, Good(d), Books(d), NEW p \in Ports, NEW s \in Slots,
         d.qid_map[p][s].state \in InHardware
  PROVE  LET n == unmap_qid(d, p, d.qid_map[p][s].qid) IN
         Books(n) /\ n.qid_map = Put(d.qid_map, p, s, EmptySlot)
<1> DEFINE m == d.qid_map[p][s]
           q == m.qid
           us == UnmapSlot(d, p, q)
           n == unmap_qid(d, p, q)
           v == EmptySlot
<1>1. d \in Dev /\ d.qid_map \in [Ports -> [Slots -> SlotType]]
  BY DEF Good, Dev
<1>2. us = s
  <2>1. us \in Slots \cup {0} /\ us # 0 /\ d.qid_map[p][us].state \in InHardware
        /\ d.qid_map[p][us].qid = q
    BY UnmapSlotIs
  <2> HIDE DEF us
  <2>2. q \in UsesOf(d.qid_map[p][us]) /\ q \in UsesOf(d.qid_map[p][s])
    BY <2>1 DEF UsesOf, InHardware
  <2> QED
    BY <2>1, <2>2 DEF Books, Unique
<1>3. s # 0
  BY SlotsFinite
<1>4. m \in SlotType /\ m.state \in InHardware /\ m = d.qid_map[p][s]
  BY <1>1
<1>5. /\ n.qid_map = Put(d.qid_map, p, s, v)
      /\ n.cq2qid = Put(d.cq2qid, p, s, None)
      /\ n.queue_mappings = Bump(d.queue_mappings, q, -1)
      /\ n.removals = d.removals + RemovalsDelta(m.state, "UNMAPPED")
      /\ n.queue_additions = d.queue_additions
      /\ n.additions = d.additions
  <2> HIDE DEF q, n
  <2>1. s = UnmapSlot(d, p, q) /\ n = unmap_qid(d, p, q)
    BY <1>2 DEF n
  <2> QED
    BY <1>3, <2>1, UnmapEffect
<1> HIDE DEF n, m
<1>6. v \in SlotType /\ v.state = "UNMAPPED" /\ UsesOf(v) = {} /\ EntryOf(v) = None
  BY DEF EmptySlot, SlotType, SlotStates, UsesOf, EntryOf, InHardware
<1> HIDE DEF v
<1>7. /\ In(v, InHardware) - In(m, InHardware) = -1
      /\ In(v, {"MAP_IN_PROG"}) - In(m, {"MAP_IN_PROG"}) = 0
      /\ In(v, Removing) - In(m, Removing) = RemovalsDelta(m.state, "UNMAPPED")
  <2>1. <<m.state, v.state>> \in Transitions
    BY <1>4, <1>6 DEF Transitions, InHardware
  <2>2. RemovalsDelta(m.state, v.state) = In(v, Removing) - In(m, Removing)
    BY <2>1, DeltasAre
  <2> QED
    BY <1>4, <1>6, <2>2 DEF In, InHardware
<1>8. /\ n.queue_additions = Bump(d.queue_additions, q, 0)
      /\ n.additions = d.additions + 0
  <2>1. d.queue_additions \in [Queues -> Int] /\ d.additions \in Int
    BY <1>1 DEF Dev
  <2> QED
    BY <1>5, <2>1, BumpZero
<1>9. Entered(d, n, p, s, m, v, q)
  BY <1>4, <1>5, <1>6, <1>7, <1>8 DEF Entered
<1>10. Apart(d, p, s, v)
  BY <1>6 DEF Apart
<1>11. Books(n)
  BY <1>1, <1>6, <1>9, <1>10, OneSlotBooks
<1> QED
  BY <1>5, <1>11 DEF n, m, v

(* map_qid of a queue that no slot of the port has.                        *)
LEMMA MapQidBooks ==
  ASSUME NEW d, Good(d), Books(d), NEW p \in Ports, NEW q \in Queues \cup {None},
         Unused(d, p, q), NEW return, map_qid(d, p, q, return)
  PROVE  Books(dev')
<1> DEFINE begun == begin_map_qid_dynamic(d, p, q)
<1>1. Books(map_qid_static(d, p, q)) /\ Books(begun) /\ Good(begun)
  BY StaticBooks, BeginBooks, BeginMapGood
<1>2. SameBooks(schedule_work(begun), begun)
  <2> HIDE DEF begun
  <2>1. begun \in Dev
    BY <1>1 DEF Good
  <2> QED
    BY <2>1, RegisterHelpers
<1>3. Books(schedule_work(begun))
  BY <1>1, <1>2, BooksSame
<1> QED
  BY <1>1, <1>3 DEF map_qid

-----------------------------------------------------------------------------
(* The actions keep the books.                                             *)

BooksKept == Books(dev)

LEMMA BooksPrimed == ASSUME Books(dev') PROVE BooksKept'
BY DEF BooksKept, Books, Unique, Matches, Totals

LEMMA SameBooksPrimed ==
  ASSUME BooksKept, SameBooks(dev', dev)
  PROVE  BooksKept'
BY BooksSame, BooksPrimed DEF BooksKept

LEMMA FoundPending ==
  ASSUME NEW d, NEW p, NEW q
  PROVE  find_slot_with_pending_map_queue(d, p, q) # 0
           <=> \E s \in Slots : /\ d.qid_map[p][s].state = "UNMAP_IN_PROG_PENDING_MAP"
                                /\ d.qid_map[p][s].pending_qid = q
<1> DEFINE S == {s \in SlotsWith(d, p, {"UNMAP_IN_PROG_PENDING_MAP"}) :
                   d.qid_map[p][s].pending_qid = q}
<1>1. S \in SUBSET Slots
  BY DEF SlotsWith
<1>2. First(S) # 0 <=> S # {}
  BY <1>1, FirstIn, SlotsFinite DEF First
<1> QED
  BY <1>2 DEF find_slot_with_pending_map_queue, SlotsWith

(* A request of q for port p is now written in slot v of the port.         *)
Asks(v, q) == \/ v.state \in {"MAPPED", "MAP_IN_PROG"} /\ v.qid = q
              \/ v.state = "UNMAP_IN_PROG_PENDING_MAP" /\ v.pending_qid = q

(* What the application may ask for is what no slot of the port uses.      *)
LEMMA NewIsUnused ==
  ASSUME NeverRerequested',
         NEW d \in Dev, NEW p \in Ports, NEW s \in Slots, NEW v \in SlotType, NEW q,
         dev'.qid_map = Put(d.qid_map, p, s, v), Asks(v, q),
         d.qid_map[p][s].state # "UNMAP_IN_PROG_PENDING_MAP",
         find_slot_queue(d, p, "MAPPED", q) = 0,
         find_slot_queue(d, p, "MAP_IN_PROG", q) = 0,
         find_slot_queue(d, p, "UNMAP_IN_PROG", q) = 0,
         find_slot_with_pending_map_queue(d, p, q) = 0
  PROVE  Unused(d, p, q)
<1>1. d.qid_map \in [Ports -> [Slots -> SlotType]]
  BY DEF Dev
<1>2. /\ \A t \in Slots : t # s => dev'.qid_map[p][t] = d.qid_map[p][t]
      /\ dev'.qid_map[p][s] = v
  BY <1>1 DEF Put
<1>3. ASSUME NEW t \in Slots, q \in UsesOf(d.qid_map[p][t])
      PROVE  FALSE
  <2> DEFINE m == d.qid_map[p][t]
  <2>1. /\ m.state \in {"MAPPED", "MAP_IN_PROG", "UNMAP_IN_PROG"} => m.qid # q
        /\ m.state = "UNMAP_IN_PROG_PENDING_MAP" => m.pending_qid # q
    BY Found, FoundPending
  <2>2. m.state \in SlotStates
    BY <1>1 DEF SlotType
  <2>3. m.state = "UNMAP_IN_PROG_PENDING_MAP" /\ m.qid = q
    BY <1>3, <2>1, <2>2 DEF UsesOf, SlotStates
  <2>4. dev'.qid_map[p][t] = m
    BY <1>2, <2>3
  <2> HIDE DEF m
  <2>5. t \in SlotsWith(dev, p, {"UNMAP_IN_PROG_PENDING_MAP"})'
    BY <2>3, <2>4 DEF SlotsWith
  <2>6. q \in Requested(p)'
    <3>1. CASE v.state \in {"MAPPED", "MAP_IN_PROG"} /\ v.qid = q
      <4>1. s \in SlotsWith(dev, p, {"MAPPED", "MAP_IN_PROG"})'
        BY <1>2, <3>1 DEF SlotsWith
      <4> QED
        BY <1>2, <3>1, <4>1 DEF Requested
    <3>2. CASE v.state = "UNMAP_IN_PROG_PENDING_MAP" /\ v.pending_qid = q
      <4>1. s \in SlotsWith(dev, p, {"UNMAP_IN_PROG_PENDING_MAP"})'
        BY <1>2, <3>2 DEF SlotsWith
      <4> QED
        BY <1>2, <3>2, <4>1 DEF Requested
    <3> QED
      BY <3>1, <3>2 DEF Asks
  <2>7. Rerequested(p)'
    BY <2>3, <2>4, <2>5, <2>6 DEF Rerequested
  <2> QED
    BY <2>7 DEF NeverRerequested
<1> QED
  BY <1>3 DEF Unused

LEMMA FinishUnmapBooks ==
  ASSUME IInv, SInv, BooksKept, FinishUnmapPortSlot
  PROVE  BooksKept'
<1> DEFINE p == op.p
           s == First({t \in SlotsWith(dev, p, Removing) : t > op.s})
           slot == dev.qid_map[p][s]
           freed == unmap_qid(dev, p, slot.qid)
           unmapped == enable_if_wanted(freed, p)
           renamed == IF unmapped.qid_map[p][s].state = "UNMAPPED" THEN unmapped
                      ELSE [unmapped EXCEPT !.qid_map[p][s].qid = slot.pending_qid]
           next == [op EXCEPT !.s = s]
<1>1. /\ p \in Ports /\ Good(dev) /\ dev \in Dev /\ Books(dev)
      /\ dev.qid_map \in [Ports -> [Slots -> SlotType]]
  BY DEF IInv, OpGood, FinishUnmapPortSlot, At, PortPcs, MapPcs, Good, BooksKept, Dev
<1>2. s \in SlotsWith(dev, p, Removing)
  BY FirstType DEF FinishUnmapPortSlot, SlotsWith
<1>3. \/ slot.state = "UNMAP_IN_PROG" /\ dev' = unmapped
      \/ /\ slot.state = "UNMAP_IN_PROG_PENDING_MAP"
         /\ map_qid(renamed, p, slot.pending_qid, next)
  BY DEF FinishUnmapPortSlot
<1> HIDE DEF s, next, p
<1>4. s \in Slots /\ slot.state \in Removing /\ slot \in SlotType
      /\ slot.pending_qid \in Queues \cup {None}
  BY <1>1, <1>2 DEF SlotsWith, SlotType
<1>5. /\ Books(freed) /\ Good(freed) /\ freed \in Dev
      /\ freed.qid_map = Put(dev.qid_map, p, s, EmptySlot)
  <2>1. dev.qid_map[p][s].state \in InHardware
    BY <1>4 DEF Removing, InHardware
  <2>2. Good(freed) /\ freed \in Dev
    BY <1>1, UnmapGood DEF Good
  <2> QED
    BY <1>1, <1>4, <2>1, <2>2, UnmapBooks
<1> HIDE DEF freed
<1>6. SameBooks(unmapped, freed) /\ Good(unmapped)
  BY <1>1, <1>5, RegisterHelpers, CqHelpersGood
<1> HIDE DEF unmapped
<1>7. Books(unmapped) /\ unmapped.qid_map = freed.qid_map
  BY <1>5, <1>6, BooksSame DEF SameBooks
<1>8. /\ unmapped.qid_map[p][s] = EmptySlot
      /\ \A t \in Slots : t # s => unmapped.qid_map[p][t] = dev.qid_map[p][t]
  BY <1>1, <1>4, <1>5, <1>7 DEF Put
<1>9. renamed = unmapped
  BY <1>8 DEF EmptySlot
<1> HIDE DEF renamed
<1>10. CASE dev' = unmapped
  BY <1>7, <1>10, BooksPrimed
<1>11. CASE /\ slot.state = "UNMAP_IN_PROG_PENDING_MAP"
            /\ map_qid(renamed, p, slot.pending_qid, next)
  <2> DEFINE q == slot.pending_qid
  <2>1. q \in UsesOf(slot)
    BY <1>11 DEF UsesOf
  <2>2. \A t \in Slots : t # s => q \notin UsesOf(dev.qid_map[p][t])
    BY <1>1, <1>4, <2>1 DEF Books, Unique
  <2>3. q \notin UsesOf(EmptySlot)
    BY DEF UsesOf, EmptySlot
  <2>4. Unused(unmapped, p, q)
    BY <1>8, <2>2, <2>3 DEF Unused
  <2> HIDE DEF q
  <2>5. map_qid(unmapped, p, q, next) /\ q \in Queues \cup {None}
    BY <1>4, <1>9, <1>11 DEF q
  <2>6. Books(dev')
    BY <1>1, <1>6, <1>7, <2>4, <2>5, MapQidBooks
  <2> QED
    BY <2>6, BooksPrimed
<1> QED
  BY <1>3, <1>10, <1>11

(* The steps of a dynamic map but the last write no book ...               *)
LEMMA DynamicSame ==
  ASSUME IInv, DisableCqs \/ Reread \/ FinishMapRead
  PROVE  SameBooks(dev', dev)
<1>1. /\ op.p \in Ports /\ op.mq \in Queues \cup {None} /\ dev \in Dev /\ Good(dev)
  BY DEF IInv, OpGood, OpType, DisableCqs, Reread, FinishMapRead, At, PortPcs, MapPcs, Good
<1>2. CASE DisableCqs
  <2> DEFINE off0 == disable_if_wanted(dev, op.p)
  <2>1. Good(off0) /\ off0 \in Dev /\ SameBooks(off0, dev)
    BY <1>1, CqHelpersGood, RegisterHelpers DEF Good
  <2>2. dev' = disable_mapped_cqs(off0, op.mq)
    BY <1>2 DEF DisableCqs
  <2> HIDE DEF off0
  <2> QED
    BY <2>1, <2>2, RegisterHelpers DEF SameBooks
<1>3. CASE Reread
  <2> DEFINE on0 == enable_if_wanted(dev, op.p)
             on == enable_mapped_cqs(on0, op.mq)
  <2>1. Good(on0) /\ on0 \in Dev /\ SameBooks(on0, dev)
    BY <1>1, CqHelpersGood, RegisterHelpers DEF Good
  <2>2. dev' = dev \/ dev' = schedule_work(on)
    BY <1>3 DEF Reread
  <2> HIDE DEF on0
  <2>3. on \in Dev /\ SameBooks(on, on0)
    BY <1>1, <2>1, CqHelpersGood, RegisterHelpers DEF Good
  <2> HIDE DEF on
  <2> QED
    BY <2>1, <2>2, <2>3, RegisterHelpers DEF SameBooks
<1>4. CASE FinishMapRead
  BY <1>4 DEF FinishMapRead, SameBooks
<1> QED
  BY <1>2, <1>3, <1>4

(* ... and the last is a static map into the slot the map has claimed.     *)
LEMMA WriteMapStatic ==
  ASSUME IInv, SInv, WriteMap
  PROVE  /\ op.p \in Ports /\ op.mq \in Queues \cup {None}
         /\ \E s \in Slots : /\ dev.qid_map[op.p][s].state = "MAP_IN_PROG"
                             /\ dev.qid_map[op.p][s].qid = op.mq
         /\ SameBooks(dev', map_qid_static(dev, op.p, op.mq))
<1>1. op.p \in Ports /\ op.mq \in Queues \cup {None} /\ Good(dev)
  BY DEF IInv, OpGood, OpType, WriteMap, At, PortPcs, MapPcs
<1>2. \E s \in Slots : /\ dev.qid_map[op.p][s].state = "MAP_IN_PROG"
                       /\ dev.qid_map[op.p][s].qid = op.mq
  BY DEF SInv, Claimed, WriteMap, At, MapPcs
<1>3. dev' = finish_map_qid_dynamic(dev, op.p, op.mq)
  BY DEF WriteMap
<1> QED
  BY <1>1, <1>2, <1>3, FinishMapEffect

LEMMA WriteMapBooks ==
  ASSUME IInv, SInv, BooksKept, WriteMap
  PROVE  BooksKept'
<1> DEFINE static == map_qid_static(dev, op.p, op.mq)
<1>1. Good(dev) /\ Books(dev)
  BY DEF IInv, BooksKept
<1>2. Books(static)
  BY <1>1, WriteMapStatic, StaticBooks
<1>3. SameBooks(dev', static)
  BY WriteMapStatic
<1> HIDE DEF static
<1> QED
  BY <1>2, <1>3, BooksSame, BooksPrimed

LEMMA MapAcceptBooks ==
  ASSUME IInv, BooksKept, MapAccept, NeverRerequested'
  PROVE  BooksKept'
<1> DEFINE p == op.p
           q == op.q
           d == disable_if_wanted(dev, p)
           mapped  == find_slot_queue(d, p, "MAPPED", q)
           unmap   == find_slot_queue(d, p, "UNMAP_IN_PROG", q)
           prog    == find_slot_queue(d, p, "MAP_IN_PROG", q)
           waits   == find_slot_with_pending_map_queue(d, p, q)
           parking == find_slot(d, p, "UNMAP_IN_PROG")
           free    == find_slot(d, p, "UNMAPPED")
           recalled == slot_state_transition(d, p, q, unmap, "MAPPED")
           parked == slot_state_transition(
                       [d EXCEPT !.qid_map[p][parking].pending_qid = q],
                       p, q, parking, "UNMAP_IN_PROG_PENDING_MAP")
           begun == begin_map_qid_dynamic(d, p, q)
           done == [op EXCEPT !.pc = "map_done"]
<1>1. /\ p \in Ports /\ q \in Queues \cup {None}
      /\ Good(dev) /\ dev \in Dev /\ Books(dev)
  BY DEF IInv, OpGood, OpType, MapAccept, At, PortPcs, MapPcs, Good, BooksKept
<1>2. \/ dev' = d
      \/ unmap # 0 /\ dev' = recalled
      \/ /\ mapped = 0 /\ unmap = 0 /\ prog = 0 /\ waits = 0
         /\ \/ parking # 0 /\ dev' = parked
            \/ free # 0 /\ map_qid(d, p, q, done)
            \/ free = 0 /\ dev' = begun
  BY DEF MapAccept
<1> HIDE DEF done, p, q
<1>3. /\ Good(d) /\ d \in Dev /\ SameBooks(d, dev) /\ Books(d)
      /\ d.qid_map \in [Ports -> [Slots -> SlotType]]
  <2>1. Good(d) /\ d \in Dev /\ SameBooks(d, dev)
    BY <1>1, CqHelpersGood, RegisterHelpers DEF Good
  <2> HIDE DEF d
  <2> QED
    BY <1>1, <2>1, BooksSame DEF Dev
<1> HIDE DEF d
<1>4. CASE dev' = d
  BY <1>3, <1>4, BooksPrimed
<1>5. CASE unmap # 0 /\ dev' = recalled
  <2>1. unmap \in Slots /\ d.qid_map[p][unmap].state = "UNMAP_IN_PROG"
        /\ d.qid_map[p][unmap].qid = q
    BY <1>5, FindSlots
  <2> HIDE DEF unmap
  <2>2. Books(recalled)
    BY <1>1, <1>3, <2>1, TransitionBooks
  <2> QED
    BY <1>5, <2>2, BooksPrimed
<1>6. ASSUME mapped = 0, unmap = 0, prog = 0, waits = 0,
             NEW s \in Slots, NEW v \in SlotType,
             dev'.qid_map = Put(d.qid_map, p, s, v), Asks(v, q),
             d.qid_map[p][s].state # "UNMAP_IN_PROG_PENDING_MAP"
      PROVE  Unused(d, p, q)
  BY <1>1, <1>3, <1>6, NewIsUnused
<1>7. CASE /\ mapped = 0 /\ unmap = 0 /\ prog = 0 /\ waits = 0
           /\ parking # 0 /\ dev' = parked
  <2>1. parking \in Slots /\ d.qid_map[p][parking].state = "UNMAP_IN_PROG"
    BY <1>7, FindSlots
  <2> HIDE DEF parking, mapped, unmap, prog, waits
  <2>2. parked.qid_map = Put(d.qid_map, p, parking, ParkedSlot(d.qid_map[p][parking], q))
    BY <1>1, <1>3, <2>1, ParkEffect
  <2>3. /\ ParkedSlot(d.qid_map[p][parking], q) \in SlotType
        /\ Asks(ParkedSlot(d.qid_map[p][parking], q), q)
    BY <1>1, <1>3, <2>1 DEF ParkedSlot, SlotType, SlotStates, Asks
  <2>4. Unused(d, p, q)
    BY <1>6, <1>7, <2>1, <2>2, <2>3
  <2>5. Books(parked)
    BY <1>1, <1>3, <2>1, <2>4, ParkBooks
  <2> HIDE DEF parked
  <2> QED
    BY <1>7, <2>5, BooksPrimed
<1>8. CASE /\ mapped = 0 /\ unmap = 0 /\ prog = 0 /\ waits = 0
           /\ free # 0 /\ map_qid(d, p, q, done)
  <2>1. free \in Slots /\ d.qid_map[p][free].state = "UNMAPPED"
    BY <1>8, FindSlots
  <2>2. MappedSlot(q) \in SlotType /\ PromisedSlot(q) \in SlotType
        /\ Asks(MappedSlot(q), q) /\ Asks(PromisedSlot(q), q)
    BY <1>1 DEF MappedSlot, PromisedSlot, SlotType, SlotStates, Asks
  <2>3. Unused(d, p, q)
    <3>1. CASE domain # "started"
      <4> DEFINE s == StaticSlot(d, p, q)
      <4>1. s = free
        BY <1>8 DEF StaticSlot
      <4>2. dev' = map_qid_static(d, p, q)
        BY <1>8, <3>1 DEF map_qid
      <4>3. dev'.qid_map = Put(d.qid_map, p, free, MappedSlot(q))
        <5> HIDE DEF free
        <5> QED
          BY <1>1, <1>3, <1>8, <4>1, <4>2, StaticEffect
      <4> HIDE DEF free, mapped, unmap, prog, waits
      <4> QED
        BY <1>6, <1>8, <2>1, <2>2, <4>3
    <3>2. CASE domain = "started"
      <4>1. begun.qid_map = Put(d.qid_map, p, free, PromisedSlot(q)) /\ Good(begun) /\ begun \in Dev
        BY <1>1, <1>3, <1>8, BeginEffect, BeginMapGood DEF Good
      <4>2. dev' = begun \/ dev' = schedule_work(begun)
        BY <1>8, <3>2 DEF map_qid
      <4> HIDE DEF begun
      <4>3. schedule_work(begun).qid_map = begun.qid_map
        BY <4>1, RegisterHelpers DEF SameBooks
      <4> HIDE DEF free, mapped, unmap, prog, waits
      <4>4. dev'.qid_map = Put(d.qid_map, p, free, PromisedSlot(q))
        BY <4>1, <4>2, <4>3
      <4> QED
        BY <1>6, <1>8, <2>1, <2>2, <4>4
    <3> QED
      BY <3>1, <3>2
  <2> HIDE DEF free, mapped, unmap, prog, waits
  <2>4. Books(dev')
    BY <1>1, <1>3, <1>8, <2>3, MapQidBooks
  <2> QED
    BY <2>4, BooksPrimed
<1>9. CASE free = 0 /\ dev' = begun
  <2>1. SameBooks(begun, d)
    BY <1>1, <1>3, <1>9, BeginEffect
  <2> HIDE DEF begun
  <2>2. Books(dev')
    BY <1>3, <1>9, <2>1, BooksSame
  <2> QED
    BY <2>2, BooksPrimed
<1> QED
  BY <1>2, <1>4, <1>5, <1>7, <1>8, <1>9

LEMMA UnmapQidBooks ==
  ASSUME IInv, BooksKept, NEW p \in Ports, NEW q \in Queues, UnmapQid(p, q)
  PROVE  BooksKept'
<1>1. Good(dev) /\ dev \in Dev /\ Books(dev)
  BY DEF IInv, Good, BooksKept
<1>2. ASSUME UnmapAbort(p, q)
      PROVE  BooksKept'
  <2> DEFINE s == find_slot_queue(dev, p, "MAP_IN_PROG", q)
             reopened == IF dev.queue_additions[q] = 0 THEN set_inflight_limit(dev, q) ELSE dev
             n == slot_state_transition(reopened, p, q, s, "UNMAPPED")
  <2>1. s \in Slots /\ dev.qid_map[p][s].state = "MAP_IN_PROG" /\ dev.qid_map[p][s].qid = q
    BY <1>2, FindSlots DEF UnmapAbort
  <2>2. dev' = n
    BY <1>2 DEF UnmapAbort
  <2> HIDE DEF s
  <2>3. Good(reopened) /\ SameBooks(reopened, dev)
    BY <1>1, LimitHelpersGood, RegisterHelpers DEF SameBooks
  <2> HIDE DEF reopened
  <2>4. Books(reopened) /\ reopened.qid_map = dev.qid_map
    BY <1>1, <2>3, BooksSame DEF SameBooks
  <2>5. Books(n)
    BY <2>1, <2>3, <2>4, TransitionBooks
  <2> QED
    BY <2>2, <2>5, BooksPrimed
<1>3. ASSUME UnmapWithdraw(p, q)
      PROVE  BooksKept'
  <2> DEFINE s == find_slot_with_pending_map_queue(dev, p, q)
             n == slot_state_transition(dev, p, q, s, "UNMAP_IN_PROG")
  <2>1. s \in Slots /\ dev.qid_map[p][s].state = "UNMAP_IN_PROG_PENDING_MAP"
    BY <1>3, FindSlots DEF UnmapWithdraw
  <2>2. dev' = n
    BY <1>3 DEF UnmapWithdraw
  <2> HIDE DEF s
  <2>3. Books(n)
    BY <1>1, <2>1, TransitionBooks
  <2> QED
    BY <2>2, <2>3, BooksPrimed
<1>4. ASSUME UnmapStart(p, q)
      PROVE  BooksKept'
  <2> DEFINE s == find_slot_queue(dev, p, "MAPPED", q)
             off == cq_disable(dev, p)
             marked == slot_state_transition(off, p, q, s, "UNMAP_IN_PROG")
  <2>1. s \in Slots /\ dev.qid_map[p][s].state = "MAPPED" /\ dev.qid_map[p][s].qid = q
    BY <1>4, FindSlots DEF UnmapStart
  <2>2. dev' = marked \/ dev' = schedule_work(marked)
    BY <1>4 DEF UnmapStart
  <2> HIDE DEF s
  <2>3. Good(off) /\ off \in Dev /\ SameBooks(off, dev) /\ off.cq_disabled[p]
    <3>1. Good(off) /\ off \in Dev /\ SameBooks(off, dev)
      BY <1>1, CqHelpersGood, RegisterHelpers DEF Good
    <3>2. off.cq_disabled = [dev.cq_disabled EXCEPT ![p] = TRUE]
      BY <1>1 DEF cq_disable, Dev
    <3> QED
      BY <1>1, <3>1, <3>2 DEF Dev
  <2> HIDE DEF off
  <2>4. Books(off) /\ off.qid_map = dev.qid_map
    BY <1>1, <2>3, BooksSame DEF SameBooks
  <2>5. Books(marked)
    BY <2>1, <2>3, <2>4, TransitionBooks
  <2>6. Good(marked) /\ marked \in Dev
    BY <2>1, <2>3, TransitionGood DEF Good
  <2> HIDE DEF marked
  <2>7. Books(schedule_work(marked))
    BY <2>5, <2>6, RegisterHelpers, BooksSame
  <2> QED
    BY <2>2, <2>5, <2>7, BooksPrimed
<1> QED
  BY <1>2, <1>3, <1>4 DEF UnmapQid

(* The other steps write no book.                                          *)
LEMMA OthersBooks ==
  ASSUME IInv, BooksKept,
         \/ UNCHANGED dev
         \/ \E p \in Ports : EnablePort(p)
         \/ \E p \in Ports : DisablePort(p)
         \/ MapDone \/ WorkerStart \/ WorkerEnd
         \/ \E p \in Ports, q \in Queues : Schedule(p, q)
  PROVE  BooksKept'
<1>1. dev \in Dev
  BY DEF IInv, Good
<1>2. CASE UNCHANGED dev
  BY <1>2, SameBooksPrimed DEF SameBooks
<1>3. ASSUME NEW p \in Ports, EnablePort(p) \/ DisablePort(p)
      PROVE  SameBooks(dev', dev)
  BY <1>1, <1>3, RegisterHelpers DEF EnablePort, DisablePort
<1>4. CASE MapDone
  BY <1>1, <1>4, RegisterHelpers, SameBooksPrimed DEF MapDone
<1>5. CASE WorkerStart \/ WorkerEnd
  <2>1. SameBooks(dev', dev)
    BY <1>1, <1>5 DEF WorkerStart, WorkerEnd, SameBooks, Dev
  <2> QED
    BY <2>1, SameBooksPrimed
<1>6. ASSUME NEW p \in Ports, NEW q \in Queues, Schedule(p, q)
      PROVE  SameBooks(dev', dev)
  BY <1>1, <1>6 DEF Schedule, SameBooks, Dev
<1> QED
  BY <1>2, <1>3, <1>4, <1>5, <1>6, SameBooksPrimed

LEMMA NextBooks ==
  ASSUME IInv, SInv, BooksKept, NeverRerequested', [Next]_vars
  PROVE  BooksKept'
<1>1. CASE UNCHANGED vars
  BY <1>1, OthersBooks DEF vars
<1>2. CASE Ioctl
  BY <1>2, UnmapQidBooks, OthersBooks DEF Ioctl, MapQid, StartDomain, StopDomain
<1>3. CASE Holder
  <2>1. CASE UNCHANGED dev \/ MapDone \/ WorkerEnd
    BY <2>1, OthersBooks
  <2>2. CASE WriteMap \/ FinishUnmapPortSlot \/ MapAccept
    BY <2>2, WriteMapBooks, FinishUnmapBooks, MapAcceptBooks
  <2>4. CASE DisableCqs \/ Reread \/ FinishMapRead
    BY <2>4, DynamicSame, SameBooksPrimed
  <2>3. Holder => \/ UNCHANGED dev \/ MapDone \/ WorkerEnd
                  \/ DisableCqs \/ Reread \/ FinishMapRead \/ WriteMap
                  \/ FinishUnmapPortSlot \/ MapAccept
    BY DEF Holder, FinishUnmapPortDone, MapReject, WorkerUnmapPort, WorkerUnmapDone,
           WorkerMapPort, FinishMapPortSlot, FinishMapPortDone
  <2> QED
    BY <1>3, <2>1, <2>2, <2>3, <2>4
<1>4. CASE WorkerStart
  BY <1>4, OthersBooks
<1>5. ASSUME NEW p \in Ports, NEW q \in Queues, Schedule(p, q) \/ Complete(p, q)
      PROVE  BooksKept'
  BY <1>5, OthersBooks DEF Complete
<1> QED
  BY <1>1, <1>2, <1>3, <1>4, <1>5 DEF Next

LEMMA InitBooks == Init => BooksKept
<1> SUFFICES ASSUME Init
             PROVE  BooksKept
  OBVIOUS
<1>1. \A p \in Ports, s \in Slots : dev.qid_map[p][s] = EmptySlot /\ dev.cq2qid[p][s] = None
  BY DEF Init
<1>2. Unique(dev) /\ Matches(dev)
  BY <1>1 DEF Unique, UsesOf, EmptySlot, Matches, EntryOf, InHardware
<1>3. \A states : "UNMAPPED" \notin states => CellsOf(dev.qid_map, states) = {}
  BY <1>1 DEF CellsOf, EmptySlot
<1>4. \A states, q : "UNMAPPED" \notin states => HoldingOf(dev.qid_map, q, states) = {}
  BY <1>3 DEF HoldingOf
<1>5. "UNMAPPED" \notin InHardware /\ "UNMAPPED" \notin Removing /\ "UNMAPPED" \notin {"MAP_IN_PROG"}
  BY DEF InHardware, Removing
<1>6. /\ dev.additions = 0 /\ dev.removals = 0
      /\ \A q \in Queues : dev.queue_mappings[q] = 0 /\ dev.queue_additions[q] = 0
  BY DEF Init
<1>7. Totals(dev)
  BY <1>3, <1>4, <1>5, <1>6, FS_EmptySet DEF Totals
<1> QED
  BY <1>2, <1>7 DEF BooksKept, Books

LEMMA BooksInductive == Spec /\ []NeverRerequested => []BooksKept
BY InitBooks, NextBooks, Inductive, ServedInductive, PTL DEF Spec

(* The tables of the device are those the driver believes in, as long as   *)
(* the application asks again for no queue whose own slot waits for        *)
(* another: a removal looks its slot up by the number of the queue.        *)
THEOREM TablesMatch == Spec /\ []NeverRerequested => []HardwareMatchesDriver
<1>1. BooksKept => HardwareMatchesDriver
  BY DEF BooksKept, Books, Matches, EntryOf, HardwareMatchesDriver
<1> QED
  BY <1>1, BooksInductive, PTL

(* The counters of the queues and of the domain, which say when a queue    *)
(* is re-opened and when the worker may stop, count the slots.             *)
THEOREM AllCountersCorrect == Spec /\ []NeverRerequested => []QueueAndDomainCounters
<1>1. BooksKept => QueueAndDomainCounters
  <2>1. \A states : CellsOf(dev.qid_map, states) = Cells(states)
    BY DEF CellsOf, Cells
  <2>2. \A q, states : HoldingOf(dev.qid_map, q, states) = Holding(q, states)
    BY <2>1 DEF HoldingOf, Holding
  <2> QED
    BY <2>1, <2>2 DEF BooksKept, Books, Totals, QueueAndDomainCounters
<1> QED
  BY <1>1, BooksInductive, PTL

-----------------------------------------------------------------------------
(* The window between a read of the inflight count and the tables.         *)

(* The places of a dynamic map after it has disabled the queue's CQs.      *)
OffPcs == {"reread", "finish_map", "write_map"}

(* A CQ the application does not want enabled is not.                      *)
Unwanted == \A r \in Ports : ~enabled[r] => dev.cq_disabled[r]

(* Every CQ whose tables hold the queue is disabled ...                    *)
Shut(d, q) ==
  q # None => \A r \in Ports, t \in Slots : d.cq2qid[r][t] = q => d.cq_disabled[r]

(* ... from the second read on, so what the third read says stays true.    *)
QInv ==
  /\ Unwanted
  /\ op.pc \in OffPcs => Shut(dev, op.mq)
  /\ op.pc = "write_map" /\ op.mq # None => QidDrained(op.mq)

(* Where the holder is when there is none.                                 *)
LEMMA IdleIs == Idle.pc = "idle" /\ Idle.caller = "idle" /\ Idle.q = None
BY DEF Idle

(* The step enables no CQ that the application does not want.              *)
EnablesWanted == \A r \in Ports : ~enabled[r] /\ dev.cq_disabled[r] => dev'.cq_disabled[r]

LEMMA TransitionCqs ==
  ASSUME NEW d \in Dev, NEW p, NEW q, NEW s, NEW new
  PROVE  slot_state_transition(d, p, q, s, new).cq_disabled = d.cq_disabled
BY DEF slot_state_transition, Dev

LEMMA MapQidCqs ==
  ASSUME NEW d, Good(d), NEW p \in Ports, NEW q \in Queues \cup {None}, NEW return,
         map_qid(d, p, q, return)
  PROVE  dev'.cq_disabled = d.cq_disabled
<1> DEFINE begun == begin_map_qid_dynamic(d, p, q)
<1>1. map_qid_static(d, p, q).cq_disabled = d.cq_disabled
  BY StaticEffect
<1>2. begun.cq_disabled = d.cq_disabled /\ begun \in Dev
  BY BeginEffect, BeginMapGood DEF Good
<1>3. dev' = map_qid_static(d, p, q) \/ dev' = begun \/ dev' = schedule_work(begun)
  BY DEF map_qid
<1> HIDE DEF begun
<1> QED
  BY <1>1, <1>2, <1>3, RegisterHelpers

LEMMA FinishUnmapCqs ==
  ASSUME IInv, FinishUnmapPortSlot
  PROVE  EnablesWanted
<1> DEFINE p == op.p
           s == First({t \in SlotsWith(dev, p, Removing) : t > op.s})
           slot == dev.qid_map[p][s]
           freed == unmap_qid(dev, p, slot.qid)
           unmapped == enable_if_wanted(freed, p)
           named == Renamed(unmapped, p, s, slot.pending_qid)
           renamed == IF unmapped.qid_map[p][s].state = "UNMAPPED" THEN unmapped ELSE named
           next == [op EXCEPT !.s = s]
<1>1. p \in Ports /\ Good(dev)
  BY DEF IInv, OpGood, FinishUnmapPortSlot, At, PortPcs, MapPcs
<1>2. s \in Slots /\ {x \in SlotsWith(dev, p, Removing) : x > op.s} \in SUBSET Slots
  BY FirstType DEF FinishUnmapPortSlot, SlotsWith
<1>3. dev' = unmapped \/ map_qid(renamed, p, slot.pending_qid, next)
  BY DEF FinishUnmapPortSlot, Renamed
<1> HIDE DEF s, next
<1>4. slot.pending_qid \in Queues \cup {None}
  BY <1>1, <1>2 DEF Good, Dev, SlotType
<1>5. Good(freed) /\ freed \in Dev /\ freed.cq_disabled = dev.cq_disabled
  BY <1>1, UnmapGood, UnmapEffect DEF Good
<1> HIDE DEF freed
<1>6. /\ Good(unmapped)
      /\ \A r \in Ports : unmapped.cq_disabled[r]
           = (freed.cq_disabled[r] /\ (r # p \/ ~enabled[p] \/ freed.port_removals[p] # 0))
  BY <1>1, <1>5, CqHelpersGood, EnableWantedEffect
<1> HIDE DEF unmapped
<1>7. Good(renamed) /\ renamed.cq_disabled = unmapped.cq_disabled
  <2>1. Good(named) /\ named.cq_disabled = unmapped.cq_disabled
    BY <1>1, <1>2, <1>4, <1>6, RenameEffect
  <2> HIDE DEF named
  <2> QED
    BY <1>6, <2>1
<1> HIDE DEF renamed, slot, p
<1>8. dev'.cq_disabled = unmapped.cq_disabled
  BY <1>1, <1>3, <1>4, <1>7, MapQidCqs
<1> QED
  BY <1>5, <1>6, <1>8 DEF EnablesWanted

LEMMA MapAcceptCqs ==
  ASSUME IInv, MapAccept
  PROVE  EnablesWanted
<1> DEFINE p == op.p
           q == op.q
           d == disable_if_wanted(dev, p)
           unmap   == find_slot_queue(d, p, "UNMAP_IN_PROG", q)
           parking == find_slot(d, p, "UNMAP_IN_PROG")
           named == [d EXCEPT !.qid_map[p][parking].pending_qid = q]
           done == [op EXCEPT !.pc = "map_done"]
<1>1. p \in Ports /\ q \in Queues \cup {None} /\ Good(dev) /\ dev \in Dev
  BY DEF IInv, OpGood, OpType, MapAccept, At, PortPcs, MapPcs, Good
<1>2. \/ dev' = d
      \/ dev' = slot_state_transition(d, p, q, unmap, "MAPPED")
      \/ /\ parking # 0
         /\ dev' = slot_state_transition(named, p, q, parking, "UNMAP_IN_PROG_PENDING_MAP")
      \/ map_qid(d, p, q, done)
      \/ dev' = begin_map_qid_dynamic(d, p, q)
  BY DEF MapAccept
<1>3. /\ Good(d) /\ d \in Dev
      /\ \A r \in Ports : d.cq_disabled[r] = (dev.cq_disabled[r] \/ (r = p /\ enabled[p]))
  BY <1>1, CqHelpersGood, DisableWantedEffect DEF Good
<1>4. parking \in Slots \cup {0}
  BY FindSlots
<1> HIDE DEF p, q, d, unmap, parking, done
<1>5. parking # 0 => named \in Dev /\ named.cq_disabled = d.cq_disabled
  BY <1>1, <1>3, <1>4, NamesGood DEF Good, Dev
<1> HIDE DEF named
<1>6. dev'.cq_disabled = d.cq_disabled
  BY <1>1, <1>2, <1>3, <1>5, TransitionCqs, MapQidCqs, BeginEffect
<1> QED
  BY <1>3, <1>6 DEF EnablesWanted

LEMMA UnmapQidCqs ==
  ASSUME IInv, NEW p \in Ports, NEW q \in Queues, UnmapQid(p, q)
  PROVE  EnablesWanted
<1>1. dev \in Dev
  BY DEF IInv, Good
<1>2. ASSUME NEW d \in Dev, NEW s, NEW new,
             \A r \in Ports : dev.cq_disabled[r] => d.cq_disabled[r],
             \/ dev' = slot_state_transition(d, p, q, s, new)
             \/ /\ slot_state_transition(d, p, q, s, new) \in Dev
                /\ dev' = schedule_work(slot_state_transition(d, p, q, s, new))
      PROVE  EnablesWanted
  <2> DEFINE n == slot_state_transition(d, p, q, s, new)
  <2>1. n.cq_disabled = d.cq_disabled
    BY TransitionCqs
  <2>2. dev' = n \/ (n \in Dev /\ dev' = schedule_work(n))
    BY <1>2
  <2> HIDE DEF n
  <2>3. dev'.cq_disabled = n.cq_disabled
    BY <2>2, RegisterHelpers
  <2> QED
    BY <1>2, <2>1, <2>3 DEF EnablesWanted
<1>3. CASE UnmapAbort(p, q)
  <2> DEFINE open == set_inflight_limit(dev, q)
             s == find_slot_queue(dev, p, "MAP_IN_PROG", q)
  <2>1. open \in Dev /\ open.cq_disabled = dev.cq_disabled
    BY <1>1, LimitHelpersGood, RegisterHelpers DEF IInv, Good
  <2>2. \/ dev' = slot_state_transition(open, p, q, s, "UNMAPPED")
        \/ dev' = slot_state_transition(dev, p, q, s, "UNMAPPED")
    BY <1>3 DEF UnmapAbort
  <2> HIDE DEF open, s
  <2> QED
    BY <1>1, <1>2, <2>1, <2>2
<1>4. CASE UnmapWithdraw(p, q)
  BY <1>1, <1>2, <1>4 DEF UnmapWithdraw
<1>5. CASE UnmapStart(p, q)
  <2> DEFINE off == cq_disable(dev, p)
             s == find_slot_queue(dev, p, "MAPPED", q)
             marked == slot_state_transition(off, p, q, s, "UNMAP_IN_PROG")
  <2>1. (dev' = marked \/ dev' = schedule_work(marked)) /\ s \in Slots
    BY <1>5, FindSlots DEF UnmapStart
  <2>2. /\ Good(off) /\ off \in Dev /\ off.cq_disabled[p]
        /\ \A r \in Ports : dev.cq_disabled[r] => off.cq_disabled[r]
    <3>1. /\ off.cq_disabled[p]
          /\ \A r \in Ports : dev.cq_disabled[r] => off.cq_disabled[r]
      BY <1>1 DEF Dev, cq_disable
    <3> QED
      BY <3>1, CqHelpersGood DEF IInv, Good
  <2> HIDE DEF off, s
  <2>3. marked \in Dev
    BY <2>1, <2>2, TransitionGood DEF Good
  <2> QED
    BY <1>2, <2>1, <2>2, <2>3
<1> QED
  BY <1>3, <1>4, <1>5 DEF UnmapQid

(* Which CQs the steps of a dynamic map leave disabled.                    *)
LEMMA DynamicCqs ==
  ASSUME IInv, DisableCqs \/ Reread \/ FinishMapRead \/ WriteMap
  PROVE  /\ EnablesWanted
         /\ DisableCqs => \A r \in Ports : \/ dev.cq_disabled[r]
                                           \/ HasMapped(dev, r, op.mq) /\ enabled[r]
                                           => dev'.cq_disabled[r]
<1> DEFINE p == op.p
           q == op.mq
<1>1. p \in Ports /\ q \in Queues \cup {None} /\ dev \in Dev /\ Good(dev)
  BY DEF IInv, OpGood, OpType, DisableCqs, Reread, FinishMapRead, WriteMap, At, PortPcs,
         MapPcs, Good
<1>2. CASE DisableCqs
  <2> DEFINE off0 == disable_if_wanted(dev, p)
  <2>1. dev' = disable_mapped_cqs(off0, q)
    BY <1>2 DEF DisableCqs
  <2> HIDE DEF p, q
  <2>2. /\ off0 \in Dev /\ SameBooks(off0, dev)
        /\ \A r \in Ports : off0.cq_disabled[r] = (dev.cq_disabled[r] \/ (r = p /\ enabled[p]))
    BY <1>1, CqHelpersGood, RegisterHelpers, CqEffect DEF Good
  <2> HIDE DEF off0
  <2>3. \A r \in Ports : dev'.cq_disabled[r]
                          = (off0.cq_disabled[r] \/ (HasMapped(off0, r, q) /\ enabled[r]))
    BY <2>1, <2>2, CqEffect
  <2>4. \A r \in Ports : HasMapped(off0, r, q) <=> HasMapped(dev, r, q)
    BY <2>2, SameMapped DEF SameBooks
  <2> QED
    BY <2>2, <2>3, <2>4 DEF EnablesWanted, q
<1>3. CASE Reread
  <2> DEFINE on0 == enable_if_wanted(dev, p)
             on == enable_mapped_cqs(on0, q)
  <2>1. (dev' = dev \/ dev' = schedule_work(on)) /\ op.pc = "reread"
    BY <1>3 DEF Reread, At
  <2> HIDE DEF p, q
  <2>2. /\ on0 \in Dev
        /\ \A r \in Ports : on0.cq_disabled[r]
             = (dev.cq_disabled[r] /\ (r # p \/ ~enabled[p] \/ dev.port_removals[p] # 0))
    BY <1>1, CqHelpersGood, EnableWantedEffect DEF Good
  <2> HIDE DEF on0
  <2>3. /\ on \in Dev
        /\ \A r \in Ports : on.cq_disabled[r]
             = (on0.cq_disabled[r] /\ ~ (/\ HasMapped(on0, r, q) /\ enabled[r]
                                       /\ on0.port_removals[r] = 0))
    <3>1. Good(on0)
      BY <1>1, CqHelpersGood DEF on0
    <3> QED
      BY <1>1, <2>2, <3>1, CqHelpersGood, CqEffect DEF Good
  <2> HIDE DEF on
  <2>4. dev'.cq_disabled = dev.cq_disabled \/ dev'.cq_disabled = on.cq_disabled
    BY <2>1, <2>3, RegisterHelpers
  <2> QED
    BY <2>1, <2>2, <2>3, <2>4 DEF EnablesWanted, DisableCqs, At
<1>4. CASE FinishMapRead
  BY <1>4 DEF FinishMapRead, EnablesWanted, DisableCqs, At
<1>5. CASE WriteMap
  <2> DEFINE static == map_qid_static(dev, p, q)
  <2>1. dev' = finish_map_qid_dynamic(dev, p, q) /\ op.pc = "write_map"
    BY <1>5 DEF WriteMap, At
  <2> HIDE DEF p, q
  <2>2. static.cq_disabled = dev.cq_disabled
    BY <1>1, StaticEffect
  <2>3. \A r \in Ports :
          dev'.cq_disabled[r] = (static.cq_disabled[r] /\ ~ (/\ HasMapped(static, r, q)
                                                            /\ enabled[r]
                                                            /\ static.port_removals[r] = 0))
    BY <1>1, <2>1, FinishMapEffect
  <2> HIDE DEF static
  <2> QED
    BY <2>1, <2>2, <2>3 DEF EnablesWanted, DisableCqs, At
<1> QED
  BY <1>2, <1>3, <1>4, <1>5

(* No step enables a CQ that the application does not want.                *)
LEMMA StepCqs ==
  ASSUME IInv, [Next]_vars, UNCHANGED enabled
  PROVE  EnablesWanted
<1>1. dev \in Dev
  BY DEF IInv, Good
<1>2. CASE dev'.cq_disabled = dev.cq_disabled
  BY <1>2 DEF EnablesWanted
<1>3. CASE MapDone
  <2>1. op.p \in Ports
    BY <1>3 DEF IInv, OpGood, MapDone, At, PortPcs
  <2>2. dev' = enable_if_wanted(dev, op.p)
    BY <1>3 DEF MapDone
  <2>3. \A r \in Ports : enable_if_wanted(dev, op.p).cq_disabled[r]
           = (dev.cq_disabled[r] /\ (r # op.p \/ ~enabled[op.p] \/ dev.port_removals[op.p] # 0))
    BY <1>1, <2>1, EnableWantedEffect
  <2> QED
    BY <2>2, <2>3 DEF EnablesWanted
<1>4. CASE Ioctl
  <2>1. ASSUME NEW p \in Ports, EnablePort(p) \/ DisablePort(p)
        PROVE  FALSE
    BY <2>1 DEF EnablePort, DisablePort, IInv, RestType
  <2> QED
    BY <1>2, <1>4, <2>1, UnmapQidCqs DEF Ioctl, MapQid, StartDomain, StopDomain
<1>5. CASE Holder
  <2>1. WorkerEnd => dev'.cq_disabled = dev.cq_disabled
    BY <1>1 DEF WorkerEnd, Dev
  <2>2. \/ FinishUnmapPortDone \/ MapReject \/ WorkerUnmapPort \/ WorkerUnmapDone
        \/ WorkerMapPort \/ FinishMapPortSlot \/ FinishMapPortDone
        => UNCHANGED dev
    BY DEF FinishUnmapPortDone, MapReject, WorkerUnmapPort, WorkerUnmapDone,
           WorkerMapPort, FinishMapPortSlot, FinishMapPortDone
  <2> QED
    BY <1>2, <1>3, <1>5, <2>1, <2>2, DynamicCqs, FinishUnmapCqs, MapAcceptCqs DEF Holder
<1>6. CASE WorkerStart \/ \E p \in Ports, q \in Queues : Schedule(p, q) \/ Complete(p, q)
  <2>1. dev'.cq_disabled = dev.cq_disabled
    BY <1>1, <1>6 DEF WorkerStart, Schedule, Complete, Dev
  <2> QED
    BY <1>2, <2>1
<1> QED
  BY <1>2, <1>4, <1>5, <1>6 DEF Next, vars

LEMMA UnwantedKept == IInv /\ Unwanted /\ [Next]_vars => Unwanted'
<1> SUFFICES ASSUME IInv, Unwanted, [Next]_vars
             PROVE  Unwanted'
  OBVIOUS
<1>1. dev \in Dev /\ enabled \in [Ports -> BOOLEAN]
  BY DEF IInv, Good, RestType
<1>2. CASE UNCHANGED enabled
  BY <1>2, StepCqs DEF Unwanted, EnablesWanted
<1>3. ASSUME NEW p \in Ports, EnablePort(p)
      PROVE  Unwanted'
  <2>1. dev' = cq_enable(dev, p) /\ enabled' = [enabled EXCEPT ![p] = TRUE]
    BY <1>3 DEF EnablePort
  <2>2. \A r \in Ports : r # p => (cq_enable(dev, p).cq_disabled[r] = dev.cq_disabled[r])
    BY <1>1 DEF cq_enable, Dev
  <2> QED
    BY <1>1, <2>1, <2>2 DEF Unwanted
<1>4. ASSUME NEW p \in Ports, DisablePort(p)
      PROVE  Unwanted'
  <2>1. dev' = cq_disable(dev, p) /\ enabled' = [enabled EXCEPT ![p] = FALSE]
    BY <1>4 DEF DisablePort
  <2>2. \A r \in Ports : cq_disable(dev, p).cq_disabled[r]
                         = IF r = p THEN TRUE ELSE dev.cq_disabled[r]
    BY <1>1 DEF cq_disable, Dev
  <2> QED
    BY <1>1, <2>1, <2>2 DEF Unwanted
<1>5. \/ UNCHANGED enabled
      \/ \E p \in Ports : EnablePort(p) \/ DisablePort(p)
  BY DEF Next, Ioctl, Holder, vars, MapQid, UnmapQid, UnmapAbort, UnmapWithdraw, UnmapStart,
         StartDomain, StopDomain, DisableCqs, Reread, FinishMapRead, WriteMap,
         FinishUnmapPortSlot, FinishUnmapPortDone, MapReject, MapAccept, MapDone,
         WorkerUnmapPort, WorkerUnmapDone, WorkerMapPort, FinishMapPortSlot,
         FinishMapPortDone, WorkerEnd, WorkerStart, Schedule, Complete
<1> QED
  BY <1>2, <1>3, <1>4, <1>5

(* A queue's CQs are off once DisableCqs is done: those the driver finds   *)
(* mapped and enabled, those nobody wants enabled, and those with a        *)
(* removal pending, which the driver does not look for.                    *)
LEMMA DisableShuts ==
  ASSUME IInv, Matches(dev), Unwanted, DisableCqs
  PROVE  Shut(dev', op.mq)
<1> DEFINE q == op.mq
<1>1. SameBooks(dev', dev) /\ HeldOff(dev) /\ Counted(dev)
  BY DynamicSame DEF IInv, Good
<1>2. \A r \in Ports :
        dev.cq_disabled[r] \/ (HasMapped(dev, r, q) /\ enabled[r]) => dev'.cq_disabled[r]
  BY DynamicCqs
<1> SUFFICES ASSUME q # None, NEW r \in Ports, NEW t \in Slots, dev'.cq2qid[r][t] = q
             PROVE  dev'.cq_disabled[r]
  BY DEF Shut
<1>3. dev.qid_map[r][t].state \in InHardware /\ dev.qid_map[r][t].qid = q
  <2>1. dev.cq2qid[r][t] = q
    BY <1>1 DEF SameBooks
  <2>2. EntryOf(dev.qid_map[r][t]) = q
    BY <2>1 DEF Matches
  <2> QED
    BY <2>2 DEF EntryOf
<1>4. CASE dev.qid_map[r][t].state = "MAPPED"
  <2>1. HasMapped(dev, r, q)
    BY <1>3, <1>4, Found DEF HasMapped
  <2> QED
    BY <1>2, <2>1 DEF Unwanted
<1>5. CASE dev.qid_map[r][t].state \in Removing
  <2>1. t \in SlotsWith(dev, r, Removing) /\ SlotsWith(dev, r, Removing) \in SUBSET Slots
    BY <1>5 DEF SlotsWith
  <2>2. IsFiniteSet(SlotsWith(dev, r, Removing))
    BY <2>1, SlotsFinite, FS_Subset
  <2>3. Cardinality(SlotsWith(dev, r, Removing)) # 0
    BY <2>1, <2>2, FS_EmptySet
  <2> QED
    BY <1>1, <1>2, <2>3 DEF Counted, HeldOff
<1> QED
  BY <1>3, <1>4, <1>5 DEF InHardware, Removing

(* Who gets there, and what can happen meanwhile.                          *)
LEMMA OffStep ==
  ASSUME IInv, SInv, [Next]_vars, op'.pc \in OffPcs
  PROVE  /\ op'.mq = op.mq
         /\ \/ DisableCqs /\ op'.pc = "reread"
            \/ /\ op.pc \in OffPcs /\ UNCHANGED <<dev, infl>>
               /\ op'.pc = "write_map" => op.pc = "write_map" \/ QidDrained(op.mq)
            \/ /\ op.pc \in OffPcs /\ UNCHANGED op
               /\ \E p \in Ports, q \in Queues : Schedule(p, q) \/ Complete(p, q)
<1>1. /\ op \in OpType
      /\ op.pc \in MapPcs => op.then \in {"map_done", "unmap_slots", "map_slots"}
      /\ op.caller \in {"idle", "map_verify", "worker_unmap"}
  BY DEF IInv, OpGood, SInv, Claimed
<1>2. Idle.pc \notin OffPcs
  BY IdleIs DEF OffPcs
<1>3. CASE UNCHANGED op /\ op.pc = "idle"
  BY <1>3 DEF OffPcs
<1>4. CASE UNCHANGED vars
  BY <1>4 DEF vars
<1>5. ASSUME NEW d, NEW p, NEW q, NEW return, map_qid(d, p, q, return),
             return \in OpType, return.pc \in {"unmap_slots", "map_done"}
      PROVE  op'.pc \notin OffPcs
  BY <1>5 DEF map_qid, OpType, OffPcs
<1>6. CASE Ioctl \/ WorkerStart
  <2>1. op'.pc \in {"idle", "unmap_slots", "map_verify", "worker_unmap"}
    BY <1>1, <1>6 DEF Ioctl, MapQid, UnmapQid, UnmapAbort, UnmapWithdraw, UnmapStart,
       EnablePort, DisablePort, StartDomain, StopDomain, WorkerStart, MutexFree, At, Idle
  <2> QED
    BY <2>1 DEF OffPcs
<1>7. CASE DisableCqs
  <2>1. op' = [op EXCEPT !.pc = "reread"]
    BY <1>7 DEF DisableCqs
  <2> QED
    BY <1>1, <1>7, <2>1 DEF OpType
<1>8. CASE Reread \/ FinishMapRead \/ WriteMap
  <2>1. /\ Reread => op.pc = "reread"
        /\ FinishMapRead => op.pc = "finish_map"
        /\ WriteMap => op.pc = "write_map"
    BY DEF Reread, FinishMapRead, WriteMap, At
  <2>2. op.pc \in OffPcs /\ op.pc \in MapPcs
    BY <1>8, <2>1 DEF OffPcs, MapPcs
  <2>3. MapReturn.pc = op.then
    BY <1>1 DEF MapReturn, OpType
  <2>4. op' # MapReturn /\ op' # Idle
    BY <1>1, <1>2, <2>2, <2>3 DEF OffPcs
  <2>5. CASE Reread
    <3>1. UNCHANGED <<dev, infl>> /\ op' = [op EXCEPT !.pc = "finish_map"]
      BY <2>4, <2>5 DEF Reread
    <3> QED
      BY <1>1, <2>2, <3>1 DEF OpType
  <2>6. CASE FinishMapRead
    <3>1. UNCHANGED <<dev, infl>> /\ op' = [op EXCEPT !.pc = "write_map"] /\ QidDrained(op.mq)
      BY <2>4, <2>6 DEF FinishMapRead
    <3> QED
      BY <1>1, <2>2, <3>1 DEF OpType
  <2> QED
    BY <1>8, <2>4, <2>5, <2>6 DEF WriteMap
<1>9. CASE FinishUnmapPortSlot
  <2> DEFINE s == First({t \in SlotsWith(dev, op.p, Removing) : t > op.s})
             next == [op EXCEPT !.s = s]
  <2>1. op.pc = "unmap_slots" /\ s \in Slots
    BY <1>9, FirstType DEF FinishUnmapPortSlot, At, SlotsWith
  <2>2. op' = next \/ \E d, q : map_qid(d, op.p, q, next)
    BY <1>9 DEF FinishUnmapPortSlot
  <2> HIDE DEF s
  <2>3. next \in OpType /\ next.pc = "unmap_slots"
    BY <1>1, <2>1 DEF OpType
  <2> HIDE DEF next
  <2> QED
    BY <1>5, <2>2, <2>3 DEF OffPcs
<1>10. CASE MapAccept
  <2> DEFINE done == [op EXCEPT !.pc = "map_done"]
  <2>1. op' = Idle \/ op' = done \/ \E d : map_qid(d, op.p, op.q, done)
    BY <1>10 DEF MapAccept
  <2>2. done \in OpType /\ done.pc = "map_done"
    BY <1>1 DEF OpType, HolderPcs
  <2> HIDE DEF done
  <2> QED
    BY <1>2, <1>5, <2>1, <2>2 DEF OffPcs
<1>11. CASE \/ FinishUnmapPortDone \/ MapReject \/ MapDone \/ WorkerUnmapPort \/ WorkerUnmapDone
            \/ WorkerMapPort \/ FinishMapPortSlot \/ FinishMapPortDone \/ WorkerEnd
  <2>1. op'.pc \in {"idle", "map_verify", "worker_unmap", "unmap_slots", "worker_map",
                    "map_slots", "disable_cqs"}
    BY <1>1, <1>11, IdleIs
       DEF FinishUnmapPortDone, MapReject, MapDone, WorkerUnmapPort, WorkerUnmapDone,
           WorkerMapPort, FinishMapPortSlot, FinishMapPortDone, WorkerEnd, At, OpType
  <2> QED
    BY <2>1 DEF OffPcs
<1>12. CASE \E p \in Ports, q \in Queues : Schedule(p, q) \/ Complete(p, q)
  <2>1. UNCHANGED op
    BY <1>12 DEF Schedule, Complete
  <2> QED
    BY <1>12, <2>1
<1> QED
  BY <1>4, <1>6, <1>7, <1>8, <1>9, <1>10, <1>11, <1>12 DEF Next, Holder

(* The device gives no event of a queue whose CQs are off, and the         *)
(* application has none to complete if none is inflight.                   *)
LEMMA EventsShut ==
  ASSUME IInv, NEW p \in Ports, NEW q \in Queues, Schedule(p, q) \/ Complete(p, q),
         Shut(dev, op.mq)
  PROVE  /\ Shut(dev', op.mq)
         /\ op.mq # None /\ QidDrained(op.mq) => QidDrained(op.mq)'
<1>1. dev'.cq_disabled = dev.cq_disabled /\ dev'.cq2qid = dev.cq2qid
  BY DEF Schedule, Complete, IInv, Good, Dev
<1>2. Shut(dev', op.mq)
  BY <1>1 DEF Shut
<1>3. ASSUME op.mq # None, QidDrained(op.mq)
      PROVE  QidDrained(op.mq)'
  <2>1. op.mq \in Queues /\ infl \in [Ports -> [Queues -> 0 .. MaxInflights]] /\ UNCHANGED op
    BY <1>3 DEF IInv, OpGood, OpType, RestType, Schedule, Complete
  <2>2. q # op.mq
    BY <1>3 DEF Schedule, Complete, Shut, QidDrained
  <2>3. \A r \in Ports : infl'[r][op.mq] = infl[r][op.mq]
    BY <2>1, <2>2 DEF Schedule, Complete
  <2> QED
    BY <1>3, <2>1, <2>3 DEF QidDrained
<1> QED
  BY <1>2, <1>3

LEMMA NextQuiet == IInv /\ SInv /\ BooksKept /\ QInv /\ [Next]_vars => QInv'
<1> SUFFICES ASSUME IInv, SInv, BooksKept, QInv, [Next]_vars
             PROVE  QInv'
  OBVIOUS
<1>1. Unwanted'
  BY UnwantedKept DEF QInv
<1>2. CASE op'.pc \notin OffPcs
  BY <1>1, <1>2 DEF QInv, OffPcs
<1>3. CASE op'.pc \in OffPcs
  <2>1. /\ Unwanted /\ Matches(dev)
        /\ op.pc \in OffPcs => Shut(dev, op.mq)
        /\ op.pc = "write_map" /\ op.mq # None => QidDrained(op.mq)
    BY DEF QInv, BooksKept, Books
  <2>2. /\ op'.mq = op.mq
        /\ \/ DisableCqs /\ op'.pc = "reread"
           \/ /\ op.pc \in OffPcs /\ UNCHANGED <<dev, infl>>
              /\ op'.pc = "write_map" => op.pc = "write_map" \/ QidDrained(op.mq)
           \/ /\ op.pc \in OffPcs /\ UNCHANGED op
              /\ \E p \in Ports, q \in Queues : Schedule(p, q) \/ Complete(p, q)
    BY <1>3, OffStep
  <2>3. Shut(dev', op'.mq)
    BY <2>1, <2>2, DisableShuts, EventsShut
  <2>4. op'.pc = "write_map" /\ op'.mq # None => QidDrained(op.mq)'
    <3>1. CASE UNCHANGED infl
      BY <2>1, <2>2, <3>1 DEF QidDrained
    <3> QED
      BY <2>1, <2>2, <3>1, EventsShut
  <2> QED
    BY <1>1, <2>3, <2>4 DEF QInv, Shut
<1> QED
  BY <1>2, <1>3

LEMMA InitQuiet == Init => QInv
BY IdleIs DEF Init, QInv, Unwanted, OffPcs

(* In a running domain the tables give a queue to another CQ only while no *)
(* event of the queue is inflight anywhere, although the device goes on    *)
(* between the driver's last read of the inflight count and the write: by  *)
(* then every CQ that has the queue is off.  The driver disables the CQs   *)
(* it finds mapped and enabled; that the others are off already takes the  *)
(* books to be kept, so the application must ask again for no queue whose  *)
(* own slot waits for another.                                             *)
THEOREM MapQuiet == Spec /\ []NeverRerequested => MapOnlyWhenQuiet
<1>1. ASSUME IInv, QInv, [Next]_vars
      PROVE  [domain = "started" =>
                \A p \in Ports, s \in Slots :
                  LET q == dev'.cq2qid[p][s]
                  IN  q # None /\ dev.cq2qid[p][s] # q => QidDrained(q)]_vars
  <2> SUFFICES ASSUME domain = "started", NEW p \in Ports, NEW s \in Slots,
                      dev'.cq2qid[p][s] # None, dev.cq2qid[p][s] # dev'.cq2qid[p][s]
               PROVE  QidDrained(dev'.cq2qid[p][s])
    OBVIOUS
  <2>1. op.pc = "write_map" /\ dev'.cq2qid[p][s] = op.mq
    BY <1>1, StepTable DEF Written
  <2> QED
    BY <1>1, <2>1 DEF QInv
<1>2. Spec /\ []NeverRerequested => []QInv
  BY InitQuiet, NextQuiet, Inductive, ServedInductive, BooksInductive, PTL DEF Spec
<1> QED
  BY <1>1, <1>2, Inductive, PTL DEF Spec, MapOnlyWhenQuiet

-----------------------------------------------------------------------------
(* Removals and the completions a CQ owes, whatever the application asks.  *)

(* A slot that the hardware does not have has no entry in the tables.      *)
Empties(d) ==
  \A p \in Ports, s \in Slots :
    d.qid_map[p][s].state \notin InHardware => d.cq2qid[p][s] = None

(* No entry is taken away or replaced; none of another port than p is.     *)
Keeps(n, d) ==
  \A p \in Ports, s \in Slots : d.cq2qid[p][s] # None => n.cq2qid[p][s] = d.cq2qid[p][s]
Elsewhere(n, d, p) ==
  \A r \in Ports, s \in Slots : r # p => n.cq2qid[r][s] = d.cq2qid[r][s]

(* One entry is written with its slot.                                     *)
SlotWritten(n, d, p, s, v, c) ==
  /\ n.qid_map = Put(d.qid_map, p, s, v)
  /\ n.cq2qid = Put(d.cq2qid, p, s, c)
  /\ v.state \notin InHardware => c = None

LEMMA OneSlotEmpties ==
  ASSUME NEW d \in Dev, Empties(d), NEW p \in Ports, NEW s \in Slots, NEW v, NEW c,
         NEW n, SlotWritten(n, d, p, s, v, c)
  PROVE  /\ Empties(n)
         /\ Elsewhere(n, d, p)
         /\ d.cq2qid[p][s] = None \/ c = d.cq2qid[p][s] => Keeps(n, d)
<1>1. /\ d.qid_map \in [Ports -> [Slots -> SlotType]]
      /\ d.cq2qid \in [Ports -> [Slots -> Queues \cup {None}]]
  BY DEF Dev
<1>2. ASSUME NEW r \in Ports, NEW t \in Slots
      PROVE  /\ n.qid_map[r][t] = IF r = p /\ t = s THEN v ELSE d.qid_map[r][t]
             /\ n.cq2qid[r][t] = IF r = p /\ t = s THEN c ELSE d.cq2qid[r][t]
  <2>1. CASE r = p
    BY <1>1, <2>1 DEF SlotWritten, Put
  <2>2. CASE r # p
    BY <1>1, <2>2 DEF SlotWritten, Put
  <2> QED
    BY <2>1, <2>2
<1>3. Empties(n)
  BY <1>2 DEF Empties, SlotWritten
<1>4. Elsewhere(n, d, p)
  BY <1>2 DEF Elsewhere
<1>5. d.cq2qid[p][s] = None \/ c = d.cq2qid[p][s] => Keeps(n, d)
  BY <1>2 DEF Keeps
<1> QED
  BY <1>3, <1>4, <1>5

LEMMA SameEmpties ==
  ASSUME NEW d, NEW n, SameBooks(n, d)
  PROVE  (Empties(d) => Empties(n)) /\ n.cq2qid = d.cq2qid
BY DEF SameBooks, Empties

(* The transitions of TransitionBooks.                                     *)
LEMMA TransitionEmpties ==
  ASSUME NEW d \in Dev, Empties(d), NEW p \in Ports, NEW s \in Slots, NEW q, NEW new,
         <<d.qid_map[p][s].state, new>>
           \in {<<"MAP_IN_PROG", "UNMAPPED">>, <<"MAPPED", "UNMAP_IN_PROG">>,
                <<"UNMAP_IN_PROG", "MAPPED">>,
                <<"UNMAP_IN_PROG_PENDING_MAP", "UNMAP_IN_PROG">>}
  PROVE  /\ Empties(slot_state_transition(d, p, q, s, new))
         /\ slot_state_transition(d, p, q, s, new).cq2qid = d.cq2qid
<1> DEFINE n == slot_state_transition(d, p, q, s, new)
           v == Kept(d.qid_map[p][s], new)
           c == d.cq2qid[p][s]
<1>1. <<d.qid_map[p][s].state, new>> \in Transitions
  BY DEF Transitions
<1>2. n.qid_map = Put(d.qid_map, p, s, v) /\ n.cq2qid = d.cq2qid
  BY <1>1, TransitionEffect
<1> HIDE DEF n
<1>3. v.state \notin InHardware => c = None
  BY DEF Kept, InHardware, Empties
<1>4. SlotWritten(n, d, p, s, v, c)
  BY <1>2, <1>3, PutSame DEF SlotWritten
<1> HIDE DEF v, c
<1> QED
  BY <1>2, <1>4, OneSlotEmpties DEF n

LEMMA ParkEmpties ==
  ASSUME NEW d, Good(d), Empties(d), NEW p \in Ports, NEW s \in Slots,
         NEW q \in Queues \cup {None}, d.qid_map[p][s].state = "UNMAP_IN_PROG"
  PROVE  LET n == slot_state_transition([d EXCEPT !.qid_map[p][s].pending_qid = q],
                                        p, q, s, "UNMAP_IN_PROG_PENDING_MAP") IN
         Empties(n) /\ n.cq2qid = d.cq2qid
<1> DEFINE n == slot_state_transition([d EXCEPT !.qid_map[p][s].pending_qid = q],
                                      p, q, s, "UNMAP_IN_PROG_PENDING_MAP")
           v == ParkedSlot(d.qid_map[p][s], q)
           c == d.cq2qid[p][s]
<1>1. n.qid_map = Put(d.qid_map, p, s, v) /\ n.cq2qid = d.cq2qid
  BY ParkEffect
<1> HIDE DEF n
<1>2. d \in Dev
  BY DEF Good
<1>3. SlotWritten(n, d, p, s, v, c)
  BY <1>1, <1>2, PutSame DEF SlotWritten, ParkedSlot, InHardware
<1> HIDE DEF v, c
<1> QED
  BY <1>1, <1>2, <1>3, OneSlotEmpties DEF n

LEMMA BeginEmpties ==
  ASSUME NEW d, Good(d), Empties(d), NEW p \in Ports, NEW q \in Queues \cup {None}
  PROVE  LET n == begin_map_qid_dynamic(d, p, q) IN
         Empties(n) /\ n.cq2qid = d.cq2qid
<1> DEFINE s == find_slot(d, p, "UNMAPPED")
           n == begin_map_qid_dynamic(d, p, q)
           v == PromisedSlot(q)
           c == d.cq2qid[p][s]
<1>1. d \in Dev
  BY DEF Good
<1>2. /\ s \in Slots \cup {0}
      /\ s = 0 => SameBooks(n, d)
      /\ n.cq2qid = d.cq2qid
  BY BeginEffect
<1>3. CASE s = 0
  BY <1>2, <1>3, SameEmpties
<1>4. CASE s # 0
  <2>1. /\ d.qid_map[p][s].state = "UNMAPPED"
        /\ n.qid_map = Put(d.qid_map, p, s, v)
    BY <1>4, BeginEffect
  <2>2. s \in Slots
    BY <1>2, <1>4
  <2> HIDE DEF s, n
  <2>3. c = None
    BY <2>1, <2>2 DEF Empties, InHardware
  <2>4. SlotWritten(n, d, p, s, v, c)
    BY <1>1, <1>2, <2>1, <2>2, <2>3, PutSame DEF SlotWritten
  <2> HIDE DEF v, c
  <2> QED
    BY <1>1, <1>2, <2>2, <2>4, OneSlotEmpties DEF n
<1> QED
  BY <1>2, <1>3, <1>4

(* A static map replaces an entry only where it finds the queue MAPPED.    *)
LEMMA StaticEmpties ==
  ASSUME NEW d, Good(d), Empties(d), NEW p \in Ports, NEW q \in Queues \cup {None}
  PROVE  LET n == map_qid_static(d, p, q) IN
         /\ Empties(n)
         /\ Elsewhere(n, d, p)
         /\ \/ find_slot_queue(d, p, "MAPPED", q) = 0
            \/ find_slot_queue(d, p, "MAP_IN_PROG", q) # 0
            => Keeps(n, d)
<1> DEFINE s == StaticSlot(d, p, q)
           n == map_qid_static(d, p, q)
           v == MappedSlot(q)
           same == find_slot_queue(d, p, "MAPPED", q)
           prog == find_slot_queue(d, p, "MAP_IN_PROG", q)
           free == find_slot(d, p, "UNMAPPED")
<1>1. d \in Dev
  BY DEF Good
<1>2. s = IF prog # 0 THEN prog ELSE IF same # 0 THEN same ELSE free
  BY DEF StaticSlot
<1>3. /\ prog \in Slots \cup {0} /\ same \in Slots \cup {0} /\ free \in Slots \cup {0}
      /\ prog # 0 => d.qid_map[p][prog].state = "MAP_IN_PROG"
      /\ free # 0 => d.qid_map[p][free].state = "UNMAPPED"
  BY FindSlots
<1>4. CASE s = 0
  <2>1. n = d
    BY <1>4, StaticEffect
  <2> QED
    BY <2>1 DEF Elsewhere, Keeps
<1>5. CASE s # 0
  <2>1. /\ n.qid_map = Put(d.qid_map, p, s, v)
        /\ n.cq2qid = Put(d.cq2qid, p, s, q)
    BY <1>5, StaticEffect
  <2> HIDE DEF s, n, same, prog, free
  <2>2. s \in Slots
    BY <1>2, <1>3, <1>5
  <2>3. SlotWritten(n, d, p, s, v, q)
    BY <2>1 DEF SlotWritten, MappedSlot, InHardware
  <2>4. same = 0 \/ prog # 0 => d.cq2qid[p][s] = None
    BY <1>2, <1>3, <1>5, <2>2 DEF Empties, InHardware
  <2> HIDE DEF v
  <2>5. Empties(n) /\ Elsewhere(n, d, p) /\ (d.cq2qid[p][s] = None => Keeps(n, d))
    BY <1>1, <2>2, <2>3, OneSlotEmpties
  <2> QED
    BY <2>4, <2>5 DEF n, same, prog
<1> QED
  BY <1>4, <1>5

LEMMA UnmapEmpties ==
  ASSUME NEW d, Good(d), Empties(d), NEW p \in Ports, NEW q
  PROVE  LET n == unmap_qid(d, p, q) IN Empties(n) /\ Elsewhere(n, d, p)
<1> DEFINE s == UnmapSlot(d, p, q)
           n == unmap_qid(d, p, q)
           v == EmptySlot
<1>1. d \in Dev
  BY DEF Good
<1>2. s \in Slots \cup {0}
  BY UnmapSlotIs
<1>3. CASE s = 0
  <2>1. n = d
    BY <1>3, UnmapEffect
  <2> QED
    BY <2>1 DEF Elsewhere
<1>4. CASE s # 0
  <2>1. /\ n.qid_map = Put(d.qid_map, p, s, v)
        /\ n.cq2qid = Put(d.cq2qid, p, s, None)
    BY <1>4, UnmapEffect
  <2> HIDE DEF s, n
  <2>2. s \in Slots
    BY <1>2, <1>4
  <2>3. SlotWritten(n, d, p, s, v, None)
    BY <2>1 DEF SlotWritten
  <2> HIDE DEF v
  <2> QED
    BY <1>1, <2>2, <2>3, OneSlotEmpties DEF n
<1> QED
  BY <1>3, <1>4

LEMMA MapQidEmpties ==
  ASSUME NEW d, Good(d), Empties(d), NEW p \in Ports, NEW q \in Queues \cup {None},
         NEW return, map_qid(d, p, q, return)
  PROVE  /\ Empties(dev')
         /\ Elsewhere(dev', d, p)
         /\ find_slot_queue(d, p, "MAPPED", q) = 0 => Keeps(dev', d)
<1> DEFINE begun == begin_map_qid_dynamic(d, p, q)
           static == map_qid_static(d, p, q)
<1>1. /\ Empties(static) /\ Elsewhere(static, d, p)
      /\ find_slot_queue(d, p, "MAPPED", q) = 0 => Keeps(static, d)
  BY StaticEmpties
<1>2. Empties(begun) /\ begun.cq2qid = d.cq2qid /\ Good(begun) /\ begun \in Dev
  BY BeginEmpties, BeginMapGood DEF Good
<1>3. dev' = static \/ dev' = begun \/ dev' = schedule_work(begun)
  BY DEF map_qid
<1> HIDE DEF begun, static
<1>4. Empties(schedule_work(begun)) /\ schedule_work(begun).cq2qid = begun.cq2qid
  BY <1>2, RegisterHelpers, SameEmpties
<1>5. CASE dev' = static
  BY <1>1, <1>5 DEF Empties, Elsewhere, Keeps
<1>6. CASE dev' = begun \/ dev' = schedule_work(begun)
  <2>1. Empties(dev') /\ dev'.cq2qid = d.cq2qid
    BY <1>2, <1>4, <1>6
  <2> QED
    BY <2>1 DEF Elsewhere, Keeps
<1> QED
  BY <1>3, <1>5, <1>6

USE DEF MapPcs

(* The loop over a port's removals runs while the port's CQ owes nothing.  *)
Draining ==
  /\ \/ op.pc = "unmap_slots"
     \/ op.pc \in MapPcs /\ op.then = "unmap_slots"
  /\ dev.port_removals[op.p] > 0
  => CqDrained(op.p)

DInv == Empties(dev) /\ Draining

(* What a step does to the tables.                                         *)
Drained ==
  \A p \in Ports, s \in Slots :
    dev.cq2qid[p][s] # None /\ dev'.cq2qid[p][s] # dev.cq2qid[p][s] => CqDrained(p)

LEMMA EmptiesPrimed == ASSUME Empties(dev') PROVE Empties(dev)'
BY DEF Empties

LEMMA KeepsDrained ==
  ASSUME Keeps(dev', dev) \/ dev'.cq2qid = dev.cq2qid
  PROVE  Drained
BY DEF Keeps, Drained

LEMMA NotDraining ==
  ASSUME op'.pc # "unmap_slots", op'.pc \in MapPcs => op'.then # "unmap_slots"
  PROVE  Draining'
BY DEF Draining

LEMMA FinishUnmapDrained ==
  ASSUME IInv, DInv, FinishUnmapPortSlot
  PROVE  DInv' /\ Drained
<1> DEFINE p == op.p
           s == First({t \in SlotsWith(dev, p, Removing) : t > op.s})
           slot == dev.qid_map[p][s]
           freed == unmap_qid(dev, p, slot.qid)
           unmapped == enable_if_wanted(freed, p)
           renamed == IF unmapped.qid_map[p][s].state = "UNMAPPED" THEN unmapped
                      ELSE Renamed(unmapped, p, s, slot.pending_qid)
           next == [op EXCEPT !.s = s]
<1>1. /\ p \in Ports /\ op.pc = "unmap_slots" /\ Good(dev) /\ dev \in Dev /\ Empties(dev)
      /\ dev.qid_map \in [Ports -> [Slots -> SlotType]] /\ op \in OpType
      /\ infl' = infl
  BY DEF IInv, OpGood, FinishUnmapPortSlot, At, PortPcs, MapPcs, Good, DInv, Dev
<1>2. s \in SlotsWith(dev, p, Removing)
  BY FirstType DEF FinishUnmapPortSlot, SlotsWith
<1>3. \/ dev' = unmapped /\ op' = next
      \/ map_qid(renamed, p, slot.pending_qid, next)
  BY DEF FinishUnmapPortSlot, Renamed
<1>4. next.p = p /\ next \in OpType
  <2> HIDE DEF s
  <2>1. s \in Slots
    BY <1>2 DEF SlotsWith
  <2> QED
    BY <1>1, <2>1 DEF OpType
<1> HIDE DEF s, next
<1>5. s \in Slots /\ slot.pending_qid \in Queues \cup {None}
  BY <1>1, <1>2 DEF SlotsWith, SlotType
<1>6. CqDrained(p)
  <2>1. dev.port_removals[p] = Cardinality(SlotsWith(dev, p, Removing))
    BY <1>1 DEF Good, Counted
  <2>2. IsFiniteSet(SlotsWith(dev, p, Removing))
    BY SlotsFinite, FS_Subset DEF SlotsWith
  <2>3. dev.port_removals[p] > 0
    BY <1>2, <2>1, <2>2, FS_EmptySet, FS_CardinalityType
  <2> QED
    BY <1>1, <2>3 DEF DInv, Draining
<1>7. op'.p = p
  BY <1>1, <1>3, <1>4 DEF map_qid, OpType
<1>8. /\ Good(freed) /\ freed \in Dev /\ Empties(freed) /\ Elsewhere(freed, dev, p)
  BY <1>1, UnmapGood, UnmapEmpties DEF Good
<1> HIDE DEF freed, p
<1>9. Good(unmapped) /\ unmapped \in Dev /\ SameBooks(unmapped, freed)
  BY <1>1, <1>8, RegisterHelpers, CqHelpersGood DEF Good
<1>10. Empties(unmapped) /\ unmapped.cq2qid = freed.cq2qid
  BY <1>8, <1>9, SameEmpties
<1> HIDE DEF unmapped
<1>11. Good(renamed) /\ Empties(renamed) /\ renamed.cq2qid = unmapped.cq2qid
  <2>1. CASE renamed = unmapped
    BY <1>9, <1>10, <2>1
  <2>2. CASE renamed = Renamed(unmapped, p, s, slot.pending_qid)
    <3> HIDE DEF renamed, slot
    <3>1. /\ Good(renamed)
          /\ renamed.qid_map[p][s].state = unmapped.qid_map[p][s].state
          /\ renamed.qid_map = Put(unmapped.qid_map, p, s, renamed.qid_map[p][s])
          /\ renamed.cq2qid = unmapped.cq2qid
      BY <1>1, <1>5, <1>9, <2>2, RenameEffect
    <3> DEFINE v == renamed.qid_map[p][s]
               c == unmapped.cq2qid[p][s]
    <3>2. v.state \notin InHardware => c = None
      BY <1>1, <1>5, <1>10, <3>1 DEF Empties
    <3>3. SlotWritten(renamed, unmapped, p, s, v, c)
      BY <1>1, <1>5, <1>9, <3>1, <3>2, PutSame DEF SlotWritten
    <3> HIDE DEF v, c
    <3>4. Empties(renamed)
      BY <1>1, <1>5, <1>9, <1>10, <3>3, OneSlotEmpties
    <3> QED
      BY <3>1, <3>4
  <2> QED
    BY <2>1, <2>2
<1> HIDE DEF renamed
<1>12. Empties(dev') /\ Elsewhere(dev', dev, p)
  <2>1. CASE dev' = unmapped
    BY <1>8, <1>10, <2>1 DEF Elsewhere
  <2>2. CASE map_qid(renamed, p, slot.pending_qid, next)
    <3> HIDE DEF slot
    <3>1. Empties(dev') /\ Elsewhere(dev', renamed, p)
      BY <1>1, <1>5, <1>11, <2>2, MapQidEmpties
    <3> QED
      BY <1>8, <1>10, <1>11, <3>1 DEF Elsewhere
  <2> QED
    BY <1>3, <2>1, <2>2
<1>13. Drained
  BY <1>6, <1>12 DEF Drained, Elsewhere
<1>14. Draining'
  BY <1>1, <1>6, <1>7 DEF Draining, CqDrained
<1> QED
  BY <1>12, <1>13, <1>14, EmptiesPrimed DEF DInv

LEMMA DynamicDrained ==
  ASSUME IInv, SInv, DInv, DisableCqs \/ Reread \/ FinishMapRead \/ WriteMap
  PROVE  DInv' /\ Drained
<1>1. /\ Good(dev) /\ Empties(dev) /\ op.p \in Ports /\ op \in OpType
      /\ op.pc \in MapPcs /\ op.then \in {"map_done", "unmap_slots", "map_slots"}
  BY DEF IInv, OpGood, OpType, DisableCqs, Reread, FinishMapRead, WriteMap, At, PortPcs,
         MapPcs, DInv, SInv, Claimed
<1>2. Empties(dev') /\ Keeps(dev', dev) /\ dev'.port_removals = dev.port_removals
  <2>1. CASE DisableCqs \/ Reread \/ FinishMapRead
    <3>1. /\ Empties(dev') /\ dev'.cq2qid = dev.cq2qid
          /\ dev'.port_removals = dev.port_removals
      BY <1>1, <2>1, DynamicSame, SameEmpties DEF SameBooks
    <3> QED
      BY <3>1 DEF Keeps
  <2>2. CASE WriteMap
    <3> DEFINE static == map_qid_static(dev, op.p, op.mq)
    <3>1. /\ op.mq \in Queues \cup {None}
          /\ find_slot_queue(dev, op.p, "MAP_IN_PROG", op.mq) # 0
          /\ SameBooks(dev', static)
      BY <2>2, WriteMapStatic, Found
    <3>2. Empties(static) /\ Keeps(static, dev) /\ static.port_removals = dev.port_removals
      BY <1>1, <3>1, StaticEmpties, StaticEffect
    <3> HIDE DEF static
    <3>3. /\ Empties(dev') /\ dev'.cq2qid = static.cq2qid
          /\ dev'.port_removals = static.port_removals
      BY <3>1, <3>2, SameEmpties DEF SameBooks
    <3> QED
      BY <3>2, <3>3 DEF Keeps
  <2> QED
    BY <2>1, <2>2
<1>3. infl' = infl
  BY DEF DisableCqs, Reread, FinishMapRead, WriteMap
<1>4. \/ op' = Idle
      \/ /\ op'.p = op.p
         /\ op'.pc = op.then \/ (op'.pc \in MapPcs /\ op'.then = op.then)
  <2>1. MapReturn.p = op.p /\ MapReturn.pc = op.then
    BY <1>1 DEF MapReturn, OpType
  <2>2. ASSUME NEW pc \in {"reread", "finish_map", "write_map"}, op' = [op EXCEPT !.pc = pc]
        PROVE  op'.p = op.p /\ op'.pc \in MapPcs /\ op'.then = op.then
    BY <1>1, <2>2 DEF OpType
  <2>3. \/ op' = Idle \/ op' = MapReturn
        \/ \E pc \in {"reread", "finish_map", "write_map"} : op' = [op EXCEPT !.pc = pc]
    BY DEF DisableCqs, Reread, FinishMapRead, WriteMap
  <2> QED
    BY <2>1, <2>2, <2>3
<1>5. Draining'
  <2>1. CASE op' = Idle
    BY <2>1, NotDraining DEF Idle, MapPcs
  <2>2. CASE op.then = "unmap_slots" /\ op'.p = op.p
    <3>1. dev.port_removals[op.p] > 0 => CqDrained(op.p)
      BY <1>1, <2>2 DEF DInv, Draining
    <3>2. CqDrained(op.p) => CqDrained(op.p)'
      BY <1>3, <2>2 DEF CqDrained
    <3> QED
      BY <1>2, <2>2, <3>1, <3>2 DEF Draining
  <2>3. CASE op' # Idle /\ op.then # "unmap_slots"
    BY <1>1, <1>4, <2>3, NotDraining DEF MapPcs
  <2> QED
    BY <1>4, <2>1, <2>2, <2>3
<1> QED
  BY <1>2, <1>5, KeepsDrained, EmptiesPrimed DEF DInv

LEMMA MapAcceptDrained ==
  ASSUME IInv, DInv, MapAccept
  PROVE  DInv' /\ Drained
<1> DEFINE p == op.p
           q == op.q
           d == disable_if_wanted(dev, p)
           mapped  == find_slot_queue(d, p, "MAPPED", q)
           unmap   == find_slot_queue(d, p, "UNMAP_IN_PROG", q)
           parking == find_slot(d, p, "UNMAP_IN_PROG")
           recalled == slot_state_transition(d, p, q, unmap, "MAPPED")
           parked == slot_state_transition(
                       [d EXCEPT !.qid_map[p][parking].pending_qid = q],
                       p, q, parking, "UNMAP_IN_PROG_PENDING_MAP")
           begun == begin_map_qid_dynamic(d, p, q)
           done == [op EXCEPT !.pc = "map_done"]
<1>1. /\ p \in Ports /\ q \in Queues \cup {None}
      /\ Good(dev) /\ dev \in Dev /\ Empties(dev)
  BY DEF IInv, OpGood, OpType, MapAccept, At, PortPcs, MapPcs, Good, DInv
<1>2. \/ dev' = d /\ op'.pc \in {"idle", "map_done"}
      \/ unmap # 0 /\ dev' = recalled /\ op'.pc = "map_done"
      \/ parking # 0 /\ dev' = parked /\ op'.pc = "map_done"
      \/ mapped = 0 /\ map_qid(d, p, q, done)
      \/ dev' = begun /\ op'.pc = "idle"
  <2>1. done.pc = "map_done"
    BY DEF IInv, OpGood, OpType
  <2>2. Idle.pc = "idle"
    BY DEF Idle
  <2>3. \/ dev' = d /\ (op' = done \/ op' = Idle)
        \/ unmap # 0 /\ dev' = recalled /\ op' = done
        \/ parking # 0 /\ dev' = parked /\ op' = done
        \/ mapped = 0 /\ map_qid(d, p, q, done)
        \/ dev' = begun /\ op' = Idle
    BY DEF MapAccept
  <2> HIDE DEF d, unmap, parking, mapped, recalled, parked, begun, done
  <2> QED
    BY <2>1, <2>2, <2>3
<1>3. done.pc = "map_done" /\ done \in OpType
  BY DEF IInv, OpGood, OpType, HolderPcs
<1> HIDE DEF done, p, q
<1>4. Good(d) /\ d \in Dev /\ Empties(d) /\ d.cq2qid = dev.cq2qid
  <2>1. Good(d) /\ d \in Dev /\ SameBooks(d, dev)
    BY <1>1, CqHelpersGood, RegisterHelpers DEF Good
  <2> HIDE DEF d
  <2> QED
    BY <1>1, <2>1, SameEmpties
<1> HIDE DEF d
<1>5. Empties(dev') /\ Keeps(dev', d)
  <2>1. CASE dev' = d
    BY <1>4, <2>1 DEF Keeps
  <2>2. CASE unmap # 0 /\ dev' = recalled
    <3>1. unmap \in Slots /\ d.qid_map[p][unmap].state = "UNMAP_IN_PROG"
      BY <2>2, FindSlots
    <3> HIDE DEF unmap
    <3>2. Empties(recalled) /\ recalled.cq2qid = d.cq2qid
      BY <1>1, <1>4, <3>1, TransitionEmpties
    <3> HIDE DEF recalled
    <3> QED
      BY <2>2, <3>2 DEF Keeps
  <2>3. CASE parking # 0 /\ dev' = parked
    <3>1. parking \in Slots /\ d.qid_map[p][parking].state = "UNMAP_IN_PROG"
      BY <2>3, FindSlots
    <3> HIDE DEF parking
    <3>2. Empties(parked) /\ parked.cq2qid = d.cq2qid
      BY <1>1, <1>4, <3>1, ParkEmpties
    <3> HIDE DEF parked
    <3> QED
      BY <2>3, <3>2 DEF Keeps
  <2>4. CASE mapped = 0 /\ map_qid(d, p, q, done)
    BY <1>1, <1>4, <2>4, MapQidEmpties
  <2>5. CASE dev' = begun
    <3>1. Empties(begun) /\ begun.cq2qid = d.cq2qid
      BY <1>1, <1>4, BeginEmpties
    <3> HIDE DEF begun
    <3> QED
      BY <2>5, <3>1 DEF Keeps
  <2> QED
    BY <1>2, <2>1, <2>2, <2>3, <2>4, <2>5
<1>6. op'.pc # "unmap_slots" /\ (op'.pc \in MapPcs => op'.then # "unmap_slots")
  <2>1. CASE map_qid(d, p, q, done)
    BY <1>3, <2>1 DEF map_qid, OpType
  <2> QED
    BY <1>2, <2>1
<1>7. Keeps(dev', dev)
  BY <1>4, <1>5 DEF Keeps
<1> QED
  BY <1>5, <1>6, <1>7, NotDraining, KeepsDrained, EmptiesPrimed DEF DInv

LEMMA UnmapQidDrained ==
  ASSUME IInv, DInv, NEW p \in Ports, NEW q \in Queues, UnmapQid(p, q)
  PROVE  DInv' /\ Drained
<1>1. Good(dev) /\ dev \in Dev /\ Empties(dev)
      /\ op.pc = "idle" /\ infl' = infl
  BY DEF IInv, Good, DInv, UnmapQid, UnmapAbort, UnmapWithdraw, UnmapStart, MutexFree, At
<1>2. ASSUME UnmapAbort(p, q)
      PROVE  Empties(dev') /\ dev'.cq2qid = dev.cq2qid /\ op' = op
  <2> DEFINE s == find_slot_queue(dev, p, "MAP_IN_PROG", q)
             reopened == IF dev.queue_additions[q] = 0 THEN set_inflight_limit(dev, q) ELSE dev
  <2>1. s \in Slots /\ dev.qid_map[p][s].state = "MAP_IN_PROG"
    BY <1>2, FindSlots DEF UnmapAbort
  <2>2. dev' = slot_state_transition(reopened, p, q, s, "UNMAPPED") /\ op' = op
    BY <1>2 DEF UnmapAbort
  <2> HIDE DEF s
  <2>3. Good(reopened) /\ reopened \in Dev /\ SameBooks(reopened, dev)
    BY <1>1, LimitHelpersGood, RegisterHelpers DEF SameBooks, Good
  <2> HIDE DEF reopened
  <2>4. Empties(reopened) /\ reopened.qid_map = dev.qid_map /\ reopened.cq2qid = dev.cq2qid
    BY <1>1, <2>3, SameEmpties DEF SameBooks
  <2> QED
    BY <2>1, <2>2, <2>3, <2>4, TransitionEmpties
<1>3. ASSUME UnmapWithdraw(p, q)
      PROVE  Empties(dev') /\ dev'.cq2qid = dev.cq2qid /\ op' = op
  <2> DEFINE s == find_slot_with_pending_map_queue(dev, p, q)
  <2>1. s \in Slots /\ dev.qid_map[p][s].state = "UNMAP_IN_PROG_PENDING_MAP"
    BY <1>3, FindSlots DEF UnmapWithdraw
  <2>2. dev' = slot_state_transition(dev, p, q, s, "UNMAP_IN_PROG") /\ op' = op
    BY <1>3 DEF UnmapWithdraw
  <2> HIDE DEF s
  <2> QED
    BY <1>1, <2>1, <2>2, TransitionEmpties
<1>4. ASSUME UnmapStart(p, q)
      PROVE  /\ Empties(dev') /\ dev'.cq2qid = dev.cq2qid
             /\ op' = op \/ (op'.pc = "unmap_slots" /\ op'.p = p /\ CqDrained(p))
  <2> DEFINE s == find_slot_queue(dev, p, "MAPPED", q)
             off == cq_disable(dev, p)
             marked == slot_state_transition(off, p, q, s, "UNMAP_IN_PROG")
  <2>1. s \in Slots /\ dev.qid_map[p][s].state = "MAPPED"
    BY <1>4, FindSlots DEF UnmapStart
  <2>2. /\ dev' = marked \/ dev' = schedule_work(marked)
        /\ op' = op \/ (op' = [Idle EXCEPT !.pc = "unmap_slots", !.p = p] /\ CqDrained(p))
    BY <1>4 DEF UnmapStart
  <2> HIDE DEF s
  <2>3. Good(off) /\ off \in Dev /\ SameBooks(off, dev) /\ off.cq_disabled[p]
    <3>1. Good(off) /\ off \in Dev /\ SameBooks(off, dev)
      BY <1>1, CqHelpersGood, RegisterHelpers DEF Good
    <3>2. off.cq_disabled = [dev.cq_disabled EXCEPT ![p] = TRUE]
      BY <1>1 DEF cq_disable, Dev
    <3> QED
      BY <1>1, <3>1, <3>2 DEF Dev
  <2> HIDE DEF off
  <2>4. Empties(off) /\ off.qid_map = dev.qid_map /\ off.cq2qid = dev.cq2qid
    BY <1>1, <2>3, SameEmpties DEF SameBooks
  <2>5. Empties(marked) /\ marked.cq2qid = off.cq2qid
    BY <2>1, <2>3, <2>4, TransitionEmpties
  <2>6. Good(marked) /\ marked \in Dev
    BY <2>1, <2>3, TransitionGood DEF Good
  <2> HIDE DEF marked
  <2>7. Empties(schedule_work(marked)) /\ schedule_work(marked).cq2qid = marked.cq2qid
    BY <2>5, <2>6, RegisterHelpers, SameEmpties
  <2>8. op' = op \/ (op'.pc = "unmap_slots" /\ op'.p = p /\ CqDrained(p))
    BY <2>2 DEF Idle
  <2> QED
    BY <2>2, <2>4, <2>5, <2>7, <2>8
<1>5. /\ Empties(dev') /\ dev'.cq2qid = dev.cq2qid
      /\ op' = op \/ (op'.pc = "unmap_slots" /\ op'.p = p /\ CqDrained(p))
  BY <1>2, <1>3, <1>4 DEF UnmapQid
<1>6. Draining'
  <2>1. CASE op' = op
    BY <1>1, <2>1, NotDraining
  <2>2. CASE op'.p = p /\ CqDrained(p)
    BY <1>1, <2>2 DEF Draining, CqDrained
  <2> QED
    BY <1>5, <2>1, <2>2
<1> QED
  BY <1>5, <1>6, KeepsDrained, EmptiesPrimed DEF DInv

(* A CQ that owes nothing and is off stays so while a removal is pending.  *)
LEMMA EventsDrained ==
  ASSUME IInv, DInv, NEW p \in Ports, NEW q \in Queues, Schedule(p, q) \/ Complete(p, q)
  PROVE  DInv' /\ Drained
<1>1. /\ dev \in Dev /\ OpGood(op) /\ op' = op
      /\ infl \in [Ports -> [Queues -> 0 .. MaxInflights]]
      /\ HeldOff(dev)
  BY DEF IInv, RestType, Good, Schedule, Complete
<1>2. SameBooks(dev', dev)
  BY <1>1 DEF Schedule, Complete, SameBooks, Dev
<1>3. Empties(dev') /\ dev'.cq2qid = dev.cq2qid /\ dev'.port_removals = dev.port_removals
  BY <1>2, SameEmpties DEF SameBooks, DInv
<1>4. ASSUME op.p \in Ports, dev.port_removals[op.p] > 0, CqDrained(op.p)
      PROVE  CqDrained(op.p)'
  <2>1. p # op.p
    <3>1. CASE Schedule(p, q)
      BY <1>1, <1>4, <3>1 DEF Schedule, HeldOff, Dev
    <3>2. CASE Complete(p, q)
      BY <1>4, <3>2 DEF Complete, CqDrained
    <3> QED
      BY <3>1, <3>2
  <2>2. infl'[op.p] = infl[op.p]
    BY <1>1, <1>4, <2>1 DEF Schedule, Complete
  <2> QED
    BY <1>1, <1>4, <2>2 DEF CqDrained
<1>5. Draining'
  <2>1. op.pc \in MapPcs \cup {"unmap_slots"} => op.p \in Ports
    BY <1>1 DEF OpGood, PortPcs, MapPcs
  <2> QED
    BY <1>1, <1>3, <1>4, <2>1 DEF DInv, Draining
<1> QED
  BY <1>3, <1>5, KeepsDrained, EmptiesPrimed DEF DInv

(* The other steps write no table; two of them begin a loop.               *)
LEMMA OthersDrained ==
  ASSUME IInv, SInv, DInv,
         \/ UNCHANGED vars
         \/ \E p \in Ports, q \in Queues : MapQid(p, q)
         \/ \E p \in Ports : EnablePort(p)
         \/ \E p \in Ports : DisablePort(p)
         \/ MapReject \/ MapDone
         \/ FinishUnmapPortDone
         \/ StartDomain \/ StopDomain
         \/ WorkerStart \/ WorkerEnd
         \/ WorkerUnmapPort
         \/ WorkerUnmapDone \/ WorkerMapPort \/ FinishMapPortDone
         \/ FinishMapPortSlot
  PROVE  DInv' /\ Drained
<1>1. dev \in Dev /\ op \in OpType
  BY DEF IInv, Good, OpGood
<1>2. ASSUME SameBooks(dev', dev), Draining'
      PROVE  DInv' /\ Drained
  BY <1>2, SameEmpties, KeepsDrained, EmptiesPrimed DEF DInv
<1>3. UNCHANGED dev => SameBooks(dev', dev)
  BY DEF SameBooks
<1>4. CASE UNCHANGED vars
  BY <1>2, <1>3, <1>4 DEF vars, DInv, Draining, CqDrained
<1>5. ASSUME NEW p \in Ports, NEW q \in Queues, MapQid(p, q)
      PROVE  DInv' /\ Drained
  <2>1. /\ dev' = dev /\ infl' = infl
        /\ op'.pc = "map_verify" \/ (op'.pc = "unmap_slots" /\ op'.p = p /\ CqDrained(p))
    BY <1>5 DEF MapQid, Idle
  <2>2. Draining'
    BY <2>1 DEF Draining, CqDrained
  <2> QED
    BY <1>2, <1>3, <2>1, <2>2
<1>6. ASSUME NEW p \in Ports, EnablePort(p) \/ DisablePort(p)
      PROVE  DInv' /\ Drained
  <2>1. SameBooks(dev', dev)
    BY <1>1, <1>6, RegisterHelpers DEF EnablePort, DisablePort
  <2>2. op'.pc = "idle"
    BY <1>6 DEF EnablePort, DisablePort, MutexFree, At
  <2> QED
    BY <1>2, <2>1, <2>2, NotDraining
<1>7. CASE MapReject \/ MapDone
  <2>1. SameBooks(dev', dev)
    BY <1>1, <1>3, <1>7, RegisterHelpers DEF MapReject, MapDone
  <2>2. op'.pc = "idle"
    BY <1>7 DEF MapReject, MapDone, Idle
  <2> QED
    BY <1>2, <2>1, <2>2, NotDraining
<1>8. CASE FinishUnmapPortDone
  <2>1. op'.pc \in {"idle", "map_verify", "worker_unmap"} /\ dev' = dev
    <3>1. CASE op.caller = "idle"
      BY <1>8, <3>1 DEF FinishUnmapPortDone, Idle
    <3>2. CASE op.caller # "idle"
      BY <1>1, <1>8, <3>2 DEF FinishUnmapPortDone, SInv, OpType
    <3> QED
      BY <3>1, <3>2
  <2> QED
    BY <1>2, <1>3, <2>1, NotDraining
<1>9. CASE StartDomain \/ StopDomain
  BY <1>2, <1>3, <1>9, NotDraining DEF StartDomain, StopDomain, MutexFree, At
<1>10. CASE WorkerStart \/ WorkerEnd
  <2>1. SameBooks(dev', dev)
    BY <1>1, <1>10 DEF WorkerStart, WorkerEnd, SameBooks, Dev
  <2>2. op'.pc \in {"worker_unmap", "idle"}
    <3>1. CASE WorkerStart
      BY <3>1 DEF WorkerStart, Idle
    <3>2. CASE WorkerEnd
      BY <3>2 DEF WorkerEnd, Idle
    <3> QED
      BY <1>10, <3>1, <3>2
  <2> QED
    BY <1>2, <2>1, <2>2, NotDraining
<1>11. CASE WorkerUnmapPort
  <2>1. PICK p \in op.todo :
          op' = IF dev.port_removals[p] > 0 /\ CqDrained(p)
                THEN [op EXCEPT !.todo = @ \ {p}, !.pc = "unmap_slots", !.p = p,
                                !.caller = "worker_unmap"]
                ELSE [op EXCEPT !.todo = @ \ {p}]
    BY <1>11 DEF WorkerUnmapPort
  <2>2. op.pc = "worker_unmap" /\ dev' = dev /\ infl' = infl
    BY <1>11 DEF WorkerUnmapPort, At
  <2>3. op'.pc = "worker_unmap" \/ (op'.pc = "unmap_slots" /\ op'.p = p /\ CqDrained(p))
    BY <1>1, <2>1, <2>2 DEF OpType
  <2>4. Draining'
    BY <2>2, <2>3 DEF Draining, CqDrained
  <2> QED
    BY <1>2, <1>3, <2>2, <2>4
<1>12. CASE WorkerUnmapDone \/ WorkerMapPort \/ FinishMapPortDone
  <2>1. op'.pc \in {"worker_map", "map_slots"} /\ dev' = dev
    BY <1>1, <1>12 DEF WorkerUnmapDone, WorkerMapPort, FinishMapPortDone, OpType
  <2> QED
    BY <1>2, <1>3, <2>1, NotDraining
<1>13. CASE FinishMapPortSlot
  <2>1. /\ op'.pc = "map_slots" \/ (op'.pc = "disable_cqs" /\ op'.then = "map_slots")
        /\ dev' = dev
    BY <1>1, <1>13 DEF FinishMapPortSlot, At, OpType
  <2> QED
    BY <1>2, <1>3, <2>1, NotDraining
<1> QED
  BY <1>4, <1>5, <1>6, <1>7, <1>8, <1>9, <1>10, <1>11, <1>12, <1>13

LEMMA NextDrained ==
  ASSUME IInv, SInv, DInv, [Next]_vars
  PROVE  DInv' /\ Drained
<1>1. CASE UNCHANGED vars
  BY <1>1, OthersDrained
<1>2. CASE Ioctl
  BY <1>2, UnmapQidDrained, OthersDrained DEF Ioctl
<1>3. CASE Holder
  BY <1>3, DynamicDrained, FinishUnmapDrained, MapAcceptDrained, OthersDrained DEF Holder
<1>4. CASE WorkerStart
  BY <1>4, OthersDrained
<1> QED
  BY <1>1, <1>2, <1>3, <1>4, EventsDrained DEF Next

LEMMA InitDrained == Init => DInv
BY DEF Init, DInv, Empties, Draining, Idle

(* The tables take a queue from a CQ only while the CQ owes no completion, *)
(* although the driver reads the count once and then works through all the *)
(* slots: the CQ is off as long as a removal is pending.  Nothing is asked *)
(* of the application here.                                                *)
THEOREM RemovalWaits == Spec => UnmapOnlyWhenDrained
<1>1. ASSUME IInv, SInv, DInv, [Next]_vars
      PROVE  [\A p \in Ports, s \in Slots :
                dev.cq2qid[p][s] # None /\ dev'.cq2qid[p][s] # dev.cq2qid[p][s]
                  => CqDrained(p)]_vars
  BY <1>1, NextDrained DEF Drained
<1>2. Spec => []DInv
  BY InitDrained, NextDrained, Inductive, ServedInductive, PTL DEF Spec
<1> QED
  BY <1>1, <1>2, Inductive, ServedInductive, PTL DEF Spec, UnmapOnlyWhenDrained

-----------------------------------------------------------------------------
(* Requests: what the slots of a port ask for, and what the mutex holder   *)
(* does to it.                                                             *)

(* The queues that some slot of the port asks for.                         *)
AskedOf(f, p) == {q \in Queues \cup {None} : \E t \in Slots : Asks(f[p][t], q)}

SameWishes(g, f) == \A r \in Ports : AskedOf(g, r) = AskedOf(f, r)

OthersSame(g, f, p) == \A r \in Ports : r # p => AskedOf(g, r) = AskedOf(f, r)

WishAdded(g, f, p, q) ==
  /\ q \notin AskedOf(f, p)
  /\ Cardinality(AskedOf(f, p)) < NumSlots
  /\ AskedOf(g, p) = AskedOf(f, p) \cup {q}
  /\ OthersSame(g, f, p)

WishDropped(g, f, p, q) ==
  /\ q \in AskedOf(f, p)
  /\ AskedOf(g, p) = AskedOf(f, p) \ {q}
  /\ OthersSame(g, f, p)

(* The requested state of the refinement mapping is what the slots ask.    *)
LEMMA RequestedIs ==
  ASSUME Table(dev.qid_map), NEW p \in Ports
  PROVE  Requested(p) = AskedOf(dev.qid_map, p)
<1>1. \A t \in Slots : dev.qid_map[p][t] \in SlotType
  BY DEF Table
<1>2. \A t \in Slots : /\ dev.qid_map[p][t].qid \in Queues \cup {None}
                       /\ dev.qid_map[p][t].pending_qid \in Queues \cup {None}
  BY <1>1 DEF SlotType
<1>3. ASSUME NEW q \in Requested(p)
      PROVE  q \in AskedOf(dev.qid_map, p)
  BY <1>2 DEF Requested, SlotsWith, AskedOf, Asks
<1>4. ASSUME NEW q \in AskedOf(dev.qid_map, p)
      PROVE  q \in Requested(p)
  BY DEF Requested, SlotsWith, AskedOf, Asks
<1> QED
  BY <1>3, <1>4

(* ... after a step as well.                                               *)
LEMMA RequestedThen ==
  ASSUME Table(dev'.qid_map), NEW p \in Ports
  PROVE  Requested(p)' = AskedOf(dev'.qid_map, p)
<1>1. \A t \in Slots : dev'.qid_map[p][t] \in SlotType
  BY DEF Table
<1>2. \A t \in Slots : /\ dev'.qid_map[p][t].qid \in Queues \cup {None}
                       /\ dev'.qid_map[p][t].pending_qid \in Queues \cup {None}
  BY <1>1 DEF SlotType
<1>3. ASSUME NEW q \in Requested(p)'
      PROVE  q \in AskedOf(dev'.qid_map, p)
  BY <1>2 DEF Requested, SlotsWith, AskedOf, Asks
<1>4. ASSUME NEW q \in AskedOf(dev'.qid_map, p)
      PROVE  q \in Requested(p)'
  BY DEF Requested, SlotsWith, AskedOf, Asks
<1> QED
  BY <1>3, <1>4

(* What writing one slot does to what a port asks for.                     *)
LEMMA WishWritten ==
  ASSUME NEW f, Table(f), NEW p \in Ports, NEW s \in Slots, NEW v \in SlotType,
         NEW g, g = Put(f, p, s, v)
  PROVE  /\ OthersSame(g, f, p)
         /\ \A q : q \in AskedOf(g, p)
              <=> /\ q \in Queues \cup {None}
                  /\ Asks(v, q) \/ \E t \in Slots : t # s /\ Asks(f[p][t], q)
<1>1. \A r \in Ports, t \in Slots : g[r][t] = IF r = p /\ t = s THEN v ELSE f[r][t]
  BY CellAfter
<1>2. OthersSame(g, f, p)
  BY <1>1 DEF OthersSame, AskedOf
<1>3. g[p][s] = v /\ \A t \in Slots : t # s => g[p][t] = f[p][t]
  BY <1>1
<1> QED
  BY <1>2, <1>3 DEF AskedOf

(* The slot asks for the same as before ...                                *)
LEMMA WishSame ==
  ASSUME NEW f, Table(f), NEW p \in Ports, NEW s \in Slots, NEW v \in SlotType,
         NEW g, g = Put(f, p, s, v), \A q : Asks(v, q) <=> Asks(f[p][s], q)
  PROVE  SameWishes(g, f)
<1>1. AskedOf(g, p) = AskedOf(f, p)
  <2>1. \A q : q \in AskedOf(g, p) <=> q \in AskedOf(f, p)
    BY WishWritten DEF AskedOf
  <2> QED
    BY <2>1
<1> QED
  BY <1>1, WishWritten DEF SameWishes, OthersSame

(* ... for nothing, where it asked for a queue no other slot asks for ...  *)
LEMMA WishRemoved ==
  ASSUME NEW f, Table(f), NEW p \in Ports, NEW s \in Slots, NEW v \in SlotType,
         NEW g, g = Put(f, p, s, v), NEW q \in Queues \cup {None},
         \A x : Asks(f[p][s], x) <=> x = q, \A x : ~Asks(v, x),
         \A t \in Slots : t # s => ~Asks(f[p][t], q)
  PROVE  WishDropped(g, f, p, q)
<1>1. q \in AskedOf(f, p)
  BY DEF AskedOf
<1>2. \A x : x \in AskedOf(g, p) <=> x \in AskedOf(f, p) \ {q}
  BY WishWritten DEF AskedOf
<1> QED
  BY <1>1, <1>2, WishWritten DEF WishDropped

(* ... or for a queue, where it asked for nothing: a port with such a slot *)
(* asks for fewer queues than it has slots.                                *)
LEMMA WishMade ==
  ASSUME NEW f, Table(f), NEW p \in Ports, NEW s \in Slots, NEW v \in SlotType,
         NEW g, g = Put(f, p, s, v), NEW q \in Queues \cup {None},
         \A x : ~Asks(f[p][s], x), \A x : Asks(v, x) <=> x = q,
         \A t \in Slots : ~Asks(f[p][t], q)
  PROVE  WishAdded(g, f, p, q)
<1> DEFINE Wish(t) == IF f[p][t].state = "UNMAP_IN_PROG_PENDING_MAP"
                      THEN f[p][t].pending_qid ELSE f[p][t].qid
           Rest == Slots \ {s}
           Image == {Wish(t) : t \in Rest}
<1>1. q \notin AskedOf(f, p)
  BY DEF AskedOf
<1>2. \A x : x \in AskedOf(g, p) <=> x \in AskedOf(f, p) \cup {q}
  BY WishWritten DEF AskedOf
<1>3. Cardinality(AskedOf(f, p)) < NumSlots
  <2>1. AskedOf(f, p) \subseteq Image
    BY DEF AskedOf, Asks
  <2>2. IsFiniteSet(Slots) /\ Cardinality(Slots) = NumSlots
    BY QidMapAssumption, FS_Interval DEF Slots
  <2>3. IsFiniteSet(Rest) /\ Cardinality(Rest) = NumSlots - 1
    BY <2>2, FS_RemoveElement
  <2>4. IsFiniteSet(Image) /\ Cardinality(Image) <= Cardinality(Rest)
    <3> DEFINE w == [t \in Rest |-> Wish(t)]
    <3>1. w \in Surjection(Rest, Image)
      <4> HIDE DEF Wish
      <4> QED
        BY DEF Surjection
    <3> HIDE DEF Rest, Image, w
    <3> QED
      BY <2>3, <3>1, FS_Surjection
  <2>5. Cardinality(AskedOf(f, p)) <= Cardinality(Image)
    BY <2>1, <2>4, FS_Subset
  <2>6. Cardinality(AskedOf(f, p)) \in Nat /\ Cardinality(Image) \in Nat
    BY <2>1, <2>4, FS_Subset, FS_CardinalityType
  <2> HIDE DEF Image, Rest
  <2> QED
    BY <2>3, <2>4, <2>5, <2>6, QidMapAssumption
<1> QED
  BY <1>1, <1>2, <1>3, WishWritten DEF WishAdded

(* A slot that asks for a queue uses it, so no other slot asks for it.     *)
LEMMA AskedOnce ==
  ASSUME NEW d, Unique(d), NEW p \in Ports, NEW s \in Slots, NEW t \in Slots, s # t,
         NEW q, q \in UsesOf(d.qid_map[p][s])
  PROVE  ~Asks(d.qid_map[p][t], q)
<1>1. Asks(d.qid_map[p][t], q) => q \in UsesOf(d.qid_map[p][t])
  BY DEF Asks, UsesOf
<1> QED
  BY <1>1 DEF Unique

(* What each state of a slot asks for.                                     *)
LEMMA AsksWhat ==
  ASSUME NEW m, m.state \in SlotStates
  PROVE  /\ m.state \in {"UNMAPPED", "UNMAP_IN_PROG"} => \A x : ~Asks(m, x)
         /\ m.state \in {"MAPPED", "MAP_IN_PROG"} => \A x : Asks(m, x) <=> x = m.qid
         /\ m.state = "UNMAP_IN_PROG_PENDING_MAP" => \A x : Asks(m, x) <=> x = m.pending_qid
BY DEF Asks, SlotStates

(* Equal tables hold equal wishes.                                         *)
LEMMA WishesSame ==
  ASSUME NEW g, NEW f, g = f
  PROVE  SameWishes(g, f)
BY DEF SameWishes

(* map_qid adds the queue to what the port asks for, whichever branch it   *)
(* takes.                                                                  *)
LEMMA MapQidWishes ==
  ASSUME NEW d, Good(d), NEW p \in Ports, NEW q \in Queues \cup {None},
         Unused(d, p, q), \E t \in Slots : d.qid_map[p][t].state = "UNMAPPED",
         NEW return, map_qid(d, p, q, return)
  PROVE  WishAdded(dev'.qid_map, d.qid_map, p, q)
<1> DEFINE f == d.qid_map
           begun == begin_map_qid_dynamic(d, p, q)
<1>1. d \in Dev /\ Table(f)
  BY DEF Good, Dev, Table
<1>2. \A t \in Slots : f[p][t] \in SlotType /\ f[p][t].state \in SlotStates
  BY <1>1 DEF Table, SlotType
<1>3. \A t \in Slots : ~Asks(f[p][t], q)
  BY DEF Unused, UsesOf, Asks
<1>4. /\ MappedSlot(q) \in SlotType /\ \A x : Asks(MappedSlot(q), x) <=> x = q
      /\ PromisedSlot(q) \in SlotType /\ \A x : Asks(PromisedSlot(q), x) <=> x = q
  BY DEF MappedSlot, PromisedSlot, SlotType, SlotStates, Asks
<1>5. CASE domain # "started"
  <2> DEFINE s == StaticSlot(d, p, q)
  <2>1. s \in Slots /\ f[p][s].state = "UNMAPPED"
    <3>1. \A t \in Slots : ~ (/\ d.qid_map[p][t].state \in {"MAPPED", "MAP_IN_PROG"}
                              /\ d.qid_map[p][t].qid = q)
      BY DEF Unused, UsesOf
    <3>2. s \in Slots \cup {0}
      BY StaticSlotIs
    <3>3. s # 0
      BY StaticSlotIs
    <3>4. \/ d.qid_map[p][s].state \in {"MAPPED", "MAP_IN_PROG"} /\ d.qid_map[p][s].qid = q
          \/ d.qid_map[p][s].state = "UNMAPPED"
      BY <3>3, StaticSlotIs
    <3> HIDE DEF s
    <3> QED
      BY <3>1, <3>2, <3>3, <3>4
  <2>2. dev'.qid_map = Put(f, p, s, MappedSlot(q))
    <3>1. dev' = map_qid_static(d, p, q)
      BY <1>5 DEF map_qid
    <3>2. s # 0
      BY <2>1, SlotsFinite
    <3> QED
      BY <3>1, <3>2, StaticEffect
  <2> HIDE DEF s, f
  <2>3. \A x : ~Asks(f[p][s], x)
    BY <2>1, AsksWhat, <1>2
  <2> QED
    BY <1>1, <1>3, <1>4, <2>1, <2>2, <2>3, WishMade DEF f
<1>6. CASE domain = "started"
  <2> DEFINE s == find_slot(d, p, "UNMAPPED")
  <2>1. s # 0
    BY FoundState
  <2>2. /\ s \in Slots /\ f[p][s].state = "UNMAPPED"
        /\ begun.qid_map = Put(f, p, s, PromisedSlot(q))
    BY <2>1, BeginEffect
  <2>3. begun \in Dev
    BY BeginMapGood DEF Good
  <2>4. dev' = begun \/ dev' = schedule_work(begun)
    BY <1>6 DEF map_qid
  <2> HIDE DEF begun, s
  <2>5. dev'.qid_map = Put(f, p, s, PromisedSlot(q))
    BY <2>2, <2>3, <2>4, RegisterHelpers DEF SameBooks
  <2>6. \A x : ~Asks(f[p][s], x)
    BY <2>2, AsksWhat, <1>2
  <2> HIDE DEF f
  <2> QED
    BY <1>1, <1>3, <1>4, <2>2, <2>5, <2>6, WishMade DEF f
<1> QED
  BY <1>5, <1>6

(* A removal that completes changes no wish: the map that waits for the    *)
(* slot is performed in its place.                                         *)
LEMMA FinishUnmapWishes ==
  ASSUME IInv, BooksKept, FinishUnmapPortSlot
  PROVE  SameWishes(dev'.qid_map, dev.qid_map)
<1> DEFINE p == op.p
           s == First({t \in SlotsWith(dev, p, Removing) : t > op.s})
           slot == dev.qid_map[p][s]
           freed == unmap_qid(dev, p, slot.qid)
           unmapped == enable_if_wanted(freed, p)
           renamed == IF unmapped.qid_map[p][s].state = "UNMAPPED" THEN unmapped
                      ELSE [unmapped EXCEPT !.qid_map[p][s].qid = slot.pending_qid]
           next == [op EXCEPT !.s = s]
<1>1. /\ p \in Ports /\ Good(dev) /\ dev \in Dev /\ Books(dev)
      /\ dev.qid_map \in [Ports -> [Slots -> SlotType]]
  BY DEF IInv, OpGood, FinishUnmapPortSlot, At, PortPcs, MapPcs, Good, BooksKept, Dev
<1>2. s \in SlotsWith(dev, p, Removing)
  BY FirstType DEF FinishUnmapPortSlot, SlotsWith
<1>3. \/ slot.state = "UNMAP_IN_PROG" /\ dev' = unmapped
      \/ /\ slot.state = "UNMAP_IN_PROG_PENDING_MAP"
         /\ map_qid(renamed, p, slot.pending_qid, next)
  BY DEF FinishUnmapPortSlot
<1> HIDE DEF s, next, p
<1>4. s \in Slots /\ slot.state \in Removing /\ slot \in SlotType
      /\ slot.pending_qid \in Queues \cup {None} /\ slot.state \in SlotStates
  BY <1>1, <1>2 DEF SlotsWith, SlotType
<1>5. /\ Good(freed) /\ freed \in Dev
      /\ freed.qid_map = Put(dev.qid_map, p, s, EmptySlot)
  <2>1. dev.qid_map[p][s].state \in InHardware
    BY <1>4 DEF Removing, InHardware
  <2>2. Good(freed) /\ freed \in Dev
    BY <1>1, UnmapGood DEF Good
  <2> QED
    BY <1>1, <1>4, <2>1, <2>2, UnmapBooks
<1> HIDE DEF freed
<1>6. SameBooks(unmapped, freed) /\ Good(unmapped)
  BY <1>1, <1>5, RegisterHelpers, CqHelpersGood
<1> HIDE DEF unmapped
<1>7. unmapped.qid_map = Put(dev.qid_map, p, s, EmptySlot)
  BY <1>5, <1>6 DEF SameBooks
<1>8. /\ unmapped.qid_map[p][s] = EmptySlot
      /\ \A t \in Slots : t # s => unmapped.qid_map[p][t] = dev.qid_map[p][t]
  BY <1>1, <1>4, <1>7 DEF Put
<1>9. renamed = unmapped
  BY <1>8 DEF EmptySlot
<1>10. EmptySlot \in SlotType /\ \A x : ~Asks(EmptySlot, x)
  BY DEF EmptySlot, SlotType, SlotStates, Asks
<1> HIDE DEF renamed
<1>11. Table(dev.qid_map) /\ Table(unmapped.qid_map)
  BY <1>1, <1>6 DEF Table, Good, Dev
<1>12. CASE slot.state = "UNMAP_IN_PROG" /\ dev' = unmapped
  <2>1. \A x : ~Asks(slot, x)
    BY <1>4, <1>12, AsksWhat
  <2> QED
    BY <1>1, <1>4, <1>7, <1>10, <1>11, <1>12, <2>1, WishSame
<1>13. CASE /\ slot.state = "UNMAP_IN_PROG_PENDING_MAP"
            /\ map_qid(renamed, p, slot.pending_qid, next)
  <2> DEFINE q == slot.pending_qid
  <2>1. q \in UsesOf(slot) /\ \A x : Asks(slot, x) <=> x = q
    BY <1>4, <1>13, AsksWhat DEF UsesOf
  <2>2. \A t \in Slots : t # s => q \notin UsesOf(dev.qid_map[p][t])
    BY <1>1, <1>4, <2>1 DEF Books, Unique
  <2>3. \A t \in Slots : t # s => ~Asks(dev.qid_map[p][t], q)
    BY <1>1, <1>4, <2>1, AskedOnce DEF Books
  <2>4. q \notin UsesOf(EmptySlot)
    BY DEF UsesOf, EmptySlot
  <2>5. Unused(unmapped, p, q)
    BY <1>8, <2>2, <2>4 DEF Unused
  <2>6. \E t \in Slots : unmapped.qid_map[p][t].state = "UNMAPPED"
    BY <1>4, <1>8 DEF EmptySlot
  <2> HIDE DEF q
  <2>7. map_qid(unmapped, p, q, next) /\ q \in Queues \cup {None}
    BY <1>4, <1>9, <1>13 DEF q
  <2>8. WishAdded(dev'.qid_map, unmapped.qid_map, p, q)
    BY <1>1, <1>6, <2>5, <2>6, <2>7, MapQidWishes
  <2>9. WishDropped(unmapped.qid_map, dev.qid_map, p, q)
    BY <1>1, <1>4, <1>7, <1>10, <1>11, <2>1, <2>3, <2>7, WishRemoved
  <2> QED
    BY <2>8, <2>9 DEF WishAdded, WishDropped, SameWishes, OthersSame
<1> QED
  BY <1>3, <1>12, <1>13

(* A dynamic map that completes, or is left to the worker, likewise.       *)
LEMMA DynamicWishes ==
  ASSUME IInv, SInv, DisableCqs \/ Reread \/ FinishMapRead \/ WriteMap
  PROVE  SameWishes(dev'.qid_map, dev.qid_map)
<1>1. CASE DisableCqs \/ Reread \/ FinishMapRead
  BY <1>1, DynamicSame, WishesSame DEF SameBooks
<1>2. CASE WriteMap
  <2> DEFINE p == op.p
             q == op.mq
             s == StaticSlot(dev, p, q)
             static == map_qid_static(dev, p, q)
  <2>1. /\ p \in Ports /\ q \in Queues \cup {None} /\ dev \in Dev /\ Good(dev)
        /\ \E t \in Slots : dev.qid_map[p][t].state = "MAP_IN_PROG" /\ dev.qid_map[p][t].qid = q
        /\ SameBooks(dev', static)
    BY <1>2, WriteMapStatic DEF IInv, Good
  <2> HIDE DEF p, q
  <2>2. s \in Slots \cup {0} /\ s # 0
    BY <2>1, StaticSlotIs
  <2>3. dev.qid_map[p][s].state = "MAP_IN_PROG" /\ dev.qid_map[p][s].qid = q
    BY <2>1, <2>2, StaticSlotIs
  <2>4. static.qid_map = Put(dev.qid_map, p, s, MappedSlot(q))
    BY <2>1, <2>2, StaticEffect
  <2> HIDE DEF static, s
  <2>5. dev'.qid_map = Put(dev.qid_map, p, s, MappedSlot(q)) /\ s \in Slots
    BY <2>1, <2>2, <2>4 DEF SameBooks
  <2>6. MappedSlot(q) \in SlotType /\ \A x : Asks(MappedSlot(q), x) <=> x = q
    BY <2>1 DEF MappedSlot, SlotType, SlotStates, Asks
  <2>7. \A x : Asks(dev.qid_map[p][s], x) <=> x = q
    BY <2>3 DEF Asks
  <2>8. Table(dev.qid_map)
    BY <2>1 DEF Table, Dev
  <2> QED
    BY <2>1, <2>5, <2>6, <2>7, <2>8, WishSame
<1> QED
  BY <1>1, <1>2

(* A map request is refused, or is one the port has already, or adds its   *)
(* queue: at most one wish for each slot.                                  *)
LEMMA MapAcceptWishes ==
  ASSUME IInv, BooksKept, MapAccept, NeverRerequested'
  PROVE  \/ /\ SameWishes(dev'.qid_map, dev.qid_map)
            /\ op' = Idle \/ op' = [op EXCEPT !.pc = "map_done"]
         \/ /\ WishAdded(dev'.qid_map, dev.qid_map, op.p, op.q)
            /\ op'.q = op.q /\ op'.pc # "idle"
<1> DEFINE p == op.p
           q == op.q
           d == disable_if_wanted(dev, p)
           mapped  == find_slot_queue(d, p, "MAPPED", q)
           unmap   == find_slot_queue(d, p, "UNMAP_IN_PROG", q)
           prog    == find_slot_queue(d, p, "MAP_IN_PROG", q)
           waits   == find_slot_with_pending_map_queue(d, p, q)
           parking == find_slot(d, p, "UNMAP_IN_PROG")
           free    == find_slot(d, p, "UNMAPPED")
           recalled == slot_state_transition(d, p, q, unmap, "MAPPED")
           parked == slot_state_transition(
                       [d EXCEPT !.qid_map[p][parking].pending_qid = q],
                       p, q, parking, "UNMAP_IN_PROG_PENDING_MAP")
           begun == begin_map_qid_dynamic(d, p, q)
           done == [op EXCEPT !.pc = "map_done"]
           Added == WishAdded(dev'.qid_map, d.qid_map, p, q)
<1>1. /\ p \in Ports /\ q \in Queues \cup {None}
      /\ Good(dev) /\ dev \in Dev /\ Books(dev)
  BY DEF IInv, OpGood, OpType, MapAccept, At, PortPcs, MapPcs, Good, BooksKept
<1>2. \/ dev' = d /\ op' = done
      \/ unmap # 0 /\ dev' = recalled /\ op' = done
      \/ /\ mapped = 0 /\ unmap = 0 /\ prog = 0 /\ waits = 0
         /\ \/ parking # 0 /\ dev' = parked /\ op' = done
            \/ free # 0 /\ map_qid(d, p, q, done)
      \/ /\ free = 0 /\ op' = Idle
         /\ dev' = IF domain = "started" THEN begun ELSE d
  BY DEF MapAccept
<1>3. op \in OpType
  BY DEF IInv, OpGood
<1>4. done.q = q /\ done.pc = "map_done"
  BY <1>3 DEF OpType
<1>5. map_qid(d, p, q, done) => op'.q = q /\ op'.pc # "idle"
  <2>1. op' = done \/ op' = [done EXCEPT !.pc = "disable_cqs", !.then = done.pc, !.mq = q]
        => op'.q = q /\ op'.pc # "idle"
    BY <1>3 DEF OpType
  <2> HIDE DEF done, q, d
  <2> QED
    BY <2>1 DEF map_qid
<1>6. /\ Good(d) /\ d \in Dev /\ d.qid_map = dev.qid_map /\ Books(d)
      /\ d.qid_map \in [Ports -> [Slots -> SlotType]]
  <2>1. Good(d) /\ d \in Dev /\ SameBooks(d, dev)
    BY <1>1, CqHelpersGood, RegisterHelpers DEF Good
  <2> HIDE DEF d
  <2> QED
    BY <1>1, <2>1, BooksSame DEF Dev, SameBooks
<1> HIDE DEF done, p, q, d
<1>7. Table(d.qid_map) /\ \A t \in Slots : d.qid_map[p][t].state \in SlotStates
  BY <1>1, <1>6 DEF Table, SlotType
<1>9. CASE unmap # 0 /\ dev' = recalled /\ op' = done
  <2>1. unmap \in Slots /\ d.qid_map[p][unmap].state = "UNMAP_IN_PROG"
        /\ d.qid_map[p][unmap].qid = q
    BY <1>9, FindSlots
  <2> DEFINE m == d.qid_map[p][unmap]
             v == Kept(m, "MAPPED")
  <2> HIDE DEF unmap
  <2>2. recalled.qid_map = Put(d.qid_map, p, unmap, v)
    BY <1>1, <1>6, <2>1, TransitionEffect DEF Transitions
  <2>3. v \in SlotType /\ \A x : Asks(v, x) <=> x = q
    BY <1>1, <1>6, <2>1 DEF Kept, SlotType, SlotStates, Asks
  <2>4. \A x : ~Asks(m, x)
    BY <1>7, <2>1, AsksWhat
  <2>5. ASSUME NEW t \in Slots
        PROVE  ~Asks(d.qid_map[p][t], q)
    <3>1. q \in UsesOf(m)
      BY <2>1 DEF UsesOf
    <3>2. CASE t = unmap
      BY <2>4, <3>2
    <3>3. CASE t # unmap
      BY <1>1, <1>6, <2>1, <3>1, <3>3, AskedOnce DEF Books
    <3> QED
      BY <3>2, <3>3
  <2> HIDE DEF m, v, recalled
  <2>6. dev'.qid_map = Put(d.qid_map, p, unmap, v)
    BY <1>9, <2>2
  <2>7. \A x : ~Asks(d.qid_map[p][unmap], x)
    BY <2>4 DEF m
  <2>8. Added
    BY <1>1, <1>7, <2>1, <2>3, <2>5, <2>6, <2>7, WishMade
  <2> QED
    BY <1>4, <1>6, <1>9, <2>8 DEF p, q, done
<1>10. ASSUME mapped = 0, unmap = 0, prog = 0, waits = 0,
              NEW s \in Slots, NEW v \in SlotType,
              dev'.qid_map = Put(d.qid_map, p, s, v), Asks(v, q),
              d.qid_map[p][s].state # "UNMAP_IN_PROG_PENDING_MAP"
       PROVE  Unused(d, p, q)
  BY <1>1, <1>6, <1>10, NewIsUnused
<1>11. CASE /\ mapped = 0 /\ unmap = 0 /\ prog = 0 /\ waits = 0
            /\ parking # 0 /\ dev' = parked /\ op' = done
  <2>1. parking \in Slots /\ d.qid_map[p][parking].state = "UNMAP_IN_PROG"
    BY <1>11, FindSlots
  <2> HIDE DEF parking, mapped, unmap, prog, waits
  <2> DEFINE v == ParkedSlot(d.qid_map[p][parking], q)
  <2>2. parked.qid_map = Put(d.qid_map, p, parking, v)
    BY <1>1, <1>6, <2>1, ParkEffect
  <2>3. v \in SlotType /\ \A x : Asks(v, x) <=> x = q
    BY <1>1, <1>6, <2>1 DEF ParkedSlot, SlotType, SlotStates, Asks
  <2> HIDE DEF parked, v
  <2>4. dev'.qid_map = Put(d.qid_map, p, parking, v)
    BY <1>11, <2>2
  <2>5. Unused(d, p, q)
    BY <1>10, <1>11, <2>1, <2>3, <2>4
  <2>6. \A t \in Slots : ~Asks(d.qid_map[p][t], q)
    BY <2>5 DEF Unused, UsesOf, Asks
  <2>7. \A x : ~Asks(d.qid_map[p][parking], x)
    BY <1>7, <2>1, AsksWhat
  <2>8. Added
    BY <1>1, <1>7, <2>1, <2>3, <2>4, <2>6, <2>7, WishMade
  <2> QED
    BY <1>4, <1>6, <1>11, <2>8 DEF p, q, done
<1>12. CASE /\ mapped = 0 /\ unmap = 0 /\ prog = 0 /\ waits = 0
            /\ free # 0 /\ map_qid(d, p, q, done)
  <2>1. free \in Slots /\ d.qid_map[p][free].state = "UNMAPPED"
    BY <1>12, FindSlots
  <2>2. MappedSlot(q) \in SlotType /\ PromisedSlot(q) \in SlotType
        /\ Asks(MappedSlot(q), q) /\ Asks(PromisedSlot(q), q)
    BY <1>1 DEF MappedSlot, PromisedSlot, SlotType, SlotStates, Asks
  <2>3. Unused(d, p, q)
    <3>1. CASE domain # "started"
      <4> DEFINE s == StaticSlot(d, p, q)
      <4>1. s = free
        BY <1>12 DEF StaticSlot
      <4>2. dev' = map_qid_static(d, p, q)
        BY <1>12, <3>1 DEF map_qid
      <4>3. dev'.qid_map = Put(d.qid_map, p, free, MappedSlot(q))
        <5> HIDE DEF free
        <5> QED
          BY <1>1, <1>6, <1>12, <4>1, <4>2, StaticEffect
      <4> HIDE DEF free, mapped, unmap, prog, waits
      <4> QED
        BY <1>10, <1>12, <2>1, <2>2, <4>3
    <3>2. CASE domain = "started"
      <4>1. begun.qid_map = Put(d.qid_map, p, free, PromisedSlot(q)) /\ Good(begun) /\ begun \in Dev
        BY <1>1, <1>6, <1>12, BeginEffect, BeginMapGood DEF Good
      <4>2. dev' = begun \/ dev' = schedule_work(begun)
        BY <1>12, <3>2 DEF map_qid
      <4> HIDE DEF begun
      <4>3. schedule_work(begun).qid_map = begun.qid_map
        BY <4>1, RegisterHelpers DEF SameBooks
      <4> HIDE DEF free, mapped, unmap, prog, waits
      <4>4. dev'.qid_map = Put(d.qid_map, p, free, PromisedSlot(q))
        BY <4>1, <4>2, <4>3
      <4> QED
        BY <1>10, <1>12, <2>1, <2>2, <4>4
    <3> QED
      BY <3>1, <3>2
  <2> HIDE DEF free, mapped, unmap, prog, waits
  <2>4. Added
    BY <1>1, <1>6, <1>12, <2>1, <2>3, MapQidWishes
  <2> QED
    BY <1>5, <1>6, <1>12, <2>4 DEF p, q
<1>13. CASE free = 0 /\ dev' = (IF domain = "started" THEN begun ELSE d) /\ op' = Idle
  <2>1. SameBooks(begun, d)
    BY <1>1, <1>6, <1>13, BeginEffect
  <2> HIDE DEF begun
  <2>2. dev'.qid_map = d.qid_map
    BY <1>13, <2>1 DEF SameBooks
  <2> QED
    BY <1>6, <1>13, <2>2, WishesSame
<1>14. CASE dev' = d /\ op' = done
  BY <1>6, <1>14, WishesSame DEF done
<1> HIDE DEF mapped, unmap, prog, waits, parking, free, recalled, parked, begun
<1> QED
  BY <1>2, <1>9, <1>11, <1>12, <1>13, <1>14

(* An unmap request takes the queue back, whatever has become of its map.  *)
LEMMA UnmapQidWishes ==
  ASSUME IInv, BooksKept, NEW p \in Ports, NEW q \in Queues, UnmapQid(p, q)
  PROVE  WishDropped(dev'.qid_map, dev.qid_map, p, q)
<1>1. Good(dev) /\ dev \in Dev /\ Unique(dev) /\ Table(dev.qid_map)
  BY DEF IInv, Good, BooksKept, Books, Table, Dev
<1>2. \A t \in Slots : /\ dev.qid_map[p][t] \in SlotType
                       /\ dev.qid_map[p][t].state \in SlotStates
  BY <1>1 DEF Table, SlotType
<1>3. ASSUME NEW s \in Slots, NEW v \in SlotType,
             dev'.qid_map = Put(dev.qid_map, p, s, v),
             v.state \in {"UNMAPPED", "UNMAP_IN_PROG"},
             \/ dev.qid_map[p][s].state \in {"MAPPED", "MAP_IN_PROG"} /\ dev.qid_map[p][s].qid = q
             \/ /\ dev.qid_map[p][s].state = "UNMAP_IN_PROG_PENDING_MAP"
                /\ dev.qid_map[p][s].pending_qid = q
      PROVE  WishDropped(dev'.qid_map, dev.qid_map, p, q)
  <2>1. \A x : Asks(dev.qid_map[p][s], x) <=> x = q
    BY <1>2, <1>3, AsksWhat
  <2>2. \A x : ~Asks(v, x)
    BY <1>3, AsksWhat DEF SlotStates
  <2>3. q \in UsesOf(dev.qid_map[p][s])
    BY <1>3 DEF UsesOf
  <2>4. \A t \in Slots : t # s => ~Asks(dev.qid_map[p][t], q)
    BY <1>1, <2>3, AskedOnce
  <2> QED
    BY <1>1, <1>3, <2>1, <2>2, <2>4, WishRemoved
<1>4. ASSUME UnmapAbort(p, q)
      PROVE  WishDropped(dev'.qid_map, dev.qid_map, p, q)
  <2> DEFINE s == find_slot_queue(dev, p, "MAP_IN_PROG", q)
             reopened == IF dev.queue_additions[q] = 0 THEN set_inflight_limit(dev, q) ELSE dev
             n == slot_state_transition(reopened, p, q, s, "UNMAPPED")
  <2>1. s \in Slots /\ dev.qid_map[p][s].state = "MAP_IN_PROG" /\ dev.qid_map[p][s].qid = q
    BY <1>4, FindSlots DEF UnmapAbort
  <2>2. dev' = n
    BY <1>4 DEF UnmapAbort
  <2> HIDE DEF s
  <2>3. reopened \in Dev /\ reopened.qid_map = dev.qid_map
    BY <1>1, LimitHelpersGood, RegisterHelpers DEF SameBooks, Good
  <2> HIDE DEF reopened
  <2>4. n.qid_map = Put(dev.qid_map, p, s, Kept(dev.qid_map[p][s], "UNMAPPED"))
    BY <2>1, <2>3, TransitionEffect DEF Transitions
  <2>5. /\ Kept(dev.qid_map[p][s], "UNMAPPED") \in SlotType
        /\ Kept(dev.qid_map[p][s], "UNMAPPED").state = "UNMAPPED"
    BY DEF Kept, SlotType, SlotStates
  <2> QED
    BY <1>3, <2>1, <2>2, <2>4, <2>5
<1>5. ASSUME UnmapWithdraw(p, q)
      PROVE  WishDropped(dev'.qid_map, dev.qid_map, p, q)
  <2> DEFINE s == find_slot_with_pending_map_queue(dev, p, q)
             n == slot_state_transition(dev, p, q, s, "UNMAP_IN_PROG")
  <2>1. s \in Slots /\ dev.qid_map[p][s].state = "UNMAP_IN_PROG_PENDING_MAP"
    BY <1>5, FindSlots DEF UnmapWithdraw
  <2>2. dev.qid_map[p][s].pending_qid = q
    <3> DEFINE S == {t \in SlotsWith(dev, p, {"UNMAP_IN_PROG_PENDING_MAP"}) :
                       dev.qid_map[p][t].pending_qid = q}
    <3>1. S \in SUBSET Slots
      BY DEF SlotsWith
    <3>2. s = First(S) /\ s # 0
      BY <1>5 DEF UnmapWithdraw, find_slot_with_pending_map_queue
    <3>3. S # {}
      BY <3>2 DEF First
    <3>4. s \in S
      BY <3>1, <3>2, <3>3, FirstIn
    <3> QED
      BY <3>4
  <2>3. dev' = n
    BY <1>5 DEF UnmapWithdraw
  <2> HIDE DEF s
  <2>4. n.qid_map = Put(dev.qid_map, p, s, Kept(dev.qid_map[p][s], "UNMAP_IN_PROG"))
    BY <1>1, <2>1, TransitionEffect DEF Transitions
  <2>5. /\ Kept(dev.qid_map[p][s], "UNMAP_IN_PROG") \in SlotType
        /\ Kept(dev.qid_map[p][s], "UNMAP_IN_PROG").state = "UNMAP_IN_PROG"
    BY <1>2, <2>1 DEF Kept, SlotType, SlotStates
  <2> QED
    BY <1>3, <2>1, <2>2, <2>3, <2>4, <2>5
<1>6. ASSUME UnmapStart(p, q)
      PROVE  WishDropped(dev'.qid_map, dev.qid_map, p, q)
  <2> DEFINE s == find_slot_queue(dev, p, "MAPPED", q)
             off == cq_disable(dev, p)
             marked == slot_state_transition(off, p, q, s, "UNMAP_IN_PROG")
  <2>1. s \in Slots /\ dev.qid_map[p][s].state = "MAPPED" /\ dev.qid_map[p][s].qid = q
    BY <1>6, FindSlots DEF UnmapStart
  <2>2. dev' = marked \/ dev' = schedule_work(marked)
    BY <1>6 DEF UnmapStart
  <2>3. Good(off) /\ off \in Dev /\ off.qid_map = dev.qid_map /\ off.cq_disabled[p]
    <3>1. Good(off) /\ off \in Dev /\ off.qid_map = dev.qid_map
      BY <1>1, CqHelpersGood, RegisterHelpers DEF Good, SameBooks
    <3>2. off.cq_disabled = [dev.cq_disabled EXCEPT ![p] = TRUE]
      BY <1>1 DEF cq_disable, Dev
    <3> QED
      BY <1>1, <3>1, <3>2 DEF Dev
  <2> HIDE DEF s, off
  <2>4. marked.qid_map = Put(dev.qid_map, p, s, Kept(dev.qid_map[p][s], "UNMAP_IN_PROG"))
    BY <2>1, <2>3, TransitionEffect DEF Transitions
  <2>5. /\ Kept(dev.qid_map[p][s], "UNMAP_IN_PROG") \in SlotType
        /\ Kept(dev.qid_map[p][s], "UNMAP_IN_PROG").state = "UNMAP_IN_PROG"
    BY <1>2, <2>1 DEF Kept, SlotType, SlotStates
  <2>6. marked \in Dev
    BY <2>1, <2>3, TransitionGood DEF Good, Transitions
  <2> HIDE DEF marked
  <2>7. dev'.qid_map = marked.qid_map
    BY <2>2, <2>6, RegisterHelpers DEF SameBooks
  <2> QED
    BY <1>3, <2>1, <2>4, <2>5, <2>7
<1> QED
  BY <1>4, <1>5, <1>6 DEF UnmapQid

(* The request being served is for a queue.                                *)
RInv == op.pc = "map_verify" \/ op.caller = "map_verify" => op.q \in Queues

(* The holder takes up a request of a queue, finishes what it holds, or    *)
(* goes on with the queue it has.                                          *)
Onward == /\ op.pc # "idle" /\ op'.pc # "idle" /\ op'.q = op.q
          /\ op'.caller \in {op.caller, "idle", "worker_unmap"}
          /\ op'.pc = "map_verify" => op.caller = "map_verify"

(* A step of the holder ends the request or goes on with it.                *)
LEMMA HolderOnward ==
  ASSUME IInv, SInv, Holder
  PROVE  op'= Idle \/ Onward
<1>1. op \in OpType /\ (op.pc \in MapPcs => op.then \in {"map_done", "unmap_slots", "map_slots"})
      /\ op.caller \in {"idle", "map_verify", "worker_unmap"}
  BY DEF IInv, OpGood, SInv, Claimed
<1>2. ASSUME NEW d, NEW p, NEW q, NEW return \in OpType, map_qid(d, p, q, return),
             return.pc \in {"unmap_slots", "map_done"}, return.q = op.q,
             return.caller = op.caller
      PROVE  op'.pc \in {"unmap_slots", "map_done", "disable_cqs"} /\ op'.q = op.q
             /\ op'.caller = op.caller
  BY <1>2 DEF map_qid, OpType
<1>3. CASE DisableCqs \/ Reread \/ FinishMapRead \/ WriteMap
  <2>1. op.pc \in MapPcs
    BY <1>3 DEF DisableCqs, Reread, FinishMapRead, WriteMap, At, MapPcs
  <2>2. \/ op' = Idle
        \/ op'.pc \in MapPcs \cup {op.then} /\ op'.q = op.q /\ op'.caller = op.caller
    BY <1>1, <1>3 DEF DisableCqs, Reread, FinishMapRead, WriteMap, MapReturn, OpType, MapPcs
  <2> QED
    BY <1>1, <2>1, <2>2 DEF Onward, MapPcs
<1>4. CASE FinishUnmapPortSlot
  <2> DEFINE s == First({t \in SlotsWith(dev, op.p, Removing) : t > op.s})
             next == [op EXCEPT !.s = s]
  <2>1. op.pc = "unmap_slots" /\ s \in Slots
    BY <1>4, FirstType DEF FinishUnmapPortSlot, At, SlotsWith
  <2>2. op' = next \/ \E d, q : map_qid(d, op.p, q, next)
    BY <1>4 DEF FinishUnmapPortSlot
  <2> HIDE DEF s
  <2>3. next \in OpType /\ next.pc = "unmap_slots" /\ next.q = op.q /\ next.caller = op.caller
    BY <1>1, <2>1 DEF OpType
  <2> HIDE DEF next
  <2>4. op'.pc \in {"unmap_slots", "map_done", "disable_cqs"} /\ op'.q = op.q
        /\ op'.caller = op.caller
    BY <1>2, <2>2, <2>3
  <2> QED
    BY <2>1, <2>4 DEF Onward
<1>5. CASE FinishUnmapPortDone
  BY <1>1, <1>5 DEF FinishUnmapPortDone, At, Onward, OpType
<1>6. CASE MapReject \/ MapDone \/ WorkerEnd
  BY <1>6 DEF MapReject, MapDone, WorkerEnd
<1>7. CASE MapAccept
  <2> DEFINE done == [op EXCEPT !.pc = "map_done"]
  <2>1. op.pc = "map_verify" /\ (op' = Idle \/ op' = done \/ \E d : map_qid(d, op.p, op.q, done))
    BY <1>7 DEF MapAccept, At
  <2>2. done \in OpType /\ done.pc = "map_done" /\ done.q = op.q /\ done.caller = op.caller
    BY <1>1 DEF OpType, HolderPcs
  <2> HIDE DEF done
  <2>3. CASE op' = Idle
    BY <2>3
  <2>4. CASE op' = done \/ \E d : map_qid(d, op.p, op.q, done)
    <3>1. op'.pc \in {"unmap_slots", "map_done", "disable_cqs"} /\ op'.q = op.q
          /\ op'.caller = op.caller
      BY <1>2, <2>2, <2>4
    <3> QED
      BY <2>1, <3>1 DEF Onward
  <2> QED
    BY <2>1, <2>3, <2>4
<1>8. CASE WorkerUnmapPort
  <2>1. op.pc = "worker_unmap" /\ op'.pc \in {"worker_unmap", "unmap_slots"} /\ op'.q = op.q
        /\ op'.caller \in {op.caller, "worker_unmap"}
    BY <1>1, <1>8 DEF WorkerUnmapPort, At, OpType
  <2> QED
    BY <2>1 DEF Onward
<1>9. CASE WorkerUnmapDone \/ WorkerMapPort
  BY <1>1, <1>9 DEF WorkerUnmapDone, WorkerMapPort, At, Onward, OpType
<1>10. CASE FinishMapPortSlot
  <2> DEFINE s == First({t \in SlotsWith(dev, op.p, {"MAP_IN_PROG"}) : t > op.s})
  <2>1. op.pc = "map_slots" /\ op'.pc \in {"map_slots", "disable_cqs"} /\ op'.q = op.q
        /\ op'.caller = op.caller
    BY <1>1, <1>10 DEF FinishMapPortSlot, At, OpType
  <2> QED
    BY <2>1 DEF Onward
<1>11. CASE FinishMapPortDone
  BY <1>1, <1>11 DEF FinishMapPortDone, At, Onward, OpType
<1> QED
  BY <1>3, <1>4, <1>5, <1>6, <1>7, <1>8, <1>9, <1>10, <1>11 DEF Holder

(* No step leaves a request without its queue.                             *)
LEMMA NextServesQueue == IInv /\ SInv /\ RInv /\ [Next]_vars => RInv'
<1> SUFFICES ASSUME IInv, SInv, RInv, [Next]_vars
             PROVE  RInv'
  OBVIOUS
<1>1. CASE Holder
  <2>1. CASE Onward
    BY <2>1 DEF Onward, RInv
  <2> QED
    BY <1>1, <2>1, HolderOnward, IdleIs DEF RInv
<1>2. CASE UNCHANGED op
  BY <1>2 DEF RInv
<1>3. ASSUME NEW p \in Ports, NEW q \in Queues, MapQid(p, q)
      PROVE  RInv'
  BY <1>3 DEF MapQid, Idle, RInv
<1>4. ASSUME NEW p \in Ports, NEW q \in Queues, UnmapStart(p, q)
      PROVE  RInv'
  BY <1>4, <1>2 DEF UnmapStart, Idle, RInv
<1>5. CASE WorkerStart
  BY <1>5 DEF WorkerStart, Idle, RInv
<1>6. \/ Holder \/ UNCHANGED op \/ WorkerStart
      \/ \E p \in Ports, q \in Queues : MapQid(p, q) \/ UnmapStart(p, q)
  BY DEF Next, Ioctl, UnmapQid, UnmapAbort, UnmapWithdraw, EnablePort, DisablePort,
         StartDomain, StopDomain, Schedule, Complete, vars
<1> QED
  BY <1>1, <1>2, <1>3, <1>4, <1>5, <1>6

-----------------------------------------------------------------------------
(* The refinement mapping, step by step.                                   *)

Req == [p \in Ports |-> Requested(p)]

Tables == Table(dev.qid_map) /\ Table(dev'.qid_map)

(* Both tables of a step are typed.                                        *)
LEMMA TablesTyped == IInv /\ IInv' => Tables
BY DEF IInv, Good, Dev, Tables, Table

(* A step that changes no wish leaves the requested state alone, ...       *)
LEMMA ReqSame ==
  ASSUME Tables, SameWishes(dev'.qid_map, dev.qid_map)
  PROVE  UNCHANGED Req
<1>1. \A p \in Ports : Requested(p)' = Requested(p)
  BY RequestedIs, RequestedThen DEF Tables, SameWishes
<1> QED
  BY <1>1 DEF Req

(* ... one that adds a wish adds the queue to a port with room, ...         *)
LEMMA ReqAdded ==
  ASSUME Tables, NEW p \in Ports, NEW q, WishAdded(dev'.qid_map, dev.qid_map, p, q)
  PROVE  /\ q \notin Req[p] /\ Cardinality(Req[p]) < NumSlots
         /\ Req' = [Req EXCEPT ![p] = @ \cup {q}]
<1>1. \A r \in Ports : Requested(r) = AskedOf(dev.qid_map, r)
  BY RequestedIs DEF Tables
<1>2. \A r \in Ports : Requested(r)' = AskedOf(dev'.qid_map, r)
  BY RequestedThen DEF Tables
<1>3. \A r \in Ports : Requested(r)' = IF r = p THEN Requested(p) \cup {q} ELSE Requested(r)
  BY <1>1, <1>2 DEF WishAdded, OthersSame
<1>4. Req[p] = Requested(p)
  BY DEF Req
<1>5. Req' = [Req EXCEPT ![p] = @ \cup {q}]
  BY <1>3 DEF Req
<1> QED
  BY <1>1, <1>4, <1>5 DEF WishAdded

(* ... and one that drops a wish takes the queue from the port.             *)
LEMMA ReqDropped ==
  ASSUME Tables, NEW p \in Ports, NEW q, WishDropped(dev'.qid_map, dev.qid_map, p, q)
  PROVE  q \in Req[p] /\ Req' = [Req EXCEPT ![p] = @ \ {q}]
<1>1. \A r \in Ports : Requested(r) = AskedOf(dev.qid_map, r)
  BY RequestedIs DEF Tables
<1>2. \A r \in Ports : Requested(r)' = AskedOf(dev'.qid_map, r)
  BY RequestedThen DEF Tables
<1>3. \A r \in Ports : Requested(r)' = IF r = p THEN Requested(p) \ {q} ELSE Requested(r)
  BY <1>1, <1>2 DEF WishDropped, OthersSame
<1>4. Req[p] = Requested(p)
  BY DEF Req
<1>5. Req' = [Req EXCEPT ![p] = @ \ {q}]
  BY <1>3 DEF Req
<1> QED
  BY <1>1, <1>4, <1>5 DEF WishDropped

(* The activity is what the holder of the mutex serves.                    *)
LEMMA ActivityIs ==
  /\ op.pc = "idle" => Activity = "none"
  /\ op.pc # "idle" /\ op.q # None => Activity = "mapping"
  /\ op.pc # "idle" /\ op.q = None => Activity = "finishing"
BY DEF Activity, MutexFree, At

(* ... before a step and after it.                                          *)
LEMMA ActivityThen ==
  /\ op'.pc = "idle" => Activity' = "none"
  /\ op'.pc # "idle" /\ op'.q # None => Activity' = "mapping"
  /\ op'.pc # "idle" /\ op'.q = None => Activity' = "finishing"
BY DEF Activity, MutexFree, At

PromiseVars == <<Req, Activity>>

(* The abstract specification counts queues as the driver does.            *)
LEMMA SameCount == \A S : Promise!Cardinality(S) = Cardinality(S)
BY DEF Promise!Cardinality, Cardinality

(* A step of the holder or of the device that changes no wish.             *)
LEMMA WishlessStep ==
  ASSUME Tables, SameWishes(dev'.qid_map, dev.qid_map),
         \/ Onward \/ UNCHANGED op
         \/ op' = Idle /\ op.pc # "idle"
         \/ op.pc = "idle" /\ op'.pc # "idle"
  PROVE  [Promise!Next]_PromiseVars
<1>1. UNCHANGED Req
  BY ReqSame
<1>2. CASE Onward \/ UNCHANGED op
  <2>1. Activity' = Activity
    BY <1>2, ActivityIs, ActivityThen DEF Onward, Activity, MutexFree, At
  <2> QED
    BY <1>1, <2>1 DEF PromiseVars
<1>3. CASE op' = Idle /\ op.pc # "idle"
  <2>1. Activity # "none" /\ Activity' = "none"
    BY <1>3, ActivityIs, ActivityThen, IdleIs
  <2> QED
    BY <1>1, <2>1 DEF PromiseVars, Promise!Next, Promise!End, Req
<1>4. CASE op.pc = "idle" /\ op'.pc # "idle"
  <2>1. Activity = "none" /\ Activity' \in {"mapping", "finishing"}
    BY <1>4, ActivityIs, ActivityThen
  <2> QED
    BY <1>1, <2>1 DEF PromiseVars, Promise!Next, Promise!BeginMap, Promise!BeginFinish, Req
<1> QED
  BY <1>2, <1>3, <1>4

(* Every step of the driver is a step of the abstract requests, or none.   *)
LEMMA PromiseStep ==
  ASSUME IInv, IInv', SInv, RInv, BooksKept, NeverRerequested', [Next]_vars
  PROVE  [Promise!Next]_PromiseVars
<1> DEFINE Quiet == SameWishes(dev'.qid_map, dev.qid_map)
<1>1. Tables /\ dev \in Dev
  BY TablesTyped DEF IInv, Good
<1>2. SameBooks(dev', dev) => Quiet
  BY WishesSame DEF SameBooks
<1>3. ASSUME NEW p \in Ports, NEW q \in Queues, UnmapQid(p, q)
      PROVE  [Promise!Next]_PromiseVars
  <2>1. q \in Req[p] /\ Req' = [Req EXCEPT ![p] = @ \ {q}]
    BY <1>1, <1>3, UnmapQidWishes, ReqDropped
  <2>2. op.pc = "idle" /\ (op' = op \/ (op'.pc = "unmap_slots" /\ op'.q = None))
    BY <1>3 DEF UnmapQid, UnmapAbort, UnmapWithdraw, UnmapStart, MutexFree, At, Idle
  <2>3. Activity = "none" /\ Activity' \in {"none", "finishing"}
    BY <2>2, ActivityIs, ActivityThen
  <2> QED
    BY <2>1, <2>3 DEF Promise!Next, Promise!Unmap, Req
<1>4. CASE MapAccept
  <2>1. op.pc = "map_verify" /\ op.p \in Ports /\ op.q \in Queues /\ op.q # None
    BY <1>4, QidMapAssumption DEF MapAccept, At, RInv, IInv, OpGood, PortPcs, MapPcs
  <2>2. CASE WishAdded(dev'.qid_map, dev.qid_map, op.p, op.q) /\ op'.q = op.q /\ op'.pc # "idle"
    <3>1. Activity = "mapping" /\ Activity' = Activity
      BY <2>1, <2>2, ActivityIs, ActivityThen
    <3>2. /\ op.q \notin Req[op.p] /\ Cardinality(Req[op.p]) < NumSlots
          /\ Req' = [Req EXCEPT ![op.p] = @ \cup {op.q}]
      BY <1>1, <2>1, <2>2, ReqAdded
    <3> QED
      BY <2>1, <3>1, <3>2, SameCount DEF Promise!Next, Promise!Map, Req
  <2>3. CASE Quiet
    <3>1. op' = Idle \/ Onward
      BY <1>4, HolderOnward DEF Holder
    <3> QED
      BY <1>1, <2>1, <2>3, <3>1, WishlessStep
  <2> QED
    BY <1>4, <2>2, <2>3, MapAcceptWishes
<1>5. CASE Holder /\ ~MapAccept
  <2>1. Quiet
    <3>1. CASE MapDone \/ WorkerEnd
      <4>1. MapDone => SameBooks(dev', dev)
        BY <1>1, RegisterHelpers DEF MapDone
      <4>2. WorkerEnd => dev'.qid_map = dev.qid_map
        BY <1>1 DEF WorkerEnd, Dev
      <4> QED
        BY <3>1, <4>1, <4>2, WishesSame DEF SameBooks
    <3>2. CASE UNCHANGED dev
      BY <3>2, WishesSame
    <3>3. \/ UNCHANGED dev \/ MapDone \/ WorkerEnd \/ FinishUnmapPortSlot
          \/ DisableCqs \/ Reread \/ FinishMapRead \/ WriteMap
      BY <1>5 DEF Holder, FinishUnmapPortDone, MapReject, WorkerUnmapPort, WorkerUnmapDone,
             WorkerMapPort, FinishMapPortSlot, FinishMapPortDone
    <3> QED
      BY <3>1, <3>2, <3>3, DynamicWishes, FinishUnmapWishes
  <2>2. op.pc # "idle"
    BY <1>5 DEF Holder, DisableCqs, Reread, FinishMapRead, WriteMap,
            FinishUnmapPortSlot, FinishUnmapPortDone, MapReject, MapDone,
            WorkerUnmapPort, WorkerUnmapDone, WorkerMapPort, FinishMapPortSlot,
            FinishMapPortDone, WorkerEnd, At
  <2> QED
    BY <1>1, <1>5, <2>1, <2>2, HolderOnward, WishlessStep
<1>6. CASE WorkerStart \/ \E p \in Ports, q \in Queues : MapQid(p, q)
  <2>1. op.pc = "idle" /\ op'.pc # "idle"
    <3>1. WorkerStart => op.pc = "idle" /\ op'.pc = "worker_unmap"
      BY DEF WorkerStart, MutexFree, At, Idle
    <3>2. \A p \in Ports, q \in Queues :
            MapQid(p, q) => op.pc = "idle" /\ op'.pc \in {"unmap_slots", "map_verify"}
      BY DEF MapQid, MutexFree, At, Idle
    <3> QED
      BY <1>6, <3>1, <3>2
  <2>2. dev'.qid_map = dev.qid_map
    <3>1. WorkerStart => dev'.qid_map = dev.qid_map
      BY <1>1 DEF WorkerStart, Dev
    <3> QED
      BY <1>6, <3>1 DEF MapQid
  <2> QED
    BY <1>1, <2>1, <2>2, WishesSame, WishlessStep
<1>7. CASE \/ \E p \in Ports : EnablePort(p) \/ DisablePort(p)
           \/ StartDomain \/ StopDomain \/ UNCHANGED vars
           \/ \E p \in Ports, q \in Queues : Schedule(p, q) \/ Complete(p, q)
  <2>1. UNCHANGED op
    BY <1>7 DEF EnablePort, DisablePort, StartDomain, StopDomain, Schedule, Complete, vars
  <2>2. dev'.qid_map = dev.qid_map
    <3>1. \A p \in Ports : EnablePort(p) \/ DisablePort(p) => SameBooks(dev', dev)
      BY <1>1, RegisterHelpers DEF EnablePort, DisablePort
    <3>2. \A p \in Ports, q \in Queues : Schedule(p, q) => dev'.qid_map = dev.qid_map
      BY <1>1 DEF Schedule, Dev
    <3> QED
      BY <1>7, <3>1, <3>2 DEF StartDomain, StopDomain, Complete, vars, SameBooks
  <2> QED
    BY <1>1, <2>1, <2>2, WishesSame, WishlessStep
<1> QED
  BY <1>3, <1>4, <1>5, <1>6, <1>7 DEF Next, Ioctl

(* A new domain serves nothing, and nothing is asked.                      *)
LEMMA PromiseInit == Init => RInv /\ Promise!Init
<1> SUFFICES ASSUME Init
             PROVE  RInv /\ Promise!Init
  OBVIOUS
<1>1. op.pc = "idle" /\ op.caller = "idle" /\ Activity = "none"
  BY IdleIs, ActivityIs DEF Init
<1>2. \A p \in Ports, s \in Slots : dev.qid_map[p][s].state = "UNMAPPED"
  BY DEF Init, EmptySlot
<1>3. \A p \in Ports : Requested(p) = {}
  BY <1>2 DEF Requested, SlotsWith
<1> QED
  BY <1>1, <1>3 DEF RInv, Promise!Init

(* However long maps and removals stay pending, are finished by the worker *)
(* or by another request, are called off or handed a slot, the application *)
(* sees requests that complete at once: a port serves what was asked, no   *)
(* queue twice and never more than it has slots.  As long as it asks again *)
(* for no queue whose own slot waits for another.                          *)
THEOREM RequestsAreKept == Spec /\ []NeverRerequested => ImplementsRequests
<1>1. /\ IInv /\ IInv' /\ SInv /\ RInv /\ BooksKept /\ NeverRerequested' /\ [Next]_vars
      => [Promise!Next]_<<[p \in Ports |-> Requested(p)], Activity>>
  BY PromiseStep DEF PromiseVars, Req
<1> QED
  BY <1>1, PromiseInit, NextServesQueue, Inductive, ServedInductive, BooksInductive,
     PTL DEF Spec, ImplementsRequests, Promise!Spec, Promise!vars
==============================================================================
