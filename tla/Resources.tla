----------------------------- MODULE Resources -----------------------------
(***************************************************************************)
(* Who owns what in the device (base/dlb2_resource.c).  Every scheduling   *)
(* domain, queue, port, history-list entry and credit belongs to the PF or *)
(* to a virtual device (vdev), and while it is used to one of that         *)
(* function's domains.  The administrator moves resources between the PF   *)
(* and an unlocked vdev (sysfs), a function cuts domains out of what it    *)
(* has, the domain is configured piece by piece, and a reset gives all of  *)
(* it back to the function.                                                *)
(*                                                                         *)
(* Every operation runs under the PF driver's resource mutex and is one    *)
(* action; its operator takes a struct dlb2_hw (S) and returns the next.   *)
(***************************************************************************)
EXTENDS Integers, FiniteSets, FiniteSetsExt, Sequences, SequencesExt, Functions

CONSTANTS
  PF,             \* the physical function
  Vdevs,          \* virtual devices
  CosOrder,       \* the classes of service of the ldb ports, in order
  Members,        \* the resources of each kind that is kept in lists
  HistSize,       \* number of history-list entries
  Counts,         \* kinds that are only counted: credits, atomic inflights
  Amount,         \* how many of each of them the device has
  SnGroups,       \* sequence-number groups; their slots are counted as well
  SnModes,        \* numbers of sequence numbers a queue may have
  SnTotal,        \* sequence numbers in a group
  U32,            \* number of values of an unsigned counter of ports
  Requests,       \* arguments of create_sched_domain
  QueueArgs,      \* arguments of create_ldb_queue
  PortArgs,       \* arguments of create_ldb_port
  MaxAssigned,    \* largest number the administrator writes
  ReregisterInUse \* may a VF register while domains of its are in use?

Cos == ToSet(CosOrder)
Kinds == {"sched_domain", "ldb_queue", "dir_port"} \cup Cos
Domains == Members["sched_domain"]
Things == UNION {Members[k] : k \in Kinds}
Functions == {PF} \cup Vdevs
Owners == Functions \cup Domains
HistEntries == 0 .. HistSize - 1
Counted == Counts \cup SnGroups

ASSUME MembersAssumption ==
  /\ CosOrder \in Seq(Cos) /\ IsInjective(CosOrder)
  /\ Cos \cap {"sched_domain", "ldb_queue", "dir_port"} = {}
  /\ DOMAIN Members = Kinds
  /\ \A k \in Kinds : IsFiniteSet(Members[k]) /\ Cardinality(Members[k]) < U32
  /\ \A k, l \in Kinds : k # l => Members[k] \cap Members[l] = {}
  /\ Functions \cap Domains = {} /\ PF \notin Vdevs /\ IsFiniteSet(Vdevs)
ASSUME NumbersAssumption ==
  /\ HistSize \in Nat /\ MaxAssigned \in Nat /\ U32 \in Nat \ {0}
  /\ IsFiniteSet(Counted) /\ Amount \in [Counts -> Nat]
ASSUME SnAssumption ==
  /\ SnGroups \cap Counts = {} /\ "none" \notin SnGroups /\ SnTotal \in Nat
  /\ SnModes \subseteq Nat \ {0} /\ \E m \in SnModes : \A n \in SnModes : m <= n
  /\ \A n \in SnModes : SnTotal % n = 0

(* Arguments are unsigned numbers.                                         *)
ASSUME ArgsAssumption ==
  /\ \A r \in Requests :
       /\ {r.queues, r.any_ports, r.dir_ports, r.hist} \subseteq Nat
       /\ r.cos_strict \in BOOLEAN /\ r.cos_ports \in [Cos -> Nat]
       /\ r.count \in [Counted -> Nat]
  /\ \A a \in QueueArgs : a.sequence_numbers \in Nat /\ a.count \in [Counts -> Nat]
  /\ \A a \in PortArgs : a.classes \in Seq(Cos) /\ a.hist \in Nat

VARIABLES
  hw,             \* struct dlb2_hw
  registered      \* dlb2->vf_registered

vars == <<hw, registered>>

NoId == -1
NoSlot == [group |-> "none", slot |-> 0]
NoHist == [base |-> 0, total |-> 0, offset |-> 0]

(* The capacity of a group: dlb2_sn_group_full, dlb2_sn_group_alloc_slot.  *)
SnSlots(group) == 0 .. SnTotal \div group.per_queue - 1

InitialCount(k) ==
  IF k \in SnGroups THEN SnTotal \div Min(SnModes) ELSE Amount[k]

(* A function's used list has its domains, a domain's the rest.            *)
Init ==
  /\ hw =
      [avail |-> [o \in Owners |-> [k \in Kinds |->
                    IF o = PF THEN SetToSeq(Members[k]) ELSE << >>]],
       used |-> [o \in Owners |-> [k \in Kinds |-> << >>]],
       num |-> [f \in Functions |-> [k \in Kinds |->
                    IF f = PF THEN Cardinality(Members[k]) ELSE 0]],
       hist |-> [f \in Functions |-> IF f = PF THEN HistEntries ELSE {}],
       count |-> [f \in Functions |-> [k \in Counted |->
                    IF f = PF THEN InitialCount(k) ELSE 0]],
       locked |-> [v \in Vdevs |-> FALSE],
       virt_id |-> [r \in Things |-> NoId],
       group |-> [g \in SnGroups |-> [per_queue |-> Min(SnModes), used |-> {}]],
       domain |-> [d \in Domains |->
          [parent |-> PF, configured |-> FALSE, hist |-> NoHist,
           count |-> [k \in Counted |-> 0], used_count |-> [k \in Counted |-> 0]]],
       sn |-> [q \in Members["ldb_queue"] |-> NoSlot],
       port_hist |-> [p \in UNION {Members[c] : c \in Cos} |-> {}]]
  /\ registered = [v \in Vdevs |-> FALSE]

-----------------------------------------------------------------------------
(* Lists                                                                   *)

Least(a, b) == IF a < b THEN a ELSE b

(* The first n entries go to dst: list_add inserts at the head, so they    *)
(* arrive in reverse.                                                      *)
move(S, dst, src, k, n) ==
  LET list == S.avail[src][k]
  IN [S EXCEPT !.avail = [S.avail EXCEPT
        ![dst][k] = Reverse(SubSeq(list, 1, n)) \o S.avail[dst][k],
        ![src][k] = SubSeq(list, n + 1, Len(list))]]

(* The first entry of a list is put to use.                                *)
use(S, o, k) ==
  [S EXCEPT !.avail[o][k] = Tail(S.avail[o][k]),
            !.used[o][k] = <<Head(S.avail[o][k])>> \o S.used[o][k]]

Index(list, e) == SelectInSeq(list, LAMBDA x : x = e)

(* list_del                                                                *)
Unlink(list, e) == RemoveAt(list, Index(list, e))

-----------------------------------------------------------------------------
(* The administrator: dlb2_update_vdev_*                                   *)

(* DLB2_XFER_LL_RSRC, DLB2_XFER_LL_IDX_RSRC                                *)
xfer(S, dst, src, k, n) ==
  LET m == Least(n, Len(S.avail[src][k]))
  IN [move(S, dst, src, k, m) EXCEPT !.num = [S.num EXCEPT
        ![dst][k] = S.num[dst][k] + m, ![src][k] = S.num[src][k] - m]]

Bug_Reparent(S, f) == S

(* The domains' backpointers follow the lists.                             *)
Reparent(S, f) ==
  [S EXCEPT !.domain = [d \in Domains |->
     IF d \in ToSet(S.avail[f]["sched_domain"])
     THEN [S.domain[d] EXCEPT !.parent = f] ELSE S.domain[d]]]

(* DLB2_VF_ID_CLEAR: without vdev_owned a virtual id means nothing.        *)
ClearIds(S, v, k) ==
  [S EXCEPT !.virt_id = [r \in Things |->
     IF r \in ToSet(S.avail[v][k]) THEN NoId ELSE S.virt_id[r]]]

(* Everything goes back to the PF before the request is looked at; too     *)
(* large a request restores what was there.                                *)
update_vdev_list(S, v, k, n) ==
  LET orig == S.num[v][k]
      back == Reparent(xfer(ClearIds(S, v, k), PF, v, k, orig), PF)
      enough == n <= back.num[PF][k]
  IN IF S.locked[v] THEN S
     ELSE Reparent(xfer(back, v, PF, k, IF enough THEN n ELSE orig), v)

PortsOf(S, f) == SumFunction([c \in Cos |-> S.num[f][c]])
NumCos == Len(CosOrder)

(* dlb2_add_vdev_ldb_ports: class by class, what the PF has of it; left is *)
(* what is still to be added.                                              *)
add_class(acc, v, c) ==
  LET more == Least(acc.left, acc.S.num[PF][c])
  IN IF acc.left = 0 THEN acc
     ELSE [S |-> update_vdev_list(acc.S, v, c, acc.S.num[v][c] + more),
           left |-> acc.left - more]

add_vdev_ldb_ports(S, v, n) ==
  LET after[i \in 0 .. NumCos] ==
        IF i = 0 THEN [S |-> S, left |-> n] ELSE add_class(after[i - 1], v, CosOrder[i])
  IN IF PortsOf(S, PF) < n THEN S ELSE after[NumCos].S

(* dlb2_del_vdev_ldb_ports: what is still to be removed is an unsigned     *)
(* number, and it is decreased by what the class had, not by what was      *)
(* taken out of it.                                                        *)
del_class(acc, v, c) ==
  LET curr == acc.S.num[v][c]
  IN IF acc.left = 0 THEN acc
     ELSE [S |-> update_vdev_list(acc.S, v, c, curr - Least(acc.left, curr)),
           left |-> (acc.left - curr) % U32]

del_vdev_ldb_ports(S, v, n) ==
  LET after[i \in 0 .. NumCos] ==
        IF i = 0 THEN [S |-> S, left |-> n] ELSE del_class(after[i - 1], v, CosOrder[i])
  IN after[NumCos].S

update_vdev_ldb_ports(S, v, n) ==
  LET orig == PortsOf(S, v)
  IN IF S.locked[v] \/ orig = n THEN S
     ELSE IF orig < n THEN add_vdev_ldb_ports(S, v, n - orig)
     ELSE del_vdev_ldb_ports(S, v, orig - n)

(* dlb2_update_vdev_{ldb,dir}_credits, _atomic_inflights, _sn_slots        *)
update_vdev_count(S, v, k, n) ==
  LET all == S.count[PF][k] + S.count[v][k]
  IN IF S.locked[v] \/ all < n THEN S
     ELSE [S EXCEPT !.count = [S.count EXCEPT ![PF][k] = all - n, ![v][k] = n]]

(* dlb2_bitmap_find_set_bit_range, as the range found: none for length 0.  *)
Ranges(bits, n) ==
  {b .. b + n - 1 : b \in {e \in bits : n > 0 /\ e .. e + n - 1 \subseteq bits}}
find_set_bit_range(bits, n) ==
  IF Ranges(bits, n) = {} THEN {}
  ELSE CHOOSE r \in Ranges(bits, n) : \A s \in Ranges(bits, n) : Min(r) <= Min(s)

(* dlb2_transfer_bitmap_resources                                          *)
update_vdev_hist_list_entries(S, v, n) ==
  LET bits == S.hist[PF] \cup S.hist[v]
      found == n = 0 \/ Ranges(bits, n) # {}
      range == find_set_bit_range(bits, IF found THEN n ELSE Cardinality(S.hist[v]))
  IN IF S.locked[v] THEN S
     ELSE [S EXCEPT !.hist = [S.hist EXCEPT ![PF] = bits \ range, ![v] = range]]

(* dlb2_reset_vdev_resources                                               *)
reset_vdev_resources(S, v) ==
  LET lists == update_vdev_list(update_vdev_list(S, v, "sched_domain", 0), v, "ldb_queue", 0)
      ports == update_vdev_list(update_vdev_ldb_ports(lists, v, 0), v, "dir_port", 0)
      hist == update_vdev_hist_list_entries(ports, v, 0)
  IN IF S.locked[v] THEN S
     ELSE [hist EXCEPT !.count = [S.count EXCEPT
             ![PF] = [k \in Counted |-> S.count[PF][k] + S.count[v][k]],
             ![v] = [k \in Counted |-> 0]]]

Bug_Before(S, v, k) == 0

(* dlb2_lock_vdev, dlb2_vf_set_rsrc_virt_ids: the lists of what is         *)
(* available are numbered, the ports through all classes.                  *)
Place(c) == CHOOSE i \in 1 .. NumCos : CosOrder[i] = c
Before(S, v, k) ==
  IF k \in Cos
  THEN SumFunction([i \in 1 .. Place(k) - 1 |-> Len(S.avail[v][CosOrder[i]])])
  ELSE 0

lock_vdev(S, v) ==
  LET kind(r) == CHOOSE k \in Kinds : r \in ToSet(S.avail[v][k])
      index(r) == Index(S.avail[v][kind(r)], r) - 1
  IN [S EXCEPT !.locked[v] = TRUE,
               !.virt_id = [r \in Things |->
                  IF \E k \in Kinds : r \in ToSet(S.avail[v][k])
                  THEN Before(S, v, kind(r)) + index(r) ELSE S.virt_id[r]]]

-----------------------------------------------------------------------------
(* Domains                                                                 *)

UsedDomains(S, f) == S.used[f]["sched_domain"]

(* dlb2_get_domain_from_id for the id the function knows domain d by: a    *)
(* vdev gets the first of its domains in use that has this virtual id.     *)
Found(S, f, d) ==
  IF f = PF THEN d
  ELSE LET used == UsedDomains(S, f)
           same == SelectInSeq(used, LAMBDA e : S.virt_id[e] = S.virt_id[d])
       IN used[same]

Total(r) == r.any_ports + SumFunction(r.cos_ports)

(* dlb2_verify_create_sched_dom_args                                       *)
CanCreate(S, f, r) ==
  /\ S.num[f]["sched_domain"] >= 1
  /\ r.queues <= S.num[f]["ldb_queue"]
  /\ Total(r) <= PortsOf(S, f)
  /\ r.cos_strict => \A c \in Cos : r.cos_ports[c] <= S.num[f][c]
  /\ r.queues > 0 => Total(r) > 0
  /\ r.dir_ports <= S.num[f]["dir_port"]
  /\ \A k \in Counted : r.count[k] <= S.count[f][k]
  /\ r.hist = 0 \/ Ranges(S.hist[f], r.hist) # {}

(* dlb2_attach_ldb_ports: named classes give what is asked of them if that *)
(* is strict.  Otherwise each port is tried for in all classes, starting   *)
(* with the one that was named (Start); ports of any class with the first. *)
Upto(r, i) == SumFunction([j \in 1 .. i |-> r.cos_ports[CosOrder[j]]])
Start(r, t) ==
  IF r.cos_strict \/ t > Upto(r, NumCos) THEN 1
  ELSE Min({i \in 1 .. NumCos : t <= Upto(r, i)})
Tries(r) == IF r.cos_strict THEN r.any_ports ELSE Total(r)

FirstFrom(i, classes) ==
  LET after(k) == CosOrder[((i + k - 1) % NumCos) + 1]
  IN after(Min({k \in 0 .. NumCos - 1 : after(k) \in classes}))

(* What the function gives of each class.                                  *)
ldb_ports(S, f, r) ==
  LET taken[t \in 0 .. Tries(r)] ==
        IF t = 0
        THEN [c \in Cos |-> IF r.cos_strict THEN r.cos_ports[c] ELSE 0]
        ELSE [taken[t - 1] EXCEPT
                ![FirstFrom(Start(r, t), {c \in Cos : taken[t - 1][c] < S.num[f][c]})] =
                  @ + 1]
  IN taken[Tries(r)]

(* dlb2_domain_attach_resources: n[k] entries of each kind.                *)
attach(S, f, d, n) ==
  LET from == S.avail[f]
  IN [S EXCEPT
        !.avail = [S.avail EXCEPT
          ![d] = [k \in Kinds |-> Reverse(SubSeq(from[k], 1, n[k])) \o S.avail[d][k]],
          ![f] = [k \in Kinds |-> SubSeq(from[k], n[k] + 1, Len(from[k]))]],
        !.num[f] = [k \in Kinds |-> S.num[f][k] - n[k]]]

create_sched_domain(S, f, r) ==
  LET d == Head(S.avail[f]["sched_domain"])
      ports == ldb_ports(S, f, r)
      n == [k \in Kinds |-> CASE k = "sched_domain" -> 0
                              [] k = "ldb_queue" -> r.queues
                              [] k = "dir_port" -> r.dir_ports
                              [] k \in Cos -> ports[k]]
      range == find_set_bit_range(S.hist[f], r.hist)
      old == S.domain[d]
  IN [use(attach(S, f, d, n), f, "sched_domain") EXCEPT
        !.num[f]["sched_domain"] = @ - 1,
        !.hist[f] = S.hist[f] \ range,
        !.count[f] = [k \in Counted |-> S.count[f][k] - r.count[k]],
        !.domain[d] =
          [parent |-> old.parent, configured |-> TRUE,
           hist |-> IF r.hist = 0 THEN old.hist
                    ELSE [base |-> Min(range), total |-> r.hist, offset |-> 0],
           count |-> [k \in Counted |-> old.count[k] + r.count[k]],
           used_count |-> old.used_count]]

(* Groups that can still give the domain a slot of n sequence numbers.     *)
Groups(S, d, n) ==
  {g \in SnGroups : /\ S.group[g].per_queue = n
                    /\ S.domain[d].count[g] > 0
                    /\ S.group[g].used # SnSlots(S.group[g])}

CanCreateQueue(S, d, a) ==
  /\ S.domain[d].configured
  /\ S.avail[d]["ldb_queue"] # << >>
  /\ a.sequence_numbers = 0 \/ Groups(S, d, a.sequence_numbers) # {}
  /\ \A k \in Counts : a.count[k] <= S.domain[d].count[k]

(* What the queue uses of each count: a slot of group g, if it needs one.  *)
Needs(a, g) ==
  [k \in Counted |-> IF k \in Counts THEN a.count[k]
                     ELSE IF k = g /\ a.sequence_numbers > 0 THEN 1 ELSE 0]

(* dlb2_hw_create_ldb_queue, dlb2_ldb_queue_attach_resources               *)
create_ldb_queue(S, d, a, g) ==
  LET q == Head(S.avail[d]["ldb_queue"])
      slot == Min(SnSlots(S.group[g]) \ S.group[g].used)
      needs == Needs(a, g)
      old == S.domain[d]
      T == [use(S, d, "ldb_queue") EXCEPT
              !.domain[d] = [old EXCEPT
                 !.count = [k \in Counted |-> old.count[k] - needs[k]],
                 !.used_count = [k \in Counted |-> old.used_count[k] + needs[k]]]]
  IN IF a.sequence_numbers = 0 THEN [T EXCEPT !.sn[q] = NoSlot]
     ELSE [T EXCEPT !.sn[q] = [group |-> g, slot |-> slot],
                    !.group[g].used = @ \cup {slot}]

(* dlb2_hw_create_ldb_port, dlb2_configure_ldb_port: a port of the first   *)
(* class that has one; the domain's history list is handed out from its    *)
(* base upwards.                                                           *)
Classes(S, d, a) == {i \in DOMAIN a.classes : S.avail[d][a.classes[i]] # << >>}

CanCreatePort(S, d, a) ==
  /\ S.domain[d].configured
  /\ Classes(S, d, a) # {}
  /\ a.hist <= S.domain[d].hist.total - S.domain[d].hist.offset

create_ldb_port(S, d, a) ==
  LET c == a.classes[Min(Classes(S, d, a))]
      p == Head(S.avail[d][c])
      base == S.domain[d].hist.base + S.domain[d].hist.offset
  IN [use(S, d, c) EXCEPT !.domain[d].hist.offset = @ + a.hist,
                          !.port_hist[p] = base .. base + a.hist - 1]

-----------------------------------------------------------------------------
(* Reset                                                                   *)

Bug_Back(S, d, k) == IF k = "sched_domain" THEN <<d>> ELSE Reverse(S.avail[d][k])

(* What a domain gives back: itself, and its lists, which end up in this   *)
(* order; its counts whether used or not.                                  *)
Back(S, d, k) ==
  IF k = "sched_domain" THEN <<d>> ELSE Reverse(S.avail[d][k]) \o S.used[d][k]
Returned(dom, k) == dom.count[k] + dom.used_count[k]

PortsInUse(S, d) == UNION {ToSet(S.used[d][c]) : c \in Cos}
QueuesInUse(S, d) == ToSet(S.used[d]["ldb_queue"])

(* dlb2_domain_reset_software_state; what an unused port or queue still    *)
(* remembers of its last use is never read and is not kept.                *)
reset_lists(S, f, d) ==
  LET none == [k \in Kinds |-> << >>]
      left == [S.used[f] EXCEPT !["sched_domain"] = Unlink(UsedDomains(S, f), d)]
  IN [S EXCEPT
        !.avail = [S.avail EXCEPT
          ![f] = [k \in Kinds |-> Back(S, d, k) \o S.avail[f][k]], ![d] = none],
        !.used = [S.used EXCEPT ![f] = left, ![d] = none],
        !.num[f] = [k \in Kinds |-> S.num[f][k] + Len(Back(S, d, k))],
        !.port_hist = [p \in DOMAIN S.port_hist |->
          IF p \in PortsInUse(S, d) THEN {} ELSE S.port_hist[p]]]

free_slots(S, d) ==
  LET queues == QueuesInUse(S, d)
      freed(g) == {S.sn[q].slot : q \in {r \in queues : S.sn[r].group = g}}
  IN [S EXCEPT
        !.group = [g \in SnGroups |-> [per_queue |-> S.group[g].per_queue,
                                       used |-> S.group[g].used \ freed(g)]],
        !.sn = [q \in DOMAIN S.sn |-> IF q \in queues THEN NoSlot ELSE S.sn[q]]]

domain_reset_software_state(S, d) ==
  LET old == S.domain[d]
      f == old.parent
      none == [k \in Counted |-> 0]
  IN [reset_lists(free_slots(S, d), f, d) EXCEPT
        !.hist[f] = S.hist[f] \cup (old.hist.base .. old.hist.base + old.hist.total - 1),
        !.count[f] = [k \in Counted |-> S.count[f][k] + Returned(old, k)],
        !.domain[d] = [parent |-> f, configured |-> FALSE, hist |-> NoHist,
                       count |-> none, used_count |-> none]]

(* dlb2_reset_vdev: domain by domain, by virtual id, until the hardware    *)
(* part of one fails (here: after the first n).                            *)
reset_by_id(S, v, d) == domain_reset_software_state(S, Found(S, v, d))

reset_vdev(S, v, n) ==
  LET after[i \in 0 .. n] ==
        IF i = 0 THEN S ELSE reset_by_id(after[i - 1], v, UsedDomains(S, v)[i])
  IN after[n]

(* dlb2_resource_reset; a domain goes back to its own function, so it does *)
(* not matter which function comes first.                                  *)
reset_function(S, f) ==
  LET list == UsedDomains(S, f)
      after[i \in 0 .. Len(list)] ==
        IF i = 0 THEN S ELSE domain_reset_software_state(after[i - 1], list[i])
  IN after[Len(list)]

resource_reset(S) ==
  LET order == SetToSeq(Functions)
      after[i \in 0 .. Len(order)] ==
        IF i = 0 THEN S ELSE reset_function(after[i - 1], order[i])
  IN after[Len(order)]

-----------------------------------------------------------------------------
(* Actions                                                                 *)

UpdateVdevList(v, k, n) ==
  /\ hw' = update_vdev_list(hw, v, k, n)
  /\ UNCHANGED registered

UpdateVdevPorts(v, n) ==
  /\ hw' = update_vdev_ldb_ports(hw, v, n)
  /\ UNCHANGED registered

UpdateVdevCount(v, k, n) ==
  /\ hw' = update_vdev_count(hw, v, k, n)
  /\ UNCHANGED registered

UpdateVdevHist(v, n) ==
  /\ hw' = update_vdev_hist_list_entries(hw, v, n)
  /\ UNCHANGED registered

Bug_SetGroup(g, n) ==
  /\ hw.group[g].used = {}
  /\ hw' = [hw EXCEPT !.group[g].per_queue = n,
                      !.count[PF][g] = IF hw.group[g].per_queue = n THEN @
                                       ELSE SnTotal \div n]
  /\ UNCHANGED registered

(* dlb2_set_group_sequence_numbers                                         *)
SetGroup(g, n) ==
  /\ hw.group[g].used = {}
  /\ hw.count[PF][g] * hw.group[g].per_queue # SnTotal => hw.group[g].per_queue = n
  /\ hw' = [hw EXCEPT !.group[g].per_queue = n,
                      !.count[PF][g] = IF hw.group[g].per_queue = n THEN @
                                       ELSE SnTotal \div n]
  /\ UNCHANGED registered

(* dlb2_mbox_cmd_register_fn: the ids are given out before the domains     *)
(* that a crashed guest left behind are reset.                             *)
Register(v) ==
  /\ UsedDomains(hw, v) # << >> => ReregisterInUse
  /\ \E n \in 0 .. Len(UsedDomains(hw, v)) : hw' = reset_vdev(lock_vdev(hw, v), v, n)
  /\ registered' = [registered EXCEPT ![v] = TRUE]

(* dlb2_mbox_cmd_unregister_fn: a domain that could not be reset is logged *)
(* and the vdev is unlocked all the same.                                  *)
Unregister(v) ==
  /\ registered' = [registered EXCEPT ![v] = FALSE]
  /\ \E n \in 0 .. Len(UsedDomains(hw, v)) :
       hw' = [reset_vdev(hw, v, n) EXCEPT !.locked[v] = FALSE]

(* dlb2_handle_vf_flr_interrupt                                            *)
VfFlr(v) ==
  /\ \E n \in 0 .. Len(UsedDomains(hw, v)) : hw' = reset_vdev(hw, v, n)
  /\ UNCHANGED registered

unlock_vdev(S, v) == reset_vdev_resources([S EXCEPT !.locked[v] = FALSE], v)

unlock_vdevs(S) ==
  LET order == SetToSeq(Vdevs)
      after[i \in 0 .. Len(order)] ==
        IF i = 0 THEN S ELSE unlock_vdev(after[i - 1], order[i])
  IN after[Len(order)]

(* dlb2_pci_sriov_disable; no vdev has an application.                     *)
SriovDisable ==
  /\ \A v \in Vdevs : registered[v] => UsedDomains(hw, v) = << >>
  /\ hw' = unlock_vdevs(hw)
  /\ UNCHANGED registered

(* dlb2_reset_done                                                         *)
DeviceReset ==
  /\ hw' = resource_reset(hw)
  /\ UNCHANGED registered

(* A vdev's request comes through its mailbox.                             *)
Askers == {PF} \cup {v \in Vdevs : registered[v]}

CreateDomain(f, r) ==
  /\ f \in Askers /\ CanCreate(hw, f, r)
  /\ hw' = create_sched_domain(hw, f, r)
  /\ UNCHANGED registered

CreateLdbQueue(f, d, a) ==
  /\ f \in Askers /\ CanCreateQueue(hw, d, a)
  /\ \E g \in SnGroups :
       /\ a.sequence_numbers > 0 => g \in Groups(hw, d, a.sequence_numbers)
       /\ hw' = create_ldb_queue(hw, d, a, g)
  /\ UNCHANGED registered

CreateLdbPort(f, d, a) ==
  /\ f \in Askers /\ CanCreatePort(hw, d, a)
  /\ hw' = create_ldb_port(hw, d, a)
  /\ UNCHANGED registered

(* dlb2_hw_create_dir_queue, dlb2_hw_create_dir_port for a fresh pair; for *)
(* a pair in use they leave the lists alone.                               *)
CreateDirPair(f, d) ==
  /\ f \in Askers /\ hw.domain[d].configured
  /\ hw.avail[d]["dir_port"] # << >>
  /\ hw' = use(hw, d, "dir_port")
  /\ UNCHANGED registered

(* dlb2_reset_domain                                                       *)
ResetDomain(f, d) ==
  /\ f \in Askers /\ hw.domain[d].configured
  /\ hw' = domain_reset_software_state(hw, d)
  /\ UNCHANGED registered

Administrator ==
  \E v \in Vdevs, n \in 0 .. MaxAssigned :
    \/ \E k \in Kinds : UpdateVdevList(v, k, n)
    \/ UpdateVdevPorts(v, n)
    \/ \E k \in Counted : UpdateVdevCount(v, k, n)
    \/ UpdateVdevHist(v, n)

DomainRequest(f, d) ==
  \/ \E a \in QueueArgs : CreateLdbQueue(f, d, a)
  \/ \E a \in PortArgs : CreateLdbPort(f, d, a)
  \/ CreateDirPair(f, d)
  \/ ResetDomain(f, d)

Next ==
  \/ Administrator
  \/ \E g \in SnGroups, n \in SnModes : SetGroup(g, n)
  \/ \E v \in Vdevs : Register(v) \/ Unregister(v) \/ VfFlr(v)
  \/ SriovDisable
  \/ DeviceReset
  \/ \E f \in Functions, r \in Requests : CreateDomain(f, r)
  \/ \E f \in Functions : \E d \in ToSet(UsedDomains(hw, f)) :
       DomainRequest(f, Found(hw, f, d))

Spec == Init /\ [][Next]_vars

-----------------------------------------------------------------------------
(* Properties                                                              *)

Lists == {"avail", "used"} \X Owners \X Kinds
List(S, x) == IF x[1] = "avail" THEN S.avail[x[2]][x[3]] ELSE S.used[x[2]][x[3]]
Spots(S, r) ==
  UNION {{<<x, i>> : i \in {j \in DOMAIN List(S, x) : List(S, x)[j] = r}} : x \in Lists}

InOneList ==
  /\ \A r \in Things : Cardinality(Spots(hw, r)) = 1
  /\ \A f \in Functions, k \in Kinds : hw.num[f][k] = Len(hw.avail[f][k])
  /\ \A f \in Functions : \A d \in ToSet(UsedDomains(hw, f)) :
       hw.domain[d].parent = f /\ hw.domain[d].configured

DomainHist(S, d) ==
  LET h == S.domain[d].hist IN h.base .. h.base + h.total - 1
HistShared ==
  /\ \A e \in HistEntries :
       Cardinality({f \in Functions : e \in hw.hist[f]})
         + Cardinality({d \in Domains : e \in DomainHist(hw, d)}) = 1
  /\ \A d \in Domains : \A p, q \in PortsInUse(hw, d) :
       /\ hw.port_hist[p] \subseteq DomainHist(hw, d)
       /\ p # q => hw.port_hist[p] \cap hw.port_hist[q] = {}

(* Every queue, port, pair and domain is in exactly one list and every     *)
(* history-list entry in one function's bitmap or one domain's range:      *)
(* nothing is lost or owned twice, across transfers, failed transfers,     *)
(* domains and resets.  The counters that requests are verified against    *)
(* are the lengths of the lists they are served from, and the ports of a   *)
(* domain use different parts of its range.                                *)
OneOwner == InOneList /\ HistShared

SlotQueues(g) ==
  {q \in UNION {QueuesInUse(hw, d) : d \in Domains} : hw.sn[q].group = g}
SnReserved ==
  \A g \in SnGroups :
    /\ Cardinality(SnSlots(hw.group[g]) \ hw.group[g].used)
         = SumFunction([f \in Functions |-> hw.count[f][g]])
             + SumFunction([d \in Domains |-> hw.domain[d].count[g]])
    /\ hw.group[g].used = {hw.sn[q].slot : q \in SlotQueues(g)}
    /\ Cardinality(hw.group[g].used) = Cardinality(SlotQueues(g))

(* Credits and atomic inflights are conserved, and a reservation of        *)
(* sequence numbers can be honoured: the slots a group has left are those  *)
(* that are promised to the functions and the domains, the slots it has    *)
(* given out those of configured queues, one queue each.  So a queue that  *)
(* was verified gets its slot.                                             *)
CountsConserved ==
  /\ \A k \in Counts :
       SumFunction([f \in Functions |-> hw.count[f][k]])
         + SumFunction([d \in Domains |-> hw.domain[d].count[k] + hw.domain[d].used_count[k]])
         = Amount[k]
  /\ SnReserved

(* What belongs to a function, used or not.                                *)
Holds(S, f, k) ==
  ToSet(S.avail[f][k]) \cup ToSet(S.used[f][k])
    \cup UNION {ToSet(S.avail[d][k]) \cup ToSet(S.used[d][k]) :
                  d \in ToSet(UsedDomains(S, f))}
HoldsHist(S, f) ==
  S.hist[f] \cup UNION {DomainHist(S, d) : d \in ToSet(UsedDomains(S, f))}

(* While a vdev is locked its assignment does not change, whatever the     *)
(* administrator, the other functions or a reset do: a guest keeps what it *)
(* was told it has ("When the vdev is locked, its resource assignment      *)
(* cannot be changed", dlb2_resource.c:10132).                             *)
LockedKeepsResources ==
  [][\A v \in Vdevs : hw.locked[v] /\ hw'.locked[v] =>
       /\ \A k \in Kinds : Holds(hw', v, k) = Holds(hw, v, k)
       /\ HoldsHist(hw', v) = HoldsHist(hw, v)]_vars

(* A virtual id names one resource of its kind in a locked vdev; the ports *)
(* of all classes are one kind.  A request that names an id then reaches   *)
(* the resource that was returned under it.  With ReregisterInUse it does  *)
(* not hold: ids are given out before a crashed guest's domains are reset. *)
VirtualIdsUnique ==
  \A v \in Vdevs : hw.locked[v] =>
    \A K \in {{k} : k \in Kinds \ Cos} \cup {Cos} :
      \A r, s \in UNION {Holds(hw, v, k) : k \in K} :
        r # s => hw.virt_id[r] # hw.virt_id[s]

===========================================================================
