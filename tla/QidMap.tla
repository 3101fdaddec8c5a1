------------------------------- MODULE QidMap -------------------------------
(***************************************************************************)
(* The QID->CQ map and unmap procedures of the DLB2 kernel driver          *)
(* (driver/dlb2/base/dlb2_resource.c) for one scheduling domain.           *)
(*                                                                         *)
(* An application maps load-balanced queues (QIDs) to load-balanced ports  *)
(* (each with a consumer queue, CQ).  A port has NumSlots mapping slots.   *)
(* Once the domain is started a mapping can be added only while the queue  *)
(* owes no completions, and removed only while the CQ owes none, so both   *)
(* requests may be left pending; a kernel worker completes them later.     *)
(*                                                                         *)
(* Every driver entry point holds resource_mutex from start to end.  The   *)
(* variable op is the program counter of the mutex holder; the steps of    *)
(* the hardware (Schedule) and of the application's datapath (Complete)    *)
(* interleave with it freely.                                              *)
(***************************************************************************)
EXTENDS Integers, FiniteSets

CONSTANTS
  Ports,         \* the load-balanced ports of the domain
  Queues,        \* the load-balanced queues of the domain
  None,          \* stands for "no queue" and "no port"
  NumSlots,      \* DLB2_MAX_NUM_QIDS_PER_LDB_CQ, 8 in the code
  MaxInflights   \* a queue's inflight limit, num_qid_inflights

ASSUME QidMapAssumption ==
  /\ None \notin Ports \cup Queues
  /\ IsFiniteSet(Ports)
  /\ NumSlots \in Nat \ {0}
  /\ MaxInflights \in Nat \ {0}

Slots == 1 .. NumSlots

(* enum dlb2_qid_map_state. *)
SlotStates == {"UNMAPPED", "MAPPED", "MAP_IN_PROG",
               "UNMAP_IN_PROG", "UNMAP_IN_PROG_PENDING_MAP"}

(* The slot states in which the hardware tables hold the mapping.          *)
InHardware == {"MAPPED", "UNMAP_IN_PROG", "UNMAP_IN_PROG_PENDING_MAP"}

(* The slot states of an unmap that is not complete.                       *)
Removing == {"UNMAP_IN_PROG", "UNMAP_IN_PROG_PENDING_MAP"}

VARIABLES
  dev,      \* what the driver's data and the device registers hold
  enabled,  \* port->enabled, the application's wish
  domain,   \* "configured", "started" or "stopped" (domain->started)
  infl,     \* infl[p][q]: events of q scheduled to p and not completed
  op,       \* the program counter of the holder of resource_mutex
  efault    \* history: a procedure has failed with an "internal error", -EFAULT

vars == <<dev, enabled, domain, infl, op, efault>>

-----------------------------------------------------------------------------
(* Counters the hardware keeps.  Only zero or not zero matters to the      *)
(* driver: LSP_CQ_LDB_INFL_CNT and LSP_QID_LDB_INFL_CNT.                   *)
CqDrained(p)  == \A q \in Queues : infl[p][q] = 0
QidDrained(q) == \A p \in Ports : infl[p][q] = 0

(* The first slot of a set in slot order; 0 when there is none.            *)
First(S) == IF S = {} THEN 0 ELSE CHOOSE s \in S : \A t \in S : s <= t

SlotsWith(d, p, states) == {s \in Slots : d.qid_map[p][s].state \in states}

find_slot(d, p, state) == First(SlotsWith(d, p, {state}))

find_slot_queue(d, p, state, q) ==
  First({s \in SlotsWith(d, p, {state}) : d.qid_map[p][s].qid = q})

find_slot_with_pending_map_queue(d, p, q) ==
  First({s \in SlotsWith(d, p, {"UNMAP_IN_PROG_PENDING_MAP"}) :
           d.qid_map[p][s].pending_qid = q})

(***************************************************************************)
(* slot_state_transition: the slot's new state, and what the transition    *)
(* adds to the counters of mappings, pending additions and pending         *)
(* removals.  The table is the code's nested switch; a pair that is not    *)
(* in it is the code's error branch, which changes nothing.  The code      *)
(* leaves stale queue numbers in unused fields; they are never read, and   *)
(* the model keeps None there.                                             *)
(***************************************************************************)
Transitions ==
  {<<"UNMAPPED", "MAPPED">>, <<"UNMAPPED", "MAP_IN_PROG">>,
   <<"MAPPED", "UNMAPPED">>, <<"MAPPED", "UNMAP_IN_PROG">>,
   <<"MAPPED", "MAPPED">>,
   <<"MAP_IN_PROG", "UNMAPPED">>, <<"MAP_IN_PROG", "MAPPED">>,
   <<"UNMAP_IN_PROG", "UNMAPPED">>, <<"UNMAP_IN_PROG", "MAPPED">>,
   <<"UNMAP_IN_PROG", "UNMAP_IN_PROG_PENDING_MAP">>,
   <<"UNMAP_IN_PROG_PENDING_MAP", "UNMAP_IN_PROG">>,
   <<"UNMAP_IN_PROG_PENDING_MAP", "UNMAPPED">>}

(* Definitions named Bug_... are wrong on purpose: each is a definition of  *)
(* the code with a plausible mistake, which a property must detect.        *)

(* A completed dynamic map is not counted.                                 *)
Bug_MappingsDelta(old, new) ==
  CASE <<old, new>> = <<"UNMAPPED", "MAPPED">> -> 1
    [] <<old, new>> \in {<<"MAPPED", "UNMAPPED">>, <<"UNMAP_IN_PROG", "UNMAPPED">>,
                         <<"UNMAP_IN_PROG_PENDING_MAP", "UNMAPPED">>} -> -1
    [] OTHER -> 0

(* What a transition adds to num_mappings of the port and of the queue.    *)
MappingsDelta(old, new) ==
  CASE <<old, new>> \in {<<"UNMAPPED", "MAPPED">>, <<"MAP_IN_PROG", "MAPPED">>} -> 1
    [] <<old, new>> \in {<<"MAPPED", "UNMAPPED">>, <<"UNMAP_IN_PROG", "UNMAPPED">>,
                         <<"UNMAP_IN_PROG_PENDING_MAP", "UNMAPPED">>} -> -1
    [] OTHER -> 0

(* An aborted map stays counted.                                           *)
Bug_AdditionsDelta(old, new) ==
  CASE <<old, new>> = <<"UNMAPPED", "MAP_IN_PROG">> -> 1
    [] <<old, new>> = <<"MAP_IN_PROG", "MAPPED">> -> -1
    [] OTHER -> 0

(* ... to num_pending_additions of the queue and of the domain.            *)
AdditionsDelta(old, new) ==
  CASE <<old, new>> = <<"UNMAPPED", "MAP_IN_PROG">> -> 1
    [] <<old, new>> \in {<<"MAP_IN_PROG", "UNMAPPED">>, <<"MAP_IN_PROG", "MAPPED">>} -> -1
    [] OTHER -> 0

(* An unmap that is called off stays counted.                              *)
Bug_RemovalsDelta(old, new) ==
  CASE <<old, new>> = <<"MAPPED", "UNMAP_IN_PROG">> -> 1
    [] <<old, new>> \in {<<"UNMAP_IN_PROG", "UNMAPPED">>,
                         <<"UNMAP_IN_PROG_PENDING_MAP", "UNMAPPED">>} -> -1
    [] OTHER -> 0

(* ... to num_pending_removals of the port and of the domain.              *)
RemovalsDelta(old, new) ==
  CASE <<old, new>> = <<"MAPPED", "UNMAP_IN_PROG">> -> 1
    [] <<old, new>> \in {<<"UNMAP_IN_PROG", "UNMAPPED">>, <<"UNMAP_IN_PROG", "MAPPED">>,
                         <<"UNMAP_IN_PROG_PENDING_MAP", "UNMAPPED">>} -> -1
    [] OTHER -> 0

slot_state_transition(d, p, q, s, new) ==
  LET old == d.qid_map[p][s].state
      kept == [state |-> new,
               qid |-> IF new = "UNMAPPED" THEN None ELSE d.qid_map[p][s].qid,
               pending_qid |-> IF new = "UNMAP_IN_PROG_PENDING_MAP"
                               THEN d.qid_map[p][s].pending_qid ELSE None]
  IN  IF <<old, new>> \notin Transitions THEN d
      ELSE [d EXCEPT !.qid_map[p][s]   = kept,
                     !.port_mappings[p]  = @ + MappingsDelta(old, new),
                     !.queue_mappings[q] = @ + MappingsDelta(old, new),
                     !.queue_additions[q] = @ + AdditionsDelta(old, new),
                     !.additions          = @ + AdditionsDelta(old, new),
                     !.port_removals[p]  = @ + RemovalsDelta(old, new),
                     !.removals          = @ + RemovalsDelta(old, new)]

-----------------------------------------------------------------------------
(* The device registers.                                                   *)

(* The CQ is re-enabled although a removal is pending.                     *)
Bug_cq_enable(d, p) == [d EXCEPT !.cq_disabled[p] = FALSE]

(* LSP_CQ_LDB_DSBL: a CQ with a pending removal is not re-enabled.         *)
cq_enable(d, p) ==
  IF d.port_removals[p] # 0 THEN d ELSE [d EXCEPT !.cq_disabled[p] = FALSE]

cq_disable(d, p) == [d EXCEPT !.cq_disabled[p] = TRUE]

(* The callers' "if (port->enabled)" around the two.                       *)
enable_if_wanted(d, p)  == IF enabled[p] THEN cq_enable(d, p) ELSE d
disable_if_wanted(d, p) == IF enabled[p] THEN cq_disable(d, p) ELSE d

(* LSP_QID_LDB_INFL_LIM.  Writing 0 stops the scheduling of the queue, but *)
(* a decision already taken may still deliver one more event: "closing".   *)
set_inflight_limit(d, q)  == [d EXCEPT !.infl_lim[q] = "full"]
zero_inflight_limit(d, q) ==
  [d EXCEPT !.infl_lim[q] = IF @ = "full" THEN "closing" ELSE @]

HasMapped(d, p, q) == find_slot_queue(d, p, "MAPPED", q) # 0

(* The CQs a dynamic map has disabled are not enabled again.               *)
Bug_enable_mapped_cqs(d, q) == d

enable_mapped_cqs(d, q) ==
  [d EXCEPT !.cq_disabled =
     [p \in Ports |-> IF HasMapped(d, p, q) /\ enabled[p] /\ d.port_removals[p] = 0
                      THEN FALSE ELSE @[p]]]

(* Only the CQ of the new mapping is disabled.                             *)
Bug_disable_mapped_cqs(d, q) == d

disable_mapped_cqs(d, q) ==
  [d EXCEPT !.cq_disabled =
     [p \in Ports |-> IF HasMapped(d, p, q) /\ enabled[p] THEN TRUE ELSE @[p]]]

(* os_schedule_work, called only when the worker is not active.            *)
schedule_work(d) ==
  IF d.worker_launched THEN d
  ELSE [d EXCEPT !.worker_launched = TRUE, !.work_queued = TRUE]

-----------------------------------------------------------------------------
(* Mapping and unmapping one queue.                                        *)

map_qid_static(d, p, q) ==
  LET prog == find_slot_queue(d, p, "MAP_IN_PROG", q)
      same == find_slot_queue(d, p, "MAPPED", q)
      free == find_slot(d, p, "UNMAPPED")
      s == IF prog # 0 THEN prog ELSE IF same # 0 THEN same ELSE free
      written == [d EXCEPT !.cq2qid[p][s] = q, !.qid_map[p][s].qid = q]
  IN  IF s = 0 THEN d ELSE slot_state_transition(written, p, q, s, "MAPPED")

(* The tables keep the queue.                                              *)
Bug_unmap_qid(d, p, q) ==
  LET mapped  == find_slot_queue(d, p, "MAPPED", q)
      unmap   == find_slot_queue(d, p, "UNMAP_IN_PROG", q)
      pending == find_slot_queue(d, p, "UNMAP_IN_PROG_PENDING_MAP", q)
      s == IF mapped # 0 THEN mapped ELSE IF unmap # 0 THEN unmap ELSE pending
  IN  IF s = 0 THEN d ELSE slot_state_transition(d, p, q, s, "UNMAPPED")

(* The slot is the first that holds q as MAPPED, else as UNMAP_IN_PROG,    *)
(* else as UNMAP_IN_PROG_PENDING_MAP.                                      *)
unmap_qid(d, p, q) ==
  LET mapped  == find_slot_queue(d, p, "MAPPED", q)
      unmap   == find_slot_queue(d, p, "UNMAP_IN_PROG", q)
      pending == find_slot_queue(d, p, "UNMAP_IN_PROG_PENDING_MAP", q)
      s == IF mapped # 0 THEN mapped ELSE IF unmap # 0 THEN unmap ELSE pending
      cleared == [d EXCEPT !.cq2qid[p][s] = None]
  IN  IF s = 0 THEN d ELSE slot_state_transition(cleared, p, q, s, "UNMAPPED")

(* The tail of a dynamic map, after its last read of the inflight count:   *)
(* the tables are written, and the queue and its CQs run again.            *)
finish_map_qid_dynamic(d, p, q) ==
  LET mapped == enable_mapped_cqs(set_inflight_limit(map_qid_static(d, p, q), q), q)
  IN  IF mapped.queue_additions[q] > 0 THEN zero_inflight_limit(mapped, q) ELSE mapped

(* The head of a dynamic map: stop the queue, and claim a slot.            *)
begin_map_qid_dynamic(d, p, q) ==
  LET s == find_slot(d, p, "UNMAPPED")
      stopped == zero_inflight_limit(d, q)
      claimed == [stopped EXCEPT !.qid_map[p][s].qid = q]
  IN  IF s = 0 THEN stopped ELSE slot_state_transition(claimed, p, q, s, "MAP_IN_PROG")

(* verify_map_qid_slot_available.                                          *)
slot_available(d, p, q) ==
  \/ d.port_mappings[p] < NumSlots
  \/ find_slot_queue(d, p, "MAPPED", q) # 0
  \/ find_slot_queue(d, p, "MAP_IN_PROG", q) # 0
  \/ find_slot_with_pending_map_queue(d, p, q) # 0
  \/ find_slot(d, p, "UNMAP_IN_PROG") # 0
  \/ find_slot(d, p, "UNMAPPED") # 0

-----------------------------------------------------------------------------
(***************************************************************************)
(* The holder of resource_mutex.  op.pc is where it is, op.then where a    *)
(* dynamic map in the middle returns to, op.caller where the loop over a   *)
(* port's removals returns to; p, q and s are the port, the queue and the  *)
(* last slot done, mq the queue of a map in the middle, todo the ports the *)
(* worker still has to visit.                                              *)
(***************************************************************************)
Idle == [pc |-> "idle", then |-> "idle", caller |-> "idle",
         p |-> None, q |-> None, mq |-> None, s |-> 0, todo |-> {}]

At(pc) == op.pc = pc

MutexFree == At("idle")

(* A map that cannot complete at once wakes no worker.                     *)
Bug_map_qid_asleep(d, p, q, return) ==
  /\ dev' = IF domain # "started" THEN map_qid_static(d, p, q)
            ELSE begin_map_qid_dynamic(d, p, q)
  /\ op' = IF domain = "started" /\ QidDrained(q)
           THEN [return EXCEPT !.pc = "disable_cqs", !.then = return.pc, !.mq = q]
           ELSE return

(* map_qid: static before the domain runs, dynamic after.  A dynamic map   *)
(* ends here when the queue owes completions and the worker must finish    *)
(* it; otherwise DisableCqs is next.                                       *)
map_qid(d, p, q, return) ==
  \/ /\ domain # "started"
     /\ dev' = map_qid_static(d, p, q)
     /\ op' = return
  \/ /\ domain = "started"
     /\ ~QidDrained(q)
     /\ dev' = schedule_work(begin_map_qid_dynamic(d, p, q))
     /\ op' = return
  \/ /\ domain = "started"
     /\ QidDrained(q)
     /\ dev' = begin_map_qid_dynamic(d, p, q)
     /\ op' = [return EXCEPT !.pc = "disable_cqs", !.then = return.pc, !.mq = q]

(* The three actions below and WriteMap are the rest of a dynamic map, from *)
(* map_qid_dynamic or from the worker's finish_map_port: with the mutex     *)
(* held, but with the device and the application running on in between.     *)

(* Every CQ that could still be given an event of the queue is disabled.   *)
DisableCqs ==
  /\ At("disable_cqs")
  /\ dev' = disable_mapped_cqs(disable_if_wanted(dev, op.p), op.mq)
  /\ op' = [op EXCEPT !.pc = "reread"]
  /\ UNCHANGED <<enabled, domain, infl, efault>>

(* The step, or the caller, that follows the map of one queue.             *)
MapReturn == [op EXCEPT !.pc = op.then, !.then = "idle", !.mq = None]

(* The second read: one more event may have come before the CQs were off.  *)
Reread ==
  /\ At("reread")
  /\ \/ /\ QidDrained(op.mq)
        /\ op' = [op EXCEPT !.pc = "finish_map"]
        /\ UNCHANGED dev
     \/ /\ ~QidDrained(op.mq)
        /\ dev' = schedule_work(enable_mapped_cqs(enable_if_wanted(dev, op.p), op.mq))
        /\ op' = MapReturn
  /\ UNCHANGED <<enabled, domain, infl, efault>>

(* The third read, at the head of finish_map_qid_dynamic.  An event now is *)
(* an "internal error": the map ioctl fails and leaves the CQs disabled,   *)
(* the other callers ignore it.                                            *)
FinishMapRead ==
  LET failed == ~QidDrained(op.mq)
  IN  /\ At("finish_map")
      /\ op' = IF ~failed THEN [op EXCEPT !.pc = "write_map"]
               ELSE IF op.then = "map_done" THEN Idle ELSE MapReturn
      /\ efault' = (efault \/ failed)
      /\ UNCHANGED <<dev, enabled, domain, infl>>

WriteMap ==
  /\ At("write_map")
  /\ dev' = finish_map_qid_dynamic(dev, op.p, op.mq)
  /\ op' = MapReturn
  /\ UNCHANGED <<enabled, domain, infl, efault>>

(* The map that waits for the slot is forgotten.                           *)
Bug_FinishUnmapPortSlot ==
  LET p == op.p
      s == First({t \in SlotsWith(dev, p, Removing) : t > op.s})
  IN  /\ At("unmap_slots")
      /\ s # 0
      /\ dev' = enable_if_wanted(unmap_qid(dev, p, dev.qid_map[p][s].qid), p)
      /\ op' = [op EXCEPT !.s = s]
      /\ UNCHANGED <<enabled, domain, infl, efault>>

(* The loop of finish_unmap_port: the next slot with a removal is unmapped *)
(* and, if a map was waiting for the slot, that map is performed.          *)
FinishUnmapPortSlot ==
  LET p == op.p
      s == First({t \in SlotsWith(dev, p, Removing) : t > op.s})
      slot == dev.qid_map[p][s]
      unmapped == enable_if_wanted(unmap_qid(dev, p, slot.qid), p)
      \* map->qid = map->pending_qid; it stays in the slot only if the slot
      \* is not the one unmap_qid freed.
      renamed == IF unmapped.qid_map[p][s].state = "UNMAPPED" THEN unmapped
                 ELSE [unmapped EXCEPT !.qid_map[p][s].qid = slot.pending_qid]
      next == [op EXCEPT !.s = s]
  IN  /\ At("unmap_slots")
      /\ s # 0
      /\ \/ /\ slot.state = "UNMAP_IN_PROG"
            /\ dev' = unmapped
            /\ op' = next
         \/ /\ slot.state = "UNMAP_IN_PROG_PENDING_MAP"
            /\ map_qid(renamed, p, slot.pending_qid, next)
      /\ UNCHANGED <<enabled, domain, infl, efault>>

FinishUnmapPortDone ==
  /\ At("unmap_slots")
  /\ \A t \in SlotsWith(dev, op.p, Removing) : t <= op.s
  /\ op' = IF op.caller = "idle" THEN Idle
           ELSE [op EXCEPT !.pc = op.caller, !.caller = "idle", !.s = 0,
                           !.p = IF op.caller = "worker_unmap" THEN None ELSE op.p]
  /\ UNCHANGED <<dev, enabled, domain, infl, efault>>

-----------------------------------------------------------------------------
(* dlb2_hw_map_qid.                                                        *)

MapQid(p, q) ==
  /\ MutexFree
  /\ op' = [Idle EXCEPT !.p = p, !.q = q,
              !.pc = IF dev.port_removals[p] > 0 /\ CqDrained(p)
                     THEN "unmap_slots" ELSE "map_verify",
              !.caller = IF dev.port_removals[p] > 0 /\ CqDrained(p)
                         THEN "map_verify" ELSE "idle"]
  /\ UNCHANGED <<dev, enabled, domain, infl, efault>>

MapReject ==
  /\ At("map_verify")
  /\ ~slot_available(dev, op.p, op.q)
  /\ op' = Idle
  /\ UNCHANGED <<dev, enabled, domain, infl, efault>>

MapAccept ==
  LET p == op.p
      q == op.q
      d == disable_if_wanted(dev, p)
      mapped  == find_slot_queue(d, p, "MAPPED", q)
      unmap   == find_slot_queue(d, p, "UNMAP_IN_PROG", q)
      asked   == \/ find_slot_queue(d, p, "MAP_IN_PROG", q) # 0
                 \/ find_slot_with_pending_map_queue(d, p, q) # 0
      free    == find_slot(d, p, "UNMAPPED")
      parking == find_slot(d, p, "UNMAP_IN_PROG")
      done == [op EXCEPT !.pc = "map_done"]
  IN  /\ At("map_verify")
      /\ slot_available(dev, p, q)
      /\ \/ \* A change of priority only.
            /\ mapped # 0 \/ (unmap = 0 /\ asked)
            /\ dev' = d
            /\ op' = done
            /\ UNCHANGED efault
         \/ \* The queue's unmap is called off.
            /\ mapped = 0 /\ unmap # 0
            /\ dev' = slot_state_transition(d, p, q, unmap, "MAPPED")
            /\ op' = done
            /\ UNCHANGED efault
         \/ \* All slots are in use; wait for the slot of another queue.
            /\ mapped = 0 /\ unmap = 0 /\ ~asked
            /\ free = 0 /\ parking # 0
            /\ dev' = slot_state_transition(
                        [d EXCEPT !.qid_map[p][parking].pending_qid = q],
                        p, q, parking, "UNMAP_IN_PROG_PENDING_MAP")
            /\ op' = done
            /\ UNCHANGED efault
         \/ /\ mapped = 0 /\ unmap = 0 /\ ~asked
            /\ free # 0
            /\ map_qid(d, p, q, done)
            /\ UNCHANGED efault
         \/ \* "No available unmapped slots": the error return leaves the CQ
            \* disabled and, after a dynamic attempt, the queue stopped.
            /\ mapped = 0 /\ unmap = 0 /\ ~asked
            /\ free = 0 /\ parking = 0
            /\ dev' = IF domain = "started" THEN begin_map_qid_dynamic(d, p, q) ELSE d
            /\ op' = Idle
            /\ efault' = TRUE
      /\ UNCHANGED <<enabled, domain, infl>>

MapDone ==
  /\ At("map_done")
  /\ dev' = enable_if_wanted(dev, op.p)
  /\ op' = Idle
  /\ UNCHANGED <<enabled, domain, infl, efault>>

-----------------------------------------------------------------------------
(* dlb2_hw_unmap_qid.  A queue the application has not mapped is refused   *)
(* without a change.                                                       *)

(* A map in progress is aborted.                                           *)
UnmapAbort(p, q) ==
  LET s == find_slot_queue(dev, p, "MAP_IN_PROG", q)
      reopened == IF dev.queue_additions[q] = 0 THEN set_inflight_limit(dev, q) ELSE dev
  IN  /\ MutexFree
      /\ s # 0
      /\ dev' = slot_state_transition(reopened, p, q, s, "UNMAPPED")
      /\ UNCHANGED <<enabled, domain, infl, op, efault>>

(* A map that waits for a slot is withdrawn.                               *)
UnmapWithdraw(p, q) ==
  LET s == find_slot_with_pending_map_queue(dev, p, q)
  IN  /\ MutexFree
      /\ find_slot_queue(dev, p, "MAP_IN_PROG", q) = 0
      /\ s # 0
      /\ dev' = slot_state_transition(dev, p, q, s, "UNMAP_IN_PROG")
      /\ UNCHANGED <<enabled, domain, infl, op, efault>>

(* The worker is not launched when the CQ still owes completions.          *)
Bug_UnmapStart_asleep(p, q) ==
  LET s == find_slot_queue(dev, p, "MAPPED", q)
  IN  /\ MutexFree
      /\ find_slot_queue(dev, p, "MAP_IN_PROG", q) = 0
      /\ find_slot_with_pending_map_queue(dev, p, q) = 0
      /\ s # 0
      /\ dev' = slot_state_transition(cq_disable(dev, p), p, q, s, "UNMAP_IN_PROG")
      /\ op' = IF CqDrained(p) THEN [Idle EXCEPT !.pc = "unmap_slots", !.p = p] ELSE op
      /\ UNCHANGED <<enabled, domain, infl, efault>>

(* A mapped queue is unmapped now if its CQ owes nothing, later otherwise. *)
UnmapStart(p, q) ==
  LET s == find_slot_queue(dev, p, "MAPPED", q)
      marked == slot_state_transition(cq_disable(dev, p), p, q, s, "UNMAP_IN_PROG")
  IN  /\ MutexFree
      /\ find_slot_queue(dev, p, "MAP_IN_PROG", q) = 0
      /\ find_slot_with_pending_map_queue(dev, p, q) = 0
      /\ s # 0
      /\ dev' = IF CqDrained(p) THEN marked ELSE schedule_work(marked)
      /\ op' = IF CqDrained(p) THEN [Idle EXCEPT !.pc = "unmap_slots", !.p = p] ELSE op
      /\ UNCHANGED <<enabled, domain, infl, efault>>

UnmapQid(p, q) == UnmapAbort(p, q) \/ UnmapWithdraw(p, q) \/ UnmapStart(p, q)

-----------------------------------------------------------------------------
(* Port enable and disable, domain start and stop.                         *)

EnablePort(p) ==
  /\ MutexFree
  /\ ~enabled[p]
  /\ dev' = cq_enable(dev, p)
  /\ enabled' = [enabled EXCEPT ![p] = TRUE]
  /\ UNCHANGED <<domain, infl, op, efault>>

DisablePort(p) ==
  /\ MutexFree
  /\ enabled[p]
  /\ dev' = cq_disable(dev, p)
  /\ enabled' = [enabled EXCEPT ![p] = FALSE]
  /\ UNCHANGED <<domain, infl, op, efault>>

StartDomain ==
  /\ MutexFree
  /\ domain # "started"
  /\ domain' = "started"
  /\ UNCHANGED <<dev, enabled, infl, op, efault>>

(* The driver itself returns what the CQs owe; the queues may hold more.   *)
StopDomain ==
  /\ MutexFree
  /\ domain = "started"
  /\ domain' = "stopped"
  /\ infl' = [p \in Ports |-> [q \in Queues |-> 0]]
  /\ UNCHANGED <<dev, enabled, op, efault>>

-----------------------------------------------------------------------------
(* The worker, dlb2_complete_queue_map_unmap: one pass over the removals   *)
(* of every port, then over the additions, and again while any is left.    *)
(* The code visits the ports in the order of a list that any creation      *)
(* order can produce; the model takes every order.                         *)

WorkerStart ==
  /\ MutexFree
  /\ dev.work_queued
  /\ dev' = [dev EXCEPT !.work_queued = FALSE]
  /\ op' = [Idle EXCEPT !.pc = "worker_unmap",
                        !.todo = IF dev.removals = 0 THEN {} ELSE Ports]
  /\ UNCHANGED <<enabled, domain, infl, efault>>

(* The completions the CQ owes are not waited for.                         *)
Bug_WorkerUnmapPort ==
  /\ At("worker_unmap")
  /\ \E p \in op.todo :
       op' = IF dev.port_removals[p] > 0
             THEN [op EXCEPT !.todo = @ \ {p}, !.pc = "unmap_slots", !.p = p,
                             !.caller = "worker_unmap"]
             ELSE [op EXCEPT !.todo = @ \ {p}]
  /\ UNCHANGED <<dev, enabled, domain, infl, efault>>

WorkerUnmapPort ==
  /\ At("worker_unmap")
  /\ \E p \in op.todo :
       op' = IF dev.port_removals[p] > 0 /\ CqDrained(p)
             THEN [op EXCEPT !.todo = @ \ {p}, !.pc = "unmap_slots", !.p = p,
                             !.caller = "worker_unmap"]
             ELSE [op EXCEPT !.todo = @ \ {p}]
  /\ UNCHANGED <<dev, enabled, domain, infl, efault>>

WorkerUnmapDone ==
  /\ At("worker_unmap")
  /\ op.todo = {}
  /\ op' = [op EXCEPT !.pc = "worker_map",
                      !.todo = IF dev.additions = 0 THEN {} ELSE Ports]
  /\ UNCHANGED <<dev, enabled, domain, infl, efault>>

WorkerMapPort ==
  /\ At("worker_map")
  /\ \E p \in op.todo :
       op' = [op EXCEPT !.todo = @ \ {p}, !.pc = "map_slots", !.p = p]
  /\ UNCHANGED <<dev, enabled, domain, infl, efault>>

(* The loop of finish_map_port: the next slot with a map in progress.      *)
FinishMapPortSlot ==
  LET s == First({t \in SlotsWith(dev, op.p, {"MAP_IN_PROG"}) : t > op.s})
      q == dev.qid_map[op.p][s].qid
  IN  /\ At("map_slots")
      /\ s # 0
      /\ op' = IF QidDrained(q)
               THEN [op EXCEPT !.s = s, !.pc = "disable_cqs", !.then = "map_slots",
                                !.mq = q]
               ELSE [op EXCEPT !.s = s]
      /\ UNCHANGED <<dev, enabled, domain, infl, efault>>

FinishMapPortDone ==
  /\ At("map_slots")
  /\ \A t \in SlotsWith(dev, op.p, {"MAP_IN_PROG"}) : t <= op.s
  /\ op' = [op EXCEPT !.pc = "worker_map", !.p = None, !.s = 0]
  /\ UNCHANGED <<dev, enabled, domain, infl, efault>>

(* The worker retires when no removal is left, whatever is to be added.    *)
WorkerEnd ==
  /\ At("worker_map")
  /\ op.todo = {}
  /\ dev' = IF dev.removals + dev.additions # 0
            THEN [dev EXCEPT !.work_queued = TRUE]
            ELSE [dev EXCEPT !.worker_launched = FALSE]
  /\ op' = Idle
  /\ UNCHANGED <<enabled, domain, infl, efault>>

-----------------------------------------------------------------------------
(* The device and the application.                                         *)

(* The scheduler gives an event of q to p: the tables hold the pair, the   *)
(* CQ is enabled, and the queue's limit allows it or allowed it when the   *)
(* decision was taken.                                                     *)
Schedule(p, q) ==
  /\ domain # "configured"
  /\ ~dev.cq_disabled[p]
  /\ \E s \in Slots : dev.cq2qid[p][s] = q
  /\ dev.infl_lim[q] # "zero"
  /\ infl[p][q] < MaxInflights
  /\ infl' = [infl EXCEPT ![p][q] = @ + 1]
  /\ dev' = [dev EXCEPT !.infl_lim[q] = IF @ = "closing" THEN "zero" ELSE @]
  /\ UNCHANGED <<enabled, domain, op, efault>>

(* The application completes an event (a release or a forward).            *)
Complete(p, q) ==
  /\ infl[p][q] > 0
  /\ infl' = [infl EXCEPT ![p][q] = @ - 1]
  /\ UNCHANGED <<dev, enabled, domain, op, efault>>

-----------------------------------------------------------------------------
EmptySlot == [state |-> "UNMAPPED", qid |-> None, pending_qid |-> None]

(* A new domain: queues and ports configured, ports enabled, nothing mapped. *)
Init ==
  /\ dev = [qid_map         |-> [p \in Ports |-> [s \in Slots |-> EmptySlot]],
            port_mappings   |-> [p \in Ports |-> 0],
            port_removals   |-> [p \in Ports |-> 0],
            queue_mappings  |-> [q \in Queues |-> 0],
            queue_additions |-> [q \in Queues |-> 0],
            additions       |-> 0,
            removals        |-> 0,
            cq_disabled     |-> [p \in Ports |-> FALSE],
            cq2qid          |-> [p \in Ports |-> [s \in Slots |-> None]],
            infl_lim        |-> [q \in Queues |-> "full"],
            worker_launched |-> FALSE,
            work_queued     |-> FALSE]
  /\ enabled = [p \in Ports |-> TRUE]
  /\ domain = "configured"
  /\ infl = [p \in Ports |-> [q \in Queues |-> 0]]
  /\ op = Idle
  /\ efault = FALSE

(* What the mutex holder does next, once an entry point has taken it.      *)
Holder ==
  \/ DisableCqs \/ Reread \/ FinishMapRead \/ WriteMap
  \/ FinishUnmapPortSlot \/ FinishUnmapPortDone
  \/ MapReject \/ MapAccept \/ MapDone
  \/ WorkerUnmapPort \/ WorkerUnmapDone
  \/ WorkerMapPort \/ FinishMapPortSlot \/ FinishMapPortDone \/ WorkerEnd

Ioctl ==
  \/ \E p \in Ports, q \in Queues : MapQid(p, q) \/ UnmapQid(p, q)
  \/ \E p \in Ports : EnablePort(p) \/ DisablePort(p)
  \/ StartDomain \/ StopDomain

Next ==
  \/ Ioctl
  \/ Holder
  \/ WorkerStart
  \/ \E p \in Ports, q \in Queues : Schedule(p, q) \/ Complete(p, q)

Spec == Init /\ [][Next]_vars

(* The holder of the mutex runs on; the worker gets the mutex however often *)
(* the ioctls do (mutex handoff); the application completes what it is given. *)
Fairness ==
  /\ WF_vars(Holder)
  /\ SF_vars(WorkerStart)
  /\ \A p \in Ports, q \in Queues : WF_vars(Complete(p, q))

FairSpec == Spec /\ Fairness

-----------------------------------------------------------------------------
HolderPcs == {"idle", "disable_cqs", "reread", "finish_map", "write_map", "unmap_slots",
              "map_verify", "map_done", "worker_unmap", "worker_map", "map_slots"}

TypeOK ==
  /\ dev \in [qid_map : [Ports -> [Slots ->
                [state : SlotStates, qid : Queues \cup {None},
                 pending_qid : Queues \cup {None}]]],
              port_mappings : [Ports -> Nat],
              port_removals : [Ports -> Nat],
              queue_mappings : [Queues -> Int],
              queue_additions : [Queues -> Int],
              additions : Int,
              removals : Int,
              cq_disabled : [Ports -> BOOLEAN],
              cq2qid : [Ports -> [Slots -> Queues \cup {None}]],
              infl_lim : [Queues -> {"full", "closing", "zero"}],
              worker_launched : BOOLEAN,
              work_queued : BOOLEAN]
  /\ enabled \in [Ports -> BOOLEAN]
  /\ domain \in {"configured", "started", "stopped"}
  /\ infl \in [Ports -> [Queues -> 0 .. MaxInflights]]
  /\ op \in [pc : HolderPcs, then : HolderPcs, caller : HolderPcs,
             p : Ports \cup {None}, q : Queues \cup {None}, mq : Queues \cup {None},
             s : Slots \cup {0}, todo : SUBSET Ports]
  /\ efault \in BOOLEAN

-----------------------------------------------------------------------------
(* Safety.                                                                 *)

(* A port's two counters say how many of its slots the hardware tables     *)
(* hold, and how many wait for a removal: the guards of cq_enable, of      *)
(* slot_available and of the loops read the counters, never the slots.     *)
PortCounters ==
  \A p \in Ports :
    /\ dev.port_mappings[p] = Cardinality(SlotsWith(dev, p, InHardware))
    /\ dev.port_removals[p] = Cardinality(SlotsWith(dev, p, Removing))

Cells(states) == {c \in Ports \X Slots : dev.qid_map[c[1]][c[2]].state \in states}

Holding(q, states) == {c \in Cells(states) : dev.qid_map[c[1]][c[2]].qid = q}

(* The counters of the queues and of the domain agree with the slots; the  *)
(* worker stops, and finish_map re-opens a queue, when they are zero.      *)
QueueAndDomainCounters ==
  /\ \A q \in Queues :
       /\ dev.queue_mappings[q] = Cardinality(Holding(q, InHardware))
       /\ dev.queue_additions[q] = Cardinality(Holding(q, {"MAP_IN_PROG"}))
  /\ dev.additions = Cardinality(Cells({"MAP_IN_PROG"}))
  /\ dev.removals = Cardinality(Cells(Removing))

(* A CQ with a removal pending stays disabled whatever else is mapped,     *)
(* enabled or finished meanwhile.                                          *)
RemovalKeepsCqOff ==
  \A p \in Ports : dev.port_removals[p] > 0 => dev.cq_disabled[p]

(* ... so that no new event reaches it: its inflights only shrink.         *)
RemovalOnlyDrains ==
  [][\A p \in Ports : dev.port_removals[p] > 0 =>
       \A q \in Queues : infl'[p][q] <= infl[p][q]]_vars

(* In a running domain the tables give a queue to another CQ only while no *)
(* event of the queue is inflight anywhere (the reason for the inflight    *)
(* limit, the two reads and the disabled CQs).                             *)
MapOnlyWhenQuiet ==
  [][domain = "started" =>
       \A p \in Ports, s \in Slots :
         LET q == dev'.cq2qid[p][s]
         IN  q # None /\ dev.cq2qid[p][s] # q => QidDrained(q)]_vars

(* The tables take a queue from a CQ only when the CQ owes no completion,  *)
(* although the count is read once for a loop over many slots.             *)
UnmapOnlyWhenDrained ==
  [][\A p \in Ports, s \in Slots :
       dev.cq2qid[p][s] # None /\ dev'.cq2qid[p][s] # dev.cq2qid[p][s]
         => CqDrained(p)]_vars

(* The tables of the device are those the driver believes in.              *)
HardwareMatchesDriver ==
  \A p \in Ports, s \in Slots :
    dev.cq2qid[p][s] = IF dev.qid_map[p][s].state \in InHardware
                       THEN dev.qid_map[p][s].qid ELSE None

(* Between entry points a CQ the application wants enabled is enabled,     *)
(* unless a removal holds it or a request failed with an internal error.   *)
EnabledPortServed ==
  MutexFree /\ ~efault =>
    \A p \in Ports : enabled[p] /\ dev.port_removals[p] = 0 => ~dev.cq_disabled[p]

-----------------------------------------------------------------------------
(* The requested state, and the promise that only requests change it.      *)

Requested(p) ==
  {dev.qid_map[p][s].qid : s \in SlotsWith(dev, p, {"MAPPED", "MAP_IN_PROG"})}
  \cup {dev.qid_map[p][s].pending_qid :
          s \in SlotsWith(dev, p, {"UNMAP_IN_PROG_PENDING_MAP"})}

Activity == IF MutexFree THEN "none"
            ELSE IF op.q # None THEN "mapping" ELSE "finishing"

Promise == INSTANCE QidRequests WITH
             requested <- [p \in Ports |-> Requested(p)],
             activity <- Activity

(* The asynchronous procedures, the worker included, implement requests    *)
(* that complete at once.                                                  *)
ImplementsRequests == Promise!Spec

(* Every request completes: a removal leaves its port ...                  *)
RemovalsComplete ==
  \A p \in Ports : dev.port_removals[p] > 0 ~> dev.port_removals[p] = 0

(* ... and once the application stops asking, nothing stays pending.  (A   *)
(* map in progress can be starved by endless maps and unmaps of the same   *)
(* queue on other ports: each lets the queue run for a moment.)            *)
PendingCompletes ==
  <>[][~Ioctl]_vars => <>[](dev.removals + dev.additions = 0)

(* The application asks again for a queue whose own removal has another     *)
(* queue waiting for its slot.                                             *)
Rerequested(p) ==
  \E s \in SlotsWith(dev, p, {"UNMAP_IN_PROG_PENDING_MAP"}) :
    dev.qid_map[p][s].qid \in Requested(p)

=============================================================================
