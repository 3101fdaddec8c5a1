----------------------------- MODULE SwCredits -----------------------------
(***************************************************************************)
(* The software credits of libdlb (libdlb/dlb.c) in one scheduling domain. *)
(*                                                                         *)
(* An event may be enqueued only against a credit, one unit of the         *)
(* device's event storage.  Free credits are in the domain's pool, which   *)
(* the ports share through atomic operations, and in a cache per port,     *)
(* which only the port's own thread is meant to touch.  A send spends      *)
(* credits of its port; a receive puts one credit per event in the cache   *)
(* of the receiving port.  Five policies decide when a cache goes back to  *)
(* the pool.                                                               *)
(*                                                                         *)
(* Each port has two agents: "io", the thread in the datapath functions,   *)
(* and "ctl", a thread in dlb_enable_port or dlb_disable_port, which hold  *)
(* a mutex the datapath does not take.  A step of an agent makes at most   *)
(* one access to a pool.                                                   *)
(***************************************************************************)
EXTENDS Integers, Sequences, FiniteSets, Functions

CONSTANTS
  Ports,         \* the ports of the domain
  DirPorts,      \* the directed ones among them
  Senders,       \* the ports whose threads send events with dlb_send
  AdvSenders,    \* ... with dlb_adv_send
  Receivers,     \* the ports whose threads receive events
  EpollPorts,    \* the ports of dlb_enable_cq_epoll
  Disabled,      \* the ports some thread disables and enables
  Combined,      \* cap.combined_credits: TRUE on DLB 2.5, FALSE on DLB 2.0
  Total,         \* the number of credits of each type
  Batch,         \* DLB_SW_CREDIT_BATCH_SZ, 32 in the code
  ZeroDeqThres,  \* DLB_ZERO_DEQ_CREDIT_RETURN_THRES, 64
  EnqFailThres,  \* DLB_ENQ_FAIL_CREDIT_RETURN_THRES, 100
  BatchThres,    \* DLB_BATCH_SZ_EXCEED_CREDIT_RETURN_THRES, 64
  ChunkSize,     \* events in one write to the device, 4
  MaxSend,       \* bound: events of one send
  MaxRecv,       \* bound: events asked for by one receive
  Exclusive      \* TRUE: nobody disables a port while its thread is in a
                 \* datapath function; FALSE: also while it is blocked in one

Types == {"LDB", "DIR"}

ASSUME SwCreditsAssumption ==
  /\ IsFiniteSet(Ports)
  /\ {DirPorts, Senders, AdvSenders, Receivers, EpollPorts, Disabled}
       \subseteq SUBSET Ports
  /\ Combined \in BOOLEAN /\ Exclusive \in BOOLEAN
  /\ Total \in [Types -> Nat] /\ (Combined => Total["DIR"] = 0)
  /\ {Batch, ZeroDeqThres, EnqFailThres, BatchThres, ChunkSize} \subseteq Nat \ {0}
  /\ {MaxSend, MaxRecv} \subseteq Nat

VARIABLES
  pool,        \* avail_credits of the domain's pool, by type
  num,         \* port->credits[type].num, the caches
  ret_count,   \* port->credit_return_count
  enabled,     \* port->enabled
  scheduling,  \* the device schedules to the port's CQ
  device,      \* events stored in the device, by the type of their credit
  cq,          \* events in the port's consumer queue
  th           \* the agents

vars == <<pool, num, ret_count, enabled, scheduling, device, cq, th>>
portVars == <<enabled, scheduling>>
eventVars == <<device, cq>>

Agents == Ports \X {"io", "ctl"}
io(p)  == <<p, "io">>
ctl(p) == <<p, "ctl">>

MaxWord == 65535
Words == 0 .. MaxWord
u16(n) == n % 65536
AtMost(m, n) == IF m < n THEN m ELSE n

-----------------------------------------------------------------------------
(* The table credit_return[] of the policies.                              *)
credit_thres ==
  [ZERO_DEQ |-> 0, ENQ_FAIL |-> 0, BATCH_SZ_EXCEED |-> Batch,
   BATCH_2SZ_EXCEED |-> 2 * Batch, RETURN_ALL |-> 0]
credit_rem ==
  [ZERO_DEQ |-> 0, ENQ_FAIL |-> 0, BATCH_SZ_EXCEED |-> Batch,
   BATCH_2SZ_EXCEED |-> Batch, RETURN_ALL |-> 0]
cnt_thres ==
  [ZERO_DEQ |-> ZeroDeqThres, ENQ_FAIL |-> EnqFailThres,
   BATCH_SZ_EXCEED |-> BatchThres, BATCH_2SZ_EXCEED |-> 0, RETURN_ALL |-> 0]
Policies == DOMAIN cnt_thres

(* The credit types the release loop and LOW_POOL_CREDITS go through.      *)
PoolTypes == IF Combined THEN <<"LDB">> ELSE <<"LDB", "DIR">>

(* The type of the credits a port receives: dlb2_inc_port_credits.         *)
RecvType(p) == IF Combined \/ p \notin DirPorts THEN "LDB" ELSE "DIR"

(* A command that needs no credit, as dlb_adv_send may mix in.             *)
Free == "FREE"
EventsIn(chunk, t) == Cardinality({i \in DOMAIN chunk : chunk[i] = t})
SeqsUpTo(S, n) == UNION {[1 .. m -> S] : m \in 0 .. n}

(* What a call of dlb_send puts to the send loop: on a 2.5 device every    *)
(* event is charged to the one pool there is.                              *)
SendTypes == IF Combined THEN {"LDB"} ELSE Types

(* A pending call of dlb2_check_and_release_credits.                       *)
Call(policy, cond) == [policy |-> policy, cond |-> cond]

(* dlb2_release_port_credits.                                              *)
release_port_credits(failed) ==
  <<Call("BATCH_2SZ_EXCEED", TRUE), Call("ENQ_FAIL", failed)>>

(* The local state of an agent outside any call; got is what its last      *)
(* receive returned.                                                       *)
Idle(got) ==
  [pc |-> "idle", next |-> "idle", calls |-> <<>>, types |-> <<>>, val |-> 0,
   held |-> FALSE, want |-> <<>>, chunk |-> <<>>, used |-> [t \in Types |-> 0],
   count |-> 0, seen |-> 0, tried |-> FALSE, max |-> 0, wait |-> FALSE,
   pop |-> FALSE, taken |-> 0, got |-> got, sched_only |-> FALSE]

(* The agent's state when it makes these calls and then goes on at next.   *)
Releasing(r, calls, next) ==
  [r EXCEPT !.pc = "release", !.next = next, !.calls = calls,
            !.types = PoolTypes, !.held = FALSE]

GoOn(r, pc) == IF pc = "idle" THEN Idle(r.got) ELSE [r EXCEPT !.pc = pc]

Init ==
  /\ pool = Total
  /\ num = [p \in Ports |-> [t \in Types |-> 0]]
  /\ ret_count = [p \in Ports |-> [y \in Policies |-> 0]]
  /\ enabled = [p \in Ports |-> TRUE]
  /\ scheduling = [p \in Ports |-> TRUE]
  /\ device = [t \in Types |-> 0]
  /\ cq = [p \in Ports |-> 0]
  /\ th = [a \in Agents |-> Idle(0)]

(* The port's thread is at pc and may go on.  No thread starts a call while *)
(* its port is being disabled: the application sees to that.               *)
At(p, pc) ==
  /\ th[io(p)].pc = pc
  /\ Exclusive \/ pc = "idle" => th[ctl(p)].pc = "idle"

-----------------------------------------------------------------------------
(* dlb2_check_and_release_credits, one credit type at a time.              *)

(* The loop goes to the next type; after the last one the count of the     *)
(* policy is updated and the call returns.                                 *)
NextType(a, r) ==
  LET c == Head(r.calls)
      rest == Tail(r.calls)
      p == a[1]
  IN IF Len(r.types) > 1
     THEN /\ th' = [th EXCEPT ![a] = [r EXCEPT !.pc = "release", !.types = Tail(@), !.val = 0]]
          /\ UNCHANGED ret_count
     ELSE /\ ret_count' = IF cnt_thres[c.policy] = 0 THEN ret_count
                          ELSE [ret_count EXCEPT ![p][c.policy] =
                                  IF r.held THEN u16(@ + 1) ELSE 0]
          /\ th' = [th EXCEPT ![a] =
                      IF rest = <<>>
                      THEN GoOn([r EXCEPT !.calls = <<>>, !.types = <<>>, !.val = 0,
                                          !.held = FALSE], r.next)
                      ELSE Releasing([r EXCEPT !.val = 0], rest, r.next)]

(* The cache is above the policy's threshold.                              *)
Exceeds(a) ==
  LET c == Head(th[a].calls) IN
  c.cond /\ num[a[1]][Head(th[a].types)] > credit_thres[c.policy]

(* It has been so often enough.                                            *)
LongEnough(a) ==
  LET y == Head(th[a].calls).policy IN ret_count[a[1]][y] >= cnt_thres[y]

(* The atomic addition to the pool ...                                     *)
GiveBack(a) ==
  LET t == Head(th[a].types)
      val == num[a[1]][t] - credit_rem[Head(th[a].calls).policy]
  IN /\ th[a].pc = "release"
     /\ Exceeds(a) /\ LongEnough(a)
     /\ pool' = [pool EXCEPT ![t] = @ + val]
     /\ th' = [th EXCEPT ![a] = [@ EXCEPT !.pc = "deduct", !.val = val]]
     /\ UNCHANGED <<num, ret_count, portVars, eventVars>>

(* ... and then the subtraction from the cache.                            *)
Deduct(a) ==
  /\ th[a].pc = "deduct"
  /\ num' = [num EXCEPT ![a[1]][Head(th[a].types)] = u16(@ - th[a].val)]
  /\ NextType(a, th[a])
  /\ UNCHANGED <<pool, portVars, eventVars>>

(* The cache is not large enough, or not yet for long enough.              *)
Keep(a) ==
  /\ th[a].pc = "release"
  /\ ~(Exceeds(a) /\ LongEnough(a))
  /\ NextType(a, [th[a] EXCEPT !.held = @ \/ Exceeds(a)])
  /\ UNCHANGED <<pool, num, portVars, eventVars>>

-----------------------------------------------------------------------------
(* Sending: __dlb2_adv_send, __dlb2_5_adv_send.                            *)

(* A call with these events.  A disabled port refuses it, and that does    *)
(* not count as a failure to enqueue.                                      *)
Send(p, events) ==
  /\ At(p, "idle")
  /\ th' = [th EXCEPT ![io(p)] =
              IF enabled[p] THEN [Idle(0) EXCEPT !.pc = "build", !.want = events]
              ELSE Releasing(Idle(0), release_port_credits(FALSE), "idle")]
  /\ UNCHANGED <<pool, num, ret_count, portVars, eventVars>>

(* dlb_send, dlb_forward; and dlb_adv_send, which uses the loop of the 2.0 *)
(* device on every device.                                                 *)
dlb_send(p) ==
  p \in Senders /\ \E events \in SeqsUpTo(SendTypes, MaxSend) : Send(p, events)
dlb_adv_send(p) ==
  p \in AdvSenders /\ \E events \in SeqsUpTo(Types \cup {Free}, MaxSend) : Send(p, events)

(* The event at the head of the loop when the chunk has room.              *)
Building(p) ==
  /\ At(p, "build")
  /\ th[io(p)].want # <<>>
  /\ Len(th[io(p)].chunk) < ChunkSize

(* Bug: the credits used earlier in the same send are forgotten.           *)
Bug_OutOfCredits(p) ==
  LET e == Head(th[io(p)].want) IN e # Free /\ num[p][e] = 0

(* All credits of the event's type are spoken for.                         *)
OutOfCredits(p) ==
  LET e == Head(th[io(p)].want) IN e # Free /\ num[p][e] = th[io(p)].used[e]

(* The event goes into the chunk.                                          *)
Take(p) ==
  LET r == th[io(p)]
      e == Head(r.want)
  IN /\ Building(p)
     /\ ~OutOfCredits(p)
     /\ th' = [th EXCEPT ![io(p)] =
                 [r EXCEPT !.want = Tail(@), !.chunk = Append(@, e), !.count = @ + 1,
                           !.tried = FALSE,
                           !.used = [t \in Types |-> @[t] + IF t = e THEN 1 ELSE 0]]]
     /\ UNCHANGED <<pool, num, ret_count, portVars, eventVars>>

(* dlb2_refresh_port_credits reads the pool ...                            *)
ReadPool(p) ==
  /\ Building(p)
  /\ OutOfCredits(p) /\ ~th[io(p)].tried
  /\ th' = [th EXCEPT ![io(p)] =
              [@ EXCEPT !.pc = "refresh", !.seen = pool[Head(th[io(p)].want)]]]
  /\ UNCHANGED <<pool, num, ret_count, portVars, eventVars>>

(* Bug: a whole batch is taken from a pool that has less.                  *)
Bug_RefreshBatch(seen, credits) == IF seen # 0 /\ credits = seen THEN Batch ELSE 0

(* ... and takes a batch by a compare-and-swap, tried once.                *)
RefreshBatch(seen, credits) ==
  IF seen # 0 /\ credits = seen THEN AtMost(seen, Batch) ELSE 0

Refresh(p) ==
  LET r == th[io(p)]
      e == Head(r.want)
      batch == RefreshBatch(r.seen, pool[e])
  IN /\ At(p, "refresh")
     /\ pool' = [pool EXCEPT ![e] = @ - batch]
     /\ num' = [num EXCEPT ![p][e] = u16(@ + batch)]
     /\ th' = [th EXCEPT ![io(p)] =
                 [@ EXCEPT !.pc = "build", !.tried = TRUE, !.seen = 0]]
     /\ UNCHANGED <<ret_count, portVars, eventVars>>

(* Without a credit the loop ends.                                         *)
GiveUp(p) ==
  /\ Building(p)
  /\ OutOfCredits(p) /\ th[io(p)].tried
  /\ th' = [th EXCEPT ![io(p)] = [@ EXCEPT !.want = <<>>, !.tried = FALSE]]
  /\ UNCHANGED <<pool, num, ret_count, portVars, eventVars>>

(* The chunk is written to the device, if it holds anything.               *)
Enqueue(p) ==
  LET r == th[io(p)]
  IN /\ At(p, "build")
     /\ ~Building(p)
     /\ device' = [t \in Types |-> device[t] + EventsIn(r.chunk, t)]
     /\ th' = [th EXCEPT ![io(p)] =
                 [@ EXCEPT !.chunk = <<>>,
                           !.pc = IF r.want = <<>> THEN "charge" ELSE "build"]]
     /\ UNCHANGED <<pool, num, ret_count, portVars, cq>>

(* Bug: a load-balanced port is not charged for directed events.           *)
Bug_Charged(p) ==
  [num[p] EXCEPT !["LDB"] = u16(@ - th[io(p)].used["LDB"])]

(* Only now are the credits taken off the cache.                           *)
Charged(p) == [t \in Types |-> u16(num[p][t] - th[io(p)].used[t])]

Charge(p) ==
  LET r == th[io(p)] IN
  /\ At(p, "charge")
  /\ num' = [num EXCEPT ![p] = Charged(p)]
  /\ th' = [th EXCEPT ![io(p)] =
              Releasing(Idle(0), release_port_credits(r.count = 0), "idle")]
  /\ UNCHANGED <<pool, ret_count, portVars, eventVars>>

(* dlb_release and dlb_pop_cq; only a port that receives owes completions. *)
(* A release of events that are not owed is cut to none, and then counts   *)
(* as a failure to enqueue.                                                *)
send_no_credits(p) ==
  /\ p \in Receivers
  /\ At(p, "idle")
  /\ \E failed \in BOOLEAN :
       th' = [th EXCEPT ![io(p)] =
                Releasing(Idle(0), release_port_credits(failed), "idle")]
  /\ UNCHANGED <<pool, num, ret_count, portVars, eventVars>>

-----------------------------------------------------------------------------
(* Receiving: __dlb_recv.                                                  *)

NotifyDisabled(p) == ~enabled[p] /\ cq[p] = 0

(* A disabled port whose CQ is empty fails the call at once.               *)
Receive(p, max, wait, pop) ==
  /\ At(p, "idle")
  /\ th' = [th EXCEPT ![io(p)] =
              IF NotifyDisabled(p) THEN Idle(0)
              ELSE Releasing([Idle(0) EXCEPT !.max = max, !.wait = wait, !.pop = pop],
                             <<Call("BATCH_SZ_EXCEED", TRUE)>>, "ready")]
  /\ UNCHANGED <<pool, num, ret_count, portVars, eventVars>>

(* dlb_recv, dlb_recv_no_pop.                                              *)
dlb_recv(p) ==
  p \in Receivers /\ \E max \in 0 .. MaxRecv, wait, pop \in BOOLEAN : Receive(p, max, wait, pop)

(* Before blocking on an empty CQ the thread looks at the pools.           *)
Ready(p) ==
  /\ At(p, "ready")
  /\ th' = [th EXCEPT ![io(p)] =
              IF @.wait /\ cq[p] = 0
              THEN [@ EXCEPT !.pc = "low_pool", !.types = PoolTypes, !.next = "wait"]
              ELSE [@ EXCEPT !.pc = "take"]]
  /\ UNCHANGED <<pool, num, ret_count, portVars, eventVars>>

(* Bug: the cache goes back when the pool is full.                         *)
Bug_Low(t) == pool[t] > Batch
Low(t) == pool[t] < Batch

(* LOW_POOL_CREDITS reads one pool after the other until one is low; if    *)
(* one is, everything in the cache is released.                            *)
LowPool(p) ==
  LET r == th[io(p)]
      low == Low(Head(r.types))
      done == low \/ Len(r.types) = 1
  IN /\ At(p, "low_pool")
     /\ th' = [th EXCEPT ![io(p)] =
                 IF done THEN Releasing(r, <<Call("RETURN_ALL", low)>>, r.next)
                 ELSE [r EXCEPT !.types = Tail(@)]]
     /\ UNCHANGED <<pool, num, ret_count, portVars, eventVars>>

(* wait_func returns: the CQ is not empty, or the port is disabled, ...    *)
WakeUp(p) ==
  /\ At(p, "wait")
  /\ ~enabled[p] \/ cq[p] # 0
  /\ th' = [th EXCEPT ![io(p)] = IF NotifyDisabled(p) THEN Idle(0)
                                 ELSE [@ EXCEPT !.pc = "take"]]
  /\ UNCHANGED <<pool, num, ret_count, portVars, eventVars>>

(* ... or the time is up, ...                                              *)
TimeOut(p) ==
  /\ At(p, "wait")
  /\ enabled[p] /\ cq[p] = 0
  /\ th' = [th EXCEPT ![io(p)].pc = "take"]
  /\ UNCHANGED <<pool, num, ret_count, portVars, eventVars>>

(* ... or it fails, and the call with it.                                  *)
WaitFails(p) ==
  /\ At(p, "wait")
  /\ th' = [th EXCEPT ![io(p)] = Idle(0)]
  /\ UNCHANGED <<pool, num, ret_count, portVars, eventVars>>

(* Up to max events are copied from the CQ.  With epoll an empty CQ is a   *)
(* reason to look at the pools.                                            *)
Dequeue(p) ==
  LET k == AtMost(th[io(p)].max, cq[p]) IN
  /\ At(p, "take")
  /\ cq' = [cq EXCEPT ![p] = @ - k]
  /\ th' = [th EXCEPT ![io(p)] =
              IF p \in EpollPorts /\ k = cq[p]
              THEN [@ EXCEPT !.pc = "low_pool", !.types = PoolTypes, !.next = "credit",
                             !.taken = k]
              ELSE [@ EXCEPT !.pc = "credit", !.taken = k]]
  /\ UNCHANGED <<pool, num, ret_count, portVars, device>>

(* Bug: every receive counts as one that found nothing.                    *)
Bug_RecvCalls(r) ==
  <<Call("ZERO_DEQ", TRUE)>>
    \o (IF r.pop /\ r.taken # 0 THEN release_port_credits(FALSE) ELSE <<>>)

RecvCalls(r) ==
  <<Call("ZERO_DEQ", r.taken = 0)>>
    \o (IF r.pop /\ r.taken # 0 THEN release_port_credits(FALSE) ELSE <<>>)

(* Bug: the events asked for are credited, not the events received.        *)
Bug_Credit(p) ==
  LET r == th[io(p)] IN
  /\ At(p, "credit")
  /\ num' = [num EXCEPT ![p][RecvType(p)] = u16(@ + r.max)]
  /\ th' = [th EXCEPT ![io(p)] = Releasing(Idle(r.taken), RecvCalls(r), "idle")]
  /\ UNCHANGED <<pool, ret_count, portVars, eventVars>>

(* The credits of the events go to this port's cache; dlb_recv then        *)
(* returns the tokens by dlb_pop_cq.                                       *)
Credit(p) ==
  LET r == th[io(p)] IN
  /\ At(p, "credit")
  /\ num' = [num EXCEPT ![p][RecvType(p)] = u16(@ + r.taken)]
  /\ th' = [th EXCEPT ![io(p)] =
              Releasing(Idle(r.taken), RecvCalls(r), "idle")]
  /\ UNCHANGED <<pool, ret_count, portVars, eventVars>>

-----------------------------------------------------------------------------
(* dlb_disable_port, dlb_disable_port_sched, and their counterparts.       *)

disable_port(p) ==
  /\ p \in Disabled
  /\ th[ctl(p)].pc = "idle"
  /\ th[io(p)].pc \in IF Exclusive THEN {"idle"} ELSE {"idle", "wait"}
  /\ \E sched_only \in BOOLEAN :
       th' = [[th EXCEPT ![io(p)].got = 0]
                EXCEPT ![ctl(p)] =
                  Releasing([Idle(0) EXCEPT !.sched_only = sched_only],
                            <<Call("RETURN_ALL", TRUE)>>, "ioctl")]
  /\ UNCHANGED <<pool, num, ret_count, portVars, eventVars>>

(* The device stops scheduling to the port ...                             *)
DisableIoctl(p) ==
  /\ th[ctl(p)].pc = "ioctl"
  /\ scheduling' = [scheduling EXCEPT ![p] = FALSE]
  /\ th' = [th EXCEPT ![ctl(p)] = IF @.sched_only THEN Idle(0)
                                  ELSE [@ EXCEPT !.pc = "clear"]]
  /\ UNCHANGED <<pool, num, ret_count, enabled, eventVars>>

(* ... and then the datapath functions learn of it.                        *)
ClearEnabled(p) ==
  /\ th[ctl(p)].pc = "clear"
  /\ enabled' = [enabled EXCEPT ![p] = FALSE]
  /\ th' = [th EXCEPT ![ctl(p)] = Idle(0)]
  /\ UNCHANGED <<pool, num, ret_count, scheduling, eventVars>>

enable_port(p) ==
  /\ p \in Disabled
  /\ th[ctl(p)].pc = "idle"
  /\ scheduling' = [scheduling EXCEPT ![p] = TRUE]
  /\ \E sched_only \in BOOLEAN :
       enabled' = [enabled EXCEPT ![p] = @ \/ ~sched_only]
  /\ UNCHANGED <<pool, num, ret_count, eventVars, th>>

-----------------------------------------------------------------------------
(* External: the device hands one of its events to a port of the right     *)
(* kind.                                                                   *)
Schedule(p) ==
  /\ p \in Receivers
  /\ scheduling[p]
  /\ device[RecvType(p)] > 0
  /\ device' = [device EXCEPT ![RecvType(p)] = @ - 1]
  /\ cq' = [cq EXCEPT ![p] = @ + 1]
  /\ UNCHANGED <<pool, num, ret_count, portVars, th>>

(* The steps inside the calls, and the calls.                              *)
SendStep(p) == \/ Take(p) \/ ReadPool(p) \/ Refresh(p) \/ GiveUp(p)
               \/ Enqueue(p) \/ Charge(p)
RecvStep(p) == \/ Ready(p) \/ LowPool(p) \/ WakeUp(p) \/ Dequeue(p) \/ Credit(p)
DisableStep(p) == DisableIoctl(p) \/ ClearEnabled(p)
ReleaseStep(a) == GiveBack(a) \/ Deduct(a) \/ Keep(a)

Next ==
  \/ \E a \in Agents : ReleaseStep(a)
  \/ \E p \in Ports :
       \/ dlb_send(p) \/ dlb_adv_send(p) \/ send_no_credits(p) \/ SendStep(p)
       \/ dlb_recv(p) \/ RecvStep(p) \/ TimeOut(p) \/ WaitFails(p)
       \/ disable_port(p) \/ enable_port(p) \/ DisableStep(p)
       \/ Schedule(p)

Spec == Init /\ [][Next]_vars

(* Fairness.  A thread inside a function runs on, except that it may be    *)
(* blocked in wait_func for ever while its CQ is empty (interrupts have no *)
(* timeout).  The device delivers what it holds.  The application retries: *)
(* senders keep sending, receivers keep receiving.                         *)
Fairness ==
  /\ \A a \in Agents : WF_vars(ReleaseStep(a))
  /\ \A p \in Ports : /\ WF_vars(SendStep(p))
                      /\ WF_vars(RecvStep(p))
                      /\ WF_vars(DisableStep(p))
  /\ \A t \in Types : WF_vars(\E p \in Ports : RecvType(p) = t /\ Schedule(p))
  /\ \A p \in Senders :
       SF_vars(\E events \in SeqsUpTo(SendTypes, MaxSend) \ {<<>>} : Send(p, events))
  /\ \A p \in Receivers :
       SF_vars(\E max \in 1 .. MaxRecv, wait, pop \in BOOLEAN : Receive(p, max, wait, pop))

FairSpec == Spec /\ Fairness

-----------------------------------------------------------------------------
(* Properties.                                                             *)

TypeOK ==
  /\ pool \in [Types -> Nat]
  /\ num \in [Ports -> [Types -> Words]]
  /\ ret_count \in [Ports -> [Policies -> Words]]
  /\ enabled \in [Ports -> BOOLEAN]
  /\ scheduling \in [Ports -> BOOLEAN]
  /\ device \in [Types -> Nat]
  /\ cq \in [Ports -> Nat]
  /\ \A a \in Agents :
       /\ th[a].pc \in {"idle", "build", "refresh", "charge", "release", "deduct",
                        "ready", "low_pool", "wait", "take", "credit", "ioctl", "clear"}
       /\ th[a].pc \in {"release", "deduct", "low_pool"} => th[a].types # <<>>
       /\ th[a].pc \in {"release", "deduct"} => th[a].calls # <<>>
       /\ th[a].pc = "refresh" => th[a].want # <<>>

(* Events that hold storage: in the device, in a CQ, or taken from a CQ    *)
(* and not yet credited.                                                   *)
Stored(t) ==
  device[t] + SumFunction([p \in Ports |->
                             IF RecvType(p) = t THEN cq[p] + th[io(p)].taken ELSE 0])

(* Credits of a cache that are already spent: returned to the pool or used *)
(* for an event in the device, and not yet subtracted.                     *)
Spent(p, t) ==
  LET Deducting(a) == IF th[a].pc = "deduct" /\ Head(th[a].types) = t THEN th[a].val ELSE 0
      r == th[io(p)]
  IN Deducting(io(p)) + Deducting(ctl(p))
       + r.used[t] - EventsIn(r.chunk, t)

(* Credits that no event uses.                                             *)
Unused(t) == pool[t] + SumFunction([p \in Ports |-> num[p][t] - Spent(p, t)])

(* No credit is lost and none is made: at every point of every             *)
(* interleaving the pool, the caches, the device and the CQs account for   *)
(* each credit of the domain exactly once.                                 *)
CreditsConserved == \A t \in Types : Unused(t) + Stored(t) = Total[t]

(* The events in the device and the CQs never exceed the storage the       *)
(* credits stand for (dlb2_user.h: one credit represents the storage for   *)
(* one QE).                                                                *)
StorageSuffices == \A t \in Types : device[t] <= Total[t]

(* The caches are 16-bit and unchecked: what a thread is going to subtract *)
(* is there, although it decided so several steps before.                  *)
NoWrapAround == \A p \in Ports, t \in Types : Spent(p, t) \in 0 .. num[p][t]

(* A worker can forward what it received, up to a batch, from its own      *)
(* cache: no policy that runs inside the receive takes it away.            *)
WorkerKeepsCredits ==
  \A p \in Ports :
    th[io(p)].pc = "idle" => num[p][RecvType(p)] >= AtMost(th[io(p)].got, Batch)

(* Credits do not get stuck in caches: as long as the senders retry and    *)
(* the receivers receive, again and again some port sends an event.        *)
SomeoneSends ==
  []<>(\E p \in Ports, t \in Types :
         th[io(p)].pc = "charge" /\ th[io(p)].used[t] # 0)

(* What the credits are for: a store of limited capacity.                  *)
Account == INSTANCE CreditAccount
             WITH free   <- [t \in Types |-> Unused(t)],
                  stored <- [t \in Types |-> Stored(t)]

(* The distributed counters behave like one account per type: an enqueue   *)
(* moves credits from free to stored at once, a receive moves them back.   *)
ImplementsAccount == Account!Spec

=============================================================================
