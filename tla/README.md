# A verification of the DLB 2.x driver stack

Intel's Dynamic Load Balancer (DLB) moves *events* between CPU cores: producers
enqueue to *queues* (QIDs), the device's scheduler hands each event to one of
the *ports* whose *consumer queue* (CQ) is mapped to the queue, and the
application returns a *completion* for it.  The repository holds the Linux
driver and the client library for the device (`src/src/dlb_8.9.0`), and the
programs of a paper that use them (`src/src/dlb_bench`, `src/src/accdirect`,
`src/src/masstree`).  This directory holds TLA+ models of the parts whose
correctness depends on order and concurrency, TLC runs for small instances,
and TLAPS proofs for instances of any size.

Source paths below are relative to `src/src/dlb_8.9.0/` unless they start with
`src/`.  Line numbers refer to `driver/dlb2/base/dlb2_resource.c` when no file
is named.

## 1. The system

| Component | Where | State it keeps | Operations |
|---|---|---|---|
| QID→CQ mapping | `driver/dlb2/base/dlb2_resource.c` 2400–2720, 3260–4320, 4880–5770; worker in `dlb2_osdep.h` | eight slots per port (state, queue, pending queue), five counters, per-queue inflight limit, CQ enable bits, the device's mapping tables, the worker's flag | map, unmap, enable/disable port, start/stop domain, the worker's pass |
| Software credits and datapath | `libdlb/dlb.c`, `libdlb/dlb_priv.h` | credit pool per domain, credit cache per port, return policies | send, receive, pop, release, port enable/disable |
| CQ interrupts | `driver/dlb2/dlb2_intr.c`, `dlb.c` 3128–3227 | wake flag, armed flag, disabled flag per CQ | block on a CQ, interrupt, disable, device reset |
| Domain lifecycle and alert thread | `dlb.c` 2201–2495 | started, thread state flags, per-domain mutex | launch, read alert, reset, detach |
| Kernel domain alerts | `dlb2_main.c` 520–650 | ring of 256 alerts, read/write index, wait queue | write an alert, read alerts, wake on reset |
| Device reset (FLR) | `dlb2_main.c` 1335–1515, `dlb2_file.c` | reset flag, valid flag per file, reference counts | prepare, wait for users, zap mappings, done |
| Domain reset | `dlb2_resource.c` 8371–8985 | as the mapping component | drain, unmap, free everything of a domain |
| Resource partitioning | `dlb2_resource.c`, `dlb2_osdep_bitmap.h`, `dlb2_ioctl.c` | free and used lists per function, bitmaps | create domain, ports, queues; assign to VFs |
| PF/VF mailbox | `dlb2_mbox.h`, `dlb2_pf_ops.c`, `dlb2_vf_ops.c`, `dlb2_sriov.c` | request and response buffers and flags | send, poll, reply, notify |
| Scalable IOV, migration | `dlb2_vdcm.c`, `dlb2_vdcm_lm.c`, `dlb2_migration.c` | emulated configuration space | emulate, save, restore |
| Kernel datapath client | `dlb2_dp.c` | as the libdlb datapath | as the libdlb datapath |
| sysfs, perf, power | `dlb2_sdev.c`, `dlb2_perf.c` | counters | read |
| AccDirect | `src/src/accdirect/offload-rdma-dlb`, `cpu-rdma-dlb` | remote credit pools, local credits on the SmartNIC | remote compare-and-swap, enqueue by RDMA |
| Masstree with DLB, benchmarks | `src/src/masstree`, `src/src/dlb_bench` | — | clients of libdlb |

### How the parts interact

* **Application → driver.** libdlb turns configuration calls into ioctls; every
  ioctl that touches resources runs under one `resource_mutex` from start to
  end.  Only the map and unmap requests leave work behind: a kernel *worker*
  takes the same mutex later and finishes it.
* **Device → application.** The scheduler writes events into CQs on its own,
  limited by what the mapping tables, the CQ enable bits and the inflight
  limits say at that moment.  It is the concurrent partner of every procedure
  of the driver that changes these registers.
* **Application → device.** The datapath uses no system call: it takes
  *software credits* from a pool shared by all ports of a domain, writes
  events to a memory-mapped port, and pops completions.
* **Driver → application.** Interrupts wake a blocked receiver; alerts
  (resets, errors, user alerts) reach a thread of libdlb through a ring.

### What makes each part hard, and what correct means

* *Mapping.*  A queue may get a second CQ only while none of its events is
  inflight (or its atomic flows would be on two cores at once), and a CQ may
  lose a queue only while it owes no completion.  Neither the scheduler nor the
  application stops for the driver; so it closes the queue, reads a count,
  disables CQs, reads twice more, and leaves the rest to the worker.  Requests
  meanwhile change their minds.  Correct: no event is inflight at the moment
  the tables change; the counters that steer all this agree with the slots; a
  disabled CQ is enabled again exactly when it should be; nothing pending is
  forgotten; and the caller sees each request as if it had completed at once.
* *Credits.*  The number of credits in the pool, the caches and the device is
  constant; no port starves the others for ever.
* *Interrupts.*  A receiver that blocks is woken if its CQ has an event, or is
  disabled, or the device is reset.
* *Alerts and lifecycle.*  The alert thread ends before its domain is freed;
  no reset waits for a thread that never ends; alerts arrive once and in order.
* *Device reset.*  When the reset proceeds no process has the device mapped;
  files closed long afterwards neither touch freed memory nor a newer domain
  (they may touch a newer domain if it got their port: deviation 5).
* *Domain reset.*  Every event is drained and every mapping removed before
  resources are given back.
* *Partitioning.*  No resource has two owners or none; what a locked vdev was
  told it has stays its own; reserved sequence numbers exist.
* *Mailbox.*  PF and VF, which poll each other, do not deadlock; a response is
  not taken for the one to another request.
* *AccDirect.*  Credits taken remotely are neither lost nor used twice.

PROJECT.json lists the hazards of the code one by one, at their lines, with the
properties that cover them.

## 2. The modules

| Module | What it is |
|---|---|
| `QidMap` | the mapping component for one scheduling domain: driver, worker, scheduler and application |
| `QidRequests` | what that component promises its caller: requests that complete at once |
| `MCQidMap` | instance of `QidMap` for TLC: symmetry and constraints |
| `QidMap_proofs` | theorems about `QidMap`: types, ports' counters, removals; what each helper of the driver writes, enabled CQs stay enabled |
| `QidBooks_proofs` | the device's tables, the counters of queues and domain, drained removals, requests, quiet maps |
| `SwCredits` | libdlb's credits and datapath in one scheduling domain: the ports' threads, a thread that disables ports, the device |
| `CreditAccount` | what the credits promise: a fixed number, each free or backing an event |
| `MCSwCredits` | instance of `SwCredits` for TLC: pool sizes |
| `SwCredits_proofs` | theorems about `SwCredits` |
| `SumTheorems` | sums over a finite set, in any order: for credits and resources |
| `DomainFiles` | the kernel driver's domains as objects held by files and mappings, and the device reset |
| `CqInterrupts` | threads that block on a CQ, composed with `DomainFiles` |
| `DomainAlerts` | the alert ring and libdlb's attach, detach, alert thread and domain reset |
| `AlertQueue` | what the alert ring promises: a bounded first-in first-out queue |
| `DomainFiles_proofs`, `DomainAlerts_proofs`, `VfMailbox_proofs` | theorems about files and the threads that block on their CQs, about alerts, about mailboxes (below) |
| `Resources` | who owns every resource of the device: PF, vdevs, their domains |
| `Resources_proofs` | theorems about `Resources`: the books of the device are in order |
| `VfMailbox` | the mailboxes between PF and VFs while the PF is about to be reset |
| `MCDomainFiles`, `MCCqInterrupts`, `MCDomainAlerts`, `MCResources`, `MCVfMailbox` | instances of these for TLC |

### QidMap

*State.*  `dev` is one record that holds what the driver and the device know:
the slots (`qid_map`, the array of `struct dlb2_ldb_port_qid_map`), the counters
(`port_mappings`, `port_removals`, `queue_mappings`, `queue_additions`,
`additions`, `removals` — the `num_mappings`, `num_pending_additions`,
`num_pending_removals` of port, queue and domain), and the registers
(`cq_disabled` = `LSP_CQ_LDB_DSBL`, `cq2qid` = `LSP_CQ2QID0/1` with the valid bit
of `LSP_CQ2PRIOV`, `infl_lim` = `LSP_QID_LDB_INFL_LIM`), and the worker's flags.
`enabled` is `port->enabled`, `domain` is `domain->started`, `infl[p][q]` is what
the hardware counts as `LSP_CQ_LDB_INFL_CNT` (summed over queues) and
`LSP_QID_LDB_INFL_CNT` (summed over ports).  The driver only asks whether these
are zero.  `op` is the program counter of the holder of `resource_mutex`.

*Steps.*  A driver procedure is cut where it reads a counter that the scheduler
or the application can change meanwhile; between two such reads the code runs
as one step.  The procedures themselves are operators from `dev` to `dev` with
the code's names (`slot_state_transition`, `map_qid_static`, `unmap_qid`,
`finish_map_qid_dynamic`, …), so an action is the composition of calls that the C
function makes.

| Action | Code |
|---|---|
| `MapQid`, `MapReject`, `MapAccept`, `MapDone` | `dlb2_hw_map_qid` (5304): finish removals of the port if its CQ is drained, verify, decide, re-enable |
| `map_qid`; `DisableCqs`, `Reread`, `FinishMapRead`, `WriteMap` | `dlb2_ldb_port_map_qid` (4132, 4217): first read; then, as steps of their own, disabling of CQs (4186), second read (4199), the third read in `dlb2_ldb_port_finish_map_qid_dynamic` (4061) and the write of the tables (4070) |
| `UnmapAbort`, `UnmapWithdraw`, `UnmapStart` | the three branches of `dlb2_hw_unmap_qid` (5481) |
| `FinishUnmapPortSlot`, `FinishUnmapPortDone` | `dlb2_domain_finish_unmap_port` (5015, 5065) |
| `WorkerStart` … `WorkerEnd`, `FinishMapPortSlot`, `FinishMapPortDone` | `dlb2_complete_queue_map_unmap` (`dlb2_osdep.h` 230) and the loops it calls (5098, 5142, 5200) |
| `EnablePort`, `DisablePort`, `StartDomain`, `StopDomain` | the ioctls of these names |
| `Schedule` | external: the device gives an event of a queue to a CQ if the tables hold the pair, the CQ is enabled and the limit allows it |
| `Complete` | external: the application completes an event |

Writing an inflight limit of 0 does not recall a decision already on its way:
after it, one more event may arrive (`infl_lim = "closing"`).  This is the
reason the code states for its second read, and the model keeps it.  It may arrive between
any two of the steps of a map, as long as a CQ is enabled that has the queue.

### QidRequests

The comment of `dlb2_hw_map_qid` defines the *requested state*: what the slots
would be had every request completed at once.  `QidRequests` is that state
machine.  `ImplementsRequests` maps it onto `QidMap`: a port's requested queues
are those in slots `MAPPED` and `MAP_IN_PROG`, and those pending behind a removal.
Everything the worker does is a stuttering step.

### SwCredits

*State.*  `pool[t]` is the domain's pool of credit type `t`; `num[p][t]` the cache of
port `p` (`port->credits[t].num`); `ret_count` the consecutive-call counters of the
return policies; `enabled` is the flag the datapath reads, `scheduling` whether the
device still serves the port; `device` and `cq` count events.  `Combined` selects
the device: one pool (2.5) or one for load-balanced and one for directed events
(2.0).  `th[<<p, "io">>]` is the thread in the datapath functions of `p` with its
locals, `th[<<p, "ctl">>]` a thread in `dlb_disable_port`.

*Steps.*  The datapath takes no lock, so a function is cut wherever it touches
something shared: a pool (read, compare-and-swap, atomic add), the device, the
CQ, `enabled`; and between the atomic add of a release and the plain subtraction
that follows it.

| Action | Code (`libdlb/dlb.c`) |
|---|---|
| `GiveBack`, `Deduct`, `Keep` | `dlb2_check_and_release_credits` (2076): one credit type of one policy; which policy, and under what condition, is in `calls` |
| `dlb_send`, `dlb_adv_send`; `Take`, `ReadPool`, `Refresh`, `GiveUp`, `Enqueue`, `Charge` | `__dlb2_adv_send`, `__dlb2_5_adv_send` (2744, 2903): the call; an event put into the chunk; the two halves of `dlb2_refresh_port_credits`; the break; the write of a chunk; the charge at the end |
| `send_no_credits` | `dlb_release`, `dlb_pop_cq` through `__dlb2_adv_send_no_credits` (2639) |
| `dlb_recv`; `Ready`, `LowPool`, `WakeUp`, `TimeOut`, `WaitFails`, `Dequeue`, `Credit` | `__dlb_recv` (3367), the wait functions (3187–3326) |
| `disable_port`, `DisableIoctl`, `ClearEnabled`, `enable_port` | `__dlb_disable_port`, `__dlb_enable_port` (2121, 2029), with their `_sched` variants |
| `Schedule` | external: the device moves an event to a CQ |

### CreditAccount

The pool, the caches and all half-done releases and charges together are the
`free` credits, the events not yet credited the `stored` ones; every step of
`SwCredits` is an enqueue, a receive or a stutter of that account
(`ImplementsAccount`).

### DomainFiles

*State.*  `dom[o]` is the `struct dlb2_domain` number `o` in the order of allocation
(an object, not an id: ids are reused, `sched` is `dlb2->sched_domains[]`).  `port`
is the static array of ports with the domain pointer and `valid`; `file[f]` an open
port file with the domain it was opened on (`of`, which the driver does *not*
keep) and its mapping (`no`, `mapped`, or `zapped` by the reset).  `hw` is what
the device has configured.  `inode_cnt`, `pm`, `reset_active`, `domain_reset_failed`
are the driver's fields.  `hist` remembers what the properties need of the past: the domains
between which a port changed hands while a file of it was open (`shared`), and the ports that the
device configured although the ioctl failed (`half`).

*Steps.*  Everything under `resource_mutex` is one action; `dlb2_reset_prepare` keeps
the mutex from its first step to `ResetDone` and gives it up only in `Sleep`.

| Action | Code |
|---|---|
| `OpenDevice`, `CloseDevice` | `dlb2_open`, `dlb2_close` (`dlb2_main.c` 251, 324) |
| `CreateSchedDomain` | `dlb2_ioctl.c` 738, with `dlb2_init_domain` and the failure to get a file |
| `CreatePort`, `GetPortFd` | the create-port and get-fd ioctls (`dlb2_ioctl.c` 241, 473).  A port's configuration may fail after the device has it, when the PF does not answer a VF or the interrupt cannot be enabled (281, 294); a file's allocation may fail after the inode was counted (`dlb2_file.c` 180) |
| `Mmap`, `PortClose`, `DomainClose` | `dlb2_pp_mmap`/`dlb2_cq_mmap`, `dlb2_port_close`, `dlb2_domain_close` (`dlb2_main.c` 675, 776, 504); the two closes put a reference (`kref_put`, `free_domain`: 392–502) |
| `ResetPrepare`, `DisableDomainFiles`, `WakeThreads`, `Sleep`, `WakeUp`, `Quiesced` | `dlb2_reset_prepare` and what it calls (1212–1438) |
| `Flr`, `ResetDone` | external: the PCI core's reset; `dlb2_reset_done` (1440) |
| `Munmap` | external |

### CqInterrupts

`CqInterrupts` EXTENDS `DomainFiles` and adds the CQ, its interrupt (`armed`, `irq`,
`wake`, `disabled`), libdlb's belief `int_armed` and the threads.  A blocked thread
holds no `resource_mutex`: `EnterIoctl`, `CheckConfigured`, `LockIntr`, `FirstLook`,
`Awake`, `WaitAgain` are the reads of `dlb2_block_on_cq_interrupt` (`dlb2_intr.c` 82),
and every step of `DomainFiles` may come between two of them.  `Awake` can always
happen: the driver waits for one jiffy at a time (`OneJiffy`).

### DomainAlerts and AlertQueue

`ring` is the ring with its two 8-bit indices, here modulo `IndexSize`; `write_domain_alert`
drops an alert when the ring is full and wakes a sleeping reader.  The alert
thread runs `__alert_fn` with the driver's read inside (`DomainRead` to
`AlertThreadUnlock`; `Interrupted` is a signal during its wait), the creator `dlb_reset_sched_domain` (`ResetLock` to `ResetUnmap`;
its unlock/test/lock loop is `ResetTest`, `ResetYield`), attachers `dlb_attach_sched_domain`,
`dlb_detach_sched_domain` and `dlb_launch_domain_alert_thread`.  `DisableFile` and `WakeReader`
are the device reset as this file sees it.  `ImplementsQueue` maps the unread part
of the ring and the alert the thread holds onto `AlertQueue`.

### Resources

`hw` is `struct dlb2_hw` without the registers: per function the lists of available
resources, their counters, the bitmap of history-list entries and the plain
counts; per domain what it was given and what of it is in use; per
sequence-number group the mode and the slots given out; virtual ids and locks.
Every C function is an operator from `hw` to `hw` with its name or nearly so
(`update_vdev_list`, `add_vdev_ldb_ports`, `create_sched_domain`, `domain_reset_software_state`,
`reset_vdev`, …), an action is a call under the PF's mutex: the administrator's
writes to sysfs (`UpdateVdev…`, `SetGroup`), the vdev's registration, its end and a
guest's reset (`Register`, `Unregister`, `VfFlr`: the domains' resets may fail after the first
`n`), SR-IOV disable, the device reset, and the configuration requests of PF and
vdevs.  A request whose verification fails changes nothing and is no step.  Lists
keep the order the C lists have, because virtual ids and history lists depend on it.

### VfMailbox

Each mailbox is a request, a response and the ISR bit its sender polls with its own
resource mutex held.  Four kinds of threads: a VF's application (`AppCreate` … `AppFinish`:
`dlb2_send_sync_mbox_cmd` inside an ioctl), a VF's interrupt thread (`IsrStart` …
`IsrStopUsers`), the PF's (`ServiceStart` … `ServiceEnd`), and `dlb2_reset_prepare` with
its notification, its queries and `dlb2_wait_to_quiesce` (`ResetPrepare` … `ResetRelock`).
`Crash` kills a guest with whatever it holds.

## 3. The runs

| Run | Instance | Shows |
|---|---|---|
| `ports` | 2 ports, 2 queues, 1 slot each | types, exact counters, a removal keeps its CQ off and only drains, a map only on a quiet queue, with the scheduler going on between disables, reads and write; enabled CQs stay enabled |
| `slots` | 1 port, 2 slots, 3 queues, 2 inflights | tables agree with the slots, unmap only on a drained CQ, the abstract specification is implemented (under `NeverRerequested`) |
| `live` | 2 ports, 1 queue | every removal completes; everything pending completes once requests stop |
| `combined` | 2.5 device, 3 credits, batch 1; a producer and a worker whose port is disabled | no 16-bit wrap; a worker keeps what it needs to forward; one account is implemented, so no credit is lost or made |
| `split` | 2.0 device, 1 credit of each type, batch 2; a load-balanced port with `dlb_adv_send`, a directed port with epoll | types, no credit lost or made, when a refill finds less than a batch and a send mixes types |
| `live_credits` | 2.5 device, 2 credits, batch 2; producer and worker | somebody sends again and again: credits never get stuck |
| `race` | as in the cfg | the finding below, as a counterexample |
| `files` | 3 domains on 2 ids and 2 ports, 2 port files, 1 reset that sleeps once; failing domain resets, port configurations and file allocations; ports that change hands with files open (1.15 million states) | reference counts equal open files; no freed domain is reached; what is mapped belongs to who mapped it; CQ memory outlives its users; a valid domain is one the device knows.  The first four exclude the domains of a port that changed hands with a file open |
| `waits` | 1 thread, 1 port, 2 domains one after the other, 1 reset; failing port configurations, a port that changes hands | with the same exclusion: the domain of a thread in the driver is not freed; a waiter returns when its domain is disabled; an event ends a wait even if its interrupt was lost; the reset ends and the domains it disabled are freed |
| `alerts` | 2 attaching processes, ring of 4 with indices modulo 4 | nothing a user needs goes away under it; the ring is a queue while it does not fill; the domain's reset completes |
| `owners` | PF and 1 vdev; 2 domains, 2 queues, 1 port in each of 2 classes, 1 pair, 2 history-list entries, 1 sequence-number group | one owner for everything; counts conserved and reservations honoured; a locked vdev keeps what it has; virtual ids are unique |
| `mailbox` | PF and 2 VFs | no notification of a live VF times out; each answer goes to its request; a reset that found the VFs quiet finds them quiet; nobody waits for ever |

*Bounds.*  `NumSlots` is 8 in the code; with one or two slots a port is soon full,
which is when requests are parked behind removals.  Two ports are enough for a
queue whose map on one port waits for its events on the other, and for a map
that disables a CQ whose port is in the middle of a removal.  Three queues and
two slots are the least with which a slot is freed, refilled and asked for
again.  `MaxInflights` bounds the events of one queue at one port; the driver
only tests zero, and 2 (in `slots`) distinguishes "one completed" from "all
completed".  No other counter is bounded.

In `SwCredits` the batch is 1 or 2 instead of 32 and the thresholds 1 instead of 64
and 100, so that each policy fires within a few calls; three credits with batch 1
exceed twice the batch, one credit with batch 2 is a pool with less than a batch.
`MaxSend` 2 makes a send of two chunks (`ChunkSize` 1, in `live_credits` and
`split`) or one (`ChunkSize` 2, in `combined`); `MaxRecv` bounds a receive.  The
number of credits bounds everything else.

In `files` there are two ids and two ports, so that two domains live side by side and a port
or an id is free to be taken again; two port files, one left over from an old domain beside
one of a new domain; and three domains: one the reset disables, one created after it, one beside it.
The reset sleeps `MaxRounds` = 1 time instead of 50: one more sleep repeats the same choice.
In `alerts` the indices wrap after 4 alerts instead of 256, in a ring of 4 (256 in the code;
both the index range and the ring are powers of two and equal).  `MaxUnread` bounds the unread watchdog alerts in `alerts` so
that the ring never fills: a full ring loses the alert of the domain reset, and
the reset would wait for ever (deviation 8).
In `owners` two of everything that has an order and one of what has none suffices
for a partial transfer; the requests (`MCRequests`) are one that falls back to the other
class, one that names a class but does not insist, one that insists.  `U32` = 8 is the width of the port counter,
more than twice the ports there are.  In `mailbox` two VFs let the PF wait for one
while the other asks it for service; one round of `dlb2_wait_to_quiesce` stands for 50.

*Preconditions.*  Each is a constant or a constraint that a reader can change to see what
happens without it.

* `NeverRerequested` (a state constraint of `slots`): the application does not ask
  again for a queue whose own slot waits to be handed to another queue.  Without
  it `ImplementsRequests` and, with three queues, `HardwareMatchesDriver` do not hold
  (deviation 3); `UnmapOnlyWhenDrained` holds all the same (theorem `RemovalWaits`).  With two queues per
  port (`ports`) nothing is assumed.
  `EnabledPortServed` excepts states after an ioctl has returned -EFAULT (deviation 2).
* `Exclusive` (constant of `SwCredits`): the application disables a port only
  while no thread is inside a datapath function of that port, and starts none until
  the disable is done.  The library does not enforce it and its documentation does
  not ask for it; without it credits are lost or duplicated (finding `race`).
  Updates of a cache by two threads are modelled as atomic; where both write it
  the C program has a data race, and only `race` reaches that.
* `Shared(o)` (an operator of `DomainFiles`, in the properties): nothing is said of the files of a domain
  that lost a port to another domain, or got one from it, while a file of the port was open.
  The steps are in the model and the runs; within the life of a domain the reference count
  excludes them, across a device reset only the application can (deviation 5).
  Everything that does not go through the domain's own files holds without this: the device, `sched_domains[]`, valid domains.
* `half` (a set in `CqMemoryHeld`): ports that the device configured while the ioctl failed (deviation 11).
* The models have no step when the code would use a freed domain (`Live` in `PortClose`, `Mmap` and the
  thread of `CqInterrupts`) or hand out an inode that may be gone (`GetPortFd`): what follows is undefined.
  `NoDanglingDomain` and `WaitersKeepDomain` say that the former needs `Shared`, deviation 11 says what the latter needs.
* `AttachRaces = FALSE` (constant of `DomainAlerts`): no process is in the middle of
  `dlb_attach_sched_domain` when the creator begins to reset the domain.  With TRUE an
  attacher that has tested `configured` takes a reference after the reset tested it.
* `ReregisterInUse = FALSE` (constant of `Resources`): a VF driver registers only when no
  domain of its vdev is in use (deviation 6).
* `MaxUnread` (constant of `DomainAlerts`): fewer unread watchdog alerts than fill the ring, in `alerts` and in
  `RingImplementsQueue`.  `ImplementsQueue` and `ResetCompletes` therefore say nothing of a full ring.
* In `VfMailbox` the PF's one second per VF passes only while the VF is dead or its
  interrupt thread waits for its mutex, and a VF's ten seconds never pass: an answer
  that can come in time does.  One domain per VF.  The run ends at the reset itself, hence
  `CHECK_DEADLOCK FALSE`.

*Fairness of `QidMap`* (`FairSpec`, used by `live` only).
`WF(Holder)`: code that holds the mutex runs on; it waits for nothing.
`SF(WorkerStart)`: the kernel's mutex hands itself to a waiter that has waited
too long, so a queued worker gets it although ioctls keep taking it.
`WF(Complete(p, q))`: the application completes what it is given; the driver
cannot finish a removal without that.  Nothing is assumed of the scheduler
or of the requests.

*Fairness of `SwCredits`* (`FairSpec`, used by `live_credits`).
A thread inside a function runs on, but may be blocked for ever in a wait function
on an empty CQ: `TimeOut` has no fairness, as interrupts need not time out.  The
device delivers what it holds.  Senders call send with at least one event, and
receivers receive, infinitely often (`SF`, because calls of other kinds come
between): an application that stops doing so can hold credits for ever, which
dlb.h:1399 says.

*Fairness of `CqInterrupts`* (`CqFairSpec`).  The reset runs on; a thread inside the driver
runs on and gets the interrupt's mutex if it becomes free again and again; a process
that learns that its domain was disabled closes its files (`SF`, because the reset
takes the mutex in between).  No fairness of the device, of interrupts or of signals.

*Fairness of `DomainAlerts`* (`FairSpec`).  Threads run on, callbacks return, and a thread
that waits for the shared mutex gets it (`SF`: others take it in between).  Nobody need
attach, detach, launch or begin a reset, and no alert need be raised.

*Fairness of `VfMailbox`* (`FairSpec`).  Threads that have started run on; the PF's mutex
reaches each of its waiters (`SF(ServiceStart)`, `SF(ResetRelock)`).  No application need ask
for anything or close its domain, and a guest may die at any point.

*A limit of the protocol.*  A map in progress can be starved: each map or unmap of
the same queue on other ports re-opens the queue for a moment.  Therefore
`PendingCompletes` only promises completion once the application stops asking.

### The finding

`race` — `dlb_disable_port` (`dlb.c` 2138) and the timed-out receive of the same
port both give the cache back; the pool then has credits twice and events can
outnumber the device's storage, although dlb.h:1216 and `ldb_traffic.c` 788 use
the disable to wake a blocked receiver.

### Deviations met while modelling

The models do what the code does; these are places where that is not what a comment
says, or where a property needs a precondition.

1. `dlb2_hw_unmap_qid` checks `num_pending_additions == 0` (5555) before the
   transition that decrements it; an aborted map leaves the queue's inflight limit
   at 0, and no port is given its events until some later dynamic map of that
   queue ends.  The comment at 5552 says the opposite.  Steps: map `q` on port `a`;
   while an event of `q` is inflight map `q` on `b`, which is left to the worker;
   unmap `q` from `b`.
2. `dlb2_verify_map_qid_slot_available` (2604) trusts `num_mappings`, which does not
   count maps in progress; a request passes, finds no slot and fails with -EFAULT,
   leaving its CQ disabled and its queue stopped.  The comments at 5414 and 5287 say
   that this cannot be.  Steps: start maps in every slot of a port whose queues
   have events inflight elsewhere, then ask for one more.
3. A removal is finished by queue number (5028).  Steps: map `q1` and unmap it while
   an event is inflight; map `q2`, which waits for its slot; map `q1`, which
   gets another slot that has become free.  When the removal ends, `q1`'s new
   mapping is destroyed and the old slot keeps a wrong number.  The comments at
   5284 and 5416 promise otherwise.
4. `dlb_adv_send` uses the two-pool loop on a one-pool device (`dlb.c` 3752): a
   directed event is charged to a pool that cannot exist there and is never sent;
   dlb.h:115 says one pool serves both.  And a receive on a disabled, drained port
   fails before the return policies run (`dlb.c` 3393): what the port received
   after the disable stays in its cache until it is enabled, which no document
   excludes.
5. `dlb2_port_close` (`dlb2_main.c` 779) finds the domain through the port.  Steps: a device
   reset while a port file is open; another domain configures that port; the old
   file is closed, and the *new* domain loses a reference, while the
   old one keeps one that nobody puts, although the comment at `dlb2_main.c` 1449 says that no domain is leaked.  If the new domain had opened a file of the
   port as well, the close of its own domain file now frees it and the memory of the CQ, while that file is open, maybe
   mapped or waited on, and leads to the freed domain: `RefcountsExact`, `NoDanglingDomain`, `MappedPortsOwned`, `CqMemoryHeld` and
   `WaitersKeepDomain` each fail for such domains (TLC finds it within seconds when `Shared(o)` is made FALSE), which is why they exclude them.  The old file can also be
   mapped, and then maps the new domain's port.
6. `dlb2_mbox_cmd_register_fn` (`dlb2_pf_ops.c` 213) says that a VF can register again and that
   this resets what it had in use.  It first numbers the *available* resources
   from 0, then resets the used domains by their old virtual ids, which are no
   longer unique (`ReregisterInUse = TRUE` violates `VirtualIdsUnique`).
7. `dlb2_del_vdev_ldb_ports` (856) subtracts all ports of a class from what is still to
   be removed, instead of those it took; the unsigned number wraps and later
   classes lose ports as well.  `Resources` has the wrap; nobody's ports are lost.
8. A full alert ring drops alerts silently (`dlb2_main.c` 534), the alert of a domain reset
   too: its caller then waits for an alert thread that nothing but a device reset ends.
   The indices are `u8` promoted to `int`, so the test for "full" fails after the write
   index has wrapped: one more alert makes the two indices equal, and all unread alerts are lost, although the comment at 534
   says that without space the function returns.  (With `MaxUnread` = `RingSize` TLC finds
   `ImplementsQueue` and `ResetCompletes` violated.)
9. `dlb2_cq_empty` returns -EFAULT for an unmapped CQ; in the wait loop (`dlb2_intr.c` 143–181) that
   counts as "empty", so a thread whose CQ is unmapped waits for a wake-up by
   other means.  A port that is disabled and quickly enabled again may not wake
   its waiter, although dlb.h:1216 says it will: the flag is only sampled.
10. The comment at `dlb2_vf_ops.c` 338 says deferred handlers avoid the deadlock between PF and
    VF.  They do for the notification (`NoNoticeTimesOut`); a query whether the VF is in use can still
    meet a VF whose interrupt thread waits in the deferred handler for a mutex whose
    holder waits for the PF.  The PF's one-second timeout ends that circle
    (`NobodyWaitsForever` fails without it), and a query that timed out counts as
    "in use".
11. Failures that are not undone.  When `dlb2->ops->create_ldb_port` fails on a VF because the PF's answer timed out, or
    the interrupt cannot be enabled (`dlb2_ioctl.c` 281, 350; `dlb2_vf_ops.c` 783), the ioctl frees the CQ memory and the
    port stays configured in the device, which may still write there; the comment at 282 says that this is not unwound.
    `dlb2_free_inode` (`dlb2_file.c` 132), "intended for unwinding `dlb2_alloc_inode()`", does not undo `inode_cnt++` (104),
    so a failed `alloc_file_pseudo` leaves the count one too high: when the last port file
    is closed, `dlb2->inode` still points to the inode that goes with it, for the next file and for
    `dlb2_unmap_all_mappings`.  A failing `dlb2_hw_reset_sched_domain` still releases the CQ memory (`dlb2_main.c` 460;
    `domain_reset_failed` then refuses new domains).  `CqMemoryHeld` excludes both kinds of ports.  Smaller: the device's runtime-PM count keeps the
    domain's share after a device reset; `dlb2_vf_mbox_cmd_in_use_fn` counts
    references without the mutex; the VF's unregistration unlocks the vdev even if a domain could not be
    reset; history-list entries need contiguous ranges, so a request may fail although enough
    single entries are free.
12. `__dlb2_adv_send` counts the credits it uses in an `int` (`dlb.c` 2752) and takes them off
    the 16-bit cache at its end (2891).  Until then the cache also has credits that its own events
    already carry; if these are received elsewhere and refilled from the pool meanwhile, one send of more
    than 65535 minus the pool's size in events could wrap the cache.  The device has
    at most 16384 credits (`dlb2_hw_types.h` 44), so it would take a send of about 49000 events.  The
    theorems about `SwCredits` exclude this by `Fits`.

## 4. The proofs

Every theorem is checked by TLAPS for every value of the constants that the
module's named assumption allows (`QidMapAssumption`, `BoundsAssumption`,
`RingAssumption`, …: the sets of ports, files, threads are finite, bounds are natural
numbers, model values such as `None` differ from what they are told apart from).
Further hypotheses are in the theorem itself and in the column "if".

| Module | Theorem | Property | If |
|---|---|---|---|
| `QidMap_proofs` | `TypeCorrect` | `TypeOK`: in particular the ports' counters never go below zero | |
| | `CountersCorrect` | `PortCounters`: a port's counters count its slots | |
| | `RemovalHoldsCq` | `RemovalKeepsCqOff`: a pending removal keeps the CQ disabled | |
| | `RemovalDrains` | `RemovalOnlyDrains`: ... so no event reaches it (no run checks it, as it follows from the former) | |
| | `EnabledPortsAreServed` | `EnabledPortServed` | |
| `QidBooks_proofs` | `RemovalWaits` | `UnmapOnlyWhenDrained`: an entry leaves the tables only while its CQ owes no completion | |
| | `MapQuiet` | `MapOnlyWhenQuiet`: a queue enters the tables only while none of its events is inflight | `[]NeverRerequested` |
| | `TablesMatch` | `HardwareMatchesDriver` | `[]NeverRerequested` |
| | `AllCountersCorrect` | `QueueAndDomainCounters` | `[]NeverRerequested` |
| | `RequestsAreKept` | `ImplementsRequests`: the procedures implement `QidRequests` | `[]NeverRerequested` |
| `DomainFiles_proofs` | `DomainFilesTypes` | `TypeOK` | |
| | `RefcountsAreExact` | `RefcountsExact` | its domains not `Shared` |
| | `NoDomainDangles` | `NoDanglingDomain` | its files not of `Shared` domains |
| | `MappedPortsAreOwned` | `MappedPortsOwned` | its files not of `Shared` domains |
| | `CqMemoryIsHeld` | `CqMemoryHeld` | its files not of `Shared` domains; no failed domain reset, no `half` port |
| | `ValidDomainsAreConfigured` | `ValidDomainsConfigured` | |
| | `CqImplementsFiles` | every behaviour of `CqInterrupts` is one of `DomainFiles` | |
| | `CqTypes` | `CqTypeOK` | |
| | `WaitersKeepTheirDomain` | `WaitersKeepDomain` | its domains not `Shared` |
| `DomainAlerts_proofs` | `DomainAlertsTypes` | `TypeOK` | |
| | `DomainDoesOutliveUsers` | `DomainOutlivesUsers` | `~AttachRaces` |
| | `RingImplementsQueue` | `ImplementsQueue`: the ring implements `AlertQueue` | `MaxUnread < RingSize - 1` |
| `SwCredits_proofs` | `TypeCorrect` | `TypeOK` | |
| | `CreditsAreConserved` | `CreditsConserved` | `Exclusive`, `Fits` |
| | `CachesDoNotWrap`, `StorageIsEnough` | `NoWrapAround`, `StorageSuffices` | the same |
| | `WorkersKeepCredits` | `WorkerKeepsCredits` | the same |
| | `CreditsImplementAccount` | `ImplementsAccount`: the credits implement `CreditAccount` | the same, `ChunkSize <= 4` |
| `Resources_proofs` | `BooksInOrder` | the inductive invariant `Books` | |
| | `OwnedOnce` | `OneOwner` | |
| | `CountsAreKept` | `CountsConserved` | |
| | `IdsNameOne` | `VirtualIdsUnique` | `~ReregisterInUse` |
| | `LockedKeeps` | `LockedKeepsResources` | |
| `VfMailbox_proofs` | `VfMailboxTypes`, `BothSidesDoAgree`, `AllQuietAtFlr`, `NoticesDoNotTimeOut` | `TypeOK`, `BothSidesAgree`, `QuietAtFlr`, `NoNoticeTimesOut` | |

The hypotheses, and the exclusions that are part of a property (`Shared`, `half`), are the preconditions of section 3, each with a run that satisfies it and
a deviation or a finding that shows what happens without it.  `Fits` says that a 16-bit
cache has room for all credits of a type plus one for each event of a send (deviation 12);
every run satisfies it.  `ChunkSize` is 4 in the code.

### The mapping: `QidMap_proofs`

`RemovalKeepsCqOff` is not inductive: `cq_enable` decides by the
counter `port_removals`, a transition changes the counter, and that a counter
is 0 only when no slot is being removed is `PortCounters`.  And the counters are
naturals, as `TypeOK` says, only because they count something.  The invariant is
therefore `Good(dev)`: typed with integer counters, counters equal to the
cardinalities of slot sets, and `port_removals[p] # 0` implies the CQ is
disabled; with the type of the rest and the fact that a mutex holder which
works on a port has one (`OpGood`).  Each helper of the driver preserves
`Good` (lemmas `TransitionGood`, `CqHelpersGood`, `LimitHelpersGood`,
`NamesGood`, `StaticGood`, `UnmapGood`, `FinishMapGood`, `BeginMapGood`).
`TransitionGood` is the heart: the nested switch of
`dlb2_port_slot_state_transition` adds to each counter what the slot adds to the
set it counts (`Deltas`, `CountAfter`), and its one transition that starts a
removal happens on a disabled CQ.  One lemma per group of actions composes
them, `Inductive` follows, and the theorems are read off.

### CQs, tables and counters: `QidMap_proofs`, `QidBooks_proofs`

*What is written.*  The theorems above need only what a helper preserves.  From here on one lemma per
helper says what it writes, field by field (`TransitionEffect`, `StaticEffect`,
`BeginEffect`, `ParkEffect`, `UnmapEffect`, …), and the proofs about actions use only these.

*Enabled CQs.*  The driver disables CQs for a short time in two places and remembers
elsewhere why; `EnabledPortServed` speaks of the moments when the mutex is free.
The invariant `SInv` says at every moment *who* is responsible for a CQ that
is enabled for the application and off in the device: a removal, or the entry point at work
(`Served`), and that the map which the second read finishes has a slot (`Claimed`).

*Tables and counters.*  The invariant is `Books`: a queue is used by one slot of a
port at most, pending uses included (`Unique`); the tables hold what the slots hold
(`Matches`); the counters of queues and domain are cardinalities of sets of slots of
all ports (`Totals`).  `Matches` alone is not inductive because the driver ends a removal
by *queue number* and takes the first slot that has it; `Unique` makes that the right slot.
`Unique` is what an application can break, and only in the way of deviation 3, which
`NeverRerequested` excludes.
The counters need it for the same reason: a transition is charged to the queue in the
argument, and the slot may hold another one.

*Drained removals.*  `RemovalWaits` needs neither: the CQ is found empty once, and the
loop that follows removes several slots with steps of others in between.  The
invariant `DInv` says that slots without hardware state have no entry (`Empties`) and
that, while the holder is in such a loop, the CQ owes nothing (`Draining`); it goes
on owing nothing because a pending removal keeps it off (`RemovalKeepsCqOff`).  When
deviation 3 happens an unmap hits a wrong slot, but never a busy CQ.

*The window of a map.*  From `DisableCqs` to `WriteMap` the scheduler and the application go on.  `QInv` says that meanwhile no
enabled CQ has the queue of the map (`Unwanted`, `Shut`), so what the reads find stays true: from the last one to the write none of
its events is inflight.  That `dlb2_ldb_queue_disable_mapped_cqs` reaches every such CQ (`DisableShuts`) is `Matches`: it goes by the
driver's slots, the scheduler by the device's tables; so `MapQuiet` needs `NeverRerequested` too.  `EventsShut` is the step of the scheduler
that would spoil the count and cannot happen; without the disables of the CQs the queue is mapped to it does, which is the mutant of `MapOnlyWhenQuiet`.

*Requests.*  What the application has asked for on a port is a function of the slots
(`AskedOf`), so every helper either leaves it alone (`SameWishes`), adds one queue
(`WishAdded`) or drops one (`WishDropped`).  The refinement is by steps: each action of the
driver is one request, one completion or a stutter of `QidRequests` (`Onward`).  It needs
`Unique`, since otherwise dropping one slot would not drop the wish, and `RInv`: the request
that is being served, also while a removal is finished first, is for a queue.

### Credits: `SwCredits_proofs`, `SumTheorems`

*Types.*  `Shape` is inductive by itself: the types of all variables with what an agent has in
hand at each place of the code (`Placed`).  It needs neither hypothesis, so the types hold
in the executions of `race` too.

*The invariant.*  `Inv` is `Shape`, `CreditsConserved` and, for every port, `Sound`: one of its two
agents is outside any call; the cache covers what an agent has returned to the pool and not yet
subtracted (`Covered`), and what the send in progress uses; a send uses at most one credit for each
of its events.  The parts need each other.  That a subtraction does not wrap is `Sound`; that an
addition does not is conservation, as no port can have more than the whole (`Bound`); and
conservation fails as soon as either wraps.  `NoWrapAround` and `StorageSuffices` are read off.

*Sums.*  `Unused` and `Stored` add over all ports, and a port takes many kinds of steps.  Each action is
therefore shown to be a step of one port (`Done(p, k)`): it leaves the other ports alone, keeps its
own sound, and moves `k[t]` credits of type `t` from the pool and its cache to the device and its events.
`Moved` then says once what this does to the sums.  `k` is zero except for the write of a chunk and
the credits of a receive; these two are the steps of the account, and `CreditsImplementAccount` follows.
`SumTheorems` has the facts on `SumFunction`: it is defined by choosing one element after another, and
`SumRemove` shows that the order does not matter.  The induction runs over *sets* of numbers and takes
the least element of what is left (`AllNumbers`, from `WFMin`), as the provers cannot use an induction
rule with an operator parameter.

*Workers.*  `WorkerKeepsCredits` speaks of the moment after the receive.  `Worker` says what is true until then
of a thread that has received something: only calls are pending that leave a batch in the cache (`Generous`), nobody
disables its port, and what it received, up to a batch, stays after any subtraction under way.

### Files and reset: `DomainFiles_proofs`

`IInv` is `Shape` and `Counted`.  The close of a port file finds the domain through the port,
not through the file; therefore reference counts are exact only where `FilesKeepPorts` holds: the
port of an open file still leads to the domain it was opened on, even when a reset
disabled that domain, unless the domain is `Shared`.  That a close of a file of a shared domain
reaches only shared domains is what keeps the others exact.  `MappedKeepPorts` and `PortsHeld` say the same of mappings and
of the device, the latter with the exceptions of `CqMemoryHeld`;
`Disabled` ties the phases of the reset to the validity of domains.  `Counted` equates
the counters with cardinalities (`CountsFiles`); of the device's usage count it only says
that it is large enough (`KeptAwake`), because domains disabled by a reset keep their share
for ever (deviation 11).  `LastReference` and `OneReferenceLess` are the two outcomes of `kref_put`.

### Threads in the driver: the last part of `DomainFiles_proofs`

A step of `CqInterrupts` is a step of `DomainFiles` or leaves its variables alone, which gives
`CqImplementsFiles` and with it every theorem about files.  `CqTypes` then needs only the new
variables, and `WaitersKeepDomain`: a thread holds the domain's file open (`HasFile`), so the only way to
free the domain is a reference put that was somebody else's.  `PortCloseLeavesFile` excludes
that by `CountsFiles`: if the count is one and a port file is still open, the domain's own file is not.

### Alerts: `DomainAlerts_proofs`

Types and the count of users (`Counted`) come first.  `Life` is the protocol between creator,
alert thread and attachers: who holds the mutex (`Locks`), that the flag `started` tells of the thread
except while its launcher or the ending thread holds the mutex (`Started`), and that a reset goes on only
after the thread ended (`Resetting`).  For the ring, `Fill` bounds the unread alerts; the lemmas
`DivMod`, `ModUnique`, `ModPlus`, `ModDistinct` do the arithmetic of two moduli of which one divides the
other, `WriteAppends` and `ReadTakesHead` show that a write appends to and a read takes the head of the
sequence of unread alerts, and `QueueStep` that every step is one of `AlertQueue` or a stutter.

### Mailboxes: `VfMailbox_proofs`

`IInv` follows one conversation from both sides.  `Agreement` says what VF and PF know of the
domain in each stage of a request; `Notice` in which of three stages the pre-reset notification
is (unsent, told, stopped); `Answer` that "not in use" stays true after it was given, because the VF
has stopped its users before it answers; `Progress` which VFs the reset still has to ask.
`Locks`, `Rounds` and `Requests` say who holds which mutex and that only polled requests are served.
There is one lemma per action.  `NoNoticeTimesOut` follows as `Told` acknowledges without the mutex.

### Resources: `Resources_proofs`

`Books` has three parts.  `Good(hw)` is about lists, domains and history entries.  `OneOwner` alone is not
inductive: a reset gives everything to `domain.parent`, so `DomainsGood` says whose domains have which
parent, and that a domain nobody uses has nothing (`Idle`), or else creating it would mix its lists
with old ones.  `ListsGood` says of each kind that the lists of all owners share the resources among
them (`Shared`), `HistGood` the same of history entries; that the ports of a domain use different entries
needs that they lie below the offset from which the next port is served (`HandedOut`).
`CountsGood(hw)` is a balance per count (`Balanced`: given to functions, left in
domains and used by queues are together what there is) and, per sequence-number group, `SlotsGood`: queues and slots
correspond one to one, and each domain's used count is the number of its queues with a slot, as a reset
returns counts by the one and frees slots by the other.  `IdsGood(hw)`, the uniqueness of ids in locked vdevs, is kept only
if no VF registers while domains of its are in use: what `lock_vdev` numbers is what is
*available*, and the domains in use keep their old numbers (deviation 6).
The other two parts need no hypothesis.

A step applies several operations one after the other (a transfer gives everything
back before it takes; a vdev's reset is one domain after another), so each operation has a lemma about the
value before and the value after (`UpdateGood`, `CreateGood`, `ResetGood`, …), not about
`hw` and `hw'`.  `StepGood(S, T)` is what an operation keeps: the three parts, and what locked vdevs hold
(`LockedKept`), which is transitive; so `LockedKeeps` comes from the same lemmas.
`CreateFields`, `ResetFields` and the like say once which fields an operation writes, because
nothing else needs its definition.  The loops (classes of ports, tries for a port,
domains of a vdev, functions of the device) are recursive functions on `0 .. N`: `Recursion` shows that such a function exists and
`Steps` is induction over its rounds for a set of values.  `TakeStep` shows that each try finds a class with a port left, as the request
was verified against the sum; `DelGood` covers the wrap of `dlb2_del_vdev_ldb_ports`, which may remove more than was asked but loses nothing.
The lemmas `Listing…` are about lists without repetitions, `MovedCountsGood` about a count that moves between
two places, with `SumChange` and `SumChangeTwo` of `SumTheorems`.

### A note on the form of the models

Where an action changes two fields of one function value, the models write one `EXCEPT`
inside the other; the prover's translation of two paths through the same argument is not reliable.

*Only model-checked.*  Every safety invariant and action property of a passing run is a theorem.  `RemovalsComplete`, `PendingCompletes`, `SomeoneSends`,
`WaitersReturn`, `EventsEndWait`, `ResetEnds`, `ResetCompletes` and `NobodyWaitsForever` are liveness
under fairness, which is beyond the proof system, as is `ENABLED`.

## 5. What is not modelled

* Slot priorities (`LSP_CQ2PRIOV`'s priority fields) — planned as `QidPriority`.
* The hardware half of the domain reset (drain, unmap, clear registers): `Resources`
  has its software half and lets the rest fail.
* In `SwCredits`: CQ tokens and the reserved-token scheme, owed completions, queue
  depth counters, the validation of events, several pools in a domain (each port
  uses one per type, so pools do not interact), and domain reset, which clears
  `enabled` on its own.
* In `QidMap`, directed ports and queues: they have a fixed mapping and none of the
  protocol.
* In `DomainFiles`: kernel datapath clients, saved registers, a failed `dlb2_alloc_inode` (which leaves an error pointer in
  `dlb2->inode`, `dlb2_file.c` 111–119), and an out-of-memory
  `dlb2_init_domain` inside the creation of a domain (its reset of the new domain is
  not checked for failure).  In `CqInterrupts`: eventfd and epoll, several receivers of
  one CQ, libdlb's polling modes.
* In `DomainAlerts`: creation of the domain and its shared memory, port attach,
  alerts other than user and watchdog ones.
* In `Resources`: registers, probing for the best ports of a core, configuring one
  directed pair twice, bandwidth of the classes of service.
* In `VfMailbox`: encoding of commands, all commands but creating and resetting a
  domain, alarms from PF to VF, the state of the mailboxes across the reset.
* AccDirect's SmartNIC programs (their hazards are listed; they need a model of
  remote compare-and-swap).
* Scalable IOV and migration (emulation and copying of registers, without a protocol of their own), the
  kernel datapath client (libdlb's scheme again), sysfs, perf and power (counters),
  Masstree and the benchmarks (straight-line clients of the library; Masstree
  itself is third-party code), scripts and documentation.  Two files of the
  CLI are generated tables of register names, 124 777 lines without logic.

## 6. The plan

In order of importance; each module comes with its MC module, runs and mutants.

1. `QidMap` with `QidRequests` and proofs — done, all but liveness.
2. `SwCredits` with `CreditAccount` and proofs — done, all but liveness.
3. `DomainFiles` with `CqInterrupts`, `DomainAlerts` with `AlertQueue`, `Resources`, `VfMailbox` —
   done, all but liveness.
4. Next: `SnicCredits` (remote credits of AccDirect), `DomainReset` (drain and unmap over
   `QidMap`'s operators), `QidPriority`.
