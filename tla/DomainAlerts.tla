---------------------------- MODULE DomainAlerts ----------------------------
(***************************************************************************)
(* The life of one scheduling domain as libdlb sees it (attach, detach,    *)
(* the alert thread, reset; dlb.c) and the alert ring through which the    *)
(* driver and libdlb talk to that thread (dlb2_main.c).                    *)
(*                                                                         *)
(* The threads: attachers, which also launch the alert thread; the alert   *)
(* thread, mostly blocked in the driver's read; the creator, which resets  *)
(* the domain; the driver, which raises alerts and resets the device.      *)
(***************************************************************************)
EXTENDS Integers, FiniteSets, Sequences

CONSTANTS
  Attachers,      \* threads that attach to and detach from the domain
  Nobody,
  RingSize,       \* DLB2_DOMAIN_ALERT_RING_SIZE
  IndexSize,      \* values of the u8 indices of the ring
  MaxUnread,      \* watchdog alerts come while fewer than this are unread
  AttachRaces     \* may an attach be under way while the domain is reset?

ASSUME RingAssumption ==
  /\ RingSize \in Nat /\ IndexSize \in Nat /\ MaxUnread \in Nat
  /\ RingSize > 1 /\ IndexSize > 1 /\ IndexSize % RingSize = 0
  /\ AttachRaces \in BOOLEAN
ASSUME ThreadsAssumption ==
  /\ IsFiniteSet(Attachers)
  /\ Attachers \cap {Nobody, "creator", "alert"} = {}
  /\ Nobody \notin {"creator", "alert"}

VARIABLES
  ring,           \* domain->alerts, alert_rd_idx, alert_wr_idx
  valid,          \* domain->valid
  flr,            \* a device reset: "no", "disabled" or "woken"
  alert,          \* the alert thread: where it is, and the alert it read
  creator,        \* progress of dlb_reset_sched_domain
  attacher,       \* progress of each attacher
  shared,         \* the domain's shared memory, and whether its file is linked
  lock,           \* holder of shared->resource_mutex
  creator_fd      \* the domain's file is open

vars == <<ring, valid, flr, alert, creator, attacher, shared, lock, creator_fd>>

Slots == 0 .. RingSize - 1
Alerts == {"watchdog", "domain_reset"}

Init ==
  /\ ring = [alerts |-> [s \in Slots |-> "watchdog"], rd |-> 0, wr |-> 0]
  /\ valid = TRUE
  /\ flr = "no"
  /\ alert = [pc |-> "none", got |-> "none"]
  /\ creator = "idle"
  /\ attacher = [a \in Attachers |-> "idle"]
  /\ shared = [mapped |-> TRUE, linked |-> TRUE, configured |-> TRUE,
               refcnt |-> 0, started |-> FALSE]
  /\ lock = Nobody
  /\ creator_fd = TRUE

-----------------------------------------------------------------------------
(* The alert ring                                                          *)

Available == ring.rd # ring.wr

(* The indices are u8 and are promoted to int for the subtraction: only    *)
(* while the write index is the larger one is the result the fill level.   *)
Full == ring.wr - ring.rd = RingSize - 1

(* The alerts the reader would get, one after the other.                   *)
UnreadCount == (ring.wr - ring.rd) % IndexSize
Unread == [n \in 1 .. UnreadCount |-> ring.alerts[(ring.rd + n - 1) % RingSize]]

(* wake_up_interruptible wakes a reader that sleeps.                       *)
Woken == [alert EXCEPT !.pc = IF @ = "asleep" THEN "wait" ELSE @]

(* dlb2_write_domain_alert                                                 *)
write_domain_alert(a) ==
  IF ~valid \/ Full THEN UNCHANGED <<ring, alert>>
  ELSE /\ ring' = [ring EXCEPT !.alerts[ring.wr % RingSize] = a,
                               !.wr = (@ + 1) % IndexSize]
       /\ alert' = Woken

WatchdogAlert ==
  /\ creator_fd
  /\ UnreadCount < MaxUnread
  /\ write_domain_alert("watchdog")
  /\ UNCHANGED <<valid, flr, creator, attacher, shared, lock, creator_fd>>

(* dlb2_disable_domain_files, then dlb2_wake_threads.                      *)
DisableFile ==
  /\ flr = "no" /\ creator_fd
  /\ flr' = "disabled"
  /\ valid' = FALSE
  /\ UNCHANGED <<ring, alert, creator, attacher, shared, lock, creator_fd>>

WakeReader ==
  /\ flr = "disabled"
  /\ flr' = "woken"
  /\ alert' = Woken
  /\ UNCHANGED <<ring, valid, creator, attacher, shared, lock, creator_fd>>

-----------------------------------------------------------------------------
(* The alert thread: __alert_fn, dlb2_domain_read, dlb2_read_domain_alert  *)

AlertAt(pc) == alert.pc = pc
AlertTo(pc) == alert' = [alert EXCEPT !.pc = pc]
Got(a) == alert' = [pc |-> "callback", got |-> a]

OthersOfAlert == <<valid, flr, creator, attacher, creator_fd>>

DomainRead ==
  /\ AlertAt("read")
  /\ IF valid THEN AlertTo("ring") ELSE Got("device_reset")
  /\ UNCHANGED <<ring, shared, lock, OthersOfAlert>>

Bug_TakeAlert ==
  /\ AlertAt("ring")
  /\ IF Available
     THEN /\ Got(ring.alerts[(ring.rd + 1) % RingSize])
          /\ ring' = [ring EXCEPT !.rd = (@ + 1) % IndexSize]
     ELSE AlertTo("wait") /\ UNCHANGED ring
  /\ UNCHANGED <<shared, lock, OthersOfAlert>>

TakeAlert ==
  /\ AlertAt("ring")
  /\ IF Available
     THEN /\ Got(ring.alerts[ring.rd % RingSize])
          /\ ring' = [ring EXCEPT !.rd = (@ + 1) % IndexSize]
     ELSE AlertTo("wait") /\ UNCHANGED ring
  /\ UNCHANGED <<shared, lock, OthersOfAlert>>

(* wait_event_interruptible: the condition, and sleep if it is false.      *)
WaitEvent ==
  /\ AlertAt("wait")
  /\ AlertTo(IF Available \/ ~valid THEN "after_wait" ELSE "asleep")
  /\ UNCHANGED <<ring, shared, lock, OthersOfAlert>>

(* A signal ends the wait: the read fails, which ends the thread, or the    *)
(* kernel starts it again, as the signal's handler asked for (SA_RESTART). *)
Interrupted ==
  /\ AlertAt("asleep")
  /\ ~Available /\ valid
  /\ AlertTo("end") \/ AlertTo("read")
  /\ UNCHANGED <<ring, shared, lock, OthersOfAlert>>

AfterWait ==
  /\ AlertAt("after_wait")
  /\ IF valid THEN AlertTo("ring") ELSE Got("device_reset")
  /\ UNCHANGED <<ring, shared, lock, OthersOfAlert>>

(* The callback has returned; a reset ends the thread.                     *)
AfterCallback ==
  /\ AlertAt("callback")
  /\ AlertTo(IF alert.got \in {"domain_reset", "device_reset"} THEN "end" ELSE "read")
  /\ UNCHANGED <<ring, shared, lock, OthersOfAlert>>

AlertThreadLock ==
  /\ AlertAt("end") /\ lock = Nobody
  /\ lock' = "alert"
  /\ AlertTo("locked")
  /\ UNCHANGED <<ring, shared, OthersOfAlert>>

AlertThreadStopped ==
  /\ AlertAt("locked")
  /\ shared' = [shared EXCEPT !.started = FALSE]
  /\ AlertTo("unlock")
  /\ UNCHANGED <<ring, lock, OthersOfAlert>>

AlertThreadUnlock ==
  /\ AlertAt("unlock")
  /\ lock' = Nobody
  /\ alert' = [pc |-> "none", got |-> "none"]
  /\ UNCHANGED <<ring, shared, OthersOfAlert>>

AlertThread ==
  \/ DomainRead \/ TakeAlert \/ WaitEvent \/ AfterWait \/ AfterCallback
  \/ AlertThreadLock \/ AlertThreadStopped \/ AlertThreadUnlock

-----------------------------------------------------------------------------
(* Attaching, detaching, and launching the alert thread                    *)

AttacherTo(a, pc) == attacher' = [attacher EXCEPT ![a] = pc]
OthersOfAttacher == <<ring, valid, flr, creator, creator_fd>>

(* dlb_shm_open fails once the file is unlinked.                           *)
AttachOpen(a) ==
  /\ attacher[a] = "idle"
  /\ shared.linked
  /\ AttacherTo(a, "opened")
  /\ UNCHANGED <<OthersOfAttacher, alert, shared, lock>>

AttachCheck(a) ==
  /\ attacher[a] = "opened"
  /\ AttacherTo(a, IF shared.configured THEN "checked" ELSE "idle")
  /\ UNCHANGED <<OthersOfAttacher, alert, shared, lock>>

Bug_Attach(a) ==
  /\ attacher[a] = "checked" /\ lock = Nobody
  /\ AttacherTo(a, "attached")
  /\ UNCHANGED <<OthersOfAttacher, alert, shared, lock>>

Attach(a) ==
  /\ attacher[a] = "checked" /\ lock = Nobody
  /\ shared' = [shared EXCEPT !.refcnt = @ + 1]
  /\ AttacherTo(a, "attached")
  /\ UNCHANGED <<OthersOfAttacher, alert, lock>>

Detach(a) ==
  /\ attacher[a] = "attached" /\ lock = Nobody
  /\ shared' = [shared EXCEPT !.refcnt = @ - 1]
  /\ AttacherTo(a, "idle")
  /\ UNCHANGED <<OthersOfAttacher, alert, lock>>

(* One alert thread per domain; it may run before the launch is over.      *)
LaunchLock(a) ==
  /\ attacher[a] = "attached" /\ lock = Nobody
  /\ ~shared.started
  /\ lock' = a
  /\ AttacherTo(a, "launch")
  /\ UNCHANGED <<OthersOfAttacher, alert, shared>>

LaunchCreate(a) ==
  /\ attacher[a] = "launch"
  /\ alert' = [pc |-> "read", got |-> "none"]
  /\ AttacherTo(a, "launched")
  /\ UNCHANGED <<OthersOfAttacher, shared, lock>>

LaunchStarted(a) ==
  /\ attacher[a] = "launched"
  /\ shared' = [shared EXCEPT !.started = TRUE]
  /\ lock' = Nobody
  /\ AttacherTo(a, "attached")
  /\ UNCHANGED <<OthersOfAttacher, alert>>

-----------------------------------------------------------------------------
(* dlb_reset_sched_domain                                                  *)

CreatorTo(pc) == creator' = pc
OthersOfCreator == <<valid, flr, attacher>>

Bug_ResetLock ==
  /\ creator = "idle" /\ lock = Nobody
  /\ AttachRaces \/ \A a \in Attachers : attacher[a] \notin {"opened", "checked"}
  /\ shared.configured
  /\ lock' = "creator"
  /\ shared' = [shared EXCEPT !.linked = FALSE]
  /\ CreatorTo("enqueue")
  /\ UNCHANGED <<OthersOfCreator, ring, alert, creator_fd>>

ResetLock ==
  /\ creator = "idle" /\ lock = Nobody
  /\ AttachRaces \/ \A a \in Attachers : attacher[a] \notin {"opened", "checked"}
  /\ shared.configured /\ shared.refcnt = 0
  /\ lock' = "creator"
  /\ shared' = [shared EXCEPT !.linked = FALSE]
  /\ CreatorTo("enqueue")
  /\ UNCHANGED <<OthersOfCreator, ring, alert, creator_fd>>

Bug_ResetEnqueue ==
  /\ creator = "enqueue"
  /\ CreatorTo("test")
  /\ UNCHANGED <<OthersOfCreator, ring, alert, shared, lock, creator_fd>>

(* The result of the ioctl is ignored.                                     *)
ResetEnqueue ==
  /\ creator = "enqueue"
  /\ write_domain_alert("domain_reset")
  /\ CreatorTo("test")
  /\ UNCHANGED <<OthersOfCreator, shared, lock, creator_fd>>

ResetTest ==
  /\ creator = "test"
  /\ lock' = Nobody
  /\ CreatorTo(IF shared.started THEN "yield" ELSE "close")
  /\ UNCHANGED <<OthersOfCreator, ring, alert, shared, creator_fd>>

ResetYield ==
  /\ creator = "yield" /\ lock = Nobody
  /\ lock' = "creator"
  /\ CreatorTo("test")
  /\ UNCHANGED <<OthersOfCreator, ring, alert, shared, creator_fd>>

ResetClose ==
  /\ creator = "close"
  /\ creator_fd' = FALSE
  /\ CreatorTo("unmap")
  /\ UNCHANGED <<OthersOfCreator, ring, alert, shared, lock>>

ResetUnmap ==
  /\ creator = "unmap"
  /\ shared' = [shared EXCEPT !.configured = FALSE, !.mapped = FALSE]
  /\ CreatorTo("done")
  /\ UNCHANGED <<OthersOfCreator, ring, alert, lock, creator_fd>>

Creator ==
  \/ ResetLock \/ ResetEnqueue \/ ResetTest \/ ResetYield \/ ResetClose \/ ResetUnmap

-----------------------------------------------------------------------------
AttacherStep(a) ==
  \/ AttachOpen(a) \/ AttachCheck(a) \/ Attach(a) \/ Detach(a)
  \/ LaunchLock(a) \/ LaunchCreate(a) \/ LaunchStarted(a)

(* After its reset a domain is gone.                                       *)
Gone == creator = "done" /\ UNCHANGED vars

Next ==
  \/ WatchdogAlert \/ DisableFile \/ WakeReader
  \/ AlertThread \/ Interrupted \/ Creator
  \/ \E a \in Attachers : AttacherStep(a)
  \/ Gone

Spec == Init /\ [][Next]_vars

(* Threads run on, callbacks return, and each gets a mutex that is free    *)
(* again and again.                                                        *)
Fairness ==
  /\ WF_vars(AlertThread) /\ SF_vars(AlertThreadLock)
  /\ WF_vars(WakeReader)
  /\ WF_vars(Creator /\ creator # "idle") /\ SF_vars(ResetYield)
  /\ \A a \in Attachers : WF_vars(LaunchCreate(a) \/ LaunchStarted(a))

FairSpec == Spec /\ Fairness

-----------------------------------------------------------------------------
(* Properties                                                              *)

(* The variables have their types.                                         *)
TypeOK ==
  /\ ring \in [alerts : [Slots -> Alerts], rd : 0 .. IndexSize - 1, wr : 0 .. IndexSize - 1]
  /\ valid \in BOOLEAN
  /\ flr \in {"no", "disabled", "woken"}
  /\ alert \in [pc : {"none", "read", "ring", "wait", "asleep", "after_wait", "callback",
                      "end", "locked", "unlock"},
                got : Alerts \cup {"none", "device_reset"}]
  /\ creator \in {"idle", "enqueue", "test", "yield", "close", "unmap", "done"}
  /\ attacher \in [Attachers -> {"idle", "opened", "checked", "attached", "launch", "launched"}]
  /\ shared \in [mapped : BOOLEAN, linked : BOOLEAN, configured : BOOLEAN,
                 refcnt : Nat, started : BOOLEAN]
  /\ lock \in Attachers \cup {Nobody, "creator", "alert"}
  /\ creator_fd \in BOOLEAN

(* A domain outlives its users.  The alert thread uses the creator's       *)
(* mapping of the shared memory, its mutex and the domain's file up to its *)
(* last step: none of them goes away before it has ended, although it is   *)
(* detached and nobody joins it.  And nobody is attached to a domain whose *)
(* file was closed, so that no handle refers to a domain the driver reset. *)
DomainOutlivesUsers ==
  /\ ~AlertAt("none") => shared.mapped /\ creator_fd
  /\ creator \in {"unmap", "done"} => shared.refcnt = 0

(* The ring is a queue: the reader gets the alerts in the order in which   *)
(* they were raised, and none that was accepted is lost or read twice.     *)
Queue == INSTANCE AlertQueue WITH Capacity <- RingSize - 1, queue <- Unread,
                                  got <- alert.got
ImplementsQueue == Queue!Spec

(* A domain reset comes to its end: the alert thread is told and stops,    *)
(* also when the device is reset at the same time.                         *)
ResetCompletes == creator = "enqueue" ~> creator = "done"

=============================================================================
