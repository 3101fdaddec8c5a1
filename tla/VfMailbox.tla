----------------------------- MODULE VfMailbox -----------------------------
(***************************************************************************)
(* The mailboxes between the PF driver and the VF drivers while the PF is  *)
(* about to be reset (dlb2_vf_ops.c, dlb2_pf_ops.c, dlb2_main.c and the    *)
(* senders in base/dlb2_resource.c).                                       *)
(*                                                                         *)
(* Each mailbox holds one request and an ISR bit, set by the sender and    *)
(* cleared by the receiver when it is done; the sender polls the bit with  *)
(* its own resource mutex held.  The threads: in every VF an application   *)
(* in the driver and the interrupt thread; in the PF the interrupt thread  *)
(* and dlb2_reset_prepare.  A VF has at most one domain.                   *)
(*                                                                         *)
(* Time appears only in ResetTimeout: the PF's second passes while a VF is *)
(* dead, or its interrupt thread waits for its mutex, and never otherwise. *)
(* The ten seconds of a VF never pass.  The model ends where the reset     *)
(* itself (the FLR) begins.                                                *)
(***************************************************************************)
EXTENDS Naturals

CONSTANTS
  VFs,            \* virtual functions with a registered driver
  Nobody,         \* no holder of a mutex
  None,           \* no request, no VF
  QuiesceRounds   \* polls of dlb2_wait_to_quiesce before it gives up

ASSUME QuiesceRoundsAssumption == QuiesceRounds \in Nat \ {0}
ASSUME NamesAssumption ==
  /\ None \notin VFs \cup {"create", "close", "pre_reset", "in_use"}
  /\ Nobody \notin {"app", "service", "reset"}

VARIABLES
  app,            \* a VF's application thread: pc, and what it asks for
  isr,            \* a VF's interrupt thread: pc, and the request it has read
  vf,             \* a VF driver: mutex, reset_active, its domain, alive
  to_pf,          \* VF to PF mailbox: request, response, ISR bit
  to_vf,          \* PF to VF mailbox: request, response, ISR bit, interrupt
  pf_lock,        \* the PF's resource mutex
  service,        \* the PF's interrupt thread
  reset,          \* dlb2_reset_prepare
  used            \* VFs for which the PF has a domain configured

vars == <<app, isr, vf, to_pf, to_vf, pf_lock, service, reset, used>>

Init ==
  /\ app = [v \in VFs |-> [pc |-> "idle", op |-> None]]
  /\ isr = [v \in VFs |-> [pc |-> "idle", req |-> None]]
  /\ vf = [v \in VFs |-> [lock |-> Nobody, reset_active |-> FALSE, open |-> FALSE,
                          valid |-> TRUE, alive |-> TRUE]]
  /\ to_pf = [v \in VFs |-> [req |-> None, resp |-> FALSE, bit |-> FALSE]]
  /\ to_vf = [v \in VFs |-> [req |-> None, resp |-> FALSE, bit |-> FALSE, irq |-> FALSE]]
  /\ pf_lock = Nobody
  /\ service = [pc |-> "idle", at |-> None, todo |-> {}]
  /\ reset = [pc |-> "idle", at |-> None, todo |-> {}, round |-> 0, in_use |-> TRUE]
  /\ used = {}

AppTo(v, pc) == app' = [app EXCEPT ![v].pc = pc]
IsrTo(v, pc) ==
  isr' = [isr EXCEPT ![v] = [pc |-> pc, req |-> IF pc = "idle" THEN None ELSE @.req]]

OthersOfVf == <<to_vf, pf_lock, service, reset, used>>
OthersOfIsr == <<app, to_pf, pf_lock, service, reset, used>>
OthersOfPf == <<app, isr, vf>>

-----------------------------------------------------------------------------
(* A VF's application                                                      *)

(* The ioctl that creates a domain is refused once reset_active is set.    *)
AppCreate(v) ==
  /\ app[v].pc = "idle" /\ vf[v].alive /\ vf[v].lock = Nobody
  /\ ~vf[v].reset_active /\ ~vf[v].open
  /\ vf' = [vf EXCEPT ![v].lock = "app"]
  /\ app' = [app EXCEPT ![v] = [pc |-> "send", op |-> "create"]]
  /\ UNCHANGED <<isr, to_pf, OthersOfVf>>

(* The last close of the domain's file: a domain that is valid is reset by *)
(* the PF, one that was disabled is only freed (__dlb2_free_domain).       *)
AppClose(v) ==
  /\ app[v].pc = "idle" /\ vf[v].alive /\ vf[v].lock = Nobody /\ vf[v].open
  /\ \/ /\ vf[v].valid
        /\ vf' = [vf EXCEPT ![v].lock = "app"]
        /\ app' = [app EXCEPT ![v] = [pc |-> "send", op |-> "close"]]
     \/ /\ ~vf[v].valid
        /\ vf' = [vf EXCEPT ![v].open = FALSE]
        /\ UNCHANGED app
  /\ UNCHANGED <<isr, to_pf, OthersOfVf>>

(* dlb2_send_sync_mbox_cmd *)
AppSend(v) ==
  /\ app[v].pc = "send" /\ vf[v].alive
  /\ AppTo(v, "poll")
  /\ to_pf' = [to_pf EXCEPT ![v] = [@ EXCEPT !.req = app[v].op, !.bit = TRUE]]
  /\ UNCHANGED <<isr, vf, OthersOfVf>>

(* The poll ends and the response is read; then dlb2_init_domain, or the   *)
(* rest of __dlb2_free_domain, and the unlock.                             *)
AppFinish(v) ==
  /\ app[v].pc = "poll" /\ vf[v].alive /\ ~to_pf[v].bit
  /\ app' = [app EXCEPT ![v] = [pc |-> "idle", op |-> None]]
  /\ vf' = [vf EXCEPT ![v] = [@ EXCEPT !.lock = Nobody,
                                       !.open = app[v].op = "create" /\ to_pf[v].resp]]
  /\ UNCHANGED <<isr, to_pf, OthersOfVf>>

(* The guest dies, with whatever its threads hold.                         *)
Crash(v) ==
  /\ vf[v].alive
  /\ vf' = [vf EXCEPT ![v].alive = FALSE]
  /\ UNCHANGED <<app, isr, to_pf, OthersOfVf>>

-----------------------------------------------------------------------------
(* A VF's interrupt thread: dlb2_vf_intr_handler, dlb2_vf_handle_pf_req    *)

(* The interrupt is acknowledged before the request is read.               *)
IsrStart(v) ==
  /\ isr[v].pc = "idle" /\ vf[v].alive /\ to_vf[v].irq
  /\ IsrTo(v, "read")
  /\ to_vf' = [to_vf EXCEPT ![v].irq = FALSE]
  /\ UNCHANGED <<vf, OthersOfIsr>>

Bug_IsrRead(v) ==
  /\ isr[v].pc = "read" /\ vf[v].alive
  /\ isr' = [isr EXCEPT ![v] = [pc |-> IF to_vf[v].req = "in_use" THEN "answer" ELSE "deferred",
                                req |-> to_vf[v].req]]
  /\ UNCHANGED <<vf, to_vf, OthersOfIsr>>

IsrRead(v) ==
  /\ isr[v].pc = "read" /\ vf[v].alive
  /\ isr' = [isr EXCEPT ![v] = [pc |-> IF to_vf[v].req = "in_use" THEN "answer" ELSE "ack",
                                req |-> to_vf[v].req]]
  /\ UNCHANGED <<vf, to_vf, OthersOfIsr>>

(* dlb2_vf_mbox_cmd_in_use_fn counts the open files without the mutex that *)
(* dlb2_in_use asks for.                                                   *)
IsrAnswer(v) ==
  /\ isr[v].pc = "answer" /\ vf[v].alive
  /\ IsrTo(v, "ack")
  /\ to_vf' = [to_vf EXCEPT ![v].resp = vf[v].open]
  /\ UNCHANGED <<vf, OthersOfIsr>>

(* A notification is handled after it has been acknowledged.               *)
IsrAck(v) ==
  /\ isr[v].pc = "ack" /\ vf[v].alive
  /\ IsrTo(v, IF isr[v].req = "pre_reset" THEN "deferred" ELSE "idle")
  /\ to_vf' = [to_vf EXCEPT ![v].bit = FALSE]
  /\ UNCHANGED <<vf, OthersOfIsr>>

Bug_IsrStopUsers(v) ==
  /\ isr[v].pc = "deferred" /\ vf[v].alive
  /\ IsrTo(v, "idle")
  /\ vf' = [vf EXCEPT ![v] = [@ EXCEPT !.reset_active = TRUE, !.valid = ~vf[v].open]]
  /\ UNCHANGED <<to_vf, OthersOfIsr>>

(* dlb2_vf_mbox_cmd_notification_fn: reset_active, dlb2_stop_users         *)
IsrStopUsers(v) ==
  /\ isr[v].pc = "deferred" /\ vf[v].alive /\ vf[v].lock = Nobody
  /\ IsrTo(v, "idle")
  /\ vf' = [vf EXCEPT ![v] = [@ EXCEPT !.reset_active = TRUE, !.valid = ~vf[v].open]]
  /\ UNCHANGED <<to_vf, OthersOfIsr>>

-----------------------------------------------------------------------------
(* The PF's interrupt thread: dlb2_service_intr_handler and                *)
(* dlb2_handle_vf_to_pf_interrupt, which reads the bits once               *)

ServiceStart ==
  /\ service.pc = "idle" /\ pf_lock = Nobody
  /\ \E v \in VFs : to_pf[v].bit
  /\ pf_lock' = "service"
  /\ service' = [pc |-> "serve", at |-> None, todo |-> {v \in VFs : to_pf[v].bit}]
  /\ UNCHANGED <<to_pf, to_vf, reset, used, OthersOfPf>>

Bug_ServiceHandle(v) ==
  /\ service.pc = "serve" /\ v \in service.todo
  /\ service' = [pc |-> "ack", at |-> v, todo |-> service.todo \ {v}]
  /\ \/ /\ to_pf' = [to_pf EXCEPT ![v].resp = TRUE]
        /\ used' = IF to_pf[v].req = "create" THEN used \cup {v} ELSE used \ {v}
     \/ /\ to_pf[v].req = "create"
        /\ UNCHANGED <<to_pf, used>>
  /\ UNCHANGED <<to_vf, pf_lock, reset, OthersOfPf>>

(* dlb2_handle_mbox_interrupt: the command's handler writes the response.  *)
(* A domain may be refused for want of resources.                          *)
ServiceHandle(v) ==
  /\ service.pc = "serve" /\ v \in service.todo
  /\ service' = [pc |-> "ack", at |-> v, todo |-> service.todo \ {v}]
  /\ \/ /\ to_pf' = [to_pf EXCEPT ![v].resp = TRUE]
        /\ used' = IF to_pf[v].req = "create" THEN used \cup {v} ELSE used \ {v}
     \/ /\ to_pf[v].req = "create"
        /\ to_pf' = [to_pf EXCEPT ![v].resp = FALSE]
        /\ UNCHANGED used
  /\ UNCHANGED <<to_vf, pf_lock, reset, OthersOfPf>>

(* dlb2_ack_vdev_mbox_int                                                  *)
ServiceAck ==
  /\ service.pc = "ack"
  /\ service' = [service EXCEPT !.pc = "serve", !.at = None]
  /\ to_pf' = [to_pf EXCEPT ![service.at].bit = FALSE]
  /\ UNCHANGED <<to_vf, pf_lock, reset, used, OthersOfPf>>

ServiceEnd ==
  /\ service.pc = "serve" /\ service.todo = {}
  /\ service' = [service EXCEPT !.pc = "idle"]
  /\ pf_lock' = Nobody
  /\ UNCHANGED <<to_pf, to_vf, reset, used, OthersOfPf>>

-----------------------------------------------------------------------------
(* dlb2_reset_prepare.  It looks at the VFs in the order of their numbers, *)
(* which say nothing of a VF: here in any order.  Its queries are numbered:*)
(* the first one, those of dlb2_wait_to_quiesce, and the last one.         *)

LastRound == QuiesceRounds + 1
OthersOfReset == <<to_pf, service, used, OthersOfPf>>

ResetPrepare ==
  /\ reset.pc = "idle" /\ pf_lock = Nobody
  /\ pf_lock' = "reset"
  /\ reset' = [reset EXCEPT !.pc = "notify", !.todo = VFs]
  /\ UNCHANGED <<to_vf, OthersOfReset>>

Send(v, req) ==
  to_vf' = [to_vf EXCEPT ![v] = [@ EXCEPT !.req = req, !.bit = TRUE, !.irq = TRUE]]

(* dlb2_notify_vf *)
ResetNotify(v) ==
  /\ reset.pc = "notify" /\ v \in reset.todo
  /\ Send(v, "pre_reset")
  /\ reset' = [reset EXCEPT !.pc = "notified", !.at = v, !.todo = @ \ {v}]
  /\ UNCHANGED <<pf_lock, OthersOfReset>>

ResetNotified ==
  /\ reset.pc = "notified" /\ ~to_vf[reset.at].bit
  /\ reset' = [reset EXCEPT !.pc = "notify", !.at = None]
  /\ UNCHANGED <<to_vf, pf_lock, OthersOfReset>>

(* Only a VF with a domain is asked.                                       *)
ResetAsk ==
  /\ \/ reset.pc = "notify" /\ reset.todo = {}
     \/ reset.pc = "relocked"
  /\ reset' = [reset EXCEPT !.pc = "ask", !.todo = used]
  /\ UNCHANGED <<to_vf, pf_lock, OthersOfReset>>

(* dlb2_vdev_in_use *)
ResetAskVf(v) ==
  /\ reset.pc = "ask" /\ v \in reset.todo
  /\ Send(v, "in_use")
  /\ reset' = [reset EXCEPT !.pc = "asked", !.at = v, !.todo = @ \ {v}]
  /\ UNCHANGED <<pf_lock, OthersOfReset>>

(* What dlb2_reset_prepare and dlb2_wait_to_quiesce do with an answer      *)
Concluded(in_use) ==
  \/ /\ ~in_use /\ reset.round \in {0, LastRound}
     /\ reset' = [reset EXCEPT !.pc = "flr", !.at = None, !.in_use = FALSE]
  \/ /\ ~in_use /\ reset.round \in 1 .. QuiesceRounds
     /\ reset' = [reset EXCEPT !.pc = "relocked", !.at = None, !.round = LastRound]
  \/ /\ in_use /\ reset.round = 0
     /\ reset' = [reset EXCEPT !.pc = "relocked", !.at = None, !.round = 1]
  \/ /\ in_use /\ reset.round \in 1 .. QuiesceRounds
     /\ reset' = [reset EXCEPT !.pc = "unlock", !.at = None]
  \/ /\ in_use /\ reset.round = LastRound
     /\ reset' = [reset EXCEPT !.pc = "flr", !.at = None]

ResetQuiet ==
  /\ reset.pc = "ask" /\ reset.todo = {}
  /\ Concluded(FALSE)
  /\ UNCHANGED <<to_vf, pf_lock, OthersOfReset>>

ResetAnswered ==
  /\ reset.pc = "asked" /\ ~to_vf[reset.at].bit
  /\ IF to_vf[reset.at].resp THEN Concluded(TRUE)
                             ELSE reset' = [reset EXCEPT !.pc = "ask", !.at = None]
  /\ UNCHANGED <<to_vf, pf_lock, OthersOfReset>>

Unresponsive(v) == to_vf[v].bit /\ (vf[v].alive => isr[v].pc = "deferred")

Bug_ResetTimeout ==
  /\ reset.pc = "notified" /\ Unresponsive(reset.at)
  /\ reset' = [reset EXCEPT !.pc = "notify", !.at = None]
  /\ UNCHANGED <<to_vf, pf_lock, OthersOfReset>>

(* A notification that times out is forgotten; a query counts as "in use", *)
(* because the error it returns is not zero.                               *)
ResetTimeout ==
  /\ reset.at # None /\ Unresponsive(reset.at)
  /\ \/ /\ reset.pc = "notified"
        /\ reset' = [reset EXCEPT !.pc = "notify", !.at = None]
     \/ /\ reset.pc = "asked"
        /\ Concluded(TRUE)
  /\ UNCHANGED <<to_vf, pf_lock, OthersOfReset>>

Bug_ResetSleep ==
  /\ reset.pc = "unlock"
  /\ reset' = [reset EXCEPT !.pc = "sleep"]
  /\ UNCHANGED <<pf_lock, to_vf, OthersOfReset>>

ResetSleep ==
  /\ reset.pc = "unlock"
  /\ pf_lock' = Nobody
  /\ reset' = [reset EXCEPT !.pc = "sleep"]
  /\ UNCHANGED <<to_vf, OthersOfReset>>

ResetRelock ==
  /\ reset.pc = "sleep" /\ pf_lock = Nobody
  /\ pf_lock' = "reset"
  /\ reset' = [reset EXCEPT !.pc = "relocked", !.round = @ + 1]
  /\ UNCHANGED <<to_vf, OthersOfReset>>

-----------------------------------------------------------------------------

App(v) == AppSend(v) \/ AppFinish(v)
Isr(v) == IsrStart(v) \/ IsrRead(v) \/ IsrAnswer(v) \/ IsrAck(v) \/ IsrStopUsers(v)
Service == ServiceStart \/ (\E v \in VFs : ServiceHandle(v)) \/ ServiceAck \/ ServiceEnd
Reset ==
  \/ \E v \in VFs : ResetNotify(v) \/ ResetAskVf(v)
  \/ ResetNotified \/ ResetAsk \/ ResetQuiet \/ ResetAnswered \/ ResetTimeout
  \/ ResetSleep \/ ResetRelock

Next ==
  \/ \E v \in VFs : AppCreate(v) \/ AppClose(v) \/ Crash(v) \/ App(v) \/ Isr(v)
  \/ ResetPrepare
  \/ Service
  \/ Reset

Spec == Init /\ [][Next]_vars

(* Every thread that has started goes on; a mutex is granted to each of    *)
(* its waiters in turn (ServiceStart and ResetRelock compete for one).     *)
FairSpec ==
  /\ Spec
  /\ \A v \in VFs : WF_vars(App(v)) /\ WF_vars(Isr(v))
  /\ WF_vars(Service) /\ WF_vars(Reset)
  /\ SF_vars(ServiceStart) /\ SF_vars(ResetRelock)

-----------------------------------------------------------------------------
(* Properties                                                              *)

(* The shape of the state, and who holds a mutex: a VF's only its          *)
(* application between the ioctl's lock and unlock, the PF's one of the    *)
(* two PF threads, and never the reset while it sleeps.                    *)
TypeOK ==
  /\ app \in [VFs -> [pc : {"idle", "send", "poll"},
                      op : {"create", "close", None}]]
  /\ isr \in [VFs -> [pc : {"idle", "read", "answer", "ack", "deferred"},
                      req : {"pre_reset", "in_use", None}]]
  /\ \A v \in VFs :
       /\ vf[v].lock = IF app[v].pc = "idle" THEN Nobody ELSE "app"
       /\ {vf[v].reset_active, vf[v].open, vf[v].valid, vf[v].alive} \subseteq BOOLEAN
  /\ to_pf \in [VFs -> [req : {"create", "close", None}, resp : BOOLEAN, bit : BOOLEAN]]
  /\ to_vf \in [VFs -> [req : {"pre_reset", "in_use", None}, resp : BOOLEAN,
                        bit : BOOLEAN, irq : BOOLEAN]]
  /\ pf_lock = CASE service.pc # "idle" -> "service"
                 [] reset.pc \notin {"idle", "sleep"} -> "reset"
                 [] OTHER -> Nobody
  /\ reset.round \in 0 .. LastRound
  /\ used \subseteq VFs

(* A VF and the PF agree on the VF's domain whenever no request of the VF  *)
(* is under way, until the domain is disabled: each request got its own    *)
(* response (dlb2_send_sync_mbox_cmd, dlb2_handle_mbox_interrupt).         *)
BothSidesAgree ==
  \A v \in VFs :
    vf[v].alive /\ vf[v].valid /\ app[v].pc = "idle" => (vf[v].open <=> v \in used)

(* What the VF has, seen from the VF: an open domain, one that the PF made *)
(* for it already, or one that the PF has yet to reset.                    *)
Answered(v) == app[v].pc = "poll" /\ ~to_pf[v].bit
HasDomain(v) ==
  \/ app[v].pc = "idle" /\ vf[v].open
  \/ app[v].pc # "idle" /\ app[v].op = "create" /\ Answered(v) /\ to_pf[v].resp
  \/ app[v].pc # "idle" /\ app[v].op = "close" /\ ~Answered(v)

(* When dlb2_reset_prepare lets the reset begin because nothing is in use, *)
(* no VF that still runs has a domain, whatever its threads are doing.     *)
QuietAtFlr ==
  reset.pc = "flr" /\ ~reset.in_use => \A v \in VFs : vf[v].alive => ~HasDomain(v)

(* "We avoid this deadlock by deferring the execution of VF handlers that  *)
(* acquire the resource mutex": the PF never gives up on the pre-reset     *)
(* notification of a VF that still runs.                                   *)
NoNoticeTimesOut ==
  [][ reset.pc = "notified" /\ reset'.pc = "notify"
        => ~to_vf[reset.at].bit \/ ~vf[reset.at].alive ]_vars

(* PF and VFs, each polling with its mutex held, do not wait for each      *)
(* other for ever.  A request is answered, unless its guest dies or the    *)
(* reset takes the device away; and a reset that was asked for begins,     *)
(* whatever the VFs do: wait for the PF, die, or keep their domains open.  *)
NobodyWaitsForever ==
  /\ \A v \in VFs :
       app[v].pc = "poll" ~> app[v].pc # "poll" \/ ~vf[v].alive \/ reset.pc = "flr"
  /\ reset.pc # "idle" ~> reset.pc = "flr"

=============================================================================
