---------------------------- MODULE CqInterrupts ----------------------------
(***************************************************************************)
(* Threads that wait in the driver for an event in their port's CQ, while  *)
(* ports are disabled and enabled, domains are closed and the device is    *)
(* reset: dlb2_block_on_cq_interrupt (dlb2_intr.c), its ioctl, the CQ      *)
(* interrupt and libdlb's side of it, on top of DomainFiles.               *)
(*                                                                         *)
(* Such a thread does not take resource_mutex: it reads the domain's valid *)
(* flag, reset_active and the CQ while every other operation may happen    *)
(* between two of its reads.                                               *)
(***************************************************************************)
EXTENDS DomainFiles

CONSTANTS
  Threads,        \* threads of applications that receive from ports
  MaxEvents       \* events in a CQ (bound)

ASSUME EventsAssumption == MaxEvents \in Nat \ {0}

VARIABLES
  cq,             \* events in the CQ memory of a port
  armed,          \* the device's interrupt of a port is armed
  irq,            \* it was raised and its handler has not run yet
  wake, disabled, \* dlb2->intr.*_cq_intr[p].wake and .disabled
  int_armed,      \* libdlb: port->int_armed
  thread          \* what each thread does, and for which port of which domain

cqVars == <<cq, armed, irq, wake, disabled, int_armed>>
allVars == <<vars, cqVars, thread>>

Outside == [pc |-> "outside"]

CqInit ==
  /\ Init
  /\ cq = [p \in Ports |-> 0]
  /\ armed = [p \in Ports |-> FALSE]
  /\ irq = [p \in Ports |-> FALSE]
  /\ wake = [p \in Ports |-> FALSE]
  /\ disabled = [p \in Ports |-> FALSE]
  /\ int_armed = [p \in Ports |-> FALSE]
  /\ thread = [t \in Threads |-> Outside]

Inside(t) == thread[t].pc # "outside"

(* One thread at a time waits for a CQ: it holds the mutex of its interrupt.*)
HoldsIntrMutex(t, p) == thread[t].pc \in {"locked", "wait", "woken"} /\ thread[t].port = p

Maps(o, p) == \E f \in Files : /\ Open(f) /\ file[f].of = o /\ file[f].port = p
                               /\ file[f].kind = "cq" /\ file[f].map = "mapped"

(* dlb2_cq_empty of thread t: 1, 0 or -EFAULT if the CQ is not mapped.     *)
cq_empty(t) == IF ~Maps(thread[t].dom, thread[t].port) THEN "EFAULT"
               ELSE IF cq[thread[t].port] = 0 THEN "empty" ELSE "filled"

-----------------------------------------------------------------------------
(* The device                                                              *)

Deliver(p) ==
  /\ hw.owner[p] # None /\ ~disabled[p]
  /\ cq[p] < MaxEvents
  /\ cq' = [cq EXCEPT ![p] = @ + 1]
  /\ UNCHANGED <<vars, armed, irq, wake, disabled, int_armed, thread>>

Fire(p) ==
  /\ hw.owner[p] # None /\ armed[p] /\ cq[p] > 0
  /\ armed' = [armed EXCEPT ![p] = FALSE]
  /\ irq' = [irq EXCEPT ![p] = TRUE]
  /\ UNCHANGED <<vars, cq, wake, disabled, int_armed, thread>>

(* dlb2_compressed_cq_intr_handler, with dlb2_wake_thread(WAKE_CQ_INTR).   *)
Isr(p) ==
  /\ irq[p]
  /\ irq' = [irq EXCEPT ![p] = FALSE]
  /\ wake' = [wake EXCEPT ![p] = TRUE]
  /\ UNCHANGED <<vars, cq, armed, disabled, int_armed, thread>>

-----------------------------------------------------------------------------
(* Applications                                                            *)

(* An application takes an event out of a CQ it maps.                      *)
Dequeue(o, p) ==
  /\ Maps(o, p) /\ Live(o) /\ port[p].domain = o
  /\ cq[p] > 0
  /\ cq' = [cq EXCEPT ![p] = @ - 1]
  /\ UNCHANGED <<vars, armed, irq, wake, disabled, int_armed, thread>>

(* The enable and disable ioctls; a thread may be waiting meanwhile.       *)
SetDisabled(o, p, off) ==
  /\ DomainIoctl(o)
  /\ hw.owner[p] = dom[o].id
  /\ disabled' = [disabled EXCEPT ![p] = off]
  /\ UNCHANGED <<vars, cq, armed, irq, wake, int_armed, thread>>

(* dlb_block_on_cq_interrupt: arm the interrupt unless libdlb believes it  *)
(* is armed, then the ioctl.                                               *)
Block(t, o, p) ==
  /\ ~Inside(t)
  /\ Live(o) /\ dom[o].file
  /\ Maps(o, p) /\ port[p].domain = o /\ cq[p] = 0
  /\ armed' = [armed EXCEPT ![p] = @ \/ ~int_armed[p]]
  /\ int_armed' = [int_armed EXCEPT ![p] = TRUE]
  /\ thread' = [thread EXCEPT ![t] = [pc |-> "ioctl", dom |-> o, port |-> p]]
  /\ UNCHANGED <<vars, cq, irq, wake, disabled>>

-----------------------------------------------------------------------------
(* dlb2_block_on_cq_interrupt                                              *)

Goto(t, pc) == thread' = [thread EXCEPT ![t] = [@ EXCEPT !.pc = pc]]

(* The ioctl returns: libdlb takes the interrupt for armed after an error. *)
Return(t, ret) ==
  LET p == thread[t].port IN
  /\ thread' = [thread EXCEPT ![t] = Outside]
  /\ int_armed' = IF port[p].domain = thread[t].dom
                  THEN [int_armed EXCEPT ![p] = (ret # "ok")] ELSE int_armed

EnterIoctl(t) ==
  /\ thread[t].pc = "ioctl" /\ Live(thread[t].dom)
  /\ IF Valid(thread[t].dom)
     THEN Goto(t, "entered") /\ UNCHANGED int_armed
     ELSE Return(t, "EINVAL")
  /\ UNCHANGED <<vars, cq, armed, irq, wake, disabled>>

CheckConfigured(t) ==
  /\ thread[t].pc = "entered" /\ Live(thread[t].dom)
  /\ IF cq_intr[thread[t].port] = dom[thread[t].dom].id
     THEN Goto(t, "lock") /\ UNCHANGED int_armed
     ELSE Return(t, "EPERM")
  /\ UNCHANGED <<vars, cq, armed, irq, wake, disabled>>

LockIntr(t) ==
  /\ thread[t].pc = "lock"
  /\ \A u \in Threads : ~HoldsIntrMutex(u, thread[t].port)
  /\ Goto(t, "locked")
  /\ UNCHANGED <<vars, cqVars>>

FirstLook(t) ==
  /\ thread[t].pc = "locked"
  /\ IF disabled[thread[t].port] THEN Return(t, "EACCES")
     ELSE CASE cq_empty(t) = "empty" -> Goto(t, "wait") /\ UNCHANGED int_armed
            [] cq_empty(t) = "filled" -> Return(t, "ok")
            [] cq_empty(t) = "EFAULT" -> Return(t, "EFAULT")
  /\ UNCHANGED <<vars, cq, armed, irq, wake, disabled>>

wake_condition(t) ==
  \/ wake[thread[t].port] \/ disabled[thread[t].port]
  \/ reset_active \/ ~Valid(thread[t].dom)

Bug_OneJiffy(t) == FALSE

(* wait_event_interruptible_timeout with a timeout of one jiffy: a workaround*)
(* that makes of every wait a poll of the condition and of the CQ.         *)
OneJiffy(t) == TRUE

Bug_Awake(t) ==
  /\ thread[t].pc = "wait" /\ Live(thread[t].dom)
  /\ wake_condition(t) \/ OneJiffy(t)
  /\ thread' = [thread EXCEPT ![t] =
       [pc |-> "woken", dom |-> @.dom, port |-> @.port,
        ret |-> IF disabled[@.port] THEN "EACCES" ELSE "ok"]]
  /\ UNCHANGED <<vars, cqVars>>

(* The wait returns, because of the condition, the timeout or a signal; the *)
(* cause decides the result before the wake flag is cleared.               *)
Awake(t) ==
  /\ thread[t].pc = "wait" /\ Live(thread[t].dom)
  /\ wake_condition(t) \/ OneJiffy(t)
  /\ thread' = [thread EXCEPT ![t] =
       [pc |-> "woken", dom |-> @.dom, port |-> @.port,
        ret |-> IF reset_active \/ ~Valid(@.dom) THEN "EINTR"
                ELSE IF disabled[@.port] THEN "EACCES" ELSE "ok"]]
  /\ UNCHANGED <<vars, cqVars>>

Signal(t) ==
  /\ thread[t].pc = "wait"
  /\ thread' = [thread EXCEPT ![t] = [pc |-> "woken", dom |-> @.dom, port |-> @.port,
                                      ret |-> "ERESTARTSYS"]]
  /\ UNCHANGED <<vars, cqVars>>

(* The wake flag is cleared and the CQ looked at: wait again, or return.   *)
WaitAgain(t) ==
  LET w == thread[t] IN
  /\ w.pc = "woken"
  /\ wake' = [wake EXCEPT ![w.port] = FALSE]
  /\ IF w.ret = "ok" /\ cq_empty(t) # "filled"
     THEN /\ thread' = [thread EXCEPT ![t] = [pc |-> "wait", dom |-> w.dom, port |-> w.port]]
          /\ UNCHANGED int_armed
     ELSE Return(t, w.ret)
  /\ UNCHANGED <<vars, cq, armed, irq, disabled>>

ThreadStep(t) ==
  \/ EnterIoctl(t) \/ CheckConfigured(t) \/ LockIntr(t) \/ FirstLook(t)
  \/ Awake(t) \/ WaitAgain(t)

-----------------------------------------------------------------------------
(* The composition.  A new port starts with an empty CQ and an enabled,    *)
(* unarmed interrupt, whether or not the ioctl succeeds; a file stays open *)
(* while a thread is in its ioctl.                                         *)

ConfigurePort(o, p) ==
  /\ CreatePort(o, p)
  /\ cq' = [cq EXCEPT ![p] = 0]
  /\ armed' = [armed EXCEPT ![p] = FALSE]
  /\ disabled' = [disabled EXCEPT ![p] = FALSE]
  /\ int_armed' = [int_armed EXCEPT ![p] = FALSE]
  /\ UNCHANGED <<irq, wake, thread>>

CloseDomainFile(o) ==
  /\ \A t \in Threads : Inside(t) => thread[t].dom # o
  /\ DomainClose(o)
  /\ UNCHANGED <<cqVars, thread>>

FilesNext ==
  \/ /\ \/ \E o \in Objs, i \in Ids : CreateSchedDomain(o, i)
        \/ \E o \in Objs, p \in Ports, f \in Files, kind \in Kinds :
             GetPortFd(o, p, f, kind)
        \/ FileOps
        \/ ResetOps
     /\ UNCHANGED <<cqVars, thread>>
  \/ \E o \in Objs, p \in Ports : ConfigurePort(o, p)
  \/ \E o \in Objs : CloseDomainFile(o)

CqNext ==
  \/ FilesNext
  \/ \E p \in Ports : Deliver(p) \/ Fire(p) \/ Isr(p)
  \/ \E o \in Objs, p \in Ports : Dequeue(o, p) \/ \E off \in BOOLEAN : SetDisabled(o, p, off)
  \/ \E t \in Threads : \/ ThreadStep(t) \/ Signal(t)
                        \/ \E o \in Objs, p \in Ports : Block(t, o, p)

CqSpec == CqInit /\ [][CqNext]_allVars

(* The reset runs on, threads in the driver run on and get a mutex that is *)
(* free again and again; interrupt handlers run.  Applications react to a  *)
(* reset: they unmap and close the files of a disabled domain.             *)
CqFairness ==
  /\ WF_allVars(ResetOps /\ reset.phase # "idle" /\ UNCHANGED <<cqVars, thread>>)
  /\ \A t \in Threads :
       /\ WF_allVars(EnterIoctl(t) \/ CheckConfigured(t) \/ FirstLook(t)
                     \/ Awake(t) \/ WaitAgain(t))
       /\ SF_allVars(LockIntr(t))
  /\ \A f \in Files :
       SF_allVars(Open(f) /\ ~Valid(file[f].of) /\ PortClose(f) /\ UNCHANGED <<cqVars, thread>>)
  /\ \A o \in Objs : SF_allVars(~Valid(o) /\ CloseDomainFile(o))

CqFairSpec == CqSpec /\ CqFairness

-----------------------------------------------------------------------------
(* Properties                                                              *)

(* The variables have their types, those of DomainFiles too, whatever      *)
(* threads do between the steps of the driver.                             *)
CqTypeOK ==
  /\ TypeOK
  /\ cq \in [Ports -> 0 .. MaxEvents]
  /\ {armed, irq, wake, disabled, int_armed} \subseteq [Ports -> BOOLEAN]
  /\ \A t \in Threads :
       thread[t] \in {Outside} \cup
         [pc : {"ioctl", "entered", "lock", "locked", "wait"}, dom : Objs, port : Ports]
         \cup [pc : {"woken"}, dom : Objs, port : Ports,
               ret : {"ok", "EINTR", "EACCES", "ERESTARTSYS"}]

(* The domain that a thread in the driver looks at, without the mutex and   *)
(* over and over while it sleeps, has not been freed meanwhile, neither by  *)
(* the close of port files nor by a device reset; unless one of its ports  *)
(* changed hands while files of it were open, when the close of such a     *)
(* file takes a reference that the thread's file should hold.              *)
WaitersKeepDomain ==
  \A t \in Threads : Inside(t) /\ ~Shared(thread[t].dom) =>
    Live(thread[t].dom) /\ dom[thread[t].dom].file

(* Nothing is said of a thread whose domain may be freed under it.         *)
SharesDomain(t) == Inside(t) /\ Shared(thread[t].dom)

(* Whoever waits when the device is reset comes back: the thread leaves    *)
(* the driver although nothing will ever be scheduled to its CQ again.     *)
WaitersReturn ==
  \A t \in Threads :
    thread[t].pc = "wait" /\ ~Valid(thread[t].dom) ~> ~Inside(t) \/ SharesDomain(t)

(* An event in the CQ ends the wait, also when its interrupt was lost:     *)
(* libdlb does not always know whether the interrupt is armed, and the     *)
(* wake flag is cleared after the wait.                                    *)
EventsEndWait ==
  \A t \in Threads :
    thread[t].pc = "wait" /\ cq_empty(t) = "filled"
      ~> ~Inside(t) \/ cq_empty(t) # "filled" \/ SharesDomain(t)

(* A reset ends, and no domain it disabled is leaked unless one of its     *)
(* ports was given to another domain before its files were closed: the     *)
(* comment in dlb2_reset_done says that it is freed by its last close.     *)
ResetEnds ==
  /\ reset_active ~> ~reset_active
  /\ \A o \in Objs : Live(o) /\ ~Valid(o) ~> ~Live(o) \/ Shared(o)
=============================================================================
