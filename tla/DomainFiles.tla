---------------------------- MODULE DomainFiles ----------------------------
(***************************************************************************)
(* The kernel driver's scheduling domains as objects that user space holds *)
(* through files: the domain's own file and the producer-port and CQ files *)
(* of its ports, each of which may be mapped.  A domain lives as long as   *)
(* its reference count; its last file resets it in the device and releases *)
(* the memory of its ports.  A function-level reset (FLR) of the device    *)
(* may come at any time: it disables every domain, waits for the files to  *)
(* be closed, removes what is still mapped and forgets all domains, whose  *)
(* files may be closed much later (dlb2_main.c, dlb2_ioctl.c, dlb2_file.c).*)
(*                                                                         *)
(* Everything an operation does under the device's resource_mutex is one   *)
(* step; the reset holds the mutex except while it sleeps.                 *)
(***************************************************************************)
EXTENDS Integers, FiniteSets

CONSTANTS
  Ids,            \* scheduling domains of the device
  Ports,          \* its load-balanced and directed ports
  Objs,           \* struct dlb2_domain ever allocated (bound), 1 .. n
  Files,          \* port files open at a time (bound)
  Kinds,          \* of port files: "pp", "cq" or both
  None,
  MaxDevs,        \* open device files (bound)
  MaxResets,      \* function-level resets (bound)
  MaxRounds,      \* sleeps before the reset gives up: dlb2_reset_timeout_s * 10
  MaxLeaks,       \* references to the inode that no file holds (bound)
  PortOutcomes,   \* of a port's configuration: "ok", "no_answer" (of the PF to
                  \* a VF) or "no_interrupt" (it could not be enabled)
  ResetOutcomes,  \* results of the device's domain reset: TRUE is success
  FdOutcomes      \* results of the allocation of a file

ASSUME BoundsAssumption ==
  /\ IsFiniteSet(Objs) /\ Objs = 1 .. Cardinality(Objs)
  /\ IsFiniteSet(Files)
  /\ Kinds \subseteq {"pp", "cq"}
  /\ MaxDevs \in Nat /\ MaxResets \in Nat /\ MaxRounds \in Nat
  /\ MaxLeaks \in Nat
  /\ PortOutcomes \subseteq {"ok", "no_answer", "no_interrupt"}
  /\ ResetOutcomes \subseteq BOOLEAN /\ FdOutcomes \subseteq BOOLEAN

(* An open port file.                                                      *)
FileType == [port : Ports, kind : {"pp", "cq"}, of : Objs,
             map : {"no", "mapped", "zapped"}]

ASSUME NoneAssumption == None \notin Ids \cup Objs \cup Ports \cup FileType

VARIABLES
  dom,            \* per allocated domain: struct dlb2_domain
  sched,          \* dlb2->sched_domains[]
  port,           \* dlb2->ldb_port[], dir_port[]: static, reused by every domain
  cq_intr,        \* dlb2->intr.*_cq_intr[]: configured for which domain id
  hw,             \* the device and the resource state: domains, owners of ports
  file,           \* the port files of all processes
  devs,           \* open device files
  inode_cnt,      \* dlb2->inode_cnt: users of the inode all port files share
  pm,             \* the device's runtime-PM usage count
  reset,          \* progress of dlb2_reset_prepare and dlb2_reset_done
  reset_active,
  domain_reset_failed,
  hist            \* history of CreatePort, for the properties

vars == <<dom, sched, port, cq_intr, hw, file, devs, inode_cnt, pm, reset,
          reset_active, domain_reset_failed, hist>>

Absent == [state |-> "absent"]

Init ==
  /\ dom = [o \in Objs |-> Absent]
  /\ sched = [i \in Ids |-> None]
  /\ port = [p \in Ports |-> [valid |-> FALSE, domain |-> None]]
  /\ cq_intr = [p \in Ports |-> None]
  /\ hw = [domains |-> {}, owner |-> [p \in Ports |-> None]]
  /\ file = [f \in Files |-> None]
  /\ devs = 0
  /\ inode_cnt = 0
  /\ pm = 0
  /\ reset = [phase |-> "idle", rounds |-> 0, count |-> 0]
  /\ reset_active = FALSE
  /\ domain_reset_failed = FALSE
  /\ hist = [shared |-> {}, half |-> {}]

Live(o) == dom[o].state = "live"
Valid(o) == Live(o) /\ dom[o].valid
Open(f) == file[f] # None

(* A port of o changed hands, from o or to it, while a file of the domain  *)
(* that lost it was open.                                                  *)
Shared(o) == o \in hist.shared

(* The reset holds resource_mutex from its first step to its last, but not *)
(* while it sleeps.                                                        *)
MutexFree == reset.phase \in {"idle", "sleep"}

-----------------------------------------------------------------------------
(* Reference counts                                                        *)

(* The ports of the domain are forgotten but not released.                 *)
Bug_free_domain(o, dm) ==
  LET i == dm[o].id IN
  /\ dom' = [dm EXCEPT ![o] = [state |-> "freed"]]
  /\ sched' = IF sched[i] = o THEN [sched EXCEPT ![i] = None] ELSE sched
  /\ IF dm[o].valid
     THEN /\ hw' = [domains |-> hw.domains \ {i},
                    owner |-> [p \in Ports |-> IF hw.owner[p] = i
                                               THEN None ELSE hw.owner[p]]]
          /\ pm' = pm - 1
     ELSE UNCHANGED <<hw, pm>>
  /\ UNCHANGED <<port, cq_intr, domain_reset_failed>>

(* __dlb2_free_domain: the domain of a device that was reset is only       *)
(* forgotten; any other is reset in the device, and the CQ memory and      *)
(* interrupts of its ports are released whether or not that succeeded.     *)
free_domain(o, dm) ==
  LET i == dm[o].id IN
  /\ dom' = [dm EXCEPT ![o] = [state |-> "freed"]]
  /\ IF dm[o].valid
     THEN \E done \in ResetOutcomes :
            /\ hw' = IF done
                     THEN [domains |-> hw.domains \ {i},
                           owner |-> [p \in Ports |-> IF hw.owner[p] = i
                                                      THEN None ELSE hw.owner[p]]]
                     ELSE hw
            /\ port' = [p \in Ports |->
                          IF port[p].valid /\ dm[port[p].domain].id = i
                          THEN [port[p] EXCEPT !.valid = FALSE] ELSE port[p]]
            /\ cq_intr' = [p \in Ports |-> IF cq_intr[p] = i THEN None ELSE cq_intr[p]]
            /\ sched' = [sched EXCEPT ![i] = None]
            /\ domain_reset_failed' = (domain_reset_failed \/ ~done)
            /\ pm' = pm - 1
     ELSE /\ sched' = IF sched[i] = o THEN [sched EXCEPT ![i] = None] ELSE sched
          /\ UNCHANGED <<hw, port, cq_intr, domain_reset_failed, pm>>

Bug_kref_put(o, dm) == free_domain(o, dm)

(* The last reference is taken for one of several.                         *)
Bug_kref_put_last(o, dm) ==
  IF dm[o].refcnt > 0
  THEN /\ dom' = [dm EXCEPT ![o].refcnt = @ - 1]
       /\ UNCHANGED <<sched, hw, port, cq_intr, domain_reset_failed, pm>>
  ELSE free_domain(o, dm)

(* kref_put on the domain o of dm, the domains as the caller leaves them.  *)
kref_put(o, dm) ==
  IF dm[o].refcnt > 1
  THEN /\ dom' = [dm EXCEPT ![o].refcnt = @ - 1]
       /\ UNCHANGED <<sched, hw, port, cq_intr, domain_reset_failed, pm>>
  ELSE free_domain(o, dm)

-----------------------------------------------------------------------------
(* Operations of applications                                              *)

OpenDevice ==
  /\ devs < MaxDevs
  /\ ~reset_active
  /\ devs' = devs + 1
  /\ pm' = pm + 1
  /\ UNCHANGED <<dom, sched, port, cq_intr, hw, file, inode_cnt, reset,
                 reset_active, domain_reset_failed, hist>>

CloseDevice ==
  /\ devs > 0
  /\ devs' = devs - 1
  /\ pm' = pm - 1
  /\ UNCHANGED <<dom, sched, port, cq_intr, hw, file, inode_cnt, reset,
                 reset_active, domain_reset_failed, hist>>

(* The ioctl that creates a domain: the device gives it a free id, and its *)
(* file holds the first reference.  Without a file the domain goes again.  *)
CreateSchedDomain(o, i) ==
  /\ MutexFree
  /\ devs > 0
  /\ ~reset_active /\ ~domain_reset_failed
  /\ o = Cardinality({x \in Objs : dom[x] # Absent}) + 1
  /\ i \notin hw.domains
  /\ \/ /\ TRUE \in FdOutcomes
        /\ dom' = [dom EXCEPT ![o] = [state |-> "live", id |-> i, valid |-> TRUE,
                                      refcnt |-> 1, file |-> TRUE]]
        /\ hw' = [hw EXCEPT !.domains = @ \cup {i}]
        /\ sched' = [sched EXCEPT ![i] = o]
        /\ pm' = pm + 1
        /\ UNCHANGED domain_reset_failed
     \/ /\ FALSE \in FdOutcomes
        /\ dom' = [dom EXCEPT ![o] = [state |-> "freed"]]
        /\ \E done \in ResetOutcomes :
             /\ hw' = IF done THEN hw ELSE [hw EXCEPT !.domains = @ \cup {i}]
             /\ domain_reset_failed' = ~done
        /\ UNCHANGED <<sched, pm>>
  /\ UNCHANGED <<port, cq_intr, file, devs, inode_cnt, reset, reset_active, hist>>

(* The ioctls on a domain's file take the mutex and then require valid.    *)
DomainIoctl(o) == MutexFree /\ Valid(o) /\ dom[o].file

(* The domains between which port p changes hands while files are open on  *)
(* it, when o gets it: none if no file is.                                 *)
Sharing(o, p) ==
  LET former == {file[f].of : f \in {g \in Files : Open(g) /\ file[g].port = p}}
  IN  IF former = {} THEN {} ELSE former \cup {o}

(* create_ldb_port, create_dir_port: a port that no domain has in the      *)
(* device, whoever still holds files of it.  When an error comes after the *)
(* device has configured it, the driver frees the CQ it gave the device    *)
(* and does not fill in its own port; the CQ interrupt is then marked      *)
(* configured unless the port's number never reached the driver.           *)
CreatePort(o, p) ==
  /\ DomainIoctl(o)
  /\ hw.owner[p] = None
  /\ hw' = [hw EXCEPT !.owner[p] = dom[o].id]
  /\ \/ /\ "ok" \in PortOutcomes
        /\ cq_intr' = [cq_intr EXCEPT ![p] = dom[o].id]
        /\ port' = [port EXCEPT ![p] = [valid |-> TRUE, domain |-> o]]
        /\ hist' = [shared |-> hist.shared \cup Sharing(o, p), half |-> hist.half \ {p}]
     \/ /\ "no_interrupt" \in PortOutcomes
        /\ cq_intr' = [cq_intr EXCEPT ![p] = dom[o].id]
        /\ hist' = [hist EXCEPT !.half = @ \cup {p}]
        /\ UNCHANGED port
     \/ /\ "no_answer" \in PortOutcomes
        /\ hist' = [hist EXCEPT !.half = @ \cup {p}]
        /\ UNCHANGED <<port, cq_intr>>
  /\ UNCHANGED <<dom, sched, file, devs, inode_cnt, pm, reset, reset_active,
                 domain_reset_failed>>

OpenFiles == {f \in Files : Open(f)}

Bug_GetPortFd(o, p, f, kind) ==
  /\ DomainIoctl(o)
  /\ hw.owner[p] = dom[o].id
  /\ port[p].valid
  /\ ~Open(f)
  /\ file' = [file EXCEPT ![f] = [port |-> p, kind |-> kind, of |-> o, map |-> "no"]]
  /\ inode_cnt' = inode_cnt + 1
  /\ UNCHANGED <<dom, sched, port, cq_intr, hw, devs, pm, reset, reset_active,
                 domain_reset_failed, hist>>

(* get_ldb_port_pp_fd and its three siblings.  When there is no memory for *)
(* the file, the reference to the inode is given back but not its count;   *)
(* with the last file the inode goes all the same, and a count that is     *)
(* left would have it used again: the model has no step then.              *)
GetPortFd(o, p, f, kind) ==
  /\ DomainIoctl(o)
  /\ hw.owner[p] = dom[o].id
  /\ port[p].valid
  /\ ~Open(f)
  /\ inode_cnt = 0 \/ OpenFiles # {}
  /\ inode_cnt' = inode_cnt + 1
  /\ \/ /\ TRUE \in FdOutcomes
        /\ file' = [file EXCEPT ![f] = [port |-> p, kind |-> kind, of |-> o, map |-> "no"]]
        /\ dom' = [dom EXCEPT ![o].refcnt = @ + 1]
     \/ /\ FALSE \in FdOutcomes
        /\ inode_cnt < Cardinality(OpenFiles) + MaxLeaks
        /\ UNCHANGED <<file, dom>>
  /\ UNCHANGED <<sched, port, cq_intr, hw, devs, pm, reset, reset_active,
                 domain_reset_failed, hist>>

(* mmap of a port file looks at the domain the port has now.               *)
Mmap(f) ==
  /\ MutexFree
  /\ Open(f) /\ file[f].map = "no"
  /\ Valid(port[file[f].port].domain)
  /\ file' = [file EXCEPT ![f].map = "mapped"]
  /\ UNCHANGED <<dom, sched, port, cq_intr, hw, devs, inode_cnt, pm, reset,
                 reset_active, domain_reset_failed, hist>>

(* munmap while the descriptor is still open; the driver is not told.      *)
Munmap(f) ==
  /\ Open(f) /\ file[f].map # "no"
  /\ file' = [file EXCEPT ![f].map = "no"]
  /\ UNCHANGED <<dom, sched, port, cq_intr, hw, devs, inode_cnt, pm, reset,
                 reset_active, domain_reset_failed, hist>>

(* A file of a disabled domain does not put its reference.                 *)
Bug_PortClose(f) ==
  /\ MutexFree
  /\ Open(f)
  /\ IF Valid(port[file[f].port].domain)
     THEN kref_put(port[file[f].port].domain, dom)
     ELSE UNCHANGED <<dom, sched, hw, port, cq_intr, domain_reset_failed, pm>>
  /\ file' = [file EXCEPT ![f] = None]
  /\ inode_cnt' = inode_cnt - 1
  /\ UNCHANGED <<devs, reset, reset_active, hist>>

(* The last close or munmap of a port file puts the domain its port has by *)
(* then.  If that was freed, the model has no step.                        *)
PortClose(f) ==
  /\ MutexFree
  /\ Open(f)
  /\ Live(port[file[f].port].domain)
  /\ kref_put(port[file[f].port].domain, dom)
  /\ file' = [file EXCEPT ![f] = None]
  /\ inode_cnt' = inode_cnt - 1
  /\ UNCHANGED <<devs, reset, reset_active, hist>>

DomainClose(o) ==
  /\ MutexFree
  /\ Live(o) /\ dom[o].file
  /\ kref_put(o, [dom EXCEPT ![o].file = FALSE])
  /\ UNCHANGED <<file, devs, inode_cnt, reset, reset_active, hist>>

-----------------------------------------------------------------------------
(* Function-level reset                                                    *)

(* dlb2_in_use: the sum of the reference counts of the domains is not 0.   *)
InUse == \E i \in Ids : sched[i] # None /\ dom[sched[i]].refcnt > 0

SetPhase(phase) == reset' = [reset EXCEPT !.phase = phase]

(* Step 1: block new device files, keep the device awake.                  *)
ResetPrepare ==
  /\ reset.phase = "idle"
  /\ reset.count < MaxResets
  /\ reset' = [phase |-> "stop_users", rounds |-> 0, count |-> reset.count + 1]
  /\ reset_active' = TRUE
  /\ pm' = pm + 1
  /\ UNCHANGED <<dom, sched, port, cq_intr, hw, file, devs, inode_cnt,
                 domain_reset_failed, hist>>

Bug_DisableDomainFiles ==
  /\ reset.phase = "stop_users"
  /\ SetPhase("wake")
  /\ UNCHANGED <<dom, sched, port, cq_intr, hw, file, devs, inode_cnt, pm,
                 reset_active, domain_reset_failed, hist>>

(* Step 3: dlb2_disable_domain_files.                                      *)
DisableDomainFiles ==
  /\ reset.phase = "stop_users"
  /\ dom' = [o \in Objs |-> IF \E i \in Ids : sched[i] = o
                            THEN [dom[o] EXCEPT !.valid = FALSE] ELSE dom[o]]
  /\ SetPhase("wake")
  /\ UNCHANGED <<sched, port, cq_intr, hw, file, devs, inode_cnt, pm,
                 reset_active, domain_reset_failed, hist>>

(* Steps 3 to 5: dlb2_wake_threads, then the loop of dlb2_wait_to_quiesce; *)
(* the mutex is released while it sleeps.                                  *)
WakeThreads ==
  /\ reset.phase = "wake"
  /\ SetPhase("quiesce")
  /\ UNCHANGED <<dom, sched, port, cq_intr, hw, file, devs, inode_cnt, pm,
                 reset_active, domain_reset_failed, hist>>

Sleep ==
  /\ reset.phase = "quiesce"
  /\ InUse /\ reset.rounds < MaxRounds
  /\ reset' = [reset EXCEPT !.phase = "sleep", !.rounds = @ + 1]
  /\ UNCHANGED <<dom, sched, port, cq_intr, hw, file, devs, inode_cnt, pm,
                 reset_active, domain_reset_failed, hist>>

WakeUp ==
  /\ reset.phase = "sleep"
  /\ SetPhase("quiesce")
  /\ UNCHANGED <<dom, sched, port, cq_intr, hw, file, devs, inode_cnt, pm,
                 reset_active, domain_reset_failed, hist>>

Bug_unmap_all_mappings == UNCHANGED file

(* dlb2_unmap_all_mappings works on the inode the port files share.        *)
unmap_all_mappings ==
  file' = IF inode_cnt = 0 THEN file
          ELSE [f \in Files |-> IF Open(f) /\ file[f].map = "mapped"
                                THEN [file[f] EXCEPT !.map = "zapped"] ELSE file[f]]

Quiesced ==
  /\ reset.phase = "quiesce"
  /\ \/ ~InUse /\ UNCHANGED file
     \/ InUse /\ reset.rounds = MaxRounds /\ unmap_all_mappings
  /\ SetPhase("flr")
  /\ UNCHANGED <<dom, sched, port, cq_intr, hw, devs, inode_cnt, pm,
                 reset_active, domain_reset_failed, hist>>

(* The PCI core resets the function between prepare and done.              *)
Flr ==
  /\ reset.phase = "flr"
  /\ hw' = [domains |-> {}, owner |-> [p \in Ports |-> None]]
  /\ SetPhase("done")
  /\ UNCHANGED <<dom, sched, port, cq_intr, file, devs, inode_cnt, pm,
                 reset_active, domain_reset_failed, hist>>

ResetDone ==
  /\ reset.phase = "done"
  /\ sched' = [i \in Ids |-> None]
  /\ port' = [p \in Ports |-> [port[p] EXCEPT !.valid = FALSE]]
  /\ cq_intr' = [p \in Ports |-> None]
  /\ domain_reset_failed' = FALSE
  /\ reset_active' = FALSE
  /\ pm' = pm - 1
  /\ SetPhase("idle")
  /\ UNCHANGED <<dom, hw, file, devs, inode_cnt, hist>>

-----------------------------------------------------------------------------
DomainOps ==
  \/ \E o \in Objs, i \in Ids : CreateSchedDomain(o, i)
  \/ \E o \in Objs, p \in Ports : CreatePort(o, p)
  \/ \E o \in Objs, p \in Ports, f \in Files, kind \in Kinds :
       GetPortFd(o, p, f, kind)

FileOps ==
  \/ OpenDevice \/ CloseDevice
  \/ \E f \in Files : Mmap(f) \/ Munmap(f) \/ PortClose(f)

ResetOps ==
  \/ ResetPrepare \/ DisableDomainFiles \/ WakeThreads \/ Sleep \/ WakeUp
  \/ Quiesced \/ Flr \/ ResetDone

Next == DomainOps \/ FileOps \/ ResetOps \/ \E o \in Objs : DomainClose(o)

Spec == Init /\ [][Next]_vars

-----------------------------------------------------------------------------
(* Properties                                                              *)

Phases == {"idle", "stop_users", "wake", "quiesce", "sleep", "flr", "done"}

(* The variables have their types.                                         *)
TypeOK ==
  /\ \A o \in Objs :
       dom[o] \in {Absent, [state |-> "freed"]} \cup
                 [state : {"live"}, id : Ids, valid : BOOLEAN,
                  refcnt : Nat \ {0}, file : BOOLEAN]
  /\ sched \in [Ids -> Objs \cup {None}]
  /\ port \in [Ports -> [valid : BOOLEAN, domain : Objs \cup {None}]]
  /\ cq_intr \in [Ports -> Ids \cup {None}]
  /\ hw \in [domains : SUBSET Ids, owner : [Ports -> Ids \cup {None}]]
  /\ file \in [Files -> {None} \cup FileType]
  /\ devs \in 0 .. MaxDevs
  /\ inode_cnt \in 0 .. Cardinality(Files) + MaxLeaks
  /\ pm \in Nat
  /\ reset \in [phase : Phases, rounds : 0 .. MaxRounds, count : 0 .. MaxResets]
  /\ reset_active \in BOOLEAN /\ domain_reset_failed \in BOOLEAN
  /\ hist \in [shared : SUBSET Objs, half : SUBSET Ports]

(* The reference count of a domain is the number of files that were opened *)
(* on it, whatever resets, failed resets and late closes happened while    *)
(* they were open: kref_put in the close of a port file reaches its domain *)
(* through the port.  The exception is a port that changed hands while a   *)
(* file of it was open (after a reset that timed out): the counts of both  *)
(* its domains are wrong then.                                             *)
RefcountsExact ==
  \A o \in Objs : Live(o) /\ ~Shared(o) =>
    dom[o].refcnt = (IF dom[o].file THEN 1 ELSE 0)
                    + Cardinality({f \in Files : Open(f) /\ file[f].of = o})

(* No pointer to a freed domain is ever followed: those of open files      *)
(* (unless their domain shared a port), of sched_domains[], and of ports   *)
(* whose memory is still held, which the driver follows when it frees a    *)
(* domain outside a reset.                                                 *)
NoDanglingDomain ==
  /\ \A f \in Files : Open(f) /\ ~Shared(file[f].of) =>
       Live(port[file[f].port].domain) /\ port[file[f].port].domain = file[f].of
  /\ \A i \in Ids : sched[i] # None => Live(sched[i])
  /\ \A p \in Ports : port[p].valid /\ ~reset_active => Live(port[p].domain)

(* What is mapped belongs to the domain that opened the file: its port is  *)
(* configured for that domain, which is the current one of its id.  So     *)
(* nothing is mapped while the device is being reset, and a file of a      *)
(* domain that a reset disabled never reaches the device again, until the  *)
(* port is given to another domain: then it maps that domain's port.       *)
MappedPortsOwned ==
  \A f \in Files : Open(f) /\ file[f].map = "mapped" /\ ~Shared(file[f].of) =>
    /\ Live(file[f].of)
    /\ hw.owner[file[f].port] = dom[file[f].of].id
    /\ sched[dom[file[f].of].id] = file[f].of

(* The memory of a CQ is released only when no process maps it and the     *)
(* device cannot write it any more.  Not so in three cases: a domain reset *)
(* has failed (domain_reset_failed then asks for a device reset), the      *)
(* device configured the port while the ioctl failed (half), and, for the  *)
(* mapping, the port changed hands while files of it were open.            *)
CqMemoryHeld ==
  \A p \in Ports : ~port[p].valid =>
    /\ ~\E f \in Files : /\ Open(f) /\ file[f].port = p /\ ~Shared(file[f].of)
                         /\ file[f].kind = "cq" /\ file[f].map = "mapped"
    /\ hw.owner[p] = None \/ domain_reset_failed \/ p \in hist.half

(* A domain the driver would reset in the device is configured there: the  *)
(* last close of a domain that an FLR swept away must not run the domain   *)
(* reset on a device that does not know the domain.                        *)
ValidDomainsConfigured ==
  \A o \in Objs : Valid(o) => dom[o].id \in hw.domains /\ sched[dom[o].id] = o

=============================================================================
