------------------------- MODULE DomainFiles_proofs --------------------------
(***************************************************************************)
(* Proofs about DomainFiles, for any number of domains, ports, files and   *)
(* resets; and, after them, about the composition CqInterrupts, for any    *)
(* number of threads and events.  A port may be configured again while     *)
(* files of its former domain are open.  What is proved of a domain's      *)
(* counts, files and mappings is proved of the domains that neither lost   *)
(* nor got a port that way (Shared): of the others it is false.            *)
(***************************************************************************)
EXTENDS CqInterrupts, FiniteSetTheorems, TLAPS

Freed == [state |-> "freed"]
LiveType == [state : {"live"}, id : Ids, valid : BOOLEAN, refcnt : Nat \ {0},
             file : BOOLEAN]

(* The variables that are not counters.                                    *)
Typed ==
  /\ dom \in [Objs -> {Absent, Freed} \cup LiveType]
  /\ sched \in [Ids -> Objs \cup {None}]
  /\ port \in [Ports -> [valid : BOOLEAN, domain : Objs \cup {None}]]
  /\ cq_intr \in [Ports -> Ids \cup {None}]
  /\ hw \in [domains : SUBSET Ids, owner : [Ports -> Ids \cup {None}]]
  /\ file \in [Files -> {None} \cup FileType]
  /\ devs \in 0 .. MaxDevs
  /\ reset \in [phase : Phases, rounds : 0 .. MaxRounds, count : 0 .. MaxResets]
  /\ reset_active \in BOOLEAN /\ domain_reset_failed \in BOOLEAN
  /\ hist \in [shared : SUBSET Objs, half : SUBSET Ports]

(* Domains are allocated in the order of their numbers.                    *)
Allocated ==
  \E n \in 0 .. Cardinality(Objs) : \A o \in Objs : dom[o] # Absent <=> o <= n

(* From the moment the reset has disabled the domains it knows to its end, *)
(* no domain is valid.                                                     *)
Disabled ==
  /\ reset_active <=> reset.phase # "idle"
  /\ reset.phase \notin {"idle", "stop_users"} => \A o \in Objs : ~Valid(o)

Scheduled == \A i \in Ids : sched[i] # None => Live(sched[i]) /\ dom[sched[i]].id = i

(* The port of an open file leads to the file's domain, unless that has    *)
(* lost the port to another; a domain that has lost no port so, and has    *)
(* got none, is kept by its files, and as long as it is valid their ports. *)
FilesKeepPorts ==
  \A f \in Files : Open(f) =>
    /\ port[file[f].port].domain \in Objs
    /\ port[file[f].port].domain # file[f].of =>
         Shared(file[f].of) /\ Shared(port[file[f].port].domain)
    /\ ~Shared(file[f].of) => Live(file[f].of)
    /\ ~Shared(file[f].of) /\ Valid(file[f].of) =>
         /\ port[file[f].port].valid
         /\ hw.owner[file[f].port] = dom[file[f].of].id

(* A mapped file has its port until the device is reset.                   *)
Mapped(f) == Open(f) /\ file[f].map = "mapped"
MappedKeepPorts ==
  \A f \in Files : Mapped(f) /\ ~Shared(file[f].of) =>
    /\ reset.phase \notin {"flr", "done"}
    /\ ~reset_active => Valid(file[f].of)
    /\ port[file[f].port].valid
    /\ hw.owner[file[f].port] = dom[file[f].of].id
    /\ sched[dom[file[f].of].id] = file[f].of

(* Outside a reset a port that is in use belongs to a valid domain; one    *)
(* that is not belongs to nobody, in the device neither, unless a reset or *)
(* the configuration of the port failed.                                   *)
PortsHeld ==
  \A p \in Ports :
    /\ port[p].valid => port[p].domain \in Objs
    /\ ~reset_active /\ port[p].valid =>
         Valid(port[p].domain) /\ hw.owner[p] = dom[port[p].domain].id
    /\ ~port[p].valid => hw.owner[p] = None \/ domain_reset_failed \/ p \in hist.half
    /\ reset.phase = "done" => hw.owner[p] = None

FilesOf(o) == {f \in Files : Open(f) /\ file[f].of = o}
ValidDomains == {o \in Objs : Valid(o)}

(* The counters.  The device is also kept awake by domains that a reset    *)
(* disabled, for ever.                                                     *)
CountsFiles(o) ==
  Live(o) /\ ~Shared(o) =>
    dom[o].refcnt = (IF dom[o].file THEN 1 ELSE 0) + Cardinality(FilesOf(o))
InodeCounted ==
  /\ inode_cnt \in Int
  /\ Cardinality(OpenFiles) <= inode_cnt /\ inode_cnt <= Cardinality(OpenFiles) + MaxLeaks
Resetting == IF reset_active THEN 1 ELSE 0
KeptAwake == pm \in Int /\ pm >= devs + Cardinality(ValidDomains) + Resetting

Counted ==
  /\ InodeCounted
  /\ \A o \in Objs : CountsFiles(o)
  /\ KeptAwake

Shape ==
  /\ Typed /\ Allocated /\ Disabled /\ Scheduled /\ ValidDomainsConfigured
  /\ FilesKeepPorts /\ MappedKeepPorts /\ PortsHeld

IInv == Shape /\ Counted

-----------------------------------------------------------------------------
(* Sets that are counted.                                                  *)

LEMMA Numbered == IsFiniteSet(Objs) /\ Objs \subseteq Nat \ {0} /\ Cardinality(Objs) \in Nat
<1>1. IsFiniteSet(Objs) /\ Objs = 1 .. Cardinality(Objs)
  BY BoundsAssumption
<1>2. Cardinality(Objs) \in Nat
  BY <1>1, FS_CardinalityType
<1> QED
  BY <1>1, <1>2

(* CreateSchedDomain allocates the next domain.                            *)
LEMMA NextDomain ==
  ASSUME Typed, Allocated, NEW o \in Objs,
         o = Cardinality({x \in Objs : dom[x] # Absent}) + 1
  PROVE  /\ dom[o] = Absent
         /\ dom'[o] # Absent /\ (\A x \in Objs \ {o} : dom'[x] = dom[x]) => Allocated'
<1>1. PICK n \in 0 .. Cardinality(Objs) : \A x \in Objs : dom[x] # Absent <=> x <= n
  BY DEF Allocated
<1>2. Objs = 1 .. Cardinality(Objs) /\ Cardinality(Objs) \in Nat /\ n \in Nat
  BY BoundsAssumption, Numbered
<1>3. {x \in Objs : dom[x] # Absent} = 1 .. n
  BY <1>1, <1>2
<1>4. Cardinality(1 .. n) = n
  <2>1. Cardinality(1 .. n) = IF 1 > n THEN 0 ELSE n - 1 + 1
    BY <1>2, FS_Interval
  <2> QED
    BY <1>2, <2>1
<1>5. o = n + 1
  BY <1>3, <1>4
<1>6. dom[o] = Absent
  BY <1>1, <1>2, <1>5
<1>7. ASSUME dom'[o] # Absent, \A x \in Objs \ {o} : dom'[x] = dom[x]
      PROVE  Allocated'
  <2>1. \A x \in Objs : dom'[x] # Absent <=> x <= n + 1
    BY <1>1, <1>2, <1>5, <1>7
  <2>2. n + 1 \in 0 .. Cardinality(Objs)
    BY <1>2, <1>5
  <2> QED
    BY <2>1, <2>2 DEF Allocated
<1> QED
  BY <1>6, <1>7

-----------------------------------------------------------------------------
(* A domain's reference that is put.                                       *)

(* The caller's domains: as they are, or without o's file.                 *)
Caller(o, dm) == dm = dom \/ dm = [dom EXCEPT ![o].file = FALSE]

(* The caller closes a port file, or none.                                 *)
FilesLeft == \A f \in Files : file'[f] = file[f] \/ file'[f] = None

LEMMA LastReference ==
  ASSUME Shape, MutexFree, NEW o \in Objs, Live(o), NEW dm, Caller(o, dm),
         free_domain(o, dm), file' \in [Files -> {None} \cup FileType], FilesLeft,
         \A f \in Files : Open(f)' /\ ~Shared(file[f].of) => file[f].of # o,
         UNCHANGED <<devs, reset, reset_active, hist>>
  PROVE  Shape'
<1> DEFINE i == dom[o].id
<1> USE DEF Shape
<1>1. /\ dom[o] \in LiveType /\ i \in Ids
      /\ dm[o].id = i /\ dm[o].valid = dom[o].valid
      /\ \A x \in Objs \ {o} : dm[x] = dom[x]
      /\ dm \in [Objs -> {Absent, Freed} \cup LiveType]
  <2>1. dom[o] \in LiveType
    BY DEF Typed, Live, Absent, Freed
  <2>2. CASE dm = dom
    BY <2>1, <2>2 DEF Typed, LiveType
  <2>3. CASE dm = [dom EXCEPT ![o].file = FALSE]
    BY <2>1, <2>3 DEF Typed, LiveType
  <2> QED
    BY <2>2, <2>3, <2>1 DEF Caller, LiveType
<1>2. /\ dom' \in [Objs -> {Absent, Freed} \cup LiveType]
      /\ dom'[o] = Freed
      /\ \A x \in Objs \ {o} : dom'[x] = dom[x]
  BY <1>1 DEF free_domain, Freed
<1>3. \A x \in Objs : /\ Live(x)' => x # o /\ Live(x)
                      /\ Valid(x)' => x # o /\ Valid(x)
                      /\ x # o => (Live(x) => Live(x)') /\ (Valid(x) => Valid(x)')
  BY <1>2 DEF Live, Valid, Freed
<1>4. \A f \in Files : Open(f)' => /\ Open(f) /\ file'[f] = file[f]
                                   /\ ~Shared(file[f].of) =>
                                        file[f].of # o /\ Live(file[f].of)
                                   /\ file[f].of \in Objs /\ file[f].port \in Ports
  BY DEF FilesLeft, Open, FilesKeepPorts, Typed, FileType
<1>9. \A x \in Objs : Shared(x)' <=> Shared(x)
  BY DEF Shared
<1>8. /\ \A j \in Ids : sched[j] \in Objs \cup {None}
      /\ \A p \in Ports : port[p].valid \in BOOLEAN
      /\ \A x \in Objs : Live(x) => dom[x].id \in Ids
  BY DEF Typed, Live, Absent, Freed, LiveType
<1>5. CASE Valid(o)
  <2>1. reset.phase = "idle" /\ ~reset_active
    BY <1>5 DEF MutexFree, Disabled
  <2>2. PICK done \in BOOLEAN :
          /\ hw' = IF done
                   THEN [domains |-> hw.domains \ {i},
                         owner |-> [p \in Ports |-> IF hw.owner[p] = i
                                                    THEN None ELSE hw.owner[p]]]
                   ELSE hw
          /\ port' = [p \in Ports |->
                        IF port[p].valid /\ dm[port[p].domain].id = i
                        THEN [port[p] EXCEPT !.valid = FALSE] ELSE port[p]]
          /\ cq_intr' = [p \in Ports |-> IF cq_intr[p] = i THEN None ELSE cq_intr[p]]
          /\ sched' = [sched EXCEPT ![i] = None]
          /\ domain_reset_failed' = (domain_reset_failed \/ ~done)
    BY <1>1, <1>5, BoundsAssumption DEF free_domain, Valid
  <2>3. sched[i] = o /\ \A x \in Objs \ {o} : Valid(x) => dom[x].id # i
    BY <1>5 DEF ValidDomainsConfigured, Valid
  <2>4. \A j \in Ids : sched'[j] = IF j = i THEN None ELSE sched[j]
    BY <2>2, <1>1 DEF Typed
  <2>5. \A p \in Ports :
          /\ hw'.owner[p] = IF done /\ hw.owner[p] = i THEN None ELSE hw.owner[p]
          /\ port'[p].domain = port[p].domain
          /\ port[p].valid => Valid(port[p].domain) /\ port[p].domain \in Objs
                              /\ hw.owner[p] = dom[port[p].domain].id
          /\ port'[p].valid <=> port[p].valid /\ dom[port[p].domain].id # i
    <3> SUFFICES ASSUME NEW p \in Ports
                 PROVE  /\ hw'.owner[p] = IF done /\ hw.owner[p] = i THEN None ELSE hw.owner[p]
                        /\ port'[p].domain = port[p].domain
                        /\ port[p].valid =>
                             /\ Valid(port[p].domain) /\ port[p].domain \in Objs
                             /\ hw.owner[p] = dom[port[p].domain].id
                        /\ port'[p].valid <=> port[p].valid /\ dom[port[p].domain].id # i
      OBVIOUS
    <3>1. hw'.owner[p] = IF done /\ hw.owner[p] = i THEN None ELSE hw.owner[p]
      BY <2>2
    <3>2. port'[p] = IF port[p].valid /\ dm[port[p].domain].id = i
                     THEN [port[p] EXCEPT !.valid = FALSE] ELSE port[p]
      BY <2>2
    <3>3. port[p] \in [valid : BOOLEAN, domain : Objs \cup {None}]
      BY DEF Typed
    <3>4. port[p].valid => /\ Valid(port[p].domain)
                           /\ hw.owner[p] = dom[port[p].domain].id
      BY <2>1 DEF PortsHeld
    <3>5. port[p].valid => port[p].domain \in Objs
      BY DEF PortsHeld
    <3>6. port[p].valid => dm[port[p].domain].id = dom[port[p].domain].id
      BY <3>5, <1>1
    <3> QED
      BY <3>1, <3>2, <3>3, <3>4, <3>5, <3>6
  <2>6. /\ hw'.domains = IF done THEN hw.domains \ {i} ELSE hw.domains
        /\ domain_reset_failed' <=> domain_reset_failed \/ ~done
    BY <2>2
  <2>7. Typed'
    BY <1>2, <2>2, <1>1 DEF Typed
  <2>8. Allocated'
    BY <1>2, <1>1 DEF Allocated, Absent, Freed, LiveType
  <2>9. Disabled'
    BY <1>3 DEF Disabled
  <2>10. Scheduled'
    BY <1>2, <1>3, <1>8, <2>3, <2>4, NoneAssumption DEF Scheduled
  <2>11. ValidDomainsConfigured'
    BY <1>2, <1>3, <1>8, <2>3, <2>4, <2>6 DEF ValidDomainsConfigured, Valid
  <2>12. FilesKeepPorts'
    BY <1>2, <1>3, <1>8, <1>4, <1>9, <2>3, <2>5, <2>11 DEF FilesKeepPorts
  <2>13. MappedKeepPorts'
    BY <1>2, <1>3, <1>8, <1>4, <1>9, <2>3, <2>4, <2>5, <2>11 DEF MappedKeepPorts, Mapped, Valid
  <2>14. PortsHeld'
    BY <1>2, <1>3, <1>8, <2>1, <2>3, <2>5, <2>6 DEF PortsHeld
  <2> QED
    BY <2>7, <2>8, <2>9, <2>10, <2>11, <2>12, <2>13, <2>14
<1>6. CASE ~Valid(o)
  <2>1. /\ sched' = IF sched[i] = o THEN [sched EXCEPT ![i] = None] ELSE sched
        /\ UNCHANGED <<hw, port, cq_intr, domain_reset_failed>>
    BY <1>1, <1>6 DEF free_domain, Valid
  <2>2. \A j \in Ids : sched'[j] = IF j = i /\ sched[i] = o THEN None ELSE sched[j]
    BY <2>1, <1>1 DEF Typed
  <2>7. Typed'
    BY <1>2, <2>1, <1>1 DEF Typed
  <2>8. Allocated'
    BY <1>2, <1>1 DEF Allocated, Absent, Freed, LiveType
  <2>9. Disabled'
    BY <1>3 DEF Disabled
  <2>10. Scheduled'
    BY <1>2, <1>3, <1>8, <2>2, NoneAssumption DEF Scheduled
  <2>11. ValidDomainsConfigured'
    BY <1>2, <1>3, <1>8, <2>1, <2>2 DEF ValidDomainsConfigured, Valid
  <2>12. FilesKeepPorts'
    BY <1>2, <1>3, <1>8, <1>4, <1>9, <2>1 DEF FilesKeepPorts
  <2>13. MappedKeepPorts'
    BY <1>2, <1>3, <1>8, <1>4, <1>9, <2>1, <2>2 DEF MappedKeepPorts, Mapped, Valid
  <2>14. PortsHeld'
    BY <1>2, <1>3, <1>8, <1>6, <2>1 DEF PortsHeld
  <2> QED
    BY <2>7, <2>8, <2>9, <2>10, <2>11, <2>12, <2>13, <2>14
<1> QED
  BY <1>5, <1>6

LEMMA OneReferenceLess ==
  ASSUME Shape, NEW o \in Objs, Live(o), NEW dm, Caller(o, dm), dm[o].refcnt > 1,
         dom' = [dm EXCEPT ![o].refcnt = @ - 1],
         file' \in [Files -> {None} \cup FileType], FilesLeft,
         UNCHANGED <<sched, hw, port, cq_intr, domain_reset_failed, devs, reset,
                     reset_active, hist>>
  PROVE  Shape'
<1> USE DEF Shape
<1>1. dom[o] \in LiveType
  BY DEF Typed, Live, Absent, Freed
<1>2. /\ dm \in [Objs -> {Absent, Freed} \cup LiveType]
      /\ dm[o] \in LiveType /\ dm[o].id = dom[o].id /\ dm[o].valid = dom[o].valid
      /\ \A x \in Objs \ {o} : dm[x] = dom[x]
  <2>2. CASE dm = dom
    BY <1>1, <2>2 DEF Typed
  <2>3. CASE dm = [dom EXCEPT ![o].file = FALSE]
    BY <1>1, <2>3 DEF Typed, LiveType
  <2> QED
    BY <2>2, <2>3 DEF Caller
<1>3. /\ dom' \in [Objs -> {Absent, Freed} \cup LiveType]
      /\ dom'[o] \in LiveType /\ dom'[o].id = dom[o].id /\ dom'[o].valid = dom[o].valid
      /\ \A x \in Objs \ {o} : dom'[x] = dom[x]
  <2>1. dm[o].refcnt - 1 \in Nat \ {0}
    BY <1>2 DEF LiveType
  <2>2. [dm[o] EXCEPT !.refcnt = @ - 1] \in LiveType
    BY <1>2, <2>1 DEF LiveType
  <2>3. dom' = [dm EXCEPT ![o] = [dm[o] EXCEPT !.refcnt = @ - 1]]
    OBVIOUS
  <2> QED
    BY <1>2, <2>2, <2>3 DEF LiveType
<1>4. \A x \in Objs : /\ Live(x)' <=> Live(x)
                      /\ Valid(x)' <=> Valid(x)
                      /\ Live(x) => dom'[x].id = dom[x].id
  BY <1>1, <1>3 DEF Live, Valid, LiveType
<1>5. \A f \in Files : Open(f)' => /\ Open(f) /\ file'[f] = file[f]
                                   /\ file[f].of \in Objs /\ file[f].port \in Ports
  BY DEF FilesLeft, Open, Typed, FileType
<1>6. \A i \in Ids : sched[i] \in Objs \cup {None}
  BY DEF Typed
<1>7. Typed'
  BY <1>3 DEF Typed
<1>8. Allocated'
  BY <1>1, <1>3 DEF Allocated, Absent, LiveType
<1>9. Disabled'
  BY <1>4 DEF Disabled
<1>10. Scheduled'
  BY <1>4, <1>6, NoneAssumption DEF Scheduled
<1>11. ValidDomainsConfigured'
  BY <1>4 DEF ValidDomainsConfigured, Valid
<1>12. FilesKeepPorts'
  BY <1>4, <1>5 DEF FilesKeepPorts, Valid, Shared
<1>13. MappedKeepPorts'
  BY <1>4, <1>5 DEF MappedKeepPorts, Mapped, FilesKeepPorts, Shared
<1>14. PortsHeld'
  BY <1>4 DEF PortsHeld, Valid
<1> QED
  BY <1>7, <1>8, <1>9, <1>10, <1>11, <1>12, <1>13, <1>14

(* The counting of files.                                                  *)
LEMMA FilesFinite ==
  /\ IsFiniteSet(OpenFiles)
  /\ \A o \in Objs : IsFiniteSet(FilesOf(o)) /\ Cardinality(FilesOf(o)) \in Nat
<1>1. IsFiniteSet(Files)
  BY BoundsAssumption
<1>2. \A o \in Objs : FilesOf(o) \subseteq Files
  BY DEF FilesOf
<1>3. OpenFiles \subseteq Files
  BY DEF OpenFiles
<1> QED
  BY <1>1, <1>2, <1>3, FS_Subset, FS_CardinalityType

-----------------------------------------------------------------------------
(* The actions keep what they do not count.                                *)

LEMMA CreateSchedDomainShape ==
  ASSUME Shape, NEW o \in Objs, NEW i \in Ids, CreateSchedDomain(o, i)
  PROVE  Shape'
<1> USE DEF Shape
<1>1. /\ reset.phase = "idle" /\ ~reset_active /\ ~domain_reset_failed
      /\ i \notin hw.domains
      /\ UNCHANGED <<port, cq_intr, file, devs, inode_cnt, reset, reset_active, hist>>
  BY DEF CreateSchedDomain, Disabled
<1>2. dom[o] = Absent
  BY NextDomain DEF CreateSchedDomain
<1>3. PICK new \in {Freed} \cup LiveType :
        /\ dom' = [dom EXCEPT ![o] = new]
        /\ \/ /\ new = Freed
              /\ sched' = sched
           \/ /\ new \in LiveType /\ new.id = i /\ new.valid
              /\ sched' = [sched EXCEPT ![i] = o]
              /\ i \in hw'.domains
              /\ domain_reset_failed' = domain_reset_failed
  <2>1. CASE dom' = [dom EXCEPT ![o] = Freed] /\ sched' = sched
    BY <2>1
  <2>2. CASE /\ dom' = [dom EXCEPT ![o] = [state |-> "live", id |-> i, valid |-> TRUE,
                                           refcnt |-> 1, file |-> TRUE]]
             /\ hw' = [hw EXCEPT !.domains = @ \cup {i}]
             /\ sched' = [sched EXCEPT ![i] = o]
             /\ domain_reset_failed' = domain_reset_failed
    <3> DEFINE new == [state |-> "live", id |-> i, valid |-> TRUE, refcnt |-> 1,
                       file |-> TRUE]
    <3>1. new \in LiveType
      BY DEF LiveType
    <3>2. new.id = i /\ new.valid
      OBVIOUS
    <3>3. i \in hw'.domains
      BY <2>2 DEF Typed
    <3> HIDE DEF new
    <3> QED
      BY <2>2, <3>1, <3>2, <3>3 DEF new
  <2> QED
    BY <2>1, <2>2 DEF CreateSchedDomain, Freed
<1>4. /\ hw' \in [domains : SUBSET Ids, owner : [Ports -> Ids \cup {None}]]
      /\ hw'.owner = hw.owner /\ hw.domains \subseteq hw'.domains
      /\ domain_reset_failed' \in BOOLEAN
  <2>1. hw' = hw \/ hw' = [hw EXCEPT !.domains = @ \cup {i}]
    BY DEF CreateSchedDomain
  <2>2. domain_reset_failed' \in BOOLEAN
    BY BoundsAssumption DEF CreateSchedDomain, Typed
  <2> QED
    BY <2>1, <2>2 DEF Typed
<1>5. \A x \in Objs \ {o} : dom'[x] = dom[x]
  BY <1>3 DEF Typed
<1>6. dom'[o] \in {Freed} \cup LiveType /\ dom'[o] # Absent
  BY <1>3 DEF Typed, Freed, LiveType, Absent
<1>7. \A x \in Objs : /\ Live(x) => x # o /\ Live(x)'
                      /\ Valid(x) => x # o /\ Valid(x)'
                      /\ x # o => (Valid(x)' => Valid(x))
                      /\ Live(x) => dom[x].id \in Ids
  BY <1>2, <1>5 DEF Live, Valid, Absent, Freed, Typed, LiveType
<1>8. \A x \in Objs : Valid(x) => dom[x].id # i
  BY <1>1 DEF ValidDomainsConfigured
<1>9. \A j \in Ids : sched'[j] = sched[j] \/ (j = i /\ sched'[j] = o /\ Valid(o)' /\ dom'[o].id = i)
  BY <1>3 DEF Typed, Valid, Live, LiveType
<1>10. \A j \in Ids \ {i} : sched'[j] = sched[j]
  BY <1>3 DEF Typed
<1>11. Typed'
  BY <1>1, <1>3, <1>4 DEF Typed
<1>12. Allocated'
  BY <1>5, <1>6, NextDomain DEF CreateSchedDomain
<1>13. Disabled'
  BY <1>1 DEF Disabled
<1>14. Scheduled'
  BY <1>5, <1>7, <1>9 DEF Scheduled, Typed, Valid
<1>15. Valid(o)' => dom'[o].id = i /\ i \in hw'.domains /\ sched'[i] = o
  BY <1>3 DEF Typed, Valid, Live, Freed, LiveType
<1>16. ValidDomainsConfigured'
  BY <1>4, <1>5, <1>7, <1>8, <1>10, <1>15 DEF ValidDomainsConfigured
<1>17. \A f \in Files : Open(f)' => /\ Open(f) /\ file'[f] = file[f]
                                    /\ file[f].of \in Objs /\ file[f].port \in Ports
                                    /\ Shared(file[f].of)' <=> Shared(file[f].of)
                                    /\ ~Shared(file[f].of) => file[f].of # o
  BY <1>1, <1>7 DEF Shared, FilesKeepPorts, Typed, FileType, Open
<1>18. FilesKeepPorts'
  BY <1>1, <1>4, <1>5, <1>7, <1>17 DEF FilesKeepPorts, Valid, Shared
<1>19. MappedKeepPorts'
  BY <1>1, <1>4, <1>5, <1>7, <1>8, <1>10, <1>17 DEF MappedKeepPorts, Mapped, Valid, FilesKeepPorts
<1>20. PortsHeld'
  BY <1>1, <1>4, <1>5, <1>7 DEF PortsHeld, Valid, Typed
<1> QED
  BY <1>11, <1>12, <1>13, <1>14, <1>16, <1>18, <1>19, <1>20

(* A port that changes hands: the files that are open on it are shared.    *)
LEMMA SharingFiles ==
  ASSUME NEW o \in Objs, NEW p \in Ports, NEW f \in Files, Open(f), file[f].port = p
  PROVE  file[f].of \in Sharing(o, p) /\ o \in Sharing(o, p)
<1>1. file[f].of \in {file[g].of : g \in {g \in Files : Open(g) /\ file[g].port = p}}
  OBVIOUS
<1> QED
  BY <1>1 DEF Sharing

LEMMA SharingType ==
  ASSUME Typed, NEW o \in Objs, NEW p \in Ports
  PROVE  Sharing(o, p) \subseteq Objs
<1>1. {file[g].of : g \in {g \in Files : Open(g) /\ file[g].port = p}} \subseteq Objs
  BY DEF Typed, Open, FileType
<1> QED
  BY <1>1 DEF Sharing

LEMMA CreatePortShape ==
  ASSUME Shape, NEW o \in Objs, NEW p \in Ports, CreatePort(o, p)
  PROVE  Shape'
<1> USE DEF Shape
<1>1. /\ Valid(o) /\ dom[o].id \in Ids /\ hw.owner[p] = None
      /\ reset.phase = "idle" /\ ~reset_active
      /\ hw' = [hw EXCEPT !.owner[p] = dom[o].id]
      /\ UNCHANGED <<dom, sched, file, devs, reset, reset_active, domain_reset_failed>>
  BY DEF CreatePort, DomainIoctl, MutexFree, Disabled, Valid, Live, Typed, Absent, Freed, LiveType
<1>2. \A f \in Files : Open(f) => file[f].port \in Ports /\ file[f].of \in Objs
  BY DEF CreatePort, Typed, Open, FileType
<1>3. /\ \A x \in Ports \ {p} : hw'.owner[x] = hw.owner[x]
      /\ hw'.owner[p] = dom[o].id
      /\ hw'.domains = hw.domains
      /\ hw' \in [domains : SUBSET Ids, owner : [Ports -> Ids \cup {None}]]
  BY <1>1 DEF Typed
<1>4. Allocated' /\ Disabled' /\ Scheduled' /\ ValidDomainsConfigured'
  BY <1>1, <1>3 DEF Allocated, Disabled, Scheduled, ValidDomainsConfigured, Valid, Live
<1>5. \A x \in Objs : /\ Live(x)' <=> Live(x)
                      /\ Valid(x)' <=> Valid(x)
                      /\ Live(x) => dom[x].id # None
  BY <1>1, NoneAssumption DEF Valid, Live, Typed, Absent, Freed, LiveType
<1>6. CASE /\ cq_intr' = [cq_intr EXCEPT ![p] = dom[o].id]
           /\ port' = [port EXCEPT ![p] = [valid |-> TRUE, domain |-> o]]
           /\ hist' = [shared |-> hist.shared \cup Sharing(o, p), half |-> hist.half \ {p}]
  <2>1. \A x \in Ports \ {p} : port'[x] = port[x] /\ (x \in hist.half => x \in hist'.half)
    BY <1>6 DEF Typed
  <2>2. port'[p] = [valid |-> TRUE, domain |-> o]
    BY <1>6 DEF Typed
  <2>3. hist'.shared = hist.shared \cup Sharing(o, p)
    BY <1>6
  <2>4. Typed'
    BY <1>1, <1>3, <1>6, SharingType DEF Typed
  <2>5. \A f \in Files : Open(f) /\ file[f].port = p =>
          file[f].of \in hist'.shared /\ o \in hist'.shared
    BY <2>3, SharingFiles
  <2>6. FilesKeepPorts'
    <3> SUFFICES ASSUME NEW f \in Files, Open(f)
                 PROVE  /\ port'[file[f].port].domain \in Objs
                        /\ port'[file[f].port].domain # file[f].of =>
                             /\ file[f].of \in hist'.shared
                             /\ port'[file[f].port].domain \in hist'.shared
                        /\ file[f].of \notin hist'.shared => Live(file[f].of)
                        /\ file[f].of \notin hist'.shared /\ Valid(file[f].of) =>
                             /\ port'[file[f].port].valid
                             /\ hw'.owner[file[f].port] = dom[file[f].of].id
      BY <1>1 DEF FilesKeepPorts, Open, Live, Valid, Shared
    <3>1. CASE file[f].port = p
      <4>1. file[f].of \in hist'.shared /\ o \in hist'.shared
        BY <2>5, <3>1
      <4>2. port'[file[f].port].domain = o
        BY <2>2, <3>1
      <4> QED
        BY <4>1, <4>2
    <3>2. CASE file[f].port # p
      <4>1. /\ port'[file[f].port] = port[file[f].port]
            /\ hw'.owner[file[f].port] = hw.owner[file[f].port]
        BY <1>2, <1>3, <2>1, <3>2
      <4> QED
        BY <2>3, <4>1 DEF FilesKeepPorts, Shared
    <3> QED
      BY <3>1, <3>2
  <2>7. MappedKeepPorts'
    BY <1>1, <1>2, <1>3, <1>5, <2>1, <2>3, <2>5 DEF MappedKeepPorts, Mapped, Open, Shared
  <2>8. PortsHeld'
    BY <1>1, <1>3, <1>5, <2>1, <2>2 DEF PortsHeld
  <2> QED
    BY <1>4, <2>4, <2>6, <2>7, <2>8
<1>7. CASE /\ cq_intr' \in {cq_intr, [cq_intr EXCEPT ![p] = dom[o].id]}
           /\ hist' = [hist EXCEPT !.half = @ \cup {p}]
           /\ UNCHANGED port
  <2>1. hist'.shared = hist.shared /\ hist'.half = hist.half \cup {p}
    BY <1>7 DEF Typed
  <2>2. \A x \in Objs : Shared(x)' <=> Shared(x)
    BY <2>1 DEF Shared
  <2>3. ~port[p].valid
    BY <1>1, <1>5 DEF PortsHeld, Valid
  <2>4. Typed'
    BY <1>1, <1>3, <1>7 DEF Typed
  <2>5. FilesKeepPorts'
    BY <1>1, <1>2, <1>3, <1>5, <1>7, <2>2, <2>3 DEF FilesKeepPorts, Open
  <2>6. MappedKeepPorts'
    BY <1>1, <1>2, <1>3, <1>5, <1>7, <2>2, <2>3 DEF MappedKeepPorts, Mapped, Open
  <2>7. PortsHeld'
    BY <1>1, <1>3, <1>5, <1>7, <2>1, <2>3 DEF PortsHeld
  <2> QED
    BY <1>4, <2>4, <2>5, <2>6, <2>7
<1> QED
  BY <1>6, <1>7 DEF CreatePort

LEMMA GetPortFdShape ==
  ASSUME Shape, NEW o \in Objs, NEW p \in Ports, NEW f \in Files, NEW kind \in Kinds,
         GetPortFd(o, p, f, kind), file' # file
  PROVE  Shape'
<1> USE DEF Shape
<1> DEFINE new == [port |-> p, kind |-> kind, of |-> o, map |-> "no"]
<1>1. /\ Valid(o) /\ hw.owner[p] = dom[o].id /\ port[p].valid
      /\ reset.phase = "idle" /\ ~reset_active
      /\ file' = [file EXCEPT ![f] = new]
      /\ dom' = [dom EXCEPT ![o].refcnt = @ + 1]
      /\ UNCHANGED <<sched, port, cq_intr, hw, devs, reset, reset_active,
                     domain_reset_failed, hist>>
  <2>1. ~(file' = file)
    OBVIOUS
  <2> QED
    BY <2>1 DEF GetPortFd, DomainIoctl, MutexFree, Disabled
<1>2. port[p].domain = o
  BY <1>1 DEF PortsHeld, ValidDomainsConfigured
<1>3. /\ new \in FileType /\ new.of = o /\ new.port = p /\ new.map = "no"
      /\ new # None
  BY BoundsAssumption, NoneAssumption DEF FileType
<1>4. dom[o] \in LiveType
  BY <1>1 DEF Typed, Valid, Live, Absent, Freed
<1>5. /\ dom' \in [Objs -> {Absent, Freed} \cup LiveType]
      /\ dom'[o] \in LiveType /\ dom'[o].id = dom[o].id /\ dom'[o].valid = dom[o].valid
      /\ \A x \in Objs \ {o} : dom'[x] = dom[x]
  <2>1. dom[o].refcnt + 1 \in Nat \ {0}
    BY <1>4 DEF LiveType
  <2>2. [dom[o] EXCEPT !.refcnt = @ + 1] \in LiveType
    BY <1>4, <2>1 DEF LiveType
  <2>3. dom' = [dom EXCEPT ![o] = [dom[o] EXCEPT !.refcnt = @ + 1]]
    BY <1>1
  <2> QED
    BY <1>4, <2>2, <2>3 DEF LiveType, Typed
<1> HIDE DEF new
<1>6. \A x \in Objs : /\ Live(x)' <=> Live(x)
                      /\ Valid(x)' <=> Valid(x)
                      /\ Live(x) => dom'[x].id = dom[x].id
  BY <1>4, <1>5 DEF Live, Valid, LiveType
<1>7. file'[f] = new /\ \A g \in Files \ {f} : file'[g] = file[g]
  BY <1>1 DEF Typed
<1>8. \A g \in Files : Open(g) => file[g].of \in Objs /\ file[g].port \in Ports
  BY DEF Open, Typed, FileType
<1>9. \A i \in Ids : sched[i] \in Objs \cup {None}
  BY DEF Typed
<1>10. Typed'
  BY <1>1, <1>3, <1>5 DEF Typed
<1>11. Allocated'
  BY <1>4, <1>5 DEF Allocated, Absent, LiveType
<1>12. Disabled'
  BY <1>1, <1>6 DEF Disabled
<1>13. Scheduled'
  BY <1>1, <1>6, <1>9, NoneAssumption DEF Scheduled
<1>14. ValidDomainsConfigured'
  BY <1>1, <1>6 DEF ValidDomainsConfigured, Valid
<1>15. FilesKeepPorts'
  BY <1>1, <1>2, <1>3, <1>6, <1>7, <1>8 DEF FilesKeepPorts, Open, Valid, Shared
<1>16. MappedKeepPorts'
  BY <1>1, <1>3, <1>6, <1>7, <1>8 DEF MappedKeepPorts, Mapped, Open, FilesKeepPorts, Shared
<1>17. PortsHeld'
  BY <1>1, <1>6 DEF PortsHeld, Valid
<1> QED
  BY <1>10, <1>11, <1>12, <1>13, <1>14, <1>15, <1>16, <1>17

LEMMA MmapShape ==
  ASSUME Shape, NEW f \in Files, Mmap(f) \/ Munmap(f)
  PROVE  Shape'
<1> USE DEF Shape
<1>1. /\ Open(f)
      /\ UNCHANGED <<dom, sched, port, cq_intr, hw, devs, reset, reset_active,
                     domain_reset_failed, hist>>
  BY DEF Mmap, Munmap
<1>2. PICK m \in {"no", "mapped"} :
        /\ file' = [file EXCEPT ![f].map = m]
        /\ m = "mapped" => MutexFree /\ Valid(port[file[f].port].domain)
  BY DEF Mmap, Munmap
<1>3. file[f] \in FileType /\ [file[f] EXCEPT !.map = m] \in FileType
  BY <1>1 DEF Typed, Open, FileType
<1>4. /\ file' \in [Files -> {None} \cup FileType]
      /\ file'[f] \in FileType /\ file'[f].of = file[f].of /\ file'[f].port = file[f].port
      /\ file'[f].map = m
      /\ \A g \in Files \ {f} : file'[g] = file[g]
  BY <1>2, <1>3 DEF Typed, FileType
<1>5. \A g \in Files : Open(g)' => Open(g) /\ file'[g].of = file[g].of
                                   /\ file'[g].port = file[g].port
  BY <1>1, <1>4 DEF Open
<1>6. Typed'
  BY <1>1, <1>4 DEF Typed
<1>7. Allocated' /\ Disabled' /\ Scheduled' /\ ValidDomainsConfigured' /\ PortsHeld'
  BY <1>1 DEF Allocated, Disabled, Scheduled, ValidDomainsConfigured, PortsHeld, Valid, Live
<1>8. FilesKeepPorts'
  BY <1>1, <1>5 DEF FilesKeepPorts, Valid, Live, Shared
<1>9. ASSUME m = "mapped", ~Shared(file[f].of)
      PROVE  /\ reset.phase = "idle" /\ ~reset_active
             /\ file[f].of \in Objs /\ Valid(file[f].of)
             /\ port[file[f].port].valid
             /\ hw.owner[file[f].port] = dom[file[f].of].id
             /\ sched[dom[file[f].of].id] = file[f].of
  <2>1. file[f].of \in Objs
    BY <1>3 DEF FileType
  <2>2. Valid(file[f].of) /\ MutexFree
    BY <1>1, <1>2, <1>9 DEF FilesKeepPorts
  <2>3. reset.phase = "idle" /\ ~reset_active
    BY <2>1, <2>2 DEF MutexFree, Disabled
  <2> QED
    BY <1>1, <1>9, <2>1, <2>2, <2>3 DEF FilesKeepPorts, ValidDomainsConfigured
<1>10. MappedKeepPorts'
  BY <1>1, <1>4, <1>5, <1>9 DEF MappedKeepPorts, Mapped, Open, Valid, Live, Shared
<1> QED
  BY <1>6, <1>7, <1>8, <1>10

(* A put by a close.                                                       *)
LEMMA PutShape ==
  ASSUME IInv, MutexFree, NEW o \in Objs, Live(o), NEW dm, Caller(o, dm), kref_put(o, dm),
         file' \in [Files -> {None} \cup FileType], FilesLeft,
         ~(dm[o].refcnt > 1) =>
           \A f \in Files : Open(f)' /\ ~Shared(file[f].of) => file[f].of # o,
         UNCHANGED <<devs, reset, reset_active, hist>>
  PROVE  Shape'
<1>1. CASE dm[o].refcnt > 1
  BY <1>1, OneReferenceLess DEF kref_put, IInv
<1>2. CASE ~(dm[o].refcnt > 1)
  BY <1>2, LastReference DEF kref_put, IInv
<1> QED
  BY <1>1, <1>2

LEMMA ResetShape ==
  ASSUME IInv, ResetOps
  PROVE  Shape'
<1> USE DEF IInv, Shape
<1>0. \A f \in Files : Open(f) => file[f] \in FileType /\ file[f].of \in Objs
  BY DEF Typed, Open, FileType
<1>1. CASE ResetPrepare
  <2>1. /\ reset.phase = "idle" /\ reset'.phase = "stop_users" /\ reset_active'
        /\ UNCHANGED <<dom, sched, port, cq_intr, hw, file, devs, domain_reset_failed, hist>>
    BY <1>1 DEF ResetPrepare
  <2>2. Typed'
    BY <1>1, BoundsAssumption DEF ResetPrepare, Typed, Phases
  <2> QED
    BY <2>1, <2>2 DEF Allocated, Disabled, Scheduled, ValidDomainsConfigured, FilesKeepPorts,
                      MappedKeepPorts, PortsHeld, Valid, Live, Mapped, Open, Shared
<1>2. CASE DisableDomainFiles
  <2>1. /\ reset.phase = "stop_users" /\ reset'.phase = "wake"
        /\ dom' = [o \in Objs |-> IF \E i \in Ids : sched[i] = o
                                  THEN [dom[o] EXCEPT !.valid = FALSE] ELSE dom[o]]
        /\ UNCHANGED <<sched, port, cq_intr, hw, file, devs, reset_active,
                       domain_reset_failed, hist>>
    BY <1>2 DEF DisableDomainFiles, SetPhase, Typed
  <2>2. ASSUME NEW o \in Objs
        PROVE  /\ dom'[o] \in {Absent, Freed} \cup LiveType
               /\ dom'[o] # Absent <=> dom[o] # Absent
               /\ Live(o)' <=> Live(o)
               /\ Live(o) => dom'[o].id = dom[o].id
               /\ ~Valid(o)'
    <3>1. CASE \E i \in Ids : sched[i] = o
      <4>1. dom'[o] = [dom[o] EXCEPT !.valid = FALSE]
        BY <2>1, <3>1
      <4>2. dom[o] \in LiveType
        BY <3>1, NoneAssumption DEF Scheduled, Typed, Live, Absent, Freed
      <4> QED
        BY <4>1, <4>2 DEF LiveType, Live, Valid, Absent
    <3>2. CASE ~\E i \in Ids : sched[i] = o
      <4>1. dom'[o] = dom[o]
        BY <2>1, <3>2
      <4>2. Valid(o) => dom[o].id \in Ids
        BY DEF Valid, Live, Typed, Absent, Freed, LiveType
      <4>3. ~Valid(o)
        BY <3>2, <4>2 DEF ValidDomainsConfigured
      <4> QED
        BY <4>1, <4>3 DEF Typed, Live, Valid
    <3> QED
      BY <3>1, <3>2
  <2>3. Typed'
    <3>1. dom' \in [Objs -> {Absent, Freed} \cup LiveType]
      BY <2>1, <2>2
    <3>2. reset' \in [phase : Phases, rounds : 0 .. MaxRounds, count : 0 .. MaxResets]
      BY <1>2 DEF DisableDomainFiles, SetPhase, Typed, Phases
    <3> QED
      BY <2>1, <3>1, <3>2 DEF Typed
  <2>4. Allocated' /\ Disabled' /\ ValidDomainsConfigured'
    BY <2>1, <2>2 DEF Allocated, Disabled, ValidDomainsConfigured
  <2>5. Scheduled'
    <3> SUFFICES ASSUME NEW i \in Ids, sched[i] # None
                 PROVE  Live(sched[i])' /\ dom'[sched[i]].id = i
      BY <2>1 DEF Scheduled
    <3>1. sched[i] \in Objs /\ Live(sched[i]) /\ dom[sched[i]].id = i
      BY DEF Scheduled, Typed
    <3> QED
      BY <2>1, <2>2, <3>1
  <2>6. FilesKeepPorts'
    BY <1>0, <2>1, <2>2 DEF FilesKeepPorts, Open, Shared
  <2>7. MappedKeepPorts'
    BY <1>0, <2>1, <2>2 DEF MappedKeepPorts, FilesKeepPorts, Mapped, Open, Disabled, Shared
  <2>8. PortsHeld'
    BY <2>1 DEF PortsHeld, Disabled
  <2> QED
    BY <2>3, <2>4, <2>5, <2>6, <2>7, <2>8
<1>3. CASE WakeThreads \/ Sleep \/ WakeUp
  <2>1. /\ reset.phase \in {"wake", "quiesce", "sleep"} /\ reset'.phase \in {"quiesce", "sleep"}
        /\ UNCHANGED <<dom, sched, port, cq_intr, hw, file, devs, reset_active,
                       domain_reset_failed, hist>>
    BY <1>3 DEF WakeThreads, Sleep, WakeUp, SetPhase, Typed
  <2>2. reset' \in [phase : Phases, rounds : 0 .. MaxRounds, count : 0 .. MaxResets]
    <3>1. CASE WakeThreads \/ WakeUp
      BY <3>1 DEF WakeThreads, WakeUp, SetPhase, Typed, Phases
    <3>2. CASE Sleep
      <4>1. reset.rounds + 1 \in 0 .. MaxRounds
        BY <3>2, BoundsAssumption DEF Sleep, Typed
      <4> QED
        BY <3>2, <4>1 DEF Sleep, Typed, Phases
    <3> QED
      BY <1>3, <3>1, <3>2
  <2>3. Typed'
    BY <2>1, <2>2 DEF Typed
  <2> QED
    BY <2>1, <2>3 DEF Allocated, Disabled, Scheduled, ValidDomainsConfigured, FilesKeepPorts,
                      MappedKeepPorts, PortsHeld, Valid, Live, Mapped, Open, Shared
<1>4. CASE Quiesced
  <2>1. /\ reset.phase = "quiesce" /\ reset'.phase = "flr"
        /\ UNCHANGED <<dom, sched, port, cq_intr, hw, devs, reset_active, domain_reset_failed, hist>>
    BY <1>4 DEF Quiesced, SetPhase, Typed
  <2>2. ASSUME NEW f \in Files
        PROVE  /\ file'[f] \in {None} \cup FileType
               /\ Open(f)' <=> Open(f)
               /\ Open(f) => file'[f].of = file[f].of /\ file'[f].port = file[f].port
               /\ ~Shared(file[f].of) => ~Mapped(f)'
    <3>1. CASE ~InUse /\ UNCHANGED file
      <4>1. ASSUME Mapped(f), ~Shared(file[f].of)
            PROVE  InUse
        <5>1. file[f].of \in Objs /\ Live(file[f].of)
          BY <1>0, <4>1 DEF FilesKeepPorts, Mapped
        <5>2. dom[file[f].of] \in LiveType
          BY <5>1 DEF Typed, Live, Absent, Freed
        <5>3. dom[file[f].of].id \in Ids /\ dom[file[f].of].refcnt > 0
          BY <5>2 DEF LiveType
        <5>4. sched[dom[file[f].of].id] = file[f].of
          BY <4>1 DEF MappedKeepPorts
        <5> QED
          BY <5>1, <5>3, <5>4, NoneAssumption DEF InUse
      <4> QED
        BY <3>1, <4>1 DEF Typed, Open, Mapped
    <3>2. CASE inode_cnt = 0 /\ UNCHANGED file
      <4>1. OpenFiles = {}
        BY <3>2, FilesFinite, FS_EmptySet, FS_CardinalityType DEF Counted, InodeCounted
      <4> QED
        BY <3>2, <4>1 DEF OpenFiles, Typed, Open, Mapped
    <3>3. CASE file' = [g \in Files |-> IF Open(g) /\ file[g].map = "mapped"
                                        THEN [file[g] EXCEPT !.map = "zapped"] ELSE file[g]]
      <4>1. file'[f] = IF Open(f) /\ file[f].map = "mapped"
                       THEN [file[f] EXCEPT !.map = "zapped"] ELSE file[f]
        BY <3>3
      <4> QED
        BY <1>0, <4>1, NoneAssumption DEF Open, Mapped, FileType, Typed
    <3> QED
      BY <1>4, <3>1, <3>2, <3>3 DEF Quiesced, unmap_all_mappings
  <2>3. Typed'
    <3>1. file' \in [Files -> {None} \cup FileType]
      <4>1. DOMAIN file' = Files /\ file' = [f \in Files |-> file'[f]]
        BY <1>4 DEF Quiesced, unmap_all_mappings, Typed
      <4> QED
        BY <4>1, <2>2
    <3>2. reset' \in [phase : Phases, rounds : 0 .. MaxRounds, count : 0 .. MaxResets]
      BY <1>4 DEF Quiesced, SetPhase, Typed, Phases
    <3> QED
      BY <2>1, <3>1, <3>2 DEF Typed
  <2>4. FilesKeepPorts'
    BY <2>1, <2>2 DEF FilesKeepPorts, Valid, Live, Shared
  <2>6. MappedKeepPorts'
    <3>1. \A f \in Files : Mapped(f)' => Open(f)'
      BY DEF Mapped
    <3>2. \A f \in Files : Mapped(f)' => Shared(file[f].of)'
      BY <2>1, <2>2, <3>1 DEF Shared
    <3> QED
      BY <3>2 DEF MappedKeepPorts
  <2>5. Allocated' /\ Disabled' /\ Scheduled' /\ ValidDomainsConfigured' /\ PortsHeld'
    BY <2>1 DEF Allocated, Disabled, Scheduled, ValidDomainsConfigured, PortsHeld, Valid, Live
  <2> QED
    BY <2>3, <2>4, <2>5, <2>6
<1>5. CASE Flr
  <2>1. /\ reset.phase = "flr" /\ reset'.phase = "done"
        /\ hw' = [domains |-> {}, owner |-> [p \in Ports |-> None]]
        /\ UNCHANGED <<dom, sched, port, cq_intr, file, devs, reset_active, domain_reset_failed, hist>>
    BY <1>5 DEF Flr, SetPhase, Typed
  <2>2. reset' \in [phase : Phases, rounds : 0 .. MaxRounds, count : 0 .. MaxResets]
    BY <1>5 DEF Flr, SetPhase, Typed, Phases
  <2>3. Typed'
    BY <2>1, <2>2 DEF Typed
  <2>4. \A p \in Ports : hw'.owner[p] = None
    BY <2>1
  <2> QED
    BY <1>0, <2>1, <2>3, <2>4 DEF Allocated, Disabled, Scheduled, ValidDomainsConfigured,
         FilesKeepPorts, MappedKeepPorts, PortsHeld, Valid, Live, Mapped, Open, Shared
<1>6. CASE ResetDone
  <2>1. /\ reset.phase = "done" /\ reset'.phase = "idle" /\ ~reset_active'
        /\ sched' = [i \in Ids |-> None]
        /\ port' = [p \in Ports |-> [port[p] EXCEPT !.valid = FALSE]]
        /\ cq_intr' = [p \in Ports |-> None]
        /\ UNCHANGED <<dom, hw, file, devs, hist>>
    BY <1>6 DEF ResetDone, SetPhase, Typed
  <2>2. reset' \in [phase : Phases, rounds : 0 .. MaxRounds, count : 0 .. MaxResets]
    BY <1>6 DEF ResetDone, SetPhase, Typed, Phases
  <2>3. \A p \in Ports : /\ port'[p] \in [valid : BOOLEAN, domain : Objs \cup {None}]
                         /\ ~port'[p].valid /\ port'[p].domain = port[p].domain
    BY <2>1 DEF Typed
  <2>4. Typed'
    BY <1>6, <2>1, <2>2, <2>3 DEF Typed, ResetDone
  <2>5. \A f \in Files : Open(f) => file[f].port \in Ports /\ (~Shared(file[f].of) => ~Mapped(f))
    BY <1>0, <2>1 DEF MappedKeepPorts, FileType
  <2> QED
    BY <1>0, <2>1, <2>3, <2>4, <2>5 DEF Allocated, Disabled, Scheduled, ValidDomainsConfigured,
         FilesKeepPorts, MappedKeepPorts, PortsHeld, Valid, Live, Mapped, Open, Shared
<1> QED
  BY <1>1, <1>2, <1>3, <1>4, <1>5, <1>6 DEF ResetOps

-----------------------------------------------------------------------------
(* The counters.                                                           *)

LEMMA ValidFinite ==
  IsFiniteSet(ValidDomains) /\ Cardinality(ValidDomains) \in Nat
<1>1. IsFiniteSet(Objs) /\ ValidDomains \subseteq Objs
  BY Numbered DEF ValidDomains
<1> QED
  BY <1>1, FS_Subset, FS_CardinalityType

(* The usage count of the device follows what keeps the device awake.      *)
LEMMA StaysAwake ==
  ASSUME Shape, Counted, pm' \in Int, devs' \in Int, Cardinality(ValidDomains') \in Int,
         reset_active' \in BOOLEAN,
         pm' - pm >= (devs' - devs) + (Cardinality(ValidDomains') - Cardinality(ValidDomains))
                     + (Resetting' - Resetting)
  PROVE  KeptAwake'
<1>1. /\ devs \in Int /\ Resetting \in Int /\ Resetting' \in Int
      /\ Cardinality(ValidDomains) \in Int
  BY ValidFinite DEF Shape, Typed, Resetting
<1>2. pm \in Int /\ pm >= devs + Cardinality(ValidDomains) + Resetting
  BY DEF Counted, KeptAwake
<1> QED
  BY <1>1, <1>2 DEF KeptAwake

(* A put, once its caller has closed the file that held the reference.     *)
LEMMA PutCounted ==
  ASSUME IInv, NEW o \in Objs, Live(o), NEW dm, Caller(o, dm), kref_put(o, dm),
         UNCHANGED <<devs, reset_active, hist>>,
         InodeCounted',
         \A x \in Objs \ {o} : ~Shared(x) => FilesOf(x)' = FilesOf(x),
         ~Shared(o) =>
           dm[o].refcnt - 1 = (IF dm[o].file THEN 1 ELSE 0) + Cardinality(FilesOf(o)')
  PROVE  Counted'
<1> USE DEF IInv, Shape
<1>1. dom[o] \in LiveType
  BY DEF Typed, Live, Absent, Freed
<1>2. /\ dm \in [Objs -> {Absent, Freed} \cup LiveType]
      /\ dm[o] \in LiveType /\ dm[o].valid = dom[o].valid
      /\ \A x \in Objs \ {o} : dm[x] = dom[x]
  <2>2. CASE dm = dom
    BY <1>1, <2>2 DEF Typed
  <2>3. CASE dm = [dom EXCEPT ![o].file = FALSE]
    BY <1>1, <2>3 DEF Typed, LiveType
  <2> QED
    BY <2>2, <2>3 DEF Caller
<1>3. \A x \in Objs \ {o} : dom'[x] = dom[x]
  <2>1. CASE dom' = [dm EXCEPT ![o].refcnt = @ - 1]
    BY <1>2, <2>1
  <2>2. CASE dom' = [dm EXCEPT ![o] = Freed]
    BY <1>2, <2>2
  <2> QED
    BY <2>1, <2>2 DEF kref_put, free_domain, Freed
<1>4. /\ \A x \in Objs \ {o} : Live(x)' = Live(x) /\ Valid(x)' = Valid(x)
      /\ \A x \in Objs : Shared(x)' = Shared(x)
  BY <1>3 DEF Live, Valid, Shared
<1>5. CASE dm[o].refcnt > 1
  <2>1. dom' = [dm EXCEPT ![o] = [dm[o] EXCEPT !.refcnt = @ - 1]] /\ pm' = pm
    BY <1>5 DEF kref_put
  <2>2. /\ dom'[o].refcnt = dm[o].refcnt - 1 /\ dom'[o].file = dm[o].file
        /\ dom'[o].state = dom[o].state /\ dom'[o].valid = dom[o].valid
    BY <1>1, <1>2, <2>1 DEF LiveType
  <2>3. \A x \in Objs : CountsFiles(x)'
    BY <1>3, <1>4, <2>2 DEF Counted, CountsFiles
  <2>4. ValidDomains' = ValidDomains
    BY <1>4, <2>2 DEF ValidDomains, Valid, Live
  <2>5. KeptAwake'
    BY <2>1, <2>4, ValidFinite, StaysAwake DEF Counted, KeptAwake, Typed, Resetting
  <2> QED
    BY <2>3, <2>5 DEF Counted
<1>6. CASE ~(dm[o].refcnt > 1)
  <2>1. dom' = [dm EXCEPT ![o] = Freed]
    BY <1>6 DEF kref_put, free_domain, Freed
  <2>2. ~Live(o)' /\ ~Valid(o)'
    BY <1>2, <2>1 DEF Live, Valid, Freed
  <2>3. \A x \in Objs : CountsFiles(x)'
    BY <1>3, <1>4, <2>2 DEF Counted, CountsFiles
  <2>4. ValidDomains' = ValidDomains \ {o}
    BY <1>4, <2>2 DEF ValidDomains
  <2>5. CASE Valid(o)
    <3>1. pm' = pm - 1
      BY <1>2, <1>6, <2>5 DEF kref_put, free_domain, Valid
    <3>2. o \in ValidDomains
      BY <2>5 DEF ValidDomains
    <3>3. Cardinality(ValidDomains') = Cardinality(ValidDomains) - 1
      BY <2>4, <3>2, ValidFinite, FS_RemoveElement
    <3>4. KeptAwake'
      BY <3>1, <3>3, ValidFinite, StaysAwake DEF Counted, KeptAwake, Typed, Resetting
    <3> QED
      BY <2>3, <3>4 DEF Counted
  <2>6. CASE ~Valid(o)
    <3>1. pm' = pm
      BY <1>2, <1>6, <2>6 DEF kref_put, free_domain, Valid
    <3>2. ValidDomains' = ValidDomains
      BY <2>4, <2>6 DEF ValidDomains
    <3>3. KeptAwake'
      BY <3>1, <3>2, ValidFinite, StaysAwake DEF Counted, KeptAwake, Typed, Resetting
    <3> QED
      BY <2>3, <3>3 DEF Counted
  <2> QED
    BY <2>5, <2>6
<1> QED
  BY <1>5, <1>6

LEMMA PortCloseKeeps ==
  ASSUME IInv, NEW f \in Files, PortClose(f)
  PROVE  IInv'
<1> USE DEF IInv, Shape
<1>0. PICK o \in Objs : o = port[file[f].port].domain
  BY DEF PortClose, FilesKeepPorts
<1>1. /\ MutexFree /\ Open(f) /\ file[f] \in FileType
      /\ Live(o) /\ kref_put(o, dom)
      /\ file' = [file EXCEPT ![f] = None]
      /\ inode_cnt' = inode_cnt - 1
      /\ UNCHANGED <<devs, reset, reset_active, hist>>
  BY <1>0 DEF PortClose, Typed, Open
<1>2. /\ file' \in [Files -> {None} \cup FileType] /\ FilesLeft
      /\ \A g \in Files : Open(g)' <=> Open(g) /\ g # f
      /\ \A g \in Files \ {f} : file'[g] = file[g]
  BY <1>1 DEF Typed, FilesLeft, Open
<1>3. OpenFiles' = OpenFiles \ {f} /\ f \in OpenFiles
  BY <1>1, <1>2 DEF OpenFiles
<1>4. \A x \in Objs : FilesOf(x)' = FilesOf(x) \ {f} /\ (f \in FilesOf(x) <=> file[f].of = x)
  BY <1>1, <1>2 DEF FilesOf
<1>5. \A x \in Objs \ {o} : ~Shared(x) => FilesOf(x)' = FilesOf(x)
  BY <1>0, <1>1, <1>4 DEF FilesKeepPorts
<1>6. InodeCounted'
  <2>1. /\ Cardinality(OpenFiles') = Cardinality(OpenFiles) - 1
        /\ Cardinality(OpenFiles) \in Nat /\ MaxLeaks \in Nat
    BY <1>3, FilesFinite, FS_RemoveElement, FS_CardinalityType, BoundsAssumption
  <2> QED
    BY <1>1, <2>1 DEF Counted, InodeCounted
<1>7. ASSUME ~Shared(o)
      PROVE  /\ Cardinality(FilesOf(o)') = Cardinality(FilesOf(o)) - 1
             /\ Cardinality(FilesOf(o)) \in Nat
             /\ IsFiniteSet(FilesOf(o)')
             /\ dom[o].refcnt = (IF dom[o].file THEN 1 ELSE 0) + Cardinality(FilesOf(o))
  <2>1. file[f].of = o
    BY <1>0, <1>1, <1>7 DEF FilesKeepPorts
  <2>2. FilesOf(o)' = FilesOf(o) \ {f} /\ f \in FilesOf(o)
    BY <1>4, <2>1
  <2>3. dom[o].refcnt = (IF dom[o].file THEN 1 ELSE 0) + Cardinality(FilesOf(o))
    BY <1>1, <1>7 DEF Counted, CountsFiles
  <2> QED
    BY <2>2, <2>3, FilesFinite, FS_RemoveElement
<1>9. Caller(o, dom)
  BY DEF Caller
<1>10. Counted'
  <2>1. dom[o].file \in BOOLEAN
    BY <1>1 DEF Live, Typed, Absent, Freed, LiveType
  <2>2. ~Shared(o) =>
          dom[o].refcnt - 1 = (IF dom[o].file THEN 1 ELSE 0) + Cardinality(FilesOf(o)')
    BY <1>7, <2>1
  <2> QED
    BY <1>1, <1>5, <1>6, <1>9, <2>2, PutCounted
<1>11. ASSUME ~(dom[o].refcnt > 1)
       PROVE  \A g \in Files : Open(g)' /\ ~Shared(file[g].of) => file[g].of # o
  <2> SUFFICES ASSUME ~Shared(o)
               PROVE  FilesOf(o)' = {}
    BY <1>2 DEF FilesOf
  <2>1. Cardinality(FilesOf(o)') \in Nat
    BY <1>7, FS_CardinalityType
  <2>2. Cardinality(FilesOf(o)') = 0
    BY <1>7, <1>11, <2>1
  <2> QED
    BY <1>7, <2>2, FS_EmptySet
<1>12. Shape'
  BY <1>1, <1>2, <1>9, <1>11, PutShape
<1> QED
  BY <1>10, <1>12

LEMMA DomainCloseKeeps ==
  ASSUME IInv, NEW o \in Objs, DomainClose(o)
  PROVE  IInv'
<1> USE DEF IInv, Shape
<1> DEFINE dm == [dom EXCEPT ![o].file = FALSE]
<1>1. /\ MutexFree /\ Live(o) /\ dom[o].file /\ kref_put(o, dm)
      /\ UNCHANGED <<file, devs, inode_cnt, reset, reset_active, hist>>
  BY DEF DomainClose
<1>2. /\ file' \in [Files -> {None} \cup FileType] /\ FilesLeft
      /\ OpenFiles' = OpenFiles /\ \A x \in Objs : FilesOf(x)' = FilesOf(x)
  BY <1>1 DEF Typed, FilesLeft, OpenFiles, FilesOf, Open
<1>3. dom[o] \in LiveType
  BY <1>1 DEF Typed, Live, Absent, Freed
<1>4. Caller(o, dm) /\ dm[o].refcnt = dom[o].refcnt /\ dm[o].file = FALSE
  BY <1>3 DEF Caller, Typed, LiveType
<1>5. /\ ~Shared(o) => dom[o].refcnt = 1 + Cardinality(FilesOf(o))
      /\ Cardinality(FilesOf(o)) \in Nat
  BY <1>1, FilesFinite DEF Counted, CountsFiles
<1> HIDE DEF dm
<1>6. Counted'
  <2>1. InodeCounted'
    BY <1>1, <1>2 DEF Counted, InodeCounted
  <2>2. ~Shared(o) =>
          dm[o].refcnt - 1 = (IF dm[o].file THEN 1 ELSE 0) + Cardinality(FilesOf(o)')
    BY <1>2, <1>4, <1>5
  <2> QED
    BY <1>1, <1>2, <1>4, <2>1, <2>2, PutCounted
<1>7. ASSUME ~(dm[o].refcnt > 1)
      PROVE  \A g \in Files : Open(g)' /\ ~Shared(file[g].of) => file[g].of # o
  <2>1. ~Shared(o) => FilesOf(o) = {}
    BY <1>4, <1>5, <1>7, FilesFinite, FS_EmptySet
  <2> QED
    BY <1>1, <2>1 DEF FilesOf, Open
<1>8. Shape'
  BY <1>1, <1>2, <1>4, <1>7, PutShape
<1> QED
  BY <1>6, <1>8

LEMMA FilesUnchanged ==
  ASSUME UNCHANGED file
  PROVE  OpenFiles' = OpenFiles /\ \A o \in Objs : FilesOf(o)' = FilesOf(o)
BY DEF OpenFiles, FilesOf, Open

LEMMA InodeUnchanged ==
  ASSUME InodeCounted, UNCHANGED inode_cnt, OpenFiles' = OpenFiles
  PROVE  InodeCounted'
BY DEF InodeCounted

LEMMA DevicesKeep ==
  ASSUME IInv, OpenDevice \/ CloseDevice
  PROVE  IInv'
<1> USE DEF IInv, Shape
<1>1. /\ UNCHANGED <<dom, sched, port, cq_intr, hw, file, inode_cnt, reset, reset_active,
                     domain_reset_failed, hist>>
      /\ devs' \in 0 .. MaxDevs
      /\ pm' = pm + (devs' - devs) /\ pm' \in Int
  <2>1. MaxDevs \in Nat /\ devs \in 0 .. MaxDevs /\ pm \in Int
    BY BoundsAssumption DEF Typed, Counted, KeptAwake
  <2>2. CASE OpenDevice
    BY <2>1, <2>2 DEF OpenDevice
  <2>3. CASE CloseDevice
    BY <2>1, <2>3 DEF CloseDevice
  <2> QED
    BY <2>2, <2>3
<1>2. Typed'
  BY <1>1 DEF Typed
<1>3. Shape'
  BY <1>1, <1>2 DEF Allocated, Disabled, Scheduled, ValidDomainsConfigured, FilesKeepPorts,
                    MappedKeepPorts, PortsHeld, Valid, Live, Mapped, Open, Shared
<1>4. ValidDomains' = ValidDomains
  BY <1>1 DEF ValidDomains, Valid, Live
<1>5. Counted'
  <2>1. /\ devs \in Int /\ devs' \in Int /\ pm \in Int
        /\ Resetting' = Resetting /\ Resetting \in Int
        /\ reset_active' \in BOOLEAN
    BY <1>1, <1>2 DEF Typed, Resetting, Counted, KeptAwake
  <2>2. KeptAwake'
    <3>1. /\ Cardinality(ValidDomains') = Cardinality(ValidDomains)
          /\ Cardinality(ValidDomains) \in Int /\ pm' \in Int
          /\ pm' = pm + (devs' - devs)
      BY <1>1, <1>4, ValidFinite
    <3>2. pm' - pm >= (devs' - devs) + (Cardinality(ValidDomains') - Cardinality(ValidDomains))
                      + (Resetting' - Resetting)
      <4>1. /\ Cardinality(ValidDomains') - Cardinality(ValidDomains) = 0
            /\ Resetting' - Resetting = 0
        BY <2>1, <3>1
      <4>2. ASSUME NEW a \in Int, NEW b \in Int, NEW c \in Int, NEW d \in Int,
                   a = b + (c - d)
            PROVE  a - b >= c - d
        BY <4>2
      <4>3. pm' - pm >= devs' - devs
        BY ONLY <2>1, <3>1, <4>2
      <4> QED
        BY <2>1, <4>1, <4>3
    <3> QED
      BY <2>1, <3>1, <3>2, StaysAwake
  <2>3. InodeCounted'
    BY <1>1, FilesUnchanged, InodeUnchanged DEF Counted
  <2>4. \A x \in Objs : CountsFiles(x)'
    BY <1>1, FilesUnchanged DEF Counted, CountsFiles, Live, Shared
  <2> QED
    BY <2>2, <2>3, <2>4 DEF Counted
<1> QED
  BY <1>3, <1>5

LEMMA CreateSchedDomainKeeps ==
  ASSUME IInv, NEW o \in Objs, NEW i \in Ids, CreateSchedDomain(o, i)
  PROVE  IInv'
<1> USE DEF IInv, Shape
<1>1. Shape'
  BY CreateSchedDomainShape
<1>2. dom[o] = Absent
  BY NextDomain DEF CreateSchedDomain
<1>3. UNCHANGED <<file, devs, inode_cnt, reset_active, hist>>
  BY DEF CreateSchedDomain
<1>4. ~Shared(o) => FilesOf(o) = {}
  BY <1>2 DEF FilesOf, FilesKeepPorts, Live, Absent
<1>5. ~Shared(o) => Cardinality(FilesOf(o)) = 0
  BY <1>4, FS_EmptySet
<1>6. \A x \in Objs \ {o} : dom'[x] = dom[x]
  BY DEF CreateSchedDomain, Typed
<1>7. /\ \A x \in Objs \ {o} : Live(x)' = Live(x) /\ Valid(x)' = Valid(x)
      /\ \A x \in Objs : Shared(x)' = Shared(x)
  BY <1>3, <1>6 DEF Live, Valid, Shared
<1>8. ASSUME pm' = pm + 1, dom'[o] = [state |-> "live", id |-> i, valid |-> TRUE,
                                      refcnt |-> 1, file |-> TRUE]
      PROVE  Counted'
  <2>0. /\ ~Shared(o) =>
             dom'[o].refcnt = (IF dom'[o].file THEN 1 ELSE 0) + Cardinality(FilesOf(o)')
        /\ Valid(o)'
    BY <1>3, <1>5, <1>8, FilesUnchanged DEF Valid, Live
  <2>1. \A x \in Objs : CountsFiles(x)'
    <3> SUFFICES ASSUME NEW x \in Objs, Live(x)', ~Shared(x)'
                 PROVE  dom'[x].refcnt = (IF dom'[x].file THEN 1 ELSE 0)
                                         + Cardinality(FilesOf(x)')
      BY DEF CountsFiles
    <3>1. CASE x = o
      BY <1>7, <2>0, <3>1
    <3>2. CASE x # o
      BY <1>3, <1>6, <1>7, <3>2, FilesUnchanged DEF Counted, CountsFiles
    <3> QED
      BY <3>1, <3>2
  <2>2. ValidDomains' = ValidDomains \cup {o} /\ o \notin ValidDomains
    BY <1>2, <1>7, <2>0 DEF ValidDomains, Valid, Live, Absent
  <2>3. Cardinality(ValidDomains') = Cardinality(ValidDomains) + 1
    BY <2>2, ValidFinite, FS_AddElement
  <2>4. InodeCounted'
    BY <1>3, FilesUnchanged, InodeUnchanged DEF Counted
  <2>5. KeptAwake'
    BY <1>3, <1>8, <2>3, ValidFinite, StaysAwake DEF Counted, KeptAwake, Typed, Resetting
  <2> QED
    BY <2>1, <2>4, <2>5 DEF Counted
<1>9. ASSUME pm' = pm, dom'[o] = Freed
      PROVE  Counted'
  <2>1. \A x \in Objs : CountsFiles(x)'
    BY <1>3, <1>6, <1>7, <1>9, FilesUnchanged DEF Counted, CountsFiles, Live, Freed
  <2>2. ValidDomains' = ValidDomains
    BY <1>2, <1>7, <1>9 DEF ValidDomains, Valid, Live, Absent, Freed
  <2>3. InodeCounted'
    BY <1>3, FilesUnchanged, InodeUnchanged DEF Counted
  <2>4. KeptAwake'
    BY <1>3, <1>9, <2>2, ValidFinite, StaysAwake DEF Counted, KeptAwake, Typed, Resetting
  <2> QED
    BY <2>1, <2>3, <2>4 DEF Counted
<1>10. Counted'
  BY <1>8, <1>9 DEF CreateSchedDomain, Typed, Freed
<1> QED
  BY <1>1, <1>10

LEMMA CreatePortKeeps ==
  ASSUME IInv, NEW o \in Objs, NEW p \in Ports, CreatePort(o, p)
  PROVE  IInv'
<1>1. Shape'
  BY CreatePortShape DEF IInv
<1>2. UNCHANGED <<dom, file, devs, inode_cnt, pm, reset_active>>
  BY DEF CreatePort
<1>3. \A x \in Objs : Shared(x) => Shared(x)'
  BY DEF CreatePort, Shared, IInv, Shape, Typed
<1>5. \A x \in Objs : CountsFiles(x)'
  BY <1>2, <1>3, FilesUnchanged DEF IInv, Counted, CountsFiles, Live
<1>4. KeptAwake' /\ InodeCounted'
  BY <1>2, FilesUnchanged, InodeUnchanged
     DEF IInv, Counted, KeptAwake, ValidDomains, Valid, Live, Resetting
<1> QED
  BY <1>1, <1>4, <1>5 DEF IInv, Counted

(* Without a file, only the count of the inode is left behind.             *)
LEMMA NoPortFdKeeps ==
  ASSUME IInv, NEW o \in Objs, NEW p \in Ports, NEW f \in Files, NEW kind \in Kinds,
         GetPortFd(o, p, f, kind), file' = file
  PROVE  IInv'
<1> USE DEF IInv, Shape
<1>1. UNCHANGED <<dom, sched, port, cq_intr, hw, file, devs, pm, reset, reset_active,
                  domain_reset_failed, hist>>
      /\ inode_cnt' = inode_cnt + 1 /\ inode_cnt < Cardinality(OpenFiles) + MaxLeaks
  <2>1. [port |-> p, kind |-> kind, of |-> o, map |-> "no"] # None
    BY BoundsAssumption, NoneAssumption DEF FileType
  <2>2. file' # [file EXCEPT ![f] = [port |-> p, kind |-> kind, of |-> o, map |-> "no"]]
    BY <2>1 DEF GetPortFd, Open, Typed
  <2> QED
    BY <2>2 DEF GetPortFd
<1>5. Typed' /\ Allocated' /\ Disabled' /\ Scheduled' /\ ValidDomainsConfigured'
  BY <1>1 DEF Typed, Allocated, Disabled, Scheduled, ValidDomainsConfigured, Valid, Live
<1>6. FilesKeepPorts' /\ MappedKeepPorts' /\ PortsHeld'
  BY <1>1 DEF FilesKeepPorts, MappedKeepPorts, PortsHeld, Valid, Live, Mapped, Open, Shared
<1>2. Shape'
  BY <1>5, <1>6
<1>3. InodeCounted'
  <2>1. Cardinality(OpenFiles) \in Nat /\ MaxLeaks \in Nat /\ OpenFiles' = OpenFiles
    BY <1>1, FilesFinite, FilesUnchanged, FS_CardinalityType, BoundsAssumption
  <2> QED
    BY <1>1, <2>1 DEF Counted, InodeCounted
<1>4. (\A x \in Objs : CountsFiles(x)') /\ KeptAwake'
  BY <1>1, FilesUnchanged DEF Counted, CountsFiles, KeptAwake, ValidDomains, Valid, Live,
                              Shared, Resetting
<1> QED
  BY <1>2, <1>3, <1>4 DEF Counted

LEMMA GetPortFdKeeps ==
  ASSUME IInv, NEW o \in Objs, NEW p \in Ports, NEW f \in Files, NEW kind \in Kinds,
         GetPortFd(o, p, f, kind), file' # file
  PROVE  IInv'
<1> USE DEF IInv, Shape
<1> DEFINE new == [port |-> p, kind |-> kind, of |-> o, map |-> "no"]
<1>1. /\ Valid(o) /\ ~Open(f)
      /\ file' = [file EXCEPT ![f] = new]
      /\ dom' = [dom EXCEPT ![o] = [dom[o] EXCEPT !.refcnt = @ + 1]]
      /\ inode_cnt' = inode_cnt + 1
      /\ UNCHANGED <<devs, pm, reset_active, hist>>
  <2>1. ~(file' = file)
    OBVIOUS
  <2> QED
    BY <2>1 DEF GetPortFd, DomainIoctl
<1>2. new \in FileType /\ new.of = o /\ new # None
  BY BoundsAssumption, NoneAssumption DEF FileType
<1>3. dom[o] \in LiveType
  BY <1>1 DEF Typed, Valid, Live, Absent, Freed
<1> HIDE DEF new
<1>4. file'[f] = new /\ \A g \in Files \ {f} : file'[g] = file[g]
  BY <1>1 DEF Typed
<1>5. /\ dom'[o].refcnt = dom[o].refcnt + 1 /\ dom'[o].file = dom[o].file
      /\ dom'[o].state = dom[o].state /\ dom'[o].valid = dom[o].valid
      /\ \A x \in Objs \ {o} : dom'[x] = dom[x]
  BY <1>1, <1>3 DEF Typed, LiveType
<1>6. \A x \in Objs : Live(x)' = Live(x) /\ Valid(x)' = Valid(x) /\ Shared(x)' = Shared(x)
  BY <1>1, <1>5 DEF Live, Valid, Shared
<1>7. OpenFiles' = OpenFiles \cup {f} /\ f \notin OpenFiles
  BY <1>1, <1>2, <1>4 DEF OpenFiles, Open
<1>8. FilesOf(o)' = FilesOf(o) \cup {f} /\ f \notin FilesOf(o)
  BY <1>1, <1>2, <1>4 DEF FilesOf, Open
<1>9. \A x \in Objs \ {o} : FilesOf(x)' = FilesOf(x)
  BY <1>1, <1>2, <1>4 DEF FilesOf, Open
<1>10. /\ Cardinality(OpenFiles') = Cardinality(OpenFiles) + 1
       /\ Cardinality(FilesOf(o)') = Cardinality(FilesOf(o)) + 1
       /\ Cardinality(FilesOf(o)) \in Nat
  BY <1>7, <1>8, FilesFinite, FS_AddElement
<1>11. \A x \in Objs : CountsFiles(x)'
  <2>1. dom[o].refcnt \in Nat /\ dom[o].file \in BOOLEAN
    BY <1>3 DEF LiveType
  <2>2. CountsFiles(o)'
    BY <1>5, <1>6, <1>10, <2>1 DEF Counted, CountsFiles
  <2>3. \A x \in Objs \ {o} : CountsFiles(x)'
    BY <1>5, <1>6, <1>9 DEF Counted, CountsFiles
  <2> QED
    BY <2>2, <2>3
<1>15. InodeCounted'
  <2>1. Cardinality(OpenFiles) \in Nat /\ MaxLeaks \in Nat
    BY FilesFinite, FS_CardinalityType, BoundsAssumption
  <2> QED
    BY <1>1, <1>10, <2>1 DEF Counted, InodeCounted
<1>12. ValidDomains' = ValidDomains
  BY <1>6 DEF ValidDomains
<1>13. KeptAwake'
  BY <1>1, <1>12 DEF Counted, KeptAwake, Resetting
<1>14. Counted'
  BY <1>11, <1>13, <1>15 DEF Counted
<1> QED
  BY <1>14, GetPortFdShape

LEMMA MmapKeeps ==
  ASSUME IInv, NEW f \in Files, Mmap(f) \/ Munmap(f)
  PROVE  IInv'
<1>1. Shape'
  BY MmapShape DEF IInv
<1>2. UNCHANGED <<dom, devs, inode_cnt, pm, reset_active, hist>>
  BY DEF Mmap, Munmap
<1>3. \A g \in Files : Open(g)' = Open(g) /\ (Open(g) => file'[g].of = file[g].of)
  <2>1. Open(f) /\ file[f] \in FileType
    BY DEF Mmap, Munmap, IInv, Shape, Typed, Open
  <2>2. PICK m \in {"no", "mapped"} : file' = [file EXCEPT ![f] = [file[f] EXCEPT !.map = m]]
    BY DEF Mmap, Munmap
  <2>3. [file[f] EXCEPT !.map = m] \in FileType /\ [file[f] EXCEPT !.map = m].of = file[f].of
    BY <2>1 DEF FileType
  <2> QED
    BY <2>1, <2>2, <2>3, NoneAssumption DEF Open, IInv, Shape, Typed
<1>4. OpenFiles' = OpenFiles /\ \A o \in Objs : FilesOf(o)' = FilesOf(o)
  BY <1>3 DEF OpenFiles, FilesOf
<1>5. \A x \in Objs : CountsFiles(x)'
  BY <1>2, <1>4 DEF IInv, Counted, CountsFiles, Live, Shared
<1>6. KeptAwake' /\ InodeCounted'
  BY <1>2, <1>4, InodeUnchanged DEF IInv, Counted, KeptAwake, ValidDomains, Valid, Live, Resetting
<1> QED
  BY <1>1, <1>5, <1>6 DEF IInv, Counted

LEMMA ResetKeeps ==
  ASSUME IInv, ResetOps
  PROVE  IInv'
<1> USE DEF IInv, Shape
<1>1. Shape'
  BY ResetShape
<1>2. UNCHANGED <<inode_cnt, devs, hist>>
  BY DEF ResetOps, ResetPrepare, DisableDomainFiles, WakeThreads, Sleep, WakeUp, Quiesced,
         Flr, ResetDone
<1>3. \A f \in Files : Open(f)' = Open(f) /\ (Open(f) => file'[f].of = file[f].of)
  <2>1. CASE UNCHANGED file
    BY <2>1 DEF Open
  <2>2. CASE file' = [g \in Files |-> IF Open(g) /\ file[g].map = "mapped"
                                      THEN [file[g] EXCEPT !.map = "zapped"] ELSE file[g]]
    <3> SUFFICES ASSUME NEW f \in Files
                 PROVE  Open(f)' = Open(f) /\ (Open(f) => file'[f].of = file[f].of)
      OBVIOUS
    <3>1. Open(f) => file[f] \in FileType
      BY DEF Typed, Open
    <3>2. Open(f) => /\ [file[f] EXCEPT !.map = "zapped"] \in FileType
                     /\ [file[f] EXCEPT !.map = "zapped"].of = file[f].of
      BY <3>1 DEF FileType
    <3> QED
      BY <2>2, <3>1, <3>2, NoneAssumption DEF Open
  <2> QED
    BY <2>1, <2>2 DEF ResetOps, ResetPrepare, DisableDomainFiles, WakeThreads, Sleep, WakeUp,
         Quiesced, unmap_all_mappings, Flr, ResetDone
<1>4. OpenFiles' = OpenFiles /\ \A o \in Objs : FilesOf(o)' = FilesOf(o)
  BY <1>3 DEF OpenFiles, FilesOf
<1>5. InodeCounted'
  BY <1>2, <1>4, InodeUnchanged DEF Counted
<1>6. ASSUME NEW o \in Objs
      PROVE  /\ Live(o)' => /\ Live(o) /\ dom'[o].refcnt = dom[o].refcnt
                            /\ dom'[o].file = dom[o].file
             /\ Valid(o)' => Valid(o)
  <2>1. CASE dom' = dom
    BY <2>1 DEF Live, Valid
  <2>2. CASE DisableDomainFiles
    <3>1. dom'[o] = dom[o] \/ dom'[o] = [dom[o] EXCEPT !.valid = FALSE]
      BY <2>2 DEF DisableDomainFiles
    <3>2. dom[o] \in LiveType \/ dom[o] = Absent \/ dom[o] = Freed
      BY DEF Typed
    <3>3. CASE dom[o] \in LiveType
      BY <3>1, <3>3 DEF Live, Valid, LiveType
    <3>4. CASE dom[o] = Absent \/ dom[o] = Freed
      BY <3>1, <3>4 DEF Live, Valid, Absent, Freed
    <3> QED
      BY <3>2, <3>3, <3>4
  <2> QED
    BY <2>1, <2>2 DEF ResetOps, ResetPrepare, WakeThreads, Sleep, WakeUp, Quiesced, Flr,
         ResetDone
<1>7. \A x \in Objs : CountsFiles(x)'
  BY <1>2, <1>4, <1>6 DEF Counted, CountsFiles, Shared
<1>8. ValidDomains' \subseteq ValidDomains
  BY <1>6 DEF ValidDomains
<1>9. Cardinality(ValidDomains') <= Cardinality(ValidDomains) /\ Cardinality(ValidDomains') \in Nat
  BY <1>8, ValidFinite, FS_Subset, FS_CardinalityType
<1>10. pm' \in Int /\ pm' - pm = Resetting' - Resetting
  <2>1. pm \in Int /\ (reset_active <=> reset.phase # "idle")
    BY DEF Counted, KeptAwake, Disabled
  <2>2. CASE ResetPrepare
    <3>1. pm' = pm + 1 /\ ~reset_active /\ reset_active'
      BY <2>1, <2>2 DEF ResetPrepare
    <3> QED
      BY <2>1, <3>1 DEF Resetting
  <2>3. CASE ResetDone
    <3>1. pm' = pm - 1 /\ reset_active /\ ~reset_active'
      BY <2>1, <2>3 DEF ResetDone
    <3> QED
      BY <2>1, <3>1 DEF Resetting
  <2>4. CASE UNCHANGED <<pm, reset_active>>
    BY <2>1, <2>4 DEF Resetting
  <2> QED
    BY <2>2, <2>3, <2>4 DEF ResetOps, DisableDomainFiles, WakeThreads, Sleep, WakeUp, Quiesced, Flr
<1>11. KeptAwake'
  BY <1>1, <1>2, <1>9, <1>10, ValidFinite, StaysAwake DEF Typed, Resetting
<1> QED
  BY <1>1, <1>5, <1>7, <1>11 DEF Counted

-----------------------------------------------------------------------------
(* The invariant, and what follows from it.                                *)

LEMMA InitIInv == Init => IInv
<1> SUFFICES ASSUME Init
             PROVE  IInv
  OBVIOUS
<1> USE DEF Init
<1>1. \A o \in Objs : dom[o] = Absent /\ ~Live(o) /\ ~Valid(o)
  BY DEF Live, Valid, Absent
<1>2. \A f \in Files : ~Open(f)
  BY DEF Open
<1>3. Typed
  <2>1. MaxDevs \in Nat /\ MaxResets \in Nat /\ MaxRounds \in Nat
    BY BoundsAssumption
  <2>2. reset \in [phase : Phases, rounds : 0 .. MaxRounds, count : 0 .. MaxResets]
    BY <2>1 DEF Phases
  <2>3. hw \in [domains : SUBSET Ids, owner : [Ports -> Ids \cup {None}]]
    OBVIOUS
  <2>4. /\ dom \in [Objs -> {Absent, Freed} \cup LiveType]
        /\ sched \in [Ids -> Objs \cup {None}]
        /\ cq_intr \in [Ports -> Ids \cup {None}]
        /\ file \in [Files -> {None} \cup FileType]
        /\ devs \in 0 .. MaxDevs
        /\ hist \in [shared : SUBSET Objs, half : SUBSET Ports]
    BY <2>1
  <2>5. port \in [Ports -> [valid : BOOLEAN, domain : Objs \cup {None}]]
    OBVIOUS
  <2> QED
    BY <2>2, <2>3, <2>4, <2>5 DEF Typed
<1>4. Allocated
  <2>1. 0 \in 0 .. Cardinality(Objs)
    BY Numbered
  <2>2. \A o \in Objs : ~(o <= 0)
    BY Numbered
  <2> QED
    BY <1>1, <2>1, <2>2 DEF Allocated
<1>5. Shape
  BY <1>1, <1>2, <1>3, <1>4 DEF Shape, Disabled, Scheduled, ValidDomainsConfigured,
       FilesKeepPorts, MappedKeepPorts, Mapped, PortsHeld
<1>6. OpenFiles = {} /\ ValidDomains = {}
  BY <1>1, <1>2 DEF OpenFiles, ValidDomains
<1>7. Counted
  BY <1>1, <1>6, FS_EmptySet, BoundsAssumption
     DEF Counted, CountsFiles, InodeCounted, KeptAwake, Resetting
<1> QED
  BY <1>5, <1>7 DEF IInv

LEMMA NextIInv ==
  ASSUME IInv, [Next]_vars
  PROVE  IInv'
<1>1. CASE DomainOps
  BY <1>1, CreateSchedDomainKeeps, CreatePortKeeps, GetPortFdKeeps, NoPortFdKeeps DEF DomainOps
<1>2. CASE FileOps
  BY <1>2, DevicesKeep, MmapKeeps, PortCloseKeeps DEF FileOps
<1>3. CASE ResetOps
  BY <1>3, ResetKeeps
<1>4. CASE \E o \in Objs : DomainClose(o)
  BY <1>4, DomainCloseKeeps
<1>5. CASE UNCHANGED vars
  BY <1>5 DEF vars, IInv, Shape, Typed, Allocated, Disabled, Scheduled, ValidDomainsConfigured,
       FilesKeepPorts, MappedKeepPorts, PortsHeld, Counted, CountsFiles, OpenFiles, FilesOf,
       ValidDomains, InodeCounted, KeptAwake, Resetting, Valid, Live, Mapped, Open, Shared
<1> QED
  BY <1>1, <1>2, <1>3, <1>4, <1>5 DEF Next

(* IInv is an inductive invariant.                                         *)
LEMMA Inductive == Spec => []IInv
<1>1. IInv /\ [Next]_vars => IInv'
  BY NextIInv
<1> QED
  BY <1>1, InitIInv, PTL DEF Spec

-----------------------------------------------------------------------------
(* The theorems                                                            *)

(* No set of open files has more members than Files.                       *)
LEMMA CountedFiles ==
  ASSUME NEW S \in SUBSET Files
  PROVE  Cardinality(S) \in 0 .. Cardinality(Files)
<1>1. IsFiniteSet(S) /\ Cardinality(S) <= Cardinality(Files)
  BY BoundsAssumption, FS_Subset
<1>2. Cardinality(S) \in Nat /\ Cardinality(Files) \in Nat
  BY <1>1, BoundsAssumption, FS_CardinalityType
<1> QED
  BY <1>1, <1>2

(* Every variable of the driver keeps its type.  The reference count of a  *)
(* domain that is not freed is at least one, the inode counts no more      *)
(* users than files and what failed allocations leaked, and the device's   *)
(* usage count never falls below zero, whatever resets come between.       *)
THEOREM DomainFilesTypes == Spec => []TypeOK
<1>1. ASSUME IInv
      PROVE  TypeOK
  <2> USE <1>1 DEF IInv, Shape
  <2>2. \A o \in Objs :
          dom[o] \in {Absent, [state |-> "freed"]} \cup
                     [state : {"live"}, id : Ids, valid : BOOLEAN,
                      refcnt : Nat \ {0}, file : BOOLEAN]
    BY DEF Typed, Freed, LiveType
  <2>3. inode_cnt \in 0 .. Cardinality(Files) + MaxLeaks
    <3>1. /\ Cardinality(OpenFiles) \in 0 .. Cardinality(Files)
          /\ Cardinality(Files) \in Nat /\ MaxLeaks \in Nat
      BY CountedFiles, FS_CardinalityType, BoundsAssumption DEF OpenFiles
    <3> QED
      BY <3>1 DEF Counted, InodeCounted
  <2>4. pm \in Nat
    <3>1. Cardinality(ValidDomains) \in Nat
      BY ValidFinite, FS_CardinalityType
    <3>2. devs \in Nat /\ Resetting \in Nat
      BY BoundsAssumption DEF Typed, Resetting
    <3> QED
      BY <3>1, <3>2 DEF Counted, KeptAwake
  <2> QED
    BY <2>2, <2>3, <2>4 DEF TypeOK, Typed
<1> QED
  BY <1>1, Inductive, PTL

(* kref_put in the close of a port file reaches its domain through the     *)
(* port.  The reference count of a domain is the number of its open files, *)
(* also of one that an FLR disabled, as long as no port changed hands      *)
(* between it and another domain while a file of that port was open.       *)
THEOREM RefcountsAreExact == Spec => []RefcountsExact
<1>1. IInv => RefcountsExact
  BY DEF IInv, Counted, CountsFiles, FilesOf, RefcountsExact
<1> QED
  BY <1>1, Inductive, PTL

(* No entry of sched_domains[] and, outside a reset, no port in use leads  *)
(* the driver to a domain that it has freed, nor does an open file of a    *)
(* domain none of whose ports changed hands while a file of it was open.   *)
THEOREM NoDomainDangles == Spec => []NoDanglingDomain
<1>1. IInv => NoDanglingDomain
  <2> SUFFICES ASSUME IInv
               PROVE  NoDanglingDomain
    OBVIOUS
  <2>1. \A f \in Files : Open(f) /\ ~Shared(file[f].of) =>
          Live(port[file[f].port].domain) /\ port[file[f].port].domain = file[f].of
    BY DEF IInv, Shape, FilesKeepPorts
  <2>2. \A i \in Ids : sched[i] # None => Live(sched[i])
    BY DEF IInv, Shape, Scheduled
  <2>3. \A p \in Ports : port[p].valid /\ ~reset_active => Live(port[p].domain)
    BY DEF IInv, Shape, PortsHeld, Valid
  <2> QED
    BY <2>1, <2>2, <2>3 DEF NoDanglingDomain
<1> QED
  BY <1>1, Inductive, PTL

(* What a process has mapped is a port of the domain that opened the file, *)
(* in the device and in sched_domains[], if no port of that domain changed *)
(* hands while a file of it was open: an FLR leaves no mapping behind.     *)
THEOREM MappedPortsAreOwned == Spec => []MappedPortsOwned
<1>1. IInv => MappedPortsOwned
  BY DEF IInv, Shape, FilesKeepPorts, MappedKeepPorts, Mapped, MappedPortsOwned
<1> QED
  BY <1>1, Inductive, PTL

(* The memory of a CQ is released only when no process maps it (through a  *)
(* file of a domain that shared no port) and the device does not know its  *)
(* port any more, unless a domain reset or the port's configuration failed *)
(* half-way.                                                               *)
THEOREM CqMemoryIsHeld == Spec => []CqMemoryHeld
<1>1. IInv => CqMemoryHeld
  <2> SUFFICES ASSUME IInv, NEW p \in Ports, ~port[p].valid
               PROVE  /\ ~\E f \in Files : /\ Open(f) /\ file[f].port = p
                                           /\ ~Shared(file[f].of)
                                           /\ file[f].kind = "cq"
                                           /\ file[f].map = "mapped"
                      /\ hw.owner[p] = None \/ domain_reset_failed \/ p \in hist.half
    BY DEF CqMemoryHeld
  <2> QED
    BY DEF IInv, Shape, MappedKeepPorts, Mapped, PortsHeld
<1> QED
  BY <1>1, Inductive, PTL

(* The driver resets a domain in the device only if the device has that    *)
(* domain configured: one that an FLR swept away is not valid any more.    *)
THEOREM ValidDomainsAreConfigured == Spec => []ValidDomainsConfigured
<1>1. IInv => ValidDomainsConfigured
  BY DEF IInv, Shape
<1> QED
  BY <1>1, Inductive, PTL

-----------------------------------------------------------------------------
(* CqInterrupts                                                            *)

CqVarsTyped ==
  /\ cq \in [Ports -> 0 .. MaxEvents]
  /\ armed \in [Ports -> BOOLEAN] /\ irq \in [Ports -> BOOLEAN]
  /\ wake \in [Ports -> BOOLEAN] /\ disabled \in [Ports -> BOOLEAN]
  /\ int_armed \in [Ports -> BOOLEAN]

ThreadType ==
  {Outside} \cup
    [pc : {"ioctl", "entered", "lock", "locked", "wait"}, dom : Objs, port : Ports]
    \cup [pc : {"woken"}, dom : Objs, port : Ports,
          ret : {"ok", "EINTR", "EACCES", "ERESTARTSYS"}]

CqInv == CqVarsTyped /\ thread \in [Threads -> ThreadType] /\ WaitersKeepDomain

(* Every step of the composition is a step of the driver's files or leaves *)
(* them alone.                                                             *)
LEMMA FilesStep == CqNext => [Next]_vars
<1>1. FilesNext => Next
  BY DEF FilesNext, Next, DomainOps, ConfigurePort, CloseDomainFile
<1>2. ASSUME NEW p \in Ports, Deliver(p) \/ Fire(p) \/ Isr(p)
      PROVE  UNCHANGED vars
  BY <1>2 DEF Deliver, Fire, Isr
<1>3. ASSUME NEW o \in Objs, NEW p \in Ports, NEW off \in BOOLEAN,
             Dequeue(o, p) \/ SetDisabled(o, p, off)
      PROVE  UNCHANGED vars
  BY <1>3 DEF Dequeue, SetDisabled
<1>4. ASSUME NEW t \in Threads, ThreadStep(t) \/ Signal(t)
      PROVE  UNCHANGED vars
  BY <1>4 DEF ThreadStep, Signal, EnterIoctl, CheckConfigured, LockIntr, FirstLook, Awake,
       WaitAgain
<1>5. ASSUME NEW t \in Threads, NEW o \in Objs, NEW p \in Ports, Block(t, o, p)
      PROVE  UNCHANGED vars
  BY <1>5 DEF Block
<1> QED
  BY <1>1, <1>2, <1>3, <1>4, <1>5 DEF CqNext

LEMMA FilesStutter == UNCHANGED allVars => UNCHANGED vars
BY DEF allVars

(* Every behaviour of the composition is one of DomainFiles.               *)
THEOREM CqImplementsFiles == CqSpec => Spec
<1>1. CqInit => Init
  BY DEF CqInit
<1>2. [CqNext]_allVars => [Next]_vars
  BY FilesStep, FilesStutter
<1> QED
  BY <1>1, <1>2, PTL DEF CqSpec, Spec

-----------------------------------------------------------------------------
(* A domain whose file is open                                             *)

HasFile(o) == Live(o) /\ dom[o].file

(* Putting another reference leaves it, if its count is right.             *)
LEMMA PortCloseLeavesFile ==
  ASSUME IInv, NEW f \in Files, PortClose(f), NEW o \in Objs, HasFile(o), ~Shared(o)
  PROVE  HasFile(o)'
<1> USE DEF IInv, Shape
<1>1. PICK q \in Objs : q = port[file[f].port].domain
  BY DEF PortClose, FilesKeepPorts
<1>3. Open(f) /\ Live(q) /\ kref_put(q, dom)
  BY <1>1 DEF PortClose
<1>4. dom[o] \in LiveType /\ dom[q] \in LiveType
  BY <1>3 DEF HasFile, Live, Typed, Absent, Freed
<1>5. CASE dom[q].refcnt > 1
  <2>1. dom' = [dom EXCEPT ![q] = [dom[q] EXCEPT !.refcnt = @ - 1]]
    BY <1>3, <1>5 DEF kref_put
  <2>2. dom'[o].file = dom[o].file /\ dom'[o].state = dom[o].state
    BY <1>3, <1>4, <2>1 DEF Typed, LiveType
  <2> QED
    BY <2>2 DEF HasFile, Live
<1>6. CASE ~(dom[q].refcnt > 1)
  <2>1. o # q
    <3> SUFFICES ASSUME o = q
                 PROVE  FALSE
      OBVIOUS
    <3>1. file[f].of = o
      BY <1>1, <1>3 DEF FilesKeepPorts
    <3>2. f \in FilesOf(o)
      BY <1>3, <3>1 DEF FilesOf
    <3>3. Cardinality(FilesOf(o)) \in Nat /\ Cardinality(FilesOf(o)) # 0
      BY <3>2, FilesFinite, FS_EmptySet
    <3>4. dom[o].refcnt = 1 + Cardinality(FilesOf(o))
      BY DEF HasFile, Counted, CountsFiles
    <3> QED
      BY <1>4, <1>6, <3>3, <3>4
  <2>2. dom' = [dom EXCEPT ![q] = Freed]
    BY <1>3, <1>6 DEF kref_put, free_domain, Freed
  <2> QED
    BY <2>1, <2>2 DEF HasFile, Live, Typed
<1> QED
  BY <1>5, <1>6

(* Creating a domain or a port file leaves it.                             *)
LEMMA CreateLeavesFile ==
  ASSUME IInv, NEW o \in Objs, HasFile(o),
         \/ \E x \in Objs, i \in Ids : CreateSchedDomain(x, i)
         \/ \E x \in Objs, p \in Ports : CreatePort(x, p)
         \/ \E x \in Objs, p \in Ports, f \in Files, kind \in Kinds :
              GetPortFd(x, p, f, kind)
  PROVE  HasFile(o)'
<1> USE DEF IInv, Shape
<1>1. dom[o] \in LiveType
  BY DEF HasFile, Live, Typed, Absent, Freed
<1>2. ASSUME NEW x \in Objs, NEW i \in Ids, CreateSchedDomain(x, i)
      PROVE  HasFile(o)'
  <2>1. dom[x] = Absent
    BY <1>2, NextDomain DEF CreateSchedDomain
  <2>2. o # x
    BY <2>1 DEF HasFile, Live, Absent
  <2>3. dom'[o] = dom[o]
    BY <1>2, <2>2 DEF CreateSchedDomain, Typed
  <2> QED
    BY <2>3 DEF HasFile, Live
<1>3. ASSUME NEW x \in Objs, NEW p \in Ports, CreatePort(x, p)
      PROVE  HasFile(o)'
  BY <1>3 DEF CreatePort, HasFile, Live
<1>4. ASSUME NEW x \in Objs, NEW p \in Ports, NEW f \in Files, NEW kind \in Kinds,
             GetPortFd(x, p, f, kind)
      PROVE  HasFile(o)'
  <2>1. dom' = dom \/ dom' = [dom EXCEPT ![x] = [dom[x] EXCEPT !.refcnt = @ + 1]]
    BY <1>4 DEF GetPortFd
  <2>2. dom'[o].file = dom[o].file /\ dom'[o].state = dom[o].state
    BY <1>1, <2>1 DEF Typed, LiveType
  <2> QED
    BY <2>2 DEF HasFile, Live
<1> QED
  BY <1>2, <1>3, <1>4

LEMMA ResetLeavesFile ==
  ASSUME IInv, ResetOps, NEW o \in Objs, HasFile(o)
  PROVE  HasFile(o)'
<1> USE DEF IInv, Shape
<1>1. dom[o] \in LiveType
  BY DEF HasFile, Live, Typed, Absent, Freed
<1>2. CASE DisableDomainFiles
  <2>1. dom'[o] = dom[o] \/ dom'[o] = [dom[o] EXCEPT !.valid = FALSE]
    BY <1>2 DEF DisableDomainFiles
  <2> QED
    BY <1>1, <2>1 DEF HasFile, Live, LiveType
<1>3. CASE UNCHANGED dom
  BY <1>3 DEF HasFile, Live
<1> QED
  BY <1>2, <1>3 DEF ResetOps, ResetPrepare, WakeThreads, Sleep, WakeUp, Quiesced, Flr, ResetDone

LEMMA FileOpsLeaveFile ==
  ASSUME IInv, FileOps, NEW o \in Objs, HasFile(o), ~Shared(o)
  PROVE  HasFile(o)'
<1>1. CASE \E f \in Files : PortClose(f)
  BY <1>1, PortCloseLeavesFile
<1>2. CASE UNCHANGED dom
  BY <1>2 DEF HasFile, Live
<1> QED
  BY <1>1, <1>2 DEF FileOps, OpenDevice, CloseDevice, Mmap, Munmap

(* Closing one domain's file leaves the others.                            *)
LEMMA CloseLeavesFile ==
  ASSUME IInv, NEW q \in Objs, DomainClose(q), NEW o \in Objs, HasFile(o), o # q
  PROVE  HasFile(o)'
<1> USE DEF IInv, Shape
<1>1. DEFINE dm == [dom EXCEPT ![q].file = FALSE]
<1>2. kref_put(q, dm) /\ dm[o] = dom[o]
  BY DEF DomainClose, Typed
<1> HIDE DEF dm
<1>3. o \in DOMAIN dm
  BY DEF dm, Typed
<1>4. dom'[o] = dm[o]
  <2>1. CASE dm[q].refcnt > 1
    BY <1>2, <1>3, <2>1 DEF kref_put
  <2>2. CASE ~(dm[q].refcnt > 1)
    BY <1>2, <1>3, <2>2 DEF kref_put, free_domain
  <2> QED
    BY <2>1, <2>2
<1> QED
  BY <1>2, <1>4 DEF HasFile, Live

-----------------------------------------------------------------------------
(* Threads                                                                 *)

LEMMA InsideThread ==
  ASSUME thread \in [Threads -> ThreadType], NEW t \in Threads, Inside(t)
  PROVE  thread[t].dom \in Objs /\ thread[t].port \in Ports
BY DEF ThreadType, Outside, Inside

(* A thread that moves within the driver keeps its domain and its port;    *)
(* one that comes back has none.                                           *)
ThreadMoves(t) ==
  \E w \in ThreadType :
    /\ thread' = [thread EXCEPT ![t] = w]
    /\ w.pc # "outside" => Inside(t) /\ w.dom = thread[t].dom

LEMMA MovesKeep ==
  ASSUME CqInv, NEW t \in Threads, ThreadMoves(t), UNCHANGED <<dom, hist>>
  PROVE  thread' \in [Threads -> ThreadType] /\ WaitersKeepDomain'
<1>1. PICK w \in ThreadType :
        /\ thread' = [thread EXCEPT ![t] = w]
        /\ w.pc # "outside" => Inside(t) /\ w.dom = thread[t].dom
  BY DEF ThreadMoves
<1>2. thread' \in [Threads -> ThreadType]
  BY <1>1 DEF CqInv
<1>3. ASSUME NEW u \in Threads, Inside(u)', ~Shared(thread[u].dom)'
      PROVE  Live(thread[u].dom)' /\ dom'[thread'[u].dom].file
  <2>1. Inside(u) /\ thread'[u].dom = thread[u].dom
    BY <1>1, <1>3 DEF Inside, CqInv
  <2> QED
    BY <1>3, <2>1 DEF CqInv, WaitersKeepDomain, Live, Shared
<1> QED
  BY <1>2, <1>3 DEF WaitersKeepDomain, Live, Shared

LEMMA GotoMoves ==
  ASSUME CqInv, NEW t \in Threads, NEW pc \in {"entered", "lock", "locked", "wait"},
         thread[t].pc \in {"ioctl", "entered", "lock", "locked"}, Goto(t, pc)
  PROVE  ThreadMoves(t)
<1>1. Inside(t)
  BY DEF Inside
<1>2. thread[t] \in [pc : {"ioctl", "entered", "lock", "locked", "wait"}, dom : Objs, port : Ports]
  BY DEF CqInv, ThreadType, Outside
<1>3. DEFINE w == [thread[t] EXCEPT !.pc = pc]
<1>4. w \in ThreadType /\ w.dom = thread[t].dom
  BY <1>2 DEF ThreadType
<1>5. thread' = [thread EXCEPT ![t] = w]
  BY DEF Goto
<1> QED
  BY <1>1, <1>4, <1>5 DEF ThreadMoves

LEMMA ReturnMoves ==
  ASSUME CqInv, NEW t \in Threads, Inside(t), NEW ret, Return(t, ret)
  PROVE  ThreadMoves(t) /\ int_armed' \in [Ports -> BOOLEAN]
<1>1. thread' = [thread EXCEPT ![t] = Outside] /\ Outside \in ThreadType
  BY DEF Return, ThreadType
<1>2. ThreadMoves(t)
  BY <1>1 DEF ThreadMoves, Outside
<1>3. thread[t].port \in Ports
  BY InsideThread DEF CqInv
<1>4. int_armed' \in [Ports -> BOOLEAN]
  BY <1>3 DEF Return, CqInv, CqVarsTyped
<1> QED
  BY <1>2, <1>4

(* What a step of a thread does to the variables of the device.            *)
LEMMA ThreadStepTyped ==
  ASSUME CqInv, NEW t \in Threads, ThreadStep(t) \/ Signal(t)
  PROVE  CqVarsTyped' /\ ThreadMoves(t)
<1> USE DEF CqInv, CqVarsTyped
<1>1. CASE EnterIoctl(t)
  <2>1. CASE Goto(t, "entered") /\ UNCHANGED int_armed
    BY <1>1, <2>1, GotoMoves DEF EnterIoctl
  <2>2. CASE Return(t, "EINVAL")
    BY <1>1, <2>2, ReturnMoves DEF EnterIoctl, Inside
  <2> QED
    BY <1>1, <2>1, <2>2 DEF EnterIoctl
<1>2. CASE CheckConfigured(t)
  <2>1. CASE Goto(t, "lock") /\ UNCHANGED int_armed
    BY <1>2, <2>1, GotoMoves DEF CheckConfigured
  <2>2. CASE Return(t, "EPERM")
    BY <1>2, <2>2, ReturnMoves DEF CheckConfigured, Inside
  <2> QED
    BY <1>2, <2>1, <2>2 DEF CheckConfigured
<1>3. CASE LockIntr(t)
  BY <1>3, GotoMoves DEF LockIntr, cqVars
<1>4. CASE FirstLook(t)
  <2>1. CASE Goto(t, "wait") /\ UNCHANGED int_armed
    BY <1>4, <2>1, GotoMoves DEF FirstLook
  <2>2. ASSUME NEW ret \in {"EACCES", "ok", "EFAULT"}, Return(t, ret)
        PROVE  CqVarsTyped' /\ ThreadMoves(t)
    BY <1>4, <2>2, ReturnMoves DEF FirstLook, Inside
  <2>3. \/ Goto(t, "wait") /\ UNCHANGED int_armed
        \/ \E ret \in {"EACCES", "ok", "EFAULT"} : Return(t, ret)
    <3>1. cq_empty(t) \in {"empty", "filled", "EFAULT"}
      BY DEF cq_empty
    <3>2. CASE disabled[thread[t].port]
      BY <1>4, <3>2 DEF FirstLook
    <3>3. CASE ~disabled[thread[t].port] /\ cq_empty(t) = "empty"
      BY <1>4, <3>3 DEF FirstLook
    <3>4. CASE ~disabled[thread[t].port] /\ cq_empty(t) = "filled"
      BY <1>4, <3>4 DEF FirstLook
    <3>5. CASE ~disabled[thread[t].port] /\ cq_empty(t) = "EFAULT"
      BY <1>4, <3>5 DEF FirstLook
    <3> QED
      BY <3>1, <3>2, <3>3, <3>4, <3>5
  <2> QED
    BY <2>1, <2>2, <2>3
<1>5. ASSUME thread[t].pc = "wait"
      PROVE  /\ Inside(t) /\ thread[t].dom \in Objs /\ thread[t].port \in Ports
  BY <1>5, InsideThread DEF Inside
<1>6. ASSUME thread[t].pc = "wait", NEW ret \in {"ok", "EINTR", "EACCES", "ERESTARTSYS"},
             thread' = [thread EXCEPT ![t] = [pc |-> "woken", dom |-> thread[t].dom,
                                              port |-> thread[t].port, ret |-> ret]]
      PROVE  ThreadMoves(t)
  <2>1. DEFINE w == [pc |-> "woken", dom |-> thread[t].dom, port |-> thread[t].port,
                     ret |-> ret]
  <2>2. w \in ThreadType /\ w.dom = thread[t].dom /\ Inside(t)
    BY <1>5, <1>6 DEF ThreadType
  <2> QED
    BY <1>6, <2>2 DEF ThreadMoves
<1>7. CASE Awake(t)
  <2>1. DEFINE ret == IF reset_active \/ ~Valid(thread[t].dom) THEN "EINTR"
                      ELSE IF disabled[thread[t].port] THEN "EACCES" ELSE "ok"
  <2>2. ret \in {"ok", "EINTR", "EACCES", "ERESTARTSYS"}
    OBVIOUS
  <2>3. thread' = [thread EXCEPT ![t] = [pc |-> "woken", dom |-> thread[t].dom,
                                         port |-> thread[t].port, ret |-> ret]]
    BY <1>7 DEF Awake
  <2> HIDE DEF ret
  <2> QED
    BY <1>6, <1>7, <2>2, <2>3 DEF Awake, cqVars
<1>8. CASE Signal(t)
  <2>1. thread' = [thread EXCEPT ![t] = [pc |-> "woken", dom |-> thread[t].dom,
                                         port |-> thread[t].port, ret |-> "ERESTARTSYS"]]
    BY <1>8 DEF Signal
  <2> QED
    BY <1>6, <1>8, <2>1 DEF Signal, cqVars
<1>9. CASE WaitAgain(t)
  <2>1. Inside(t) /\ thread[t].dom \in Objs /\ thread[t].port \in Ports
    BY <1>9, InsideThread DEF WaitAgain, Inside
  <2>2. wake' \in [Ports -> BOOLEAN]
    BY <1>9 DEF WaitAgain
  <2>3. CASE thread[t].ret = "ok" /\ cq_empty(t) # "filled"
    <3>1. DEFINE w == [pc |-> "wait", dom |-> thread[t].dom, port |-> thread[t].port]
    <3>2. w \in ThreadType /\ w.dom = thread[t].dom
      BY <2>1 DEF ThreadType
    <3>3. thread' = [thread EXCEPT ![t] = w] /\ UNCHANGED int_armed
      BY <1>9, <2>3 DEF WaitAgain
    <3> QED
      BY <1>9, <2>1, <2>2, <3>2, <3>3 DEF ThreadMoves, WaitAgain
  <2>4. CASE ~(thread[t].ret = "ok" /\ cq_empty(t) # "filled")
    <3>1. Return(t, thread[t].ret)
      BY <1>9, <2>4 DEF WaitAgain
    <3> QED
      BY <1>9, <2>1, <2>2, <3>1, ReturnMoves DEF WaitAgain
  <2> QED
    BY <2>3, <2>4
<1> QED
  BY <1>1, <1>2, <1>3, <1>4, <1>7, <1>8, <1>9 DEF ThreadStep

-----------------------------------------------------------------------------
(* The invariant                                                           *)

(* A step of the files keeps what threads look at.                         *)
LEMMA FilesNextKeeps ==
  ASSUME IInv, CqInv, FilesNext
  PROVE  CqInv'
<1> USE DEF CqInv, CqVarsTyped
<1>1. thread' = thread
  BY DEF FilesNext, ConfigurePort, CloseDomainFile
<1>2. CqVarsTyped'
  <2>1. CASE UNCHANGED cqVars
    BY <2>1 DEF cqVars
  <2>2. ASSUME NEW o \in Objs, NEW p \in Ports, ConfigurePort(o, p)
        PROVE  CqVarsTyped'
    <3>1. 0 \in 0 .. MaxEvents
      BY EventsAssumption
    <3> QED
      BY <2>2, <3>1 DEF ConfigurePort
  <2> QED
    BY <2>1, <2>2 DEF FilesNext, CloseDomainFile
<1>5. hist'.shared = hist.shared \/ \E o \in Objs, p \in Ports : CreatePort(o, p)
  BY DEF FilesNext, ConfigurePort, CloseDomainFile, DomainClose, CreateSchedDomain, GetPortFd,
         FileOps, OpenDevice, CloseDevice, Mmap, Munmap, PortClose, ResetOps, ResetPrepare,
         DisableDomainFiles, WakeThreads, Sleep, WakeUp, Quiesced, Flr, ResetDone
<1>6. \A o \in Objs : Shared(o) => Shared(o)'
  BY <1>5 DEF CreatePort, Shared, IInv, Shape, Typed
<1>3. ASSUME NEW t \in Threads, Inside(t), ~Shared(thread[t].dom)'
      PROVE  Live(thread[t].dom)' /\ dom'[thread'[t].dom].file
  <2>1. thread[t].dom \in Objs
    BY <1>3, InsideThread
  <2>2. PICK o \in Objs : o = thread[t].dom
    BY <2>1
  <2>5. ~Shared(o)
    BY <1>1, <1>3, <1>6, <2>2 DEF Shared
  <2>3. HasFile(o)
    BY <1>3, <2>2, <2>5 DEF WaitersKeepDomain, HasFile
  <2>4. HasFile(o)'
    <3>1. CASE \E q \in Objs : CloseDomainFile(q)
      <4>1. PICK q \in Objs : CloseDomainFile(q)
        BY <3>1
      <4>2. o # q /\ DomainClose(q)
        BY <1>3, <2>2, <4>1 DEF CloseDomainFile
      <4> QED
        BY <2>3, <4>2, CloseLeavesFile
    <3>2. CASE FileOps
      BY <2>3, <2>5, <3>2, FileOpsLeaveFile
    <3>3. CASE ResetOps
      BY <2>3, <3>3, ResetLeavesFile
    <3>4. CASE \/ \E x \in Objs, i \in Ids : CreateSchedDomain(x, i)
               \/ \E x \in Objs, p \in Ports : ConfigurePort(x, p)
               \/ \E x \in Objs, p \in Ports, f \in Files, kind \in Kinds :
                    GetPortFd(x, p, f, kind)
      BY <2>3, <3>4, CreateLeavesFile DEF ConfigurePort
    <3> QED
      BY <3>1, <3>2, <3>3, <3>4 DEF FilesNext
  <2> QED
    BY <1>1, <2>2, <2>4 DEF HasFile, Live
<1>4. WaitersKeepDomain'
  BY <1>1, <1>3 DEF WaitersKeepDomain, Live, Inside, Shared
<1> QED
  BY <1>1, <1>2, <1>4

(* The device and the applications.                                        *)
LEMMA DeviceKeeps ==
  ASSUME CqInv, NEW p \in Ports,
         \/ Deliver(p) \/ Fire(p) \/ Isr(p)
         \/ \E o \in Objs : Dequeue(o, p) \/ \E off \in BOOLEAN : SetDisabled(o, p, off)
  PROVE  CqInv'
<1> USE DEF CqInv, CqVarsTyped
<1>1. UNCHANGED <<thread, dom, hist>>
  BY DEF Deliver, Fire, Isr, Dequeue, SetDisabled, vars
<1>2. WaitersKeepDomain'
  BY <1>1 DEF WaitersKeepDomain, Inside, Live, Shared
<1>3. CqVarsTyped'
  <2>1. CASE Deliver(p)
    <3>1. cq[p] + 1 \in 0 .. MaxEvents
      BY <2>1, EventsAssumption DEF Deliver
    <3> QED
      BY <2>1, <3>1 DEF Deliver
  <2>2. CASE \E o \in Objs : Dequeue(o, p)
    <3>1. cq[p] - 1 \in 0 .. MaxEvents
      BY <2>2, EventsAssumption DEF Dequeue
    <3> QED
      BY <2>2, <3>1 DEF Dequeue
  <2>3. CASE Fire(p)
    BY <2>3 DEF Fire
  <2>4. CASE Isr(p)
    BY <2>4 DEF Isr
  <2>5. ASSUME NEW o \in Objs, NEW off \in BOOLEAN, SetDisabled(o, p, off)
        PROVE  CqVarsTyped'
    BY <2>5 DEF SetDisabled
  <2> QED
    BY <2>1, <2>2, <2>3, <2>4, <2>5
<1> QED
  BY <1>1, <1>2, <1>3

LEMMA BlockKeeps ==
  ASSUME CqInv, NEW t \in Threads, NEW o \in Objs, NEW p \in Ports, Block(t, o, p)
  PROVE  CqInv'
<1> USE DEF CqInv
<1>1. DEFINE w == [pc |-> "ioctl", dom |-> o, port |-> p]
<1>2. w \in ThreadType /\ thread' = [thread EXCEPT ![t] = w] /\ UNCHANGED <<dom, hist>>
  BY DEF Block, ThreadType, vars
<1>3. CqVarsTyped'
  <2>1. (armed[p] \/ ~int_armed[p]) \in BOOLEAN
    OBVIOUS
  <2> QED
    BY <2>1 DEF Block, CqVarsTyped
<1>4. ASSUME NEW u \in Threads, Inside(u)', ~Shared(thread[u].dom)'
      PROVE  Live(thread[u].dom)' /\ dom'[thread'[u].dom].file
  <2>1. CASE u = t
    BY <1>2, <2>1 DEF Block, Live
  <2>2. CASE u # t
    <3>1. thread'[u] = thread[u]
      BY <1>2, <2>2
    <3> QED
      BY <1>2, <1>4, <3>1 DEF WaitersKeepDomain, Inside, Live, Shared
  <2> QED
    BY <2>1, <2>2
<1>5. WaitersKeepDomain'
  BY <1>4 DEF WaitersKeepDomain, Live, Shared
<1> QED
  BY <1>2, <1>3, <1>5

LEMMA CqNextKeeps == IInv /\ CqInv /\ [CqNext]_allVars => CqInv'
<1> SUFFICES ASSUME IInv, CqInv, [CqNext]_allVars
             PROVE  CqInv'
  OBVIOUS
<1>1. CASE FilesNext
  BY <1>1, FilesNextKeeps
<1>2. ASSUME NEW p \in Ports, Deliver(p) \/ Fire(p) \/ Isr(p)
      PROVE  CqInv'
  BY <1>2, DeviceKeeps
<1>3. ASSUME NEW o \in Objs, NEW p \in Ports,
             Dequeue(o, p) \/ \E off \in BOOLEAN : SetDisabled(o, p, off)
      PROVE  CqInv'
  BY <1>3, DeviceKeeps
<1>4. ASSUME NEW t \in Threads, ThreadStep(t) \/ Signal(t)
      PROVE  CqInv'
  <2>1. UNCHANGED <<dom, hist>>
    BY <1>4 DEF ThreadStep, Signal, EnterIoctl, CheckConfigured, LockIntr, FirstLook, Awake,
         WaitAgain, vars
  <2> QED
    BY <1>4, <2>1, ThreadStepTyped, MovesKeep DEF CqInv
<1>5. ASSUME NEW t \in Threads, NEW o \in Objs, NEW p \in Ports, Block(t, o, p)
      PROVE  CqInv'
  BY <1>5, BlockKeeps
<1>6. CASE UNCHANGED allVars
  BY <1>6 DEF allVars, vars, cqVars, CqInv, CqVarsTyped, WaitersKeepDomain, Inside, Live, Shared
<1> QED
  BY <1>1, <1>2, <1>3, <1>4, <1>5, <1>6 DEF CqNext

LEMMA InitCqInv == CqInit => CqInv
<1> SUFFICES ASSUME CqInit
             PROVE  CqInv
  OBVIOUS
<1>1. 0 \in 0 .. MaxEvents
  BY EventsAssumption
<1>2. CqVarsTyped
  BY <1>1 DEF CqInit, CqVarsTyped
<1>3. thread \in [Threads -> ThreadType] /\ WaitersKeepDomain
  BY DEF CqInit, ThreadType, Outside, WaitersKeepDomain, Inside
<1> QED
  BY <1>2, <1>3 DEF CqInv

-----------------------------------------------------------------------------
(* The theorems                                                            *)

(* Every thread that is in the driver for a port's CQ keeps its domain and *)
(* port, and every queue, interrupt and flag its type, however disables,   *)
(* closes, resets and the thread's own looks interleave.                   *)
THEOREM CqTypes == CqSpec => []CqTypeOK
<1>1. CqInv /\ TypeOK => CqTypeOK
  <2> SUFFICES ASSUME CqInv, TypeOK
               PROVE  CqTypeOK
    OBVIOUS
  <2> QED
    BY DEF CqInv, CqVarsTyped, ThreadType, CqTypeOK
<1>2. Spec => []IInv
  BY Inductive
<1>3. Spec => []TypeOK
  BY DomainFilesTypes
<1> QED
  BY <1>1, <1>2, <1>3, CqImplementsFiles, InitCqInv, CqNextKeeps, PTL DEF CqSpec

(* The domain a thread looks at while it waits is not freed under it, by   *)
(* the close of port files, another thread's, or a device reset, as long   *)
(* as no port changed hands between that domain and another while a file   *)
(* of the port was open.                                                   *)
THEOREM WaitersKeepTheirDomain == CqSpec => []WaitersKeepDomain
<1>1. CqInv => WaitersKeepDomain
  BY DEF CqInv
<1>2. Spec => []IInv
  BY Inductive
<1> QED
  BY <1>1, <1>2, CqImplementsFiles, InitCqInv, CqNextKeeps, PTL DEF CqSpec
=============================================================================
