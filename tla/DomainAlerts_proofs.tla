------------------------- MODULE DomainAlerts_proofs -------------------------
(***************************************************************************)
(* Proofs about DomainAlerts, for any number of threads that attach: the   *)
(* domain outlives its users, and the ring is a queue.                     *)
(***************************************************************************)
EXTENDS DomainAlerts, FiniteSetTheorems, SequenceTheorems, TLAPS

(* Attached threads, one of which may be launching the alert thread.       *)
Users == {a \in Attachers : attacher[a] \in {"attached", "launch", "launched"}}
Counted == shared.refcnt = Cardinality(Users)

(* Who holds shared->resource_mutex.                                       *)
Locks ==
  /\ \A a \in Attachers : attacher[a] \in {"launch", "launched"} <=> lock = a
  /\ alert.pc \in {"locked", "unlock"} <=> lock = "alert"
  /\ creator \in {"enqueue", "test"} <=> lock = "creator"

(* The flag says that the alert thread exists, except while its launcher   *)
(* or the thread itself, about to end, holds the mutex.                    *)
Started ==
  /\ \A a \in Attachers :
       /\ attacher[a] = "launch" => AlertAt("none")
       /\ attacher[a] = "launched" => ~AlertAt("none") /\ ~AlertAt("unlock")
  /\ shared.started <=> /\ ~AlertAt("none") /\ ~AlertAt("unlock")
                        /\ \A a \in Attachers : attacher[a] # "launched"

(* A reset begins when nobody is attached, nobody attaches any more, and   *)
(* it goes on to close the file only when the alert thread has ended.      *)
Resetting ==
  /\ creator # "idle" =>
       ~shared.linked /\ \A a \in Attachers : attacher[a] = "idle"
  /\ creator \in {"close", "unmap", "done"} => AlertAt("none")
  /\ shared.mapped <=> creator # "done"
  /\ creator_fd <=> creator \notin {"unmap", "done"}

Life == Locks /\ Started /\ Resetting

(* No more alerts are unread than watchdogs may raise, and the one alert   *)
(* of the domain reset.                                                    *)
Fill ==
  UnreadCount <= IF creator \in {"idle", "enqueue"} THEN MaxUnread ELSE MaxUnread + 1

-----------------------------------------------------------------------------
(* Division with remainder.                                                *)
LEMMA ModRange ==
  ASSUME NEW R \in Nat, R > 0, NEW x \in Int
  PROVE  x % R \in 0 .. R - 1
  OBVIOUS

LEMMA DivMod ==
  ASSUME NEW R \in Nat, R > 0, NEW x \in Int
  PROVE  \E q \in Int, r \in 0 .. R - 1 : r = x % R /\ x = R * q + r
<1>1. PICK q \in Int : q = x \div R
  OBVIOUS
<1>2. PICK r \in 0 .. R - 1 : r = x % R
  BY ModRange
<1>3. x = R * q + r
  BY <1>1, <1>2
<1> QED
  BY <1>2, <1>3

LEMMA ModUnique ==
  ASSUME NEW R \in Nat, R > 0, NEW q \in Int, NEW r \in 0 .. R - 1
  PROVE  (R * q + r) % R = r
  OBVIOUS

LEMMA ModPlus ==
  ASSUME NEW R \in Nat, R > 0, NEW x \in Int, NEW y \in Nat, y % R = 0
  PROVE  (x + y) % R = x % R
<1>1. PICK q \in Int, r \in 0 .. R - 1 : r = x % R /\ x = R * q + r
  BY DivMod
<1>2. PICK k \in Int, z \in 0 .. R - 1 : z = y % R /\ y = R * k + z
  BY DivMod
<1>3. PICK m \in Int : m = q + k
  OBVIOUS
<1>4. y = R * k
  BY <1>2
<1>5. x + y = R * m + r
  BY <1>1, <1>3, <1>4
<1>6. (R * m + r) % R = r
  BY ModUnique
<1> QED
  BY <1>1, <1>5, <1>6

LEMMA ModDistinct ==
  ASSUME NEW R \in Nat, R > 0, NEW x \in Int, NEW y \in Int, x < y, y - x < R
  PROVE  x % R # y % R
<1> SUFFICES ASSUME x % R = y % R
             PROVE  FALSE
  OBVIOUS
<1>1. PICK q \in Int, r \in 0 .. R - 1 : r = x % R /\ x = R * q + r
  BY DivMod
<1>2. PICK k \in Int, s \in 0 .. R - 1 : s = y % R /\ y = R * k + s
  BY DivMod
<1>3. PICK d \in Int : d = k - q
  OBVIOUS
<1>4. r = s
  BY <1>1, <1>2
<1>5. R * d = y - x
  BY <1>1, <1>2, <1>3, <1>4
<1>6. CASE d >= 1
  BY <1>5, <1>6
<1>7. CASE d <= 0
  BY <1>5, <1>7
<1> QED
  BY <1>6, <1>7
-----------------------------------------------------------------------------
(* Types, and the count of attached threads.                               *)

LEMMA UsersCounted == IsFiniteSet(Users) /\ Cardinality(Users) \in Nat
<1>1. IsFiniteSet(Users)
  BY ThreadsAssumption, FS_Subset DEF Users
<1> QED
  BY <1>1, FS_CardinalityType

(* The slot of an index, and the next index.                               *)
LEMMA Indices ==
  /\ 0 \in 0 .. IndexSize - 1 /\ 0 \in Slots
  /\ \A i \in 0 .. IndexSize - 1 : (i + 1) % IndexSize \in 0 .. IndexSize - 1
  /\ \A i \in Int : i % RingSize \in Slots
<1>1. RingSize \in Nat /\ IndexSize \in Nat /\ RingSize > 0 /\ IndexSize > 0
  BY RingAssumption
<1>2. \A i \in Int : i % RingSize \in 0 .. RingSize - 1
  BY <1>1, ModRange
<1>3. \A i \in Int : i % IndexSize \in 0 .. IndexSize - 1
  BY <1>1, ModRange
<1> QED
  BY <1>1, <1>2, <1>3 DEF Slots

LEMMA WriteTyped ==
  ASSUME TypeOK, NEW a \in Alerts, write_domain_alert(a)
  PROVE  /\ ring' \in [alerts : [Slots -> Alerts], rd : 0 .. IndexSize - 1,
                       wr : 0 .. IndexSize - 1]
         /\ alert' = alert \/ alert' = Woken
<1>1. ring.wr % RingSize \in Slots /\ (ring.wr + 1) % IndexSize \in 0 .. IndexSize - 1
  BY Indices, RingAssumption DEF TypeOK
<1>2. CASE ~valid \/ Full
  BY <1>2 DEF write_domain_alert, TypeOK
<1>3. CASE valid /\ ~Full
  <2>1. /\ ring' = [ring EXCEPT !.alerts[ring.wr % RingSize] = a,
                                !.wr = (ring.wr + 1) % IndexSize]
        /\ alert' = Woken
    BY <1>3 DEF write_domain_alert
  <2> QED
    BY <1>1, <2>1 DEF TypeOK
<1> QED
  BY <1>2, <1>3

(* A thread that is not counted before or after a step, or both times.     *)
LEMMA SameUsers ==
  ASSUME TypeOK, Counted, NEW a \in Attachers,
         \A b \in Attachers \ {a} : attacher'[b] = attacher[b],
         a \in Users <=> a \in Users',
         shared'.refcnt = shared.refcnt
  PROVE  Counted'
<1>1. Users' = Users
  BY DEF Users
<1> QED
  BY <1>1 DEF Counted

LEMMA TypesInit == Init => TypeOK /\ Counted
<1> SUFFICES ASSUME Init
             PROVE  TypeOK /\ Counted
  OBVIOUS
<1>1. TypeOK
  BY Indices DEF Init, TypeOK, Alerts
<1>2. Users = {}
  BY DEF Init, Users
<1> QED
  BY <1>1, <1>2, FS_EmptySet DEF Counted, Init

LEMMA DriverTypes ==
  ASSUME TypeOK, WatchdogAlert \/ DisableFile \/ WakeReader
  PROVE  TypeOK'
<1>1. CASE WatchdogAlert
  <2>1. write_domain_alert("watchdog") /\ "watchdog" \in Alerts
    BY <1>1 DEF WatchdogAlert, Alerts
  <2> QED
    BY <1>1, <2>1, WriteTyped DEF WatchdogAlert, TypeOK, Woken
<1>2. CASE DisableFile
  <2>1. valid' \in BOOLEAN
    BY <1>2 DEF DisableFile
  <2> QED
    BY <1>2, <2>1 DEF DisableFile, TypeOK
<1>3. CASE WakeReader
  BY <1>3 DEF WakeReader, Woken, TypeOK
<1> QED
  BY <1>1, <1>2, <1>3

(* The steps of the alert thread, and a signal that ends its wait.          *)
ReaderStep == AlertThread \/ Interrupted

LEMMA AlertThreadTypes ==
  ASSUME TypeOK, ReaderStep
  PROVE  TypeOK'
<1> USE DEF AlertAt, AlertTo, Got, OthersOfAlert
<1>1. CASE DomainRead
  BY <1>1 DEF DomainRead, TypeOK
<1>2. CASE TakeAlert
  <2>1. CASE Available
    <3>1. ring.alerts[ring.rd % RingSize] \in Alerts
      BY Indices, RingAssumption DEF TypeOK
    <3>2. (ring.rd + 1) % IndexSize \in 0 .. IndexSize - 1
      BY Indices DEF TypeOK
    <3> QED
      BY <1>2, <2>1, <3>1, <3>2 DEF TakeAlert, TypeOK
  <2>2. CASE ~Available
    BY <1>2, <2>2 DEF TakeAlert, TypeOK
  <2> QED
    BY <2>1, <2>2
<1>3. CASE WaitEvent
  BY <1>3 DEF WaitEvent, TypeOK
<1>4. CASE AfterWait
  BY <1>4 DEF AfterWait, TypeOK
<1>5. CASE AfterCallback
  BY <1>5 DEF AfterCallback, TypeOK
<1>6. CASE AlertThreadLock
  BY <1>6 DEF AlertThreadLock, TypeOK
<1>7. CASE AlertThreadStopped
  BY <1>7 DEF AlertThreadStopped, TypeOK
<1>8. CASE AlertThreadUnlock
  BY <1>8 DEF AlertThreadUnlock, TypeOK
<1>9. CASE Interrupted
  BY <1>9 DEF Interrupted, TypeOK
<1> QED
  BY <1>1, <1>2, <1>3, <1>4, <1>5, <1>6, <1>7, <1>8, <1>9 DEF ReaderStep, AlertThread

LEMMA CreatorTypes ==
  ASSUME TypeOK, Creator
  PROVE  TypeOK'
<1> USE DEF CreatorTo, OthersOfCreator
<1>1. CASE ResetLock
  BY <1>1 DEF ResetLock, TypeOK
<1>2. CASE ResetEnqueue
  <2>1. write_domain_alert("domain_reset") /\ "domain_reset" \in Alerts
    BY <1>2 DEF ResetEnqueue, Alerts
  <2> QED
    BY <1>2, <2>1, WriteTyped DEF ResetEnqueue, TypeOK, Woken
<1>3. CASE ResetTest
  BY <1>3 DEF ResetTest, TypeOK
<1>4. CASE ResetYield
  BY <1>4 DEF ResetYield, TypeOK
<1>5. CASE ResetClose
  <2>1. creator_fd' \in BOOLEAN
    BY <1>5 DEF ResetClose
  <2> QED
    BY <1>5, <2>1 DEF ResetClose, TypeOK
<1>6. CASE ResetUnmap
  <2>1. creator' = "done"
    BY <1>6 DEF ResetUnmap
  <2>2. /\ shared' = [shared EXCEPT !.configured = FALSE, !.mapped = FALSE]
        /\ UNCHANGED <<ring, alert, lock, creator_fd, valid, flr, attacher>>
    BY <1>6 DEF ResetUnmap
  <2> QED
    BY <2>1, <2>2 DEF TypeOK
<1> QED
  BY <1>1, <1>2, <1>3, <1>4, <1>5, <1>6 DEF Creator

LEMMA AttacherTypes ==
  ASSUME TypeOK, Counted, NEW a \in Attachers, AttacherStep(a)
  PROVE  TypeOK' /\ Counted'
<1> USE DEF AttacherTo, OthersOfAttacher
<1>1. \A pc : AttacherTo(a, pc) =>
        attacher'[a] = pc /\ \A b \in Attachers \ {a} : attacher'[b] = attacher[b]
  BY DEF TypeOK
<1>2. CASE AttachOpen(a)
  <2>1. TypeOK'
    BY <1>2 DEF AttachOpen, TypeOK
  <2> QED
    BY <1>1, <1>2, <2>1, SameUsers DEF AttachOpen, Users
<1>3. CASE AttachCheck(a)
  <2>1. TypeOK'
    BY <1>3 DEF AttachCheck, TypeOK
  <2> QED
    BY <1>1, <1>3, <2>1, SameUsers DEF AttachCheck, Users
<1>4. CASE Attach(a)
  <2>1. Users' = Users \cup {a} /\ a \notin Users
    BY <1>1, <1>4 DEF Attach, Users
  <2>2. Cardinality(Users') = Cardinality(Users) + 1
    BY <2>1, UsersCounted, FS_AddElement
  <2>3. shared' = [shared EXCEPT !.refcnt = shared.refcnt + 1]
    BY <1>4 DEF Attach
  <2>4. TypeOK'
    BY <1>4, <2>3 DEF Attach, TypeOK
  <2> QED
    BY <2>2, <2>3, <2>4 DEF Counted, TypeOK
<1>5. CASE Detach(a)
  <2>1. Users' = Users \ {a} /\ a \in Users
    BY <1>1, <1>5 DEF Detach, Users
  <2>2. Cardinality(Users') = Cardinality(Users) - 1 /\ Cardinality(Users') \in Nat
    BY <2>1, UsersCounted, FS_RemoveElement, FS_CardinalityType
  <2>3. shared' = [shared EXCEPT !.refcnt = shared.refcnt - 1]
    BY <1>5 DEF Detach
  <2>4. shared.refcnt - 1 \in Nat /\ shared.refcnt - 1 = Cardinality(Users')
    BY <2>2, UsersCounted DEF Counted
  <2>5. TypeOK'
    BY <1>5, <2>3, <2>4 DEF Detach, TypeOK
  <2> QED
    BY <2>3, <2>4, <2>5 DEF Counted, TypeOK
<1>6. CASE LaunchLock(a)
  <2>1. TypeOK'
    BY <1>6 DEF LaunchLock, TypeOK
  <2> QED
    BY <1>1, <1>6, <2>1, SameUsers DEF LaunchLock, Users
<1>7. CASE LaunchCreate(a)
  <2>1. TypeOK'
    BY <1>7 DEF LaunchCreate, TypeOK
  <2> QED
    BY <1>1, <1>7, <2>1, SameUsers DEF LaunchCreate, Users
<1>8. CASE LaunchStarted(a)
  <2>1. TypeOK' /\ shared'.refcnt = shared.refcnt
    BY <1>8 DEF LaunchStarted, TypeOK
  <2> QED
    BY <1>1, <1>8, <2>1, SameUsers DEF LaunchStarted, Users
<1> QED
  BY <1>2, <1>3, <1>4, <1>5, <1>6, <1>7, <1>8 DEF AttacherStep

(* The other threads leave the attachers and their count alone.            *)
LEMMA UsersUnchanged ==
  ASSUME TypeOK, WatchdogAlert \/ DisableFile \/ WakeReader \/ ReaderStep \/ Creator
  PROVE  attacher' = attacher /\ shared'.refcnt = shared.refcnt
<1>1. CASE WatchdogAlert \/ DisableFile \/ WakeReader
  BY <1>1 DEF WatchdogAlert, DisableFile, WakeReader
<1>2. CASE ReaderStep
  BY <1>2 DEF ReaderStep, Interrupted, AlertThread, DomainRead, TakeAlert, WaitEvent,
              AfterWait, AfterCallback, AlertThreadLock, AlertThreadStopped,
              AlertThreadUnlock, OthersOfAlert, TypeOK
<1>3. CASE Creator
  BY <1>3 DEF Creator, ResetLock, ResetEnqueue, ResetTest, ResetYield, ResetClose,
              ResetUnmap, OthersOfCreator, TypeOK
<1> QED
  BY <1>1, <1>2, <1>3

LEMMA TypesInductive == Spec => [](TypeOK /\ Counted)
<1>1. TypeOK /\ Counted /\ [Next]_vars => (TypeOK /\ Counted)'
  <2> SUFFICES ASSUME TypeOK, Counted, [Next]_vars
               PROVE  TypeOK' /\ Counted'
    OBVIOUS
  <2>1. CASE WatchdogAlert \/ DisableFile \/ WakeReader
    BY <2>1, DriverTypes, UsersUnchanged DEF Counted, Users
  <2>2. CASE ReaderStep
    BY <2>2, AlertThreadTypes, UsersUnchanged DEF Counted, Users
  <2>3. CASE Creator
    BY <2>3, CreatorTypes, UsersUnchanged DEF Counted, Users
  <2>4. CASE \E a \in Attachers : AttacherStep(a)
    BY <2>4, AttacherTypes
  <2>5. CASE UNCHANGED vars
    BY <2>5 DEF vars, TypeOK, Counted, Users
  <2> QED
    BY <2>1, <2>2, <2>3, <2>4, <2>5 DEF Next, Gone, ReaderStep
<1> QED
  BY <1>1, TypesInit, PTL DEF Spec

-----------------------------------------------------------------------------
(* The alert thread, its mutex and the reset.                              *)

LEMMA LifeInit == Init => Life
  BY ThreadsAssumption DEF Init, Life, Locks, Started, Resetting, AlertAt

LEMMA DriverKeepsLife ==
  ASSUME TypeOK, Life, WatchdogAlert \/ DisableFile \/ WakeReader
  PROVE  Life'
<1>1. /\ alert' = alert \/ alert' = Woken
      /\ UNCHANGED <<creator, attacher, shared, lock, creator_fd>>
  BY WriteTyped DEF WatchdogAlert, DisableFile, WakeReader, Alerts
<1>2. /\ AlertAt("none")' <=> AlertAt("none")
      /\ AlertAt("unlock")' <=> AlertAt("unlock")
      /\ AlertAt("locked")' <=> AlertAt("locked")
  BY <1>1 DEF AlertAt, Woken, TypeOK
<1> QED
  BY <1>1, <1>2 DEF Life, Locks, Started, Resetting, AlertAt

LEMMA AlertThreadKeepsLife ==
  ASSUME TypeOK, Life, ReaderStep
  PROVE  Life'
<1> USE ThreadsAssumption
    DEF AlertAt, AlertTo, Got, OthersOfAlert, TypeOK, Life, Locks, Started, Resetting
<1>1. CASE DomainRead
  BY <1>1 DEF DomainRead
<1>2. CASE TakeAlert
  BY <1>2 DEF TakeAlert
<1>3. CASE WaitEvent
  BY <1>3 DEF WaitEvent
<1>4. CASE AfterWait
  BY <1>4 DEF AfterWait
<1>5. CASE AfterCallback
  BY <1>5 DEF AfterCallback
<1>6. CASE AlertThreadLock
  BY <1>6 DEF AlertThreadLock
<1>7. CASE AlertThreadStopped
  BY <1>7 DEF AlertThreadStopped
<1>8. CASE AlertThreadUnlock
  BY <1>8 DEF AlertThreadUnlock
<1>9. CASE Interrupted
  BY <1>9 DEF Interrupted
<1> QED
  BY <1>1, <1>2, <1>3, <1>4, <1>5, <1>6, <1>7, <1>8, <1>9 DEF ReaderStep, AlertThread

LEMMA CreatorKeepsLife ==
  ASSUME ~AttachRaces, TypeOK, Counted, Life, Creator
  PROVE  Life'
<1> USE ThreadsAssumption
    DEF AlertAt, CreatorTo, OthersOfCreator, TypeOK, Life, Locks, Started, Resetting
<1>1. CASE ResetLock
  <2>1. Users = {}
    BY <1>1, UsersCounted, FS_EmptySet DEF ResetLock, Counted
  <2>2. \A a \in Attachers : attacher[a] = "idle"
    BY <1>1, <2>1 DEF ResetLock, Users
  <2> QED
    BY <1>1, <2>2 DEF ResetLock
<1>2. CASE ResetEnqueue
  <2>1. alert' = alert \/ alert' = Woken
    BY <1>2, WriteTyped DEF ResetEnqueue, Alerts
  <2> QED
    BY <1>2, <2>1 DEF ResetEnqueue, Woken
<1>3. CASE ResetTest
  BY <1>3 DEF ResetTest
<1>4. CASE ResetYield
  BY <1>4 DEF ResetYield
<1>5. CASE ResetClose
  BY <1>5 DEF ResetClose
<1>6. CASE ResetUnmap
  BY <1>6 DEF ResetUnmap
<1> QED
  BY <1>1, <1>2, <1>3, <1>4, <1>5, <1>6 DEF Creator

LEMMA AttacherKeepsLife ==
  ASSUME TypeOK, Life, NEW a \in Attachers, AttacherStep(a)
  PROVE  Life'
<1> USE ThreadsAssumption
    DEF AlertAt, AttacherTo, OthersOfAttacher, TypeOK, Life, Locks, Started, Resetting
<1>1. CASE AttachOpen(a)
  BY <1>1 DEF AttachOpen
<1>2. CASE AttachCheck(a)
  BY <1>2 DEF AttachCheck
<1>3. CASE Attach(a)
  BY <1>3 DEF Attach
<1>4. CASE Detach(a)
  BY <1>4 DEF Detach
<1>5. CASE LaunchLock(a)
  BY <1>5 DEF LaunchLock
<1>6. CASE LaunchCreate(a)
  BY <1>6 DEF LaunchCreate
<1>7. CASE LaunchStarted(a)
  BY <1>7 DEF LaunchStarted
<1> QED
  BY <1>1, <1>2, <1>3, <1>4, <1>5, <1>6, <1>7 DEF AttacherStep

LEMMA LifeInductive ==
  ASSUME ~AttachRaces
  PROVE  Spec => [](TypeOK /\ Counted /\ Life)
<1>1. TypeOK /\ Counted /\ Life /\ [Next]_vars => Life'
  <2> SUFFICES ASSUME TypeOK, Counted, Life, [Next]_vars
               PROVE  Life'
    OBVIOUS
  <2>1. CASE UNCHANGED vars
    BY <2>1 DEF vars, Life, Locks, Started, Resetting, AlertAt
  <2> QED
    BY <2>1, DriverKeepsLife, AlertThreadKeepsLife, CreatorKeepsLife,
       AttacherKeepsLife DEF Next, Gone, ReaderStep
<1> QED
  BY <1>1, LifeInit, TypesInductive, PTL DEF Spec

-----------------------------------------------------------------------------
(* The ring is a queue.                                                    *)

Index == 0 .. IndexSize - 1

LEMMA Sizes ==
  /\ RingSize \in Nat /\ RingSize > 1 /\ IndexSize \in Nat /\ IndexSize > 1
  /\ IndexSize % RingSize = 0 /\ RingSize <= IndexSize /\ MaxUnread \in Nat
<1>1. /\ RingSize \in Nat /\ RingSize > 1 /\ IndexSize \in Nat /\ IndexSize > 1
      /\ IndexSize % RingSize = 0 /\ MaxUnread \in Nat
  BY RingAssumption
<1>2. ASSUME IndexSize < RingSize
      PROVE  FALSE
  BY <1>1, <1>2, ModDistinct, 0 % RingSize = 0
<1> QED
  BY <1>1, <1>2

(* Counting up, and the distance, of indices that wrap around.             *)
LEMMA NextIndex ==
  ASSUME NEW i \in Index
  PROVE  (i + 1) % IndexSize = IF i + 1 = IndexSize THEN 0 ELSE i + 1
  BY Sizes DEF Index

LEMMA Distance ==
  ASSUME NEW i \in Index, NEW j \in Index
  PROVE  (i - j) % IndexSize = IF i >= j THEN i - j ELSE i - j + IndexSize
  BY Sizes DEF Index

(* An alert goes to the slot behind the last unread one.                   *)
LEMMA WriteSlot ==
  ASSUME NEW rd \in Index, NEW wr \in Index, NEW u \in Int, u = (wr - rd) % IndexSize
  PROVE  wr % RingSize = (rd + u) % RingSize
<1>1. rd + u = wr \/ rd + u = wr + IndexSize
  BY Distance, Sizes DEF Index
<1>2. (wr + IndexSize) % RingSize = wr % RingSize
  <2>1. /\ RingSize \in Nat /\ RingSize > 0 /\ wr \in Int
        /\ IndexSize \in Nat /\ IndexSize % RingSize = 0
    BY Sizes DEF Index
  <2> QED
    BY ONLY <2>1, ModPlus
<1> QED
  BY <1>1, <1>2, Zenon

(* The slots of the alerts that are left when one has been read.           *)
LEMMA ReadSlots ==
  ASSUME NEW rd \in Index, NEW n \in Nat
  PROVE  (((rd + 1) % IndexSize) + n) % RingSize = (rd + 1 + n) % RingSize
<1>1. CASE rd + 1 # IndexSize
  BY <1>1, NextIndex DEF Index
<1>2. CASE rd + 1 = IndexSize
  <2>1. ((rd + 1) % IndexSize) + n = n /\ rd + 1 + n = n + IndexSize
    BY <1>2, NextIndex, Sizes DEF Index
  <2>2. (n + IndexSize) % RingSize = n % RingSize
    <3>1. /\ RingSize \in Nat /\ RingSize > 0 /\ n \in Int
          /\ IndexSize \in Nat /\ IndexSize % RingSize = 0
      BY Sizes
    <3> QED
      BY ONLY <3>1, ModPlus
  <2> QED
    BY <2>1, <2>2
<1> QED
  BY <1>1, <1>2

LEMMA UnreadIsSeq ==
  ASSUME TypeOK
  PROVE  /\ UnreadCount \in Index
         /\ Unread \in Seq(Alerts) /\ Len(Unread) = UnreadCount
         /\ \A n \in 1 .. UnreadCount :
              Unread[n] = ring.alerts[(ring.rd + n - 1) % RingSize]
<1>1. UnreadCount \in Index
  BY Distance, Sizes DEF UnreadCount, TypeOK, Index
<1>2. \A n \in 1 .. UnreadCount : ring.alerts[(ring.rd + n - 1) % RingSize] \in Alerts
  BY <1>1, Indices DEF TypeOK, Index
<1>3. UnreadCount \in Nat
  BY <1>1, Sizes DEF Index
<1> QED
  BY <1>1, <1>2, <1>3 DEF Unread

(* An alert that is accepted becomes the last of the unread ones.          *)
LEMMA WriteAppends ==
  ASSUME TypeOK, NEW a \in Alerts, UnreadCount < RingSize - 1,
         ring' = [ring EXCEPT !.alerts[ring.wr % RingSize] = a,
                              !.wr = (ring.wr + 1) % IndexSize]
  PROVE  UnreadCount' = UnreadCount + 1 /\ Unread' = Append(Unread, a)
<1> DEFINE u == UnreadCount
           slot(n) == (ring.rd + n - 1) % RingSize
<1>1. ring.rd \in Index /\ ring.wr \in Index /\ u \in Index /\ u \in Nat
  BY UnreadIsSeq, Sizes DEF TypeOK, Index
<1>2. ring'.rd = ring.rd /\ ring'.wr = (ring.wr + 1) % IndexSize /\ ring'.wr \in Index
  BY Indices DEF TypeOK, Index
<1>3. UnreadCount' = u + 1
  <2>1. PICK rd \in Index, wr \in Index : rd = ring.rd /\ wr = ring.wr
    BY <1>1
  <2>2. PICK next \in Index : next = (wr + 1) % IndexSize /\ next = ring'.wr
    BY <1>2, <2>1
  <2>3. u = (wr - rd) % IndexSize
    BY <2>1 DEF UnreadCount
  <2>4. UnreadCount' = (next - rd) % IndexSize
    BY <1>2, <2>1, <2>2 DEF UnreadCount
  <2>5. next = IF wr + 1 = IndexSize THEN 0 ELSE wr + 1
    BY <2>2, NextIndex
  <2>6. /\ u = IF wr >= rd THEN wr - rd ELSE wr - rd + IndexSize
        /\ UnreadCount' = IF next >= rd THEN next - rd ELSE next - rd + IndexSize
    BY <2>3, <2>4, Distance
  <2>7. u < RingSize - 1
    OBVIOUS
  <2> HIDE DEF u
  <2> QED
    BY <1>1, <2>5, <2>6, <2>7, Sizes DEF Index
<1>4. ring.wr % RingSize = slot(u + 1)
  <2>1. ring.wr % RingSize = (ring.rd + u) % RingSize
    <3>1. u = (ring.wr - ring.rd) % IndexSize
      BY DEF UnreadCount
    <3> QED
      BY <1>1, <3>1, WriteSlot
  <2>2. ring.rd + (u + 1) - 1 = ring.rd + u
    BY <1>1 DEF Index
  <2> QED
    BY <2>1, <2>2
<1>5. \A n \in 1 .. u : slot(n) # slot(u + 1)
  <2> SUFFICES ASSUME NEW n \in 1 .. u
               PROVE  slot(n) # slot(u + 1)
    OBVIOUS
  <2>1. ring.rd + n - 1 \in Int /\ ring.rd + (u + 1) - 1 \in Int
    BY <1>1 DEF Index
  <2>2. /\ ring.rd + n - 1 < ring.rd + (u + 1) - 1
        /\ (ring.rd + (u + 1) - 1) - (ring.rd + n - 1) < RingSize
    BY <1>1, Sizes DEF Index
  <2> QED
    BY <2>1, <2>2, ModDistinct, Sizes
<1>6. \A n \in 1 .. u + 1 :
        ring'.alerts[slot(n)] = IF n = u + 1 THEN a ELSE ring.alerts[slot(n)]
  <2>1. \A n \in 1 .. u + 1 : slot(n) \in Slots
    BY <1>1, Indices DEF Index
  <2>2. ring'.alerts = [ring.alerts EXCEPT ![slot(u + 1)] = a]
    BY <1>4 DEF TypeOK
  <2> QED
    BY <1>1, <1>5, <2>1, <2>2 DEF TypeOK
<1>7. Unread' = [n \in 1 .. u + 1 |-> IF n = u + 1 THEN a ELSE Unread[n]]
  BY <1>1, <1>2, <1>3, <1>6, UnreadIsSeq DEF Unread
<1>8. Append(Unread, a) = [n \in 1 .. u + 1 |-> IF n = u + 1 THEN a ELSE Unread[n]]
  <2>1. /\ Append(Unread, a) \in Seq(Alerts) /\ Len(Append(Unread, a)) = u + 1
        /\ \A n \in 1 .. u : Append(Unread, a)[n] = Unread[n]
        /\ Append(Unread, a)[u + 1] = a
    BY UnreadIsSeq, AppendProperties
  <2>2. Append(Unread, a) = [n \in 1 .. u + 1 |-> Append(Unread, a)[n]]
    BY <2>1, LenProperties
  <2> QED
    BY <1>1, <2>1, <2>2
<1> QED
  BY <1>3, <1>7, <1>8

(* The reader takes the first of the unread alerts.                        *)
LEMMA ReadTakesHead ==
  ASSUME TypeOK, Available,
         ring' = [ring EXCEPT !.rd = (ring.rd + 1) % IndexSize]
  PROVE  /\ UnreadCount > 0 /\ UnreadCount' = UnreadCount - 1
         /\ Unread # <<>>
         /\ ring.alerts[ring.rd % RingSize] = Head(Unread)
         /\ Unread' = Tail(Unread)
<1> DEFINE u == UnreadCount
<1>1. ring.rd \in Index /\ ring.wr \in Index /\ u \in Index /\ u \in Nat
  BY UnreadIsSeq, Sizes DEF TypeOK, Index
<1>2. /\ ring'.rd = (ring.rd + 1) % IndexSize /\ ring'.rd \in Index
      /\ ring'.wr = ring.wr /\ ring'.alerts = ring.alerts
  BY Indices DEF TypeOK, Index
<1>3. u > 0 /\ UnreadCount' = u - 1
  <2>1. PICK rd \in Index, wr \in Index : rd = ring.rd /\ wr = ring.wr
    BY <1>1
  <2>2. PICK next \in Index : next = (rd + 1) % IndexSize /\ next = ring'.rd
    BY <1>2, <2>1
  <2>3. u = (wr - rd) % IndexSize /\ rd # wr
    BY <2>1 DEF UnreadCount, Available
  <2>4. UnreadCount' = (wr - next) % IndexSize
    BY <1>2, <2>1, <2>2 DEF UnreadCount
  <2>5. next = IF rd + 1 = IndexSize THEN 0 ELSE rd + 1
    BY <2>2, NextIndex
  <2>6. /\ u = IF wr >= rd THEN wr - rd ELSE wr - rd + IndexSize
        /\ UnreadCount' = IF wr >= next THEN wr - next ELSE wr - next + IndexSize
    BY <2>3, <2>4, Distance
  <2> HIDE DEF u
  <2> QED
    BY <1>1, <2>3, <2>5, <2>6, Sizes DEF Index
<1>4. \A n \in 1 .. u - 1 : (ring'.rd + n - 1) % RingSize = (ring.rd + (n + 1) - 1) % RingSize
  <2> SUFFICES ASSUME NEW n \in 1 .. u - 1
               PROVE  (ring'.rd + n - 1) % RingSize = (ring.rd + (n + 1) - 1) % RingSize
    OBVIOUS
  <2>1. n - 1 \in Nat
    BY <1>1
  <2>2. (ring'.rd + (n - 1)) % RingSize = (ring.rd + 1 + (n - 1)) % RingSize
    BY <1>1, <1>2, <2>1, ReadSlots
  <2>3. /\ ring'.rd + n - 1 = ring'.rd + (n - 1)
        /\ ring.rd + (n + 1) - 1 = ring.rd + 1 + (n - 1)
    BY <1>1, <1>2, <2>1 DEF Index
  <2> QED
    BY <2>2, <2>3
<1>5. Unread # <<>> /\ Head(Unread) = Unread[1]
  BY <1>1, <1>3, UnreadIsSeq
<1>6. ring.alerts[ring.rd % RingSize] = Unread[1]
  <2>1. ring.rd + 1 - 1 = ring.rd
    BY <1>1 DEF Index
  <2> QED
    BY <1>1, <1>3, <2>1, UnreadIsSeq
<1>7. Unread' = [n \in 1 .. u - 1 |-> Unread[n + 1]]
  BY <1>1, <1>2, <1>3, <1>4, UnreadIsSeq DEF Unread
<1>8. Tail(Unread) = [n \in 1 .. u - 1 |-> Unread[n + 1]]
  <2>1. /\ Tail(Unread) \in Seq(Alerts) /\ Len(Tail(Unread)) = u - 1
        /\ \A n \in 1 .. Len(Tail(Unread)) : Tail(Unread)[n] = Unread[n + 1]
    BY <1>5, UnreadIsSeq, HeadTailProperties
  <2>2. Tail(Unread) = [n \in 1 .. u - 1 |-> Tail(Unread)[n]]
    BY <2>1, LenProperties
  <2> QED
    BY <2>1, <2>2
<1> QED
  BY <1>3, <1>5, <1>6, <1>7, <1>8

-----------------------------------------------------------------------------
(* Every step maps to a step of the queue, or to none.                     *)

QueueVars == <<Unread, alert.got>>

LEMMA RingUnchanged ==
  ASSUME ring' = ring
  PROVE  UnreadCount' = UnreadCount /\ Unread' = Unread
<1>1. UnreadCount' = UnreadCount
  BY DEF UnreadCount
<1> QED
  BY <1>1 DEF Unread

LEMMA WriteStep ==
  ASSUME TypeOK, NEW a \in Alerts, UnreadCount < RingSize - 1, write_domain_alert(a)
  PROVE  /\ UnreadCount' \in {UnreadCount, UnreadCount + 1}
         /\ [Queue!Next]_QueueVars
<1>1. alert'.got = alert.got
  BY WriteTyped DEF Woken, TypeOK
<1>2. CASE ~valid \/ Full
  <2>1. ring' = ring
    BY <1>2 DEF write_domain_alert
  <2> QED
    BY <1>1, <2>1, RingUnchanged DEF QueueVars
<1>3. CASE valid /\ ~Full
  <2>1. ring' = [ring EXCEPT !.alerts[ring.wr % RingSize] = a,
                             !.wr = (ring.wr + 1) % IndexSize]
    BY <1>3 DEF write_domain_alert
  <2>2. UnreadCount' = UnreadCount + 1 /\ Unread' = Append(Unread, a)
    BY <2>1, WriteAppends
  <2>3. Queue!Write(a)
    BY <1>1, <2>2, UnreadIsSeq DEF Queue!Write
  <2> QED
    BY <2>2, <2>3 DEF Queue!Next
<1> QED
  BY <1>2, <1>3

LEMMA AlertThreadStep ==
  ASSUME TypeOK, ReaderStep
  PROVE  UnreadCount' <= UnreadCount /\ [Queue!Next]_QueueVars
<1> USE DEF AlertAt, AlertTo, Got
<1>1. UnreadCount \in Int
  BY UnreadIsSeq, Sizes DEF Index
<1>2. CASE TakeAlert /\ Available
  <2>1. /\ alert'.got = ring.alerts[ring.rd % RingSize]
        /\ ring' = [ring EXCEPT !.rd = (ring.rd + 1) % IndexSize]
    BY <1>2 DEF TakeAlert
  <2>2. /\ UnreadCount' = UnreadCount - 1 /\ Unread # <<>>
        /\ alert'.got = Head(Unread) /\ Unread' = Tail(Unread)
    BY <1>2, <2>1, ReadTakesHead
  <2> QED
    BY <1>1, <2>2 DEF Queue!Next, Queue!Read
<1>3. CASE ~(TakeAlert /\ Available)
  <2>1. /\ ring' = ring
        /\ alert'.got = alert.got \/ alert'.got \in {"none", "device_reset"}
    BY <1>3 DEF ReaderStep, Interrupted, AlertThread, DomainRead, TakeAlert, WaitEvent,
                AfterWait, AfterCallback, AlertThreadLock, AlertThreadStopped,
                AlertThreadUnlock, TypeOK
  <2>2. [Queue!Next]_QueueVars
    BY <2>1, RingUnchanged DEF QueueVars, Queue!Next, Queue!Other, Alerts
  <2> QED
    BY <1>1, <2>1, <2>2, RingUnchanged
<1> QED
  BY <1>2, <1>3

LEMMA QueueStep ==
  ASSUME MaxUnread < RingSize - 1, TypeOK, Fill, [Next]_vars
  PROVE  Fill' /\ [Queue!Next]_QueueVars
<1>1. UnreadCount \in Int /\ MaxUnread \in Nat /\ RingSize \in Nat
  BY UnreadIsSeq, Sizes DEF Index
<1>2. CASE WatchdogAlert
  <2>1. /\ UnreadCount < RingSize - 1 /\ UnreadCount < MaxUnread
        /\ write_domain_alert("watchdog") /\ "watchdog" \in Alerts
        /\ creator' = creator
    BY <1>1, <1>2 DEF WatchdogAlert, Alerts
  <2>2. /\ UnreadCount' \in {UnreadCount, UnreadCount + 1}
        /\ [Queue!Next]_QueueVars
    BY <2>1, WriteStep
  <2> QED
    BY <1>1, <2>1, <2>2 DEF Fill
<1>3. CASE ResetEnqueue
  <2>1. /\ UnreadCount < RingSize - 1 /\ UnreadCount <= MaxUnread
        /\ write_domain_alert("domain_reset") /\ "domain_reset" \in Alerts
        /\ creator' = "test"
    BY <1>1, <1>3 DEF ResetEnqueue, CreatorTo, Fill, Alerts
  <2>2. /\ UnreadCount' \in {UnreadCount, UnreadCount + 1}
        /\ [Queue!Next]_QueueVars
    BY <2>1, WriteStep
  <2> QED
    BY <1>1, <2>1, <2>2 DEF Fill
<1>4. CASE ReaderStep
  <2>1. creator' = creator
    BY <1>4 DEF ReaderStep, Interrupted, AlertThread, DomainRead, TakeAlert, WaitEvent,
                AfterWait, AfterCallback, AlertThreadLock, AlertThreadStopped,
                AlertThreadUnlock, OthersOfAlert
  <2>2. UnreadCount' \in Int
    BY AlertThreadTypes, Sizes, <1>4, Distance DEF TypeOK, UnreadCount, Index
  <2> QED
    BY <1>1, <1>4, <2>1, <2>2, AlertThreadStep DEF Fill
<1>5. CASE DisableFile \/ WakeReader
  <2>1. ring' = ring /\ alert'.got = alert.got /\ creator' = creator
    BY <1>5 DEF DisableFile, WakeReader, Woken, TypeOK
  <2> QED
    BY <2>1, RingUnchanged DEF Fill, QueueVars
<1>6. CASE Creator /\ ~ResetEnqueue
  <2>1. /\ ring' = ring /\ alert' = alert
        /\ creator' \in {"idle", "enqueue"} => creator \in {"idle", "enqueue"}
    BY <1>6 DEF Creator, ResetLock, ResetTest, ResetYield, ResetClose, ResetUnmap,
                CreatorTo
  <2> QED
    BY <1>1, <2>1, RingUnchanged DEF Fill, QueueVars
<1>7. CASE \E a \in Attachers : AttacherStep(a)
  <2>1. /\ ring' = ring /\ creator' = creator
        /\ alert'.got = alert.got \/ alert'.got = "none"
    BY <1>7 DEF AttacherStep, AttachOpen, AttachCheck, Attach, Detach, LaunchLock,
                LaunchCreate, LaunchStarted, OthersOfAttacher
  <2>2. [Queue!Next]_QueueVars
    BY <2>1, RingUnchanged DEF QueueVars, Queue!Next, Queue!Other, Alerts
  <2> QED
    BY <2>1, <2>2, RingUnchanged DEF Fill
<1>8. CASE UNCHANGED vars
  BY <1>8, RingUnchanged DEF vars, Fill, QueueVars
<1> QED
  BY <1>2, <1>3, <1>4, <1>5, <1>6, <1>7, <1>8 DEF Next, Gone, ReaderStep

LEMMA QueueInit == Init => Fill /\ Queue!Init
<1> SUFFICES ASSUME Init
             PROVE  Fill /\ Queue!Init
  OBVIOUS
<1>1. UnreadCount = 0
  BY Distance, Sizes DEF Init, UnreadCount, Index
<1>2. Unread = <<>>
  BY <1>1, TypesInit, UnreadIsSeq
<1> QED
  BY <1>1, <1>2, Sizes DEF Fill, Queue!Init, Init, Alerts

-----------------------------------------------------------------------------
(* The theorems                                                            *)

(* Every variable keeps its type; the count of attached threads, which     *)
(* dlb_reset_sched_domain goes by, never falls below zero.                 *)
THEOREM DomainAlertsTypes == Spec => []TypeOK
  BY TypesInductive, PTL

(* The alert thread is detached and nobody joins it; all the same the      *)
(* shared memory with its mutex and the domain's file are there until its  *)
(* last step, and nobody is attached to a domain whose file was closed, if *)
(* no attach is under way when the domain is reset.                        *)
THEOREM DomainDoesOutliveUsers ==
  ASSUME ~AttachRaces
  PROVE  Spec => []DomainOutlivesUsers
<1>1. ASSUME TypeOK, Counted, Life
      PROVE  DomainOutlivesUsers
  <2>1. ~AlertAt("none") => shared.mapped /\ creator_fd
    BY <1>1 DEF Life, Resetting
  <2>2. ASSUME creator \in {"unmap", "done"}
        PROVE  shared.refcnt = 0
    <3>1. Users = {}
      BY <1>1, <2>2 DEF Life, Resetting, Users
    <3> QED
      BY <1>1, <3>1, FS_EmptySet DEF Counted
  <2> QED
    BY <2>1, <2>2 DEF DomainOutlivesUsers
<1> QED
  BY <1>1, LifeInductive, PTL

(* The driver's alert ring implements a first-in first-out queue: no alert *)
(* that was accepted is lost, read twice or overtaken, although the slots  *)
(* are reused and the u8 indices wrap around, as long as there is room for *)
(* the alerts the watchdogs leave unread and the one of the domain reset.  *)
THEOREM RingImplementsQueue ==
  ASSUME MaxUnread < RingSize - 1
  PROVE  Spec => ImplementsQueue
<1>1. TypeOK /\ Fill /\ [Next]_vars => Fill' /\ [Queue!Next]_<<Unread, alert.got>>
  BY QueueStep DEF QueueVars
<1> QED
  BY <1>1, QueueInit, TypesInductive, PTL DEF Spec, ImplementsQueue, Queue!Spec

==============================================================================
