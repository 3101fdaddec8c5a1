--------------------------- MODULE VfMailbox_proofs ---------------------------
(***************************************************************************)
(* Proofs about VfMailbox, for any set of VFs and any number of polls.     *)
(*                                                                         *)
(* The inductive invariant follows three conversations.  A VF's request    *)
(* goes from its application to the PF's interrupt thread and back         *)
(* (Requests, Agreement); the notification from the reset to the VF's      *)
(* interrupt thread, which acknowledges it before it handles it (Notice);  *)
(* a query whether the VF is in use, whose answer may come late (Answer).  *)
(* From these follows what the reset has established of the VFs it does    *)
(* not ask any more (Progress).                                            *)
(***************************************************************************)
EXTENDS VfMailbox, TLAPS

AppType == [pc : {"idle", "send", "poll"}, op : {"create", "close", None}]
IsrType == [pc : {"idle", "read", "answer", "ack", "deferred"},
            req : {"pre_reset", "in_use", None}]
VfType == [lock : {Nobody, "app"}, reset_active : BOOLEAN, open : BOOLEAN,
           valid : BOOLEAN, alive : BOOLEAN]
ToPfType == [req : {"create", "close", None}, resp : BOOLEAN, bit : BOOLEAN]
ToVfType == [req : {"pre_reset", "in_use", None}, resp : BOOLEAN,
             bit : BOOLEAN, irq : BOOLEAN]
ServiceType == [pc : {"idle", "serve", "ack"}, at : VFs \cup {None}, todo : SUBSET VFs]
ResetType == [pc : {"idle", "notify", "notified", "ask", "asked", "relocked", "unlock",
                    "sleep", "flr"},
              at : VFs \cup {None}, todo : SUBSET VFs, round : 0 .. LastRound,
              in_use : BOOLEAN]

Typed ==
  /\ app \in [VFs -> AppType]
  /\ isr \in [VFs -> IsrType]
  /\ vf \in [VFs -> VfType]
  /\ to_pf \in [VFs -> ToPfType]
  /\ to_vf \in [VFs -> ToVfType]
  /\ service \in ServiceType
  /\ reset \in ResetType
  /\ used \in SUBSET VFs

(* Who holds the mutexes.                                                  *)
Locks ==
  /\ \A v \in VFs : vf[v].lock = Nobody <=> app[v].pc = "idle"
  /\ pf_lock = "service" <=> service.pc # "idle"
  /\ pf_lock = "reset" <=> reset.pc \notin {"idle", "sleep"}
  /\ pf_lock \in {Nobody, "service", "reset"}

(* The PF's two threads: what they are working on exists.                  *)
Rounds ==
  /\ reset.pc \in {"unlock", "sleep"} => reset.round \in 1 .. QuiesceRounds
  /\ reset.pc \in {"notified", "asked"} => reset.at \in VFs
  /\ reset.pc = "notified" => reset.at \notin reset.todo

(* A request is in the mailbox only while its sender polls, and the PF     *)
(* serves only requests that are in a mailbox.                             *)
Requests ==
  /\ \A v \in VFs : to_pf[v].bit => app[v].pc = "poll"
  /\ \A v \in VFs : app[v].pc = "poll" => to_pf[v].req = app[v].op
  /\ \A v \in service.todo : to_pf[v].bit
  /\ service.pc = "ack" =>
       service.at \in VFs \ service.todo /\ to_pf[service.at].bit

(* The PF has carried out the request of v.                                *)
Handled(v) ==
  /\ app[v].pc = "poll"
  /\ ~to_pf[v].bit \/ (service.pc = "ack" /\ service.at = v)

(* What VF and PF know of v's domain, in every stage of a request.         *)
Agreement(v) ==
  /\ ~vf[v].reset_active => vf[v].valid
  /\ vf[v].reset_active => app[v].pc = "idle" /\ (vf[v].valid => ~vf[v].open)
  /\ ~vf[v].valid => v \in used
  /\ app[v].pc = "idle" /\ vf[v].valid => (vf[v].open <=> v \in used)
  /\ app[v].pc # "idle" =>
       \/ /\ app[v].op = "create"
          /\ ~vf[v].open
          /\ v \in used <=> Handled(v) /\ to_pf[v].resp
       \/ /\ app[v].op = "close"
          /\ vf[v].open
          /\ v \in used <=> ~Handled(v)

(* The stages of the notification: not sent yet, in the mailbox, and       *)
(* taken out of it; in the last one the VF stops its users as soon as its  *)
(* mutex is free, and then answers queries.                                *)
Unsent(v) ==
  \/ reset.pc = "idle"
  \/ reset.pc \in {"notify", "notified"} /\ v \in reset.todo

Silent(v) ==
  isr[v].pc = "idle" /\ ~to_vf[v].irq /\ ~to_vf[v].bit /\ ~vf[v].reset_active

Told(v) ==
  /\ ~vf[v].reset_active
  /\ to_vf[v].req = "pre_reset"
  /\ \/ isr[v].pc = "idle" /\ to_vf[v].irq
     \/ isr[v].pc = "read" /\ ~to_vf[v].irq
     \/ isr[v].pc = "ack" /\ isr[v].req = "pre_reset" /\ ~to_vf[v].irq

Stopped(v) ==
  /\ isr[v].pc = "deferred" <=> ~vf[v].reset_active
  /\ isr[v].pc \in {"answer", "ack"} => isr[v].req = "in_use"
  /\ isr[v].pc = "read" \/ to_vf[v].irq => to_vf[v].req = "in_use"

Notice(v) ==
  /\ Unsent(v) => Silent(v)
  /\ ~Unsent(v) /\ vf[v].alive =>
       IF reset.pc = "notified" /\ reset.at = v /\ to_vf[v].bit
       THEN Told(v) ELSE Stopped(v)

(* An answer "not in use" stays true.                                      *)
Answer(v) ==
  vf[v].alive =>
    /\ isr[v].pc = "ack" /\ isr[v].req = "in_use" /\ ~to_vf[v].resp => ~vf[v].open
    /\ reset.pc = "asked" /\ reset.at = v /\ ~to_vf[v].bit
         => vf[v].reset_active /\ (~to_vf[v].resp => ~vf[v].open)

(* The reset need not ask v: the PF has no domain of it, or it has stopped *)
(* its users and closed its domain.                                        *)
Quiet(v) == v \notin used \/ (vf[v].reset_active /\ ~vf[v].open)

Progress ==
  /\ ~reset.in_use => reset.pc = "flr"
  /\ reset.pc \in {"ask", "asked"} =>
       \A v \in VFs : vf[v].alive =>
         v \in reset.todo \/ (reset.pc = "asked" /\ reset.at = v) \/ Quiet(v)
  /\ reset.pc = "flr" /\ ~reset.in_use => \A v \in VFs : vf[v].alive => Quiet(v)

Conversations == \A v \in VFs : Agreement(v) /\ Notice(v) /\ Answer(v)

IInv == Typed /\ Locks /\ Rounds /\ Requests /\ Conversations /\ Progress

-----------------------------------------------------------------------------
(* Two operators that several actions share.                               *)

LEMMA IsrToTyped ==
  ASSUME Typed, NEW v \in VFs,
         NEW pc \in {"idle", "read", "answer", "ack", "deferred"}, IsrTo(v, pc)
  PROVE  isr' \in [VFs -> IsrType]
<1>1. CASE pc = "idle"
  BY <1>1 DEF IsrTo, Typed, IsrType
<1>2. CASE pc # "idle"
  BY <1>2 DEF IsrTo, Typed, IsrType
<1> QED
  BY <1>1, <1>2

(* A query's conclusion ends the round of queries, and only the answer     *)
(* "not in use" lets the reset believe that nothing is in use.             *)
LEMMA ConcludedResult ==
  ASSUME Typed, NEW in_use \in BOOLEAN, Concluded(in_use)
  PROVE  /\ reset' \in ResetType
         /\ reset'.pc \in {"flr", "relocked", "unlock"}
         /\ reset'.pc = "unlock" => reset'.round \in 1 .. QuiesceRounds
         /\ reset'.in_use = reset.in_use \/ (~in_use /\ reset'.pc = "flr")
<1>1. LastRound \in Nat /\ 1 \in 0 .. LastRound /\ LastRound \in 0 .. LastRound
  BY QuiesceRoundsAssumption DEF LastRound
<1> QED
  BY <1>1 DEF Typed, ResetType, Concluded

-----------------------------------------------------------------------------
(* A VF's application.                                                     *)

LEMMA AppCreateKeeps ==
  ASSUME IInv, NEW v \in VFs, AppCreate(v)
  PROVE  IInv'
<1> USE DEF IInv
<1>1. Typed'
  <2>1. app' \in [VFs -> AppType]
    BY DEF AppCreate, Typed, AppType
  <2>2. vf' \in [VFs -> VfType]
    BY DEF AppCreate, Typed, VfType
  <2> QED
    BY <2>1, <2>2 DEF AppCreate, Typed, OthersOfVf
<1>2. Locks'
  BY NamesAssumption DEF AppCreate, OthersOfVf, Typed, Locks
<1>3. Rounds'
  BY DEF AppCreate, OthersOfVf, Rounds
<1>4. Requests'
  BY DEF AppCreate, OthersOfVf, Requests
<1>5. ASSUME NEW w \in VFs PROVE Agreement(w)'
  BY DEF AppCreate, OthersOfVf, Conversations, Agreement, Handled
<1>6. ASSUME NEW w \in VFs PROVE Notice(w)'
  BY DEF AppCreate, OthersOfVf, Conversations, Notice, Stopped, Silent, Told,
         Unsent
<1>7. ASSUME NEW w \in VFs PROVE Answer(w)'
  BY DEF AppCreate, OthersOfVf, Conversations, Answer
<1>8. Progress'
  BY DEF AppCreate, OthersOfVf, Progress, Quiet
<1> QED
  BY <1>1, <1>2, <1>3, <1>4, <1>5, <1>6, <1>7, <1>8 DEF Conversations

LEMMA AppCloseSendsKeeps ==
  ASSUME IInv, NEW v \in VFs, AppClose(v), vf[v].valid
  PROVE  IInv'
<1> USE DEF IInv
<1>0. /\ app[v].pc = "idle" /\ vf[v].alive /\ vf[v].lock = Nobody /\ vf[v].open
      /\ vf' = [vf EXCEPT ![v].lock = "app"]
      /\ app' = [app EXCEPT ![v] = [pc |-> "send", op |-> "close"]]
      /\ UNCHANGED <<isr, to_pf, to_vf, pf_lock, service, reset, used>>
  BY DEF AppClose, OthersOfVf
<1>1. Typed'
  <2>1. app' \in [VFs -> AppType]
    BY <1>0 DEF Typed, AppType
  <2>2. vf' \in [VFs -> VfType]
    BY <1>0 DEF Typed, VfType
  <2> QED
    BY <1>0, <2>1, <2>2 DEF Typed
<1>2. Locks'
  BY <1>0, NamesAssumption DEF Typed, Locks
<1>3. Rounds'
  BY <1>0 DEF Rounds
<1>4. Requests'
  BY <1>0 DEF Requests
<1>5. ASSUME NEW w \in VFs PROVE Agreement(w)'
  BY <1>0 DEF Conversations, Agreement, Handled
<1>6. ASSUME NEW w \in VFs PROVE Notice(w)'
  BY <1>0 DEF Conversations, Notice, Stopped, Silent, Told, Unsent
<1>7. ASSUME NEW w \in VFs PROVE Answer(w)'
  BY <1>0 DEF Conversations, Answer
<1>8. Progress'
  BY <1>0 DEF Progress, Quiet
<1> QED
  BY <1>1, <1>2, <1>3, <1>4, <1>5, <1>6, <1>7, <1>8 DEF Conversations

LEMMA AppCloseFreesKeeps ==
  ASSUME IInv, NEW v \in VFs, AppClose(v), ~vf[v].valid
  PROVE  IInv'
<1> USE DEF IInv
<1>0. /\ app[v].pc = "idle" /\ vf[v].alive /\ vf[v].lock = Nobody /\ vf[v].open
      /\ vf' = [vf EXCEPT ![v].open = FALSE]
      /\ UNCHANGED <<app, isr, to_pf, to_vf, pf_lock, service, reset, used>>
  BY DEF AppClose, OthersOfVf
<1>1. Typed'
  <2>1. vf' \in [VFs -> VfType]
    BY <1>0 DEF Typed, VfType
  <2> QED
    BY <1>0, <2>1 DEF Typed
<1>2. Locks'
  BY <1>0 DEF Locks
<1>3. Rounds'
  BY <1>0 DEF Rounds
<1>4. Requests'
  BY <1>0 DEF Requests
<1>5. ASSUME NEW w \in VFs PROVE Agreement(w)'
  BY <1>0 DEF Conversations, Agreement, Handled
<1>6. ASSUME NEW w \in VFs PROVE Notice(w)'
  BY <1>0 DEF Conversations, Notice, Stopped, Silent, Told, Unsent
<1>7. ASSUME NEW w \in VFs PROVE Answer(w)'
  BY <1>0 DEF Conversations, Answer
<1>8. Progress'
  BY <1>0 DEF Progress, Quiet
<1> QED
  BY <1>1, <1>2, <1>3, <1>4, <1>5, <1>6, <1>7, <1>8 DEF Conversations

LEMMA AppSendKeeps ==
  ASSUME IInv, NEW v \in VFs, AppSend(v)
  PROVE  IInv'
<1> USE DEF IInv
<1>1. Typed'
  <2>1. app' \in [VFs -> AppType]
    BY DEF AppSend, Typed, AppType, AppTo
  <2>2. to_pf' \in [VFs -> ToPfType]
    BY DEF AppSend, Typed, ToPfType, AppType, AppTo
  <2> QED
    BY <2>1, <2>2 DEF AppSend, Typed, OthersOfVf
<1>2. Locks'
  BY DEF AppSend, AppTo, OthersOfVf, Locks
<1>3. Rounds'
  BY DEF AppSend, AppTo, OthersOfVf, Rounds
<1>4. Requests'
  BY DEF AppSend, AppTo, OthersOfVf, Typed, Requests
<1>5. ASSUME NEW w \in VFs PROVE Agreement(w)'
  BY DEF AppSend, AppTo, OthersOfVf, Typed, Requests, Conversations, Agreement,
         Handled
<1>6. ASSUME NEW w \in VFs PROVE Notice(w)'
  BY DEF AppSend, AppTo, OthersOfVf, Conversations, Notice, Stopped, Silent,
         Told, Unsent
<1>7. ASSUME NEW w \in VFs PROVE Answer(w)'
  BY DEF AppSend, AppTo, OthersOfVf, Conversations, Answer
<1>8. Progress'
  BY DEF AppSend, AppTo, OthersOfVf, Progress, Quiet
<1> QED
  BY <1>1, <1>2, <1>3, <1>4, <1>5, <1>6, <1>7, <1>8 DEF Conversations

LEMMA AppFinishKeeps ==
  ASSUME IInv, NEW v \in VFs, AppFinish(v)
  PROVE  IInv'
<1> USE DEF IInv
<1>1. Typed'
  <2>1. app' \in [VFs -> AppType]
    BY DEF AppFinish, Typed, AppType
  <2>2. vf' \in [VFs -> VfType]
    <3> DEFINE made == app[v].op = "create" /\ to_pf[v].resp
    <3>1. vf' = [vf EXCEPT ![v] = [@ EXCEPT !.lock = Nobody, !.open = made]]
      BY DEF AppFinish
    <3>2. made \in BOOLEAN
      BY DEF Typed, ToPfType
    <3> HIDE DEF made
    <3> QED
      BY <3>1, <3>2 DEF Typed, VfType
  <2> QED
    BY <2>1, <2>2 DEF AppFinish, Typed, OthersOfVf
<1>2. Locks'
  BY DEF AppFinish, OthersOfVf, Typed, Locks
<1>3. Rounds'
  BY DEF AppFinish, OthersOfVf, Rounds
<1>4. Requests'
  BY DEF AppFinish, OthersOfVf, Requests
<1>5. ASSUME NEW w \in VFs PROVE Agreement(w)'
  BY DEF AppFinish, OthersOfVf, Typed, ToPfType, Conversations, Agreement,
         Handled
<1>6. ASSUME NEW w \in VFs PROVE Notice(w)'
  BY DEF AppFinish, OthersOfVf, Conversations, Notice, Stopped, Silent, Told,
         Unsent
<1>7. ASSUME NEW w \in VFs PROVE Answer(w)'
  <2>1. ~vf[v].reset_active
    BY DEF AppFinish, Conversations, Agreement
  <2>2. isr[v].pc = "ack" /\ isr[v].req = "in_use" => ~vf[v].alive
    BY <2>1 DEF Conversations, Notice, Silent, Told, Stopped
  <2>3. CASE w = v
    BY <2>1, <2>2, <2>3 DEF AppFinish, OthersOfVf, Typed, Conversations, Answer
  <2>4. CASE w # v
    BY <2>4 DEF AppFinish, OthersOfVf, Typed, Conversations, Answer
  <2> QED
    BY <2>3, <2>4
<1>8. Progress'
  BY DEF AppFinish, OthersOfVf, Conversations, Agreement, Progress, Quiet
<1> QED
  BY <1>1, <1>2, <1>3, <1>4, <1>5, <1>6, <1>7, <1>8 DEF Conversations

LEMMA CrashKeeps ==
  ASSUME IInv, NEW v \in VFs, Crash(v)
  PROVE  IInv'
<1> USE DEF IInv
<1>1. Typed'
  <2>1. vf' \in [VFs -> VfType]
    BY DEF Crash, Typed, VfType
  <2> QED
    BY <2>1 DEF Crash, Typed, OthersOfVf
<1>2. Locks'
  BY DEF Crash, OthersOfVf, Locks
<1>3. Rounds'
  BY DEF Crash, OthersOfVf, Rounds
<1>4. Requests'
  BY DEF Crash, OthersOfVf, Requests
<1>5. ASSUME NEW w \in VFs PROVE Agreement(w)'
  BY DEF Crash, OthersOfVf, Conversations, Agreement, Handled
<1>6. ASSUME NEW w \in VFs PROVE Notice(w)'
  BY DEF Crash, OthersOfVf, Conversations, Notice, Stopped, Silent, Told,
         Unsent
<1>7. ASSUME NEW w \in VFs PROVE Answer(w)'
  BY DEF Crash, OthersOfVf, Conversations, Answer
<1>8. Progress'
  BY DEF Crash, OthersOfVf, Progress, Quiet
<1> QED
  BY <1>1, <1>2, <1>3, <1>4, <1>5, <1>6, <1>7, <1>8 DEF Conversations
-----------------------------------------------------------------------------
(* A VF's interrupt thread.                                                *)

LEMMA IsrStartKeeps ==
  ASSUME IInv, NEW v \in VFs, IsrStart(v)
  PROVE  IInv'
<1> USE DEF IInv
<1>1. Typed'
  <2>1. isr' \in [VFs -> IsrType]
    BY DEF IsrStart, Typed, IsrType, IsrTo
  <2>2. to_vf' \in [VFs -> ToVfType]
    BY DEF IsrStart, Typed, ToVfType, IsrTo
  <2> QED
    BY <2>1, <2>2 DEF IsrStart, Typed, OthersOfIsr
<1>2. Locks'
  BY DEF IsrStart, IsrTo, OthersOfIsr, Locks
<1>3. Rounds'
  BY DEF IsrStart, IsrTo, OthersOfIsr, Rounds
<1>4. Requests'
  BY DEF IsrStart, IsrTo, OthersOfIsr, Requests
<1>5. ASSUME NEW w \in VFs PROVE Agreement(w)'
  BY DEF IsrStart, IsrTo, OthersOfIsr, Conversations, Agreement, Handled
<1>6. ASSUME NEW w \in VFs PROVE Notice(w)'
  BY DEF IsrStart, IsrTo, OthersOfIsr, Typed, Conversations, Notice, Stopped,
         Silent, Told, Unsent
<1>7. ASSUME NEW w \in VFs PROVE Answer(w)'
  BY DEF IsrStart, IsrTo, OthersOfIsr, Conversations, Answer
<1>8. Progress'
  BY DEF IsrStart, IsrTo, OthersOfIsr, Progress, Quiet
<1> QED
  BY <1>1, <1>2, <1>3, <1>4, <1>5, <1>6, <1>7, <1>8 DEF Conversations

LEMMA IsrReadKeeps ==
  ASSUME IInv, NEW v \in VFs, IsrRead(v)
  PROVE  IInv'
<1> USE DEF IInv
<1>1. Typed'
  <2>1. isr' \in [VFs -> IsrType]
    BY DEF IsrRead, Typed, IsrType, ToVfType
  <2> QED
    BY <2>1 DEF IsrRead, Typed, OthersOfIsr
<1>2. Locks'
  BY DEF IsrRead, OthersOfIsr, Locks
<1>3. Rounds'
  BY DEF IsrRead, OthersOfIsr, Rounds
<1>4. Requests'
  BY DEF IsrRead, OthersOfIsr, Requests
<1>5. ASSUME NEW w \in VFs PROVE Agreement(w)'
  BY DEF IsrRead, OthersOfIsr, Conversations, Agreement, Handled
<1>6. ASSUME NEW w \in VFs PROVE Notice(w)'
  BY DEF IsrRead, OthersOfIsr, Conversations, Notice, Stopped, Silent, Told,
         Unsent
<1>7. ASSUME NEW w \in VFs PROVE Answer(w)'
  BY DEF IsrRead, OthersOfIsr, Conversations, Answer
<1>8. Progress'
  BY DEF IsrRead, OthersOfIsr, Progress, Quiet
<1> QED
  BY <1>1, <1>2, <1>3, <1>4, <1>5, <1>6, <1>7, <1>8 DEF Conversations

LEMMA IsrAnswerKeeps ==
  ASSUME IInv, NEW v \in VFs, IsrAnswer(v)
  PROVE  IInv'
<1> USE DEF IInv
<1>1. Typed'
  <2>1. isr' \in [VFs -> IsrType]
    BY DEF IsrAnswer, Typed, IsrType, IsrTo
  <2>2. to_vf' \in [VFs -> ToVfType]
    BY DEF IsrAnswer, Typed, ToVfType, VfType, IsrTo
  <2> QED
    BY <2>1, <2>2 DEF IsrAnswer, Typed, OthersOfIsr
<1>2. Locks'
  BY DEF IsrAnswer, IsrTo, OthersOfIsr, Locks
<1>3. Rounds'
  BY DEF IsrAnswer, IsrTo, OthersOfIsr, Rounds
<1>4. Requests'
  BY DEF IsrAnswer, IsrTo, OthersOfIsr, Requests
<1>5. ASSUME NEW w \in VFs PROVE Agreement(w)'
  BY DEF IsrAnswer, IsrTo, OthersOfIsr, Conversations, Agreement, Handled
<1>6. ASSUME NEW w \in VFs PROVE Notice(w)'
  BY DEF IsrAnswer, IsrTo, OthersOfIsr, Conversations, Notice, Stopped, Silent,
         Told, Unsent
<1>7. ASSUME NEW w \in VFs PROVE Answer(w)'
  BY DEF IsrAnswer, IsrTo, OthersOfIsr, Typed, Conversations, Answer
<1>8. Progress'
  BY DEF IsrAnswer, IsrTo, OthersOfIsr, Progress, Quiet
<1> QED
  BY <1>1, <1>2, <1>3, <1>4, <1>5, <1>6, <1>7, <1>8 DEF Conversations

LEMMA IsrAckKeeps ==
  ASSUME IInv, NEW v \in VFs, IsrAck(v)
  PROVE  IInv'
<1> USE DEF IInv
<1>1. Typed'
  <2>1. isr' \in [VFs -> IsrType]
    <3>1. CASE isr[v].req = "pre_reset"
      BY <3>1, IsrToTyped DEF IsrAck
    <3>2. CASE isr[v].req # "pre_reset"
      BY <3>2, IsrToTyped DEF IsrAck
    <3> QED
      BY <3>1, <3>2 
  <2>2. to_vf' \in [VFs -> ToVfType]
    BY DEF IsrAck, Typed, ToVfType, IsrTo
  <2> QED
    BY <2>1, <2>2 DEF IsrAck, Typed, OthersOfIsr
<1>2. Locks'
  BY DEF IsrAck, IsrTo, OthersOfIsr, Locks
<1>3. Rounds'
  BY DEF IsrAck, IsrTo, OthersOfIsr, Rounds
<1>4. Requests'
  BY DEF IsrAck, IsrTo, OthersOfIsr, Requests
<1>5. ASSUME NEW w \in VFs PROVE Agreement(w)'
  BY DEF IsrAck, IsrTo, OthersOfIsr, Conversations, Agreement, Handled
<1>6. ASSUME NEW w \in VFs PROVE Notice(w)'
  BY DEF IsrAck, IsrTo, OthersOfIsr, Typed, Conversations, Notice, Stopped,
         Silent, Told, Unsent
<1>7. ASSUME NEW w \in VFs PROVE Answer(w)'
  BY DEF IsrAck, IsrTo, OthersOfIsr, Conversations, Notice, Stopped, Silent,
         Answer
<1>8. Progress'
  BY DEF IsrAck, IsrTo, OthersOfIsr, Progress, Quiet
<1> QED
  BY <1>1, <1>2, <1>3, <1>4, <1>5, <1>6, <1>7, <1>8 DEF Conversations

LEMMA IsrStopUsersKeeps ==
  ASSUME IInv, NEW v \in VFs, IsrStopUsers(v)
  PROVE  IInv'
<1> USE DEF IInv
<1>1. Typed'
  <2>1. isr' \in [VFs -> IsrType]
    BY  IsrToTyped DEF IsrStopUsers
  <2>2. vf' \in [VFs -> VfType]
    <3> DEFINE closed == ~vf[v].open
    <3>1. vf' = [vf EXCEPT ![v] = [@ EXCEPT !.reset_active = TRUE, !.valid = closed]]
      BY DEF IsrStopUsers
    <3>2. closed \in BOOLEAN
      BY DEF Typed, VfType
    <3> HIDE DEF closed
    <3> QED
      BY <3>1, <3>2 DEF Typed, VfType
  <2> QED
    BY <2>1, <2>2 DEF IsrStopUsers, Typed, OthersOfIsr
<1>2. Locks'
  BY DEF IsrStopUsers, IsrTo, OthersOfIsr, Locks
<1>3. Rounds'
  BY DEF IsrStopUsers, IsrTo, OthersOfIsr, Rounds
<1>4. Requests'
  BY DEF IsrStopUsers, IsrTo, OthersOfIsr, Requests
<1>5. ASSUME NEW w \in VFs PROVE Agreement(w)'
  BY DEF IsrStopUsers, IsrTo, OthersOfIsr, Typed, VfType, Locks, Conversations,
         Agreement, Handled, Notice, Stopped, Silent, Told
<1>6. ASSUME NEW w \in VFs PROVE Notice(w)'
  BY DEF IsrStopUsers, IsrTo, OthersOfIsr, Typed, Conversations, Notice,
         Stopped, Silent, Told, Unsent
<1>7. ASSUME NEW w \in VFs PROVE Answer(w)'
  BY DEF IsrStopUsers, IsrTo, OthersOfIsr, Conversations, Answer
<1>8. Progress'
  BY DEF IsrStopUsers, IsrTo, OthersOfIsr, Progress, Quiet
<1> QED
  BY <1>1, <1>2, <1>3, <1>4, <1>5, <1>6, <1>7, <1>8 DEF Conversations
-----------------------------------------------------------------------------
(* The PF's interrupt thread.                                              *)

LEMMA ServiceStartKeeps ==
  ASSUME IInv, ServiceStart
  PROVE  IInv'
<1> USE DEF IInv
<1>1. Typed'
  <2>1. service' \in ServiceType
    BY DEF ServiceStart, Typed, ServiceType
  <2> QED
    BY <2>1 DEF ServiceStart, Typed, OthersOfPf
<1>2. Locks'
  BY NamesAssumption DEF ServiceStart, OthersOfPf, Locks
<1>3. Rounds'
  BY DEF ServiceStart, Rounds
<1>4. Requests'
  BY DEF ServiceStart, OthersOfPf, Requests
<1>5. ASSUME NEW w \in VFs PROVE Agreement(w)'
  BY DEF ServiceStart, OthersOfPf, Conversations, Agreement, Handled
<1>6. ASSUME NEW w \in VFs PROVE Notice(w)'
  BY DEF ServiceStart, OthersOfPf, Conversations, Notice, Stopped, Silent,
         Told, Unsent
<1>7. ASSUME NEW w \in VFs PROVE Answer(w)'
  BY DEF ServiceStart, OthersOfPf, Conversations, Answer
<1>8. Progress'
  BY DEF ServiceStart, OthersOfPf, Progress, Quiet
<1> QED
  BY <1>1, <1>2, <1>3, <1>4, <1>5, <1>6, <1>7, <1>8 DEF Conversations

LEMMA ServiceHandleKeeps ==
  ASSUME IInv, NEW v \in VFs, ServiceHandle(v)
  PROVE  IInv'
<1> USE DEF IInv
<1>0. PICK ok \in BOOLEAN :
        /\ service.pc = "serve" /\ v \in service.todo
        /\ service' = [pc |-> "ack", at |-> v, todo |-> service.todo \ {v}]
        /\ to_pf' = [to_pf EXCEPT ![v].resp = ok]
        /\ used' = IF ~ok THEN used
                   ELSE IF to_pf[v].req = "create" THEN used \cup {v} ELSE used \ {v}
        /\ ~ok => to_pf[v].req = "create"
        /\ UNCHANGED <<to_vf, pf_lock, reset, app, isr, vf>>
  BY DEF ServiceHandle, OthersOfPf
<1>1. Typed'
  BY <1>0 DEF Typed, ToPfType, ServiceType
<1>2. Locks'
  BY <1>0 DEF Locks
<1>3. Rounds'
  BY <1>0 DEF Rounds
<1>4. Requests'
  BY <1>0 DEF Requests
<1>5. ASSUME NEW w \in VFs PROVE Agreement(w)'
  BY <1>0 DEF Typed, Requests, Conversations, Agreement, Handled
<1>6. ASSUME NEW w \in VFs PROVE Notice(w)'
  BY <1>0 DEF Conversations, Notice, Stopped, Silent, Told, Unsent
<1>7. ASSUME NEW w \in VFs PROVE Answer(w)'
  BY <1>0 DEF Conversations, Answer
<1>8. Progress'
  BY <1>0 DEF Locks, Progress, Quiet
<1> QED
  BY <1>1, <1>2, <1>3, <1>4, <1>5, <1>6, <1>7, <1>8 DEF Conversations

LEMMA ServiceAckKeeps ==
  ASSUME IInv, ServiceAck
  PROVE  IInv'
<1> USE DEF IInv
<1>1. Typed'
  <2>1. service' \in ServiceType
    BY DEF ServiceAck, Typed, ServiceType
  <2>2. to_pf' \in [VFs -> ToPfType]
    BY DEF ServiceAck, Typed, ToPfType
  <2> QED
    BY <2>1, <2>2 DEF ServiceAck, Typed, OthersOfPf
<1>2. Locks'
  BY DEF ServiceAck, OthersOfPf, Locks
<1>3. Rounds'
  BY DEF ServiceAck, Rounds
<1>4. Requests'
  BY DEF ServiceAck, OthersOfPf, Requests
<1>5. ASSUME NEW w \in VFs PROVE Agreement(w)'
  BY DEF ServiceAck, OthersOfPf, Typed, Conversations, Agreement, Handled
<1>6. ASSUME NEW w \in VFs PROVE Notice(w)'
  BY DEF ServiceAck, OthersOfPf, Conversations, Notice, Stopped, Silent, Told,
         Unsent
<1>7. ASSUME NEW w \in VFs PROVE Answer(w)'
  BY DEF ServiceAck, OthersOfPf, Conversations, Answer
<1>8. Progress'
  BY DEF ServiceAck, OthersOfPf, Progress, Quiet
<1> QED
  BY <1>1, <1>2, <1>3, <1>4, <1>5, <1>6, <1>7, <1>8 DEF Conversations

LEMMA ServiceEndKeeps ==
  ASSUME IInv, ServiceEnd
  PROVE  IInv'
<1> USE DEF IInv
<1>1. Typed'
  <2>1. service' \in ServiceType
    BY DEF ServiceEnd, Typed, ServiceType
  <2> QED
    BY <2>1 DEF ServiceEnd, Typed, OthersOfPf
<1>2. Locks'
  BY NamesAssumption DEF ServiceEnd, OthersOfPf, Locks
<1>3. Rounds'
  BY DEF ServiceEnd, Rounds
<1>4. Requests'
  BY DEF ServiceEnd, OthersOfPf, Requests
<1>5. ASSUME NEW w \in VFs PROVE Agreement(w)'
  BY DEF ServiceEnd, OthersOfPf, Conversations, Agreement, Handled
<1>6. ASSUME NEW w \in VFs PROVE Notice(w)'
  BY DEF ServiceEnd, OthersOfPf, Conversations, Notice, Stopped, Silent, Told,
         Unsent
<1>7. ASSUME NEW w \in VFs PROVE Answer(w)'
  BY DEF ServiceEnd, OthersOfPf, Conversations, Answer
<1>8. Progress'
  BY DEF ServiceEnd, OthersOfPf, Progress, Quiet
<1> QED
  BY <1>1, <1>2, <1>3, <1>4, <1>5, <1>6, <1>7, <1>8 DEF Conversations
-----------------------------------------------------------------------------
(* The reset.                                                              *)

LEMMA ResetPrepareKeeps ==
  ASSUME IInv, ResetPrepare
  PROVE  IInv'
<1> USE DEF IInv
<1>1. Typed'
  <2>1. reset' \in ResetType
    BY QuiesceRoundsAssumption DEF ResetPrepare, Typed, ResetType, LastRound
  <2> QED
    BY <2>1 DEF ResetPrepare, Typed, OthersOfReset, OthersOfPf
<1>2. Locks'
  BY NamesAssumption DEF ResetPrepare, OthersOfReset, OthersOfPf, Locks
<1>3. Rounds'
  BY DEF ResetPrepare, Rounds, LastRound
<1>4. Requests'
  BY DEF ResetPrepare, OthersOfReset, OthersOfPf, Requests
<1>5. ASSUME NEW w \in VFs PROVE Agreement(w)'
  BY DEF ResetPrepare, OthersOfReset, OthersOfPf, Conversations, Agreement,
         Handled
<1>6. ASSUME NEW w \in VFs PROVE Notice(w)'
  BY DEF ResetPrepare, OthersOfReset, OthersOfPf, Conversations, Notice,
         Stopped, Silent, Told, Unsent
<1>7. ASSUME NEW w \in VFs PROVE Answer(w)'
  BY DEF ResetPrepare, OthersOfReset, OthersOfPf, Conversations, Answer
<1>8. Progress'
  BY DEF ResetPrepare, Progress, Quiet
<1> QED
  BY <1>1, <1>2, <1>3, <1>4, <1>5, <1>6, <1>7, <1>8 DEF Conversations

LEMMA ResetNotifyKeeps ==
  ASSUME IInv, NEW v \in VFs, ResetNotify(v)
  PROVE  IInv'
<1> USE DEF IInv
<1>1. Typed'
  <2>1. reset' \in ResetType
    BY QuiesceRoundsAssumption DEF ResetNotify, Typed, ResetType, Send, LastRound
  <2>2. to_vf' \in [VFs -> ToVfType]
    BY QuiesceRoundsAssumption DEF ResetNotify, Typed, ToVfType, Send
  <2> QED
    BY <2>1, <2>2 DEF ResetNotify, Typed, OthersOfReset, OthersOfPf
<1>2. Locks'
  BY DEF ResetNotify, Send, OthersOfReset, OthersOfPf, Locks
<1>3. Rounds'
  BY DEF ResetNotify, Send, Rounds
<1>4. Requests'
  BY DEF ResetNotify, Send, OthersOfReset, OthersOfPf, Requests
<1>5. ASSUME NEW w \in VFs PROVE Agreement(w)'
  BY DEF ResetNotify, Send, OthersOfReset, OthersOfPf, Conversations,
         Agreement, Handled
<1>6. ASSUME NEW w \in VFs PROVE Notice(w)'
  BY DEF ResetNotify, Send, OthersOfReset, OthersOfPf, Typed, Conversations,
         Notice, Stopped, Silent, Told, Unsent
<1>7. ASSUME NEW w \in VFs PROVE Answer(w)'
  BY DEF ResetNotify, Send, OthersOfReset, OthersOfPf, Conversations, Answer
<1>8. Progress'
  BY DEF ResetNotify, Send, Progress, Quiet
<1> QED
  BY <1>1, <1>2, <1>3, <1>4, <1>5, <1>6, <1>7, <1>8 DEF Conversations

LEMMA ResetNotifiedKeeps ==
  ASSUME IInv, ResetNotified
  PROVE  IInv'
<1> USE DEF IInv
<1>1. Typed'
  <2>1. reset' \in ResetType
    BY QuiesceRoundsAssumption DEF ResetNotified, Typed, ResetType, LastRound
  <2> QED
    BY <2>1 DEF ResetNotified, Typed, OthersOfReset, OthersOfPf
<1>2. Locks'
  BY DEF ResetNotified, OthersOfReset, OthersOfPf, Locks
<1>3. Rounds'
  BY DEF ResetNotified, Rounds
<1>4. Requests'
  BY DEF ResetNotified, OthersOfReset, OthersOfPf, Requests
<1>5. ASSUME NEW w \in VFs PROVE Agreement(w)'
  BY DEF ResetNotified, OthersOfReset, OthersOfPf, Conversations, Agreement,
         Handled
<1>6. ASSUME NEW w \in VFs PROVE Notice(w)'
  BY DEF ResetNotified, OthersOfReset, OthersOfPf, Conversations, Notice,
         Stopped, Silent, Told, Unsent
<1>7. ASSUME NEW w \in VFs PROVE Answer(w)'
  BY DEF ResetNotified, OthersOfReset, OthersOfPf, Conversations, Answer
<1>8. Progress'
  BY DEF ResetNotified, Progress, Quiet
<1> QED
  BY <1>1, <1>2, <1>3, <1>4, <1>5, <1>6, <1>7, <1>8 DEF Conversations

LEMMA ResetAskKeeps ==
  ASSUME IInv, ResetAsk
  PROVE  IInv'
<1> USE DEF IInv
<1>1. Typed'
  <2>1. reset' \in ResetType
    BY QuiesceRoundsAssumption DEF ResetAsk, Typed, ResetType, LastRound
  <2> QED
    BY <2>1 DEF ResetAsk, Typed, OthersOfReset, OthersOfPf
<1>2. Locks'
  BY DEF ResetAsk, OthersOfReset, OthersOfPf, Locks
<1>3. Rounds'
  BY DEF ResetAsk, Rounds
<1>4. Requests'
  BY DEF ResetAsk, OthersOfReset, OthersOfPf, Requests
<1>5. ASSUME NEW w \in VFs PROVE Agreement(w)'
  BY DEF ResetAsk, OthersOfReset, OthersOfPf, Conversations, Agreement, Handled
<1>6. ASSUME NEW w \in VFs PROVE Notice(w)'
  BY DEF ResetAsk, OthersOfReset, OthersOfPf, Conversations, Notice, Stopped,
         Silent, Told, Unsent
<1>7. ASSUME NEW w \in VFs PROVE Answer(w)'
  BY DEF ResetAsk, OthersOfReset, OthersOfPf, Conversations, Answer
<1>8. Progress'
  BY DEF ResetAsk, OthersOfReset, Progress, Quiet
<1> QED
  BY <1>1, <1>2, <1>3, <1>4, <1>5, <1>6, <1>7, <1>8 DEF Conversations

LEMMA ResetAskVfKeeps ==
  ASSUME IInv, NEW v \in VFs, ResetAskVf(v)
  PROVE  IInv'
<1> USE DEF IInv
<1>1. Typed'
  <2>1. reset' \in ResetType
    BY QuiesceRoundsAssumption DEF ResetAskVf, Typed, ResetType, Send, LastRound
  <2>2. to_vf' \in [VFs -> ToVfType]
    BY QuiesceRoundsAssumption DEF ResetAskVf, Typed, ToVfType, Send
  <2> QED
    BY <2>1, <2>2 DEF ResetAskVf, Typed, OthersOfReset, OthersOfPf
<1>2. Locks'
  BY DEF ResetAskVf, Send, OthersOfReset, OthersOfPf, Locks
<1>3. Rounds'
  BY DEF ResetAskVf, Send, Rounds
<1>4. Requests'
  BY DEF ResetAskVf, Send, OthersOfReset, OthersOfPf, Requests
<1>5. ASSUME NEW w \in VFs PROVE Agreement(w)'
  BY DEF ResetAskVf, Send, OthersOfReset, OthersOfPf, Conversations, Agreement,
         Handled
<1>6. ASSUME NEW w \in VFs PROVE Notice(w)'
  BY DEF ResetAskVf, Send, OthersOfReset, OthersOfPf, Conversations, Notice,
         Stopped, Silent, Told, Unsent
<1>7. ASSUME NEW w \in VFs PROVE Answer(w)'
  BY DEF ResetAskVf, Send, OthersOfReset, OthersOfPf, Typed, Conversations,
         Answer
<1>8. Progress'
  BY DEF ResetAskVf, Send, OthersOfReset, OthersOfPf, Progress, Quiet
<1> QED
  BY <1>1, <1>2, <1>3, <1>4, <1>5, <1>6, <1>7, <1>8 DEF Conversations

LEMMA ResetQuietKeeps ==
  ASSUME IInv, ResetQuiet
  PROVE  IInv'
<1> USE DEF IInv
<1>0. /\ reset.pc = "ask" /\ reset.todo = {} /\ Concluded(FALSE)
      /\ UNCHANGED <<to_vf, pf_lock, to_pf, service, used, app, isr, vf>>
  BY DEF ResetQuiet, OthersOfReset, OthersOfPf
<1>1. /\ Typed'
      /\ reset'.pc \in {"flr", "relocked", "unlock"}
      /\ reset'.pc = "unlock" => reset'.round \in 1 .. QuiesceRounds
      /\ ~reset'.in_use => reset'.pc = "flr" \/ ~reset.in_use
  <2>1. FALSE \in BOOLEAN
    OBVIOUS
  <2> QED
    BY <1>0, <2>1, ConcludedResult DEF Typed
<1>2. Locks'
  BY <1>0, <1>1 DEF Locks
<1>3. Rounds'
  BY <1>0, <1>1 DEF Rounds
<1>4. Requests'
  BY <1>0, <1>1 DEF Requests
<1>5. ASSUME NEW w \in VFs PROVE Agreement(w)'
  BY <1>0, <1>1 DEF Conversations, Agreement, Handled
<1>6. ASSUME NEW w \in VFs PROVE Notice(w)'
  BY <1>0, <1>1 DEF Conversations, Notice, Stopped, Silent, Told, Unsent
<1>7. ASSUME NEW w \in VFs PROVE Answer(w)'
  BY <1>0, <1>1 DEF Conversations, Answer
<1>8. Progress'
  BY <1>0, <1>1 DEF Progress, Quiet
<1> QED
  BY <1>1, <1>2, <1>3, <1>4, <1>5, <1>6, <1>7, <1>8 DEF Conversations

LEMMA ResetAnsweredKeeps ==
  ASSUME IInv, ResetAnswered
  PROVE  IInv'
<1> USE DEF IInv
<1>0. /\ reset.pc = "asked" /\ ~to_vf[reset.at].bit
      /\ UNCHANGED <<to_vf, pf_lock, to_pf, service, used, app, isr, vf>>
  BY DEF ResetAnswered, OthersOfReset, OthersOfPf
<1>1. /\ Typed'
      /\ \/ /\ reset'.pc \in {"flr", "relocked", "unlock"}
            /\ reset'.pc = "unlock" => reset'.round \in 1 .. QuiesceRounds
            /\ reset'.in_use = reset.in_use
         \/ /\ ~to_vf[reset.at].resp
            /\ reset'.pc = "ask" /\ reset'.at = None
            /\ reset'.todo = reset.todo /\ reset'.in_use = reset.in_use
  <2>1. CASE to_vf[reset.at].resp
    <3>1. Concluded(TRUE)
      BY <2>1 DEF ResetAnswered
    <3> QED
      BY <1>0, <3>1, ConcludedResult DEF Typed
  <2>2. CASE ~to_vf[reset.at].resp
    <3>1. reset' = [reset EXCEPT !.pc = "ask", !.at = None]
      BY <2>2 DEF ResetAnswered
    <3> QED
      BY <1>0, <2>2, <3>1 DEF Typed, ResetType
  <2> QED
    BY <2>1, <2>2
<1>2. Locks'
  BY <1>0, <1>1 DEF Locks
<1>3. Rounds'
  BY <1>0, <1>1 DEF Rounds
<1>4. Requests'
  BY <1>0, <1>1 DEF Requests
<1>5. ASSUME NEW w \in VFs PROVE Agreement(w)'
  BY <1>0, <1>1 DEF Conversations, Agreement, Handled
<1>6. ASSUME NEW w \in VFs PROVE Notice(w)'
  BY <1>0, <1>1 DEF Conversations, Notice, Stopped, Silent, Told, Unsent
<1>7. ASSUME NEW w \in VFs PROVE Answer(w)'
  BY <1>0, <1>1 DEF Conversations, Answer
<1>8. Progress'
  BY <1>0, <1>1 DEF Conversations, Answer, Progress, Quiet
<1> QED
  BY <1>1, <1>2, <1>3, <1>4, <1>5, <1>6, <1>7, <1>8 DEF Conversations

LEMMA ResetTimeoutKeeps ==
  ASSUME IInv, ResetTimeout
  PROVE  IInv'
<1> USE DEF IInv
<1>0. /\ reset.at # None /\ Unresponsive(reset.at)
      /\ UNCHANGED <<to_vf, pf_lock, to_pf, service, used, app, isr, vf>>
  BY DEF ResetTimeout, OthersOfReset, OthersOfPf
<1>1. /\ Typed'
      /\ \/ /\ reset.pc = "asked"
            /\ reset'.pc \in {"flr", "relocked", "unlock"}
            /\ reset'.pc = "unlock" => reset'.round \in 1 .. QuiesceRounds
            /\ reset'.in_use = reset.in_use
         \/ /\ reset.pc = "notified"
            /\ reset'.pc = "notify" /\ reset'.at = None
            /\ reset'.todo = reset.todo /\ reset'.in_use = reset.in_use
  <2>1. CASE reset.pc = "asked" /\ Concluded(TRUE)
    BY <1>0, <2>1, ConcludedResult DEF Typed
  <2>2. CASE /\ reset.pc = "notified"
             /\ reset' = [reset EXCEPT !.pc = "notify", !.at = None]
    BY <1>0, <2>2 DEF Typed, ResetType
  <2> QED
    BY <2>1, <2>2 DEF ResetTimeout
<1>2. Locks'
  BY <1>0, <1>1 DEF Unresponsive, Locks
<1>3. Rounds'
  BY <1>0, <1>1 DEF Unresponsive, Rounds
<1>4. Requests'
  BY <1>0, <1>1 DEF Unresponsive, Requests
<1>5. ASSUME NEW w \in VFs PROVE Agreement(w)'
  BY <1>0, <1>1 DEF Unresponsive, Conversations, Agreement, Handled
<1>6. ASSUME NEW w \in VFs PROVE Notice(w)'
  BY <1>0, <1>1 DEF Unresponsive, Conversations, Notice, Stopped, Silent, Told,
         Unsent
<1>7. ASSUME NEW w \in VFs PROVE Answer(w)'
  BY <1>0, <1>1 DEF Unresponsive, Conversations, Answer
<1>8. Progress'
  BY <1>0, <1>1 DEF Unresponsive, Progress, Quiet
<1> QED
  BY <1>1, <1>2, <1>3, <1>4, <1>5, <1>6, <1>7, <1>8 DEF Conversations

LEMMA ResetSleepKeeps ==
  ASSUME IInv, ResetSleep
  PROVE  IInv'
<1> USE DEF IInv
<1>1. Typed'
  <2>1. reset' \in ResetType
    BY QuiesceRoundsAssumption DEF ResetSleep, Typed, ResetType, LastRound
  <2> QED
    BY <2>1 DEF ResetSleep, Typed, OthersOfReset, OthersOfPf
<1>2. Locks'
  BY NamesAssumption DEF ResetSleep, OthersOfReset, OthersOfPf, Locks
<1>3. Rounds'
  BY DEF ResetSleep, Rounds
<1>4. Requests'
  BY DEF ResetSleep, OthersOfReset, OthersOfPf, Requests
<1>5. ASSUME NEW w \in VFs PROVE Agreement(w)'
  BY DEF ResetSleep, OthersOfReset, OthersOfPf, Conversations, Agreement,
         Handled
<1>6. ASSUME NEW w \in VFs PROVE Notice(w)'
  BY DEF ResetSleep, OthersOfReset, OthersOfPf, Conversations, Notice, Stopped,
         Silent, Told, Unsent
<1>7. ASSUME NEW w \in VFs PROVE Answer(w)'
  BY DEF ResetSleep, OthersOfReset, OthersOfPf, Conversations, Answer
<1>8. Progress'
  BY DEF ResetSleep, Progress, Quiet
<1> QED
  BY <1>1, <1>2, <1>3, <1>4, <1>5, <1>6, <1>7, <1>8 DEF Conversations

LEMMA ResetRelockKeeps ==
  ASSUME IInv, ResetRelock
  PROVE  IInv'
<1> USE DEF IInv
<1>1. Typed'
  <2>1. reset' \in ResetType
    <3>1. reset.round + 1 \in 0 .. LastRound
       BY QuiesceRoundsAssumption DEF Rounds, ResetRelock, LastRound, Typed, ResetType
    <3> QED
      BY <3>1 DEF ResetRelock, Typed, ResetType
  <2> QED
    BY <2>1 DEF ResetRelock, Typed, OthersOfReset, OthersOfPf
<1>2. Locks'
  BY NamesAssumption DEF ResetRelock, OthersOfReset, OthersOfPf, Locks
<1>3. Rounds'
  BY QuiesceRoundsAssumption DEF ResetRelock, Rounds, LastRound
<1>4. Requests'
  BY DEF ResetRelock, OthersOfReset, OthersOfPf, Requests
<1>5. ASSUME NEW w \in VFs PROVE Agreement(w)'
  BY DEF ResetRelock, OthersOfReset, OthersOfPf, Conversations, Agreement,
         Handled
<1>6. ASSUME NEW w \in VFs PROVE Notice(w)'
  BY DEF ResetRelock, OthersOfReset, OthersOfPf, Conversations, Notice,
         Stopped, Silent, Told, Unsent
<1>7. ASSUME NEW w \in VFs PROVE Answer(w)'
  BY DEF ResetRelock, OthersOfReset, OthersOfPf, Conversations, Answer
<1>8. Progress'
  BY DEF ResetRelock, Progress, Quiet
<1> QED
  BY <1>1, <1>2, <1>3, <1>4, <1>5, <1>6, <1>7, <1>8 DEF Conversations

-----------------------------------------------------------------------------
(* IInv is inductive.                                                      *)

LEMMA InitIInv == Init => IInv
<1> SUFFICES ASSUME Init
             PROVE  IInv
  OBVIOUS
<1>1. Typed
  BY QuiesceRoundsAssumption
     DEF Init, Typed, AppType, IsrType, VfType, ToPfType, ToVfType, ServiceType,
         ResetType, LastRound
<1>2. Locks
  BY NamesAssumption DEF Init, Locks
<1>3. Rounds /\ Requests /\ Progress
  BY DEF Init, Rounds, Requests, Progress
<1>4. Conversations
  BY DEF Init, Conversations, Agreement, Notice, Unsent, Silent, Answer
<1> QED
  BY <1>1, <1>2, <1>3, <1>4 DEF IInv

LEMMA NextIInv == IInv /\ [Next]_vars => IInv'
<1> SUFFICES ASSUME IInv, [Next]_vars
             PROVE  IInv'
  OBVIOUS
<1>1. CASE \E v \in VFs : AppCreate(v) \/ AppClose(v) \/ Crash(v) \/ App(v) \/ Isr(v)
  BY <1>1, AppCreateKeeps, AppCloseSendsKeeps, AppCloseFreesKeeps, CrashKeeps,
     AppSendKeeps, AppFinishKeeps, IsrStartKeeps, IsrReadKeeps, IsrAnswerKeeps,
     IsrAckKeeps, IsrStopUsersKeeps DEF App, Isr
<1>2. CASE ResetPrepare
  BY <1>2, ResetPrepareKeeps
<1>3. CASE Service
  BY <1>3, ServiceStartKeeps, ServiceHandleKeeps, ServiceAckKeeps, ServiceEndKeeps
     DEF Service
<1>4. CASE Reset
  BY <1>4, ResetNotifyKeeps, ResetAskVfKeeps, ResetNotifiedKeeps, ResetAskKeeps,
     ResetQuietKeeps, ResetAnsweredKeeps, ResetTimeoutKeeps, ResetSleepKeeps,
     ResetRelockKeeps DEF Reset
<1>5. CASE UNCHANGED vars
  BY <1>5 DEF vars, IInv, Typed, Locks, Rounds, Requests, Conversations, Progress,
              Handled, Agreement, Unsent, Silent, Told, Stopped, Notice, Answer, Quiet
<1> QED
  BY <1>1, <1>2, <1>3, <1>4, <1>5 DEF Next

LEMMA Inductive == Spec => []IInv
  BY InitIInv, NextIInv, PTL DEF Spec

-----------------------------------------------------------------------------
(* The theorems                                                            *)

(* The threads, mailboxes and mutexes keep their shape: a VF's mutex is    *)
(* held exactly while its application is in the driver, the PF's by the    *)
(* one of its threads that is at work, and not by a reset that sleeps.     *)
THEOREM VfMailboxTypes == Spec => []TypeOK
<1>1. ASSUME IInv
      PROVE  TypeOK
  <2> USE <1>1 DEF IInv
  <2>1. \A v \in VFs :
          /\ vf[v].lock = IF app[v].pc = "idle" THEN Nobody ELSE "app"
          /\ {vf[v].reset_active, vf[v].open, vf[v].valid, vf[v].alive} \subseteq BOOLEAN
    BY NamesAssumption DEF Typed, Locks, VfType
  <2>2. pf_lock = CASE service.pc # "idle" -> "service"
                    [] reset.pc \notin {"idle", "sleep"} -> "reset"
                    [] OTHER -> Nobody
    BY NamesAssumption DEF Locks
  <2> QED
    BY <2>1, <2>2 DEF TypeOK, Typed, AppType, IsrType, ToPfType, ToVfType, ResetType
<1> QED
  BY <1>1, Inductive, PTL

(* Each request of a VF got the response to itself: between requests a VF  *)
(* has a domain open exactly when the PF has it configured, until the      *)
(* pre-reset notification disables the domain.                             *)
THEOREM BothSidesDoAgree == Spec => []BothSidesAgree
<1>1. IInv => BothSidesAgree
  BY DEF IInv, Conversations, Agreement, BothSidesAgree
<1> QED
  BY <1>1, Inductive, PTL

(* The reset begins believing that nothing is in use only if no VF that    *)
(* still runs has a domain, or is about to get one from a request under    *)
(* way, however its threads and the queries were interleaved.              *)
THEOREM AllQuietAtFlr == Spec => []QuietAtFlr
<1>1. ASSUME IInv, reset.pc = "flr", ~reset.in_use, NEW v \in VFs, vf[v].alive
      PROVE  ~HasDomain(v)
  <2> USE <1>1 DEF IInv
  <2>1. service.pc = "idle"
    BY NamesAssumption DEF Locks
  <2>2. Quiet(v)
    BY DEF Progress
  <2>3. Handled(v) <=> Answered(v)
    BY <2>1 DEF Handled, Answered
  <2> QED
    BY <2>2, <2>3 DEF Quiet, Conversations, Agreement, HasDomain
<1>2. IInv => QuietAtFlr
  BY <1>1 DEF QuietAtFlr
<1> QED
  BY <1>2, Inductive, PTL

(* The PF ends its wait for the acknowledgement of a pre-reset             *)
(* notification only if the acknowledgement came, or the VF is dead.  A VF *)
(* acknowledges it before it waits for its mutex, which its application    *)
(* holds while it polls for an answer of the PF.                           *)
THEOREM NoticesDoNotTimeOut == Spec => NoNoticeTimesOut
<1>1. ASSUME IInv, [Next]_vars, reset.pc = "notified", reset'.pc = "notify"
      PROVE  ~to_vf[reset.at].bit \/ ~vf[reset.at].alive
  <2> USE <1>1 DEF IInv
  <2>1. SUFFICES ASSUME ResetTimeout, to_vf[reset.at].bit, vf[reset.at].alive
                 PROVE  FALSE
    BY DEF Next, vars, OthersOfVf, OthersOfIsr, OthersOfPf, OthersOfReset, AppCreate,
           AppClose, Crash, App, AppSend, AppFinish, Isr, IsrStart, IsrRead, IsrAnswer,
           IsrAck, IsrStopUsers, ResetPrepare, Service, ServiceStart, ServiceHandle,
           ServiceAck, ServiceEnd, Reset, ResetNotify, ResetAskVf, ResetNotified,
           ResetAsk, ResetQuiet, ResetAnswered, ResetSleep, ResetRelock
  <2>2. reset.at \in VFs
    BY DEF Rounds
  <2>3. Told(reset.at)
    BY <2>1, <2>2 DEF Rounds, Conversations, Notice, Unsent
  <2> QED
    BY <2>1, <2>3 DEF ResetTimeout, Unresponsive, Told
<1> QED
  BY <1>1, Inductive, PTL DEF Spec, NoNoticeTimesOut

=============================================================================
