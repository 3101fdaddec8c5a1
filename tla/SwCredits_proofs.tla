-------------------------- MODULE SwCredits_proofs --------------------------
(***************************************************************************)
(* The software credits for every number of ports, credits and events and  *)
(* all thresholds.                                                         *)
(*                                                                         *)
(* Shape is inductive by itself.  Inv adds that each port is sound and     *)
(* that the credits are conserved.  Each step is shown to be a step of one *)
(* port that moves certain credits between the unused and the stored ones  *)
(* (Done); Moved then says what that does to the sums over all ports, so   *)
(* that no action has to be looked at more than locally.                   *)
(***************************************************************************)
EXTENDS SwCredits, SumTheorems, SequenceTheorems

-----------------------------------------------------------------------------
(* The types of the local states of the agents.                            *)

(* What a send may carry.                                                  *)
Events == Types \cup {Free}

(* The calls of dlb2_check_and_release_credits that can be pending.        *)
Calls == [policy : Policies, cond : BOOLEAN]

(* Where the thread of a port, and a thread that disables a port, can be.  *)
IoPlaces == {"idle", "build", "refresh", "charge", "release", "deduct",
             "ready", "low_pool", "wait", "take", "credit"}
CtlPlaces == {"idle", "release", "deduct", "ioctl", "clear"}

(* Where a release of credits by the thread of a port can lead.            *)
IoNexts == {"idle", "ready", "wait", "credit"}

(* The local state of an agent.                                            *)
AgentType ==
  [pc : IoPlaces \cup CtlPlaces, next : IoNexts \cup {"ioctl"}, calls : Seq(Calls),
   types : Seq(Types), val : Nat, held : BOOLEAN, want : Seq(Events),
   chunk : Seq(Events), used : [Types -> Nat], count : Nat, seen : Nat,
   tried : BOOLEAN, max : Nat, wait : BOOLEAN, pop : BOOLEAN, taken : Nat,
   got : Nat, sched_only : BOOLEAN]

(* No credits, of either type.                                             *)
NoneUsed == [t \in Types |-> 0]

(* An agent with no credits in use and no events in hand.                  *)
Resting(r) == r.used = NoneUsed /\ r.chunk = <<>>

(* What an agent has at each place of the code.                            *)
Placed(r) ==
  /\ r.pc \in {"release", "deduct", "low_pool"} => r.types # <<>>
  /\ r.pc \in {"release", "deduct"} => r.calls # <<>>
  /\ r.pc = "refresh" => r.want # <<>> /\ Head(r.want) \in Types
  /\ r.pc \notin {"build", "refresh", "charge"} => Resting(r)
  /\ r.pc = "charge" => r.chunk = <<>>
  /\ r.pc = "low_pool" => r.next \in {"wait", "credit"}
  /\ r.taken # 0 => \/ r.pc = "credit"
                    \/ r.pc \in {"release", "deduct", "low_pool"} /\ r.next = "credit"
  /\ Len(r.chunk) <= ChunkSize

(* The two kinds of agents.                                                *)
IoOK(r) ==
  r \in AgentType /\ Placed(r) /\ r.pc \in IoPlaces /\ r.next \in IoNexts
CtlOK(r) ==
  r \in AgentType /\ Placed(r) /\ r.pc \in CtlPlaces /\ (r.pc # "idle" => r.next = "ioctl")

(* The agent a may have the local state r.                                 *)
AgentOK(a, r) == IF a[2] = "io" THEN IoOK(r) ELSE CtlOK(r)

(* All agents have a local state of their kind.                            *)
AgentsOK == th \in [Agents -> AgentType] /\ \A a \in Agents : AgentOK(a, th[a])

-----------------------------------------------------------------------------
(* Lemmas about the tables and the local states.                           *)

(* The five policies of credit_return[].                                   *)
LEMMA PoliciesAre ==
  Policies = {"ZERO_DEQ", "ENQ_FAIL", "BATCH_SZ_EXCEED", "BATCH_2SZ_EXCEED", "RETURN_ALL"}
BY DEF Policies, cnt_thres

(* No policy keeps more credits than it asks for, so what it returns is    *)
(* never negative.                                                         *)
LEMMA TablesType ==
  ASSUME NEW y \in Policies
  PROVE  /\ cnt_thres[y] \in Nat /\ credit_rem[y] \in Nat /\ credit_thres[y] \in Nat
         /\ credit_rem[y] <= credit_thres[y]
<1>1. /\ Batch \in Nat /\ ZeroDeqThres \in Nat /\ EnqFailThres \in Nat /\ BatchThres \in Nat
      /\ 2 * Batch \in Nat /\ Batch <= 2 * Batch
  BY SwCreditsAssumption
<1>2. CASE y \in {"ZERO_DEQ", "ENQ_FAIL"}
  BY <1>1, <1>2 DEF cnt_thres, credit_rem, credit_thres
<1>3. CASE y = "BATCH_SZ_EXCEED"
  BY <1>1, <1>3 DEF cnt_thres, credit_rem, credit_thres
<1>4. CASE y = "BATCH_2SZ_EXCEED"
  BY <1>1, <1>4 DEF cnt_thres, credit_rem, credit_thres
<1>5. CASE y = "RETURN_ALL"
  BY <1>1, <1>5 DEF cnt_thres, credit_rem, credit_thres
<1> QED
  BY <1>2, <1>3, <1>4, <1>5, PoliciesAre

(* The types a release goes through are credit types, and there is one.    *)
LEMMA PoolTypesType == PoolTypes \in Seq(Types) /\ PoolTypes # <<>>
<1>1. <<"LDB">> \in Seq(Types) /\ <<"LDB", "DIR">> \in Seq(Types)
  BY DEF Types
<1> QED
  BY <1>1 DEF PoolTypes

(* A pending call is one of the calls.                                     *)
LEMMA CallType ==
  ASSUME NEW y \in Policies, NEW c \in BOOLEAN
  PROVE  Call(y, c) \in Calls /\ <<Call(y, c)>> \in Seq(Calls) /\ <<Call(y, c)>> # <<>>
BY DEF Call, Calls

(* Outside any call an agent is as it should be, whatever its last receive *)
(* returned.                                                               *)
LEMMA IdleOK ==
  ASSUME NEW g \in Nat
  PROVE  IoOK(Idle(g)) /\ CtlOK(Idle(g))
<1>1. ChunkSize \in Nat /\ Len(<<>>) = 0
  BY SwCreditsAssumption
<1>2. Idle(g) \in AgentType
  BY DEF AgentType, Idle, IoPlaces, IoNexts, Events, Types
<1> QED
  BY <1>1, <1>2 DEF IoOK, CtlOK, Placed, Resting, NoneUsed, Idle, IoPlaces, CtlPlaces, IoNexts

(* An agent that begins to release credits keeps its type.                 *)
LEMMA ReleasingType ==
  ASSUME NEW r \in AgentType, NEW calls \in Seq(Calls), NEW next \in IoNexts \cup {"ioctl"}
  PROVE  Releasing(r, calls, next) \in AgentType
BY PoolTypesType DEF AgentType, Releasing, IoPlaces

(* An agent with nothing in hand may begin to release credits and then go  *)
(* on at any place of its kind.                                            *)
LEMMA ReleasingOK ==
  ASSUME NEW r \in AgentType, Resting(r), NEW calls \in Seq(Calls), calls # <<>>,
         NEW next \in IoNexts \cup {"ioctl"}, r.taken # 0 => next = "credit"
  PROVE  /\ next \in IoNexts => IoOK(Releasing(r, calls, next))
         /\ next = "ioctl" => CtlOK(Releasing(r, calls, next))
<1> DEFINE x == Releasing(r, calls, next)
<1>1. x \in AgentType
  BY ReleasingType
<1>2. /\ x.pc = "release" /\ x.next = next /\ x.calls = calls /\ x.types = PoolTypes
      /\ x.used = r.used /\ x.chunk = r.chunk /\ x.taken = r.taken
  BY DEF Releasing, AgentType
<1>3. ChunkSize \in Nat /\ Len(<<>>) = 0
  BY SwCreditsAssumption
<1> HIDE DEF x
<1>4. Placed(x)
  BY <1>2, <1>3, PoolTypesType DEF Placed, Resting
<1> QED
  BY <1>1, <1>2, <1>4 DEF IoOK, CtlOK, IoPlaces, CtlPlaces, x

(* The 16-bit words: 0, and every number up to 65535.                      *)
LEMMA WordsAre ==
  ASSUME NEW n
  PROVE  n \in Words <=> n \in Int /\ 0 <= n /\ n <= 65535
<1>1. MaxWord \in Int /\ MaxWord <= 65535 /\ 65535 <= MaxWord
  BY DEF MaxWord
<1> QED
  BY <1>1 DEF Words

(* u16 gives a word, and does not change one.                              *)
LEMMA U16 ==
  ASSUME NEW n \in Int
  PROVE  u16(n) \in Words /\ (0 <= n /\ n <= 65535 => u16(n) = n)
<1>1. u16(n) \in Int /\ 0 <= u16(n) /\ u16(n) <= 65535
  BY DEF u16
<1>2. 0 <= n /\ n <= 65535 => u16(n) = n
  BY DEF u16
<1> QED
  BY <1>1, <1>2, WordsAre

(* Head and tail of a sequence that is not empty.                          *)
LEMMA TailType ==
  ASSUME NEW S, NEW s \in Seq(S), s # <<>>
  PROVE  Head(s) \in S /\ Tail(s) \in Seq(S) /\ Len(s) \in Nat \ {0}
         /\ Len(Tail(s)) = Len(s) - 1 /\ (Len(s) > 1 => Tail(s) # <<>>)
OBVIOUS

(* The local state after the last type of the last pending call.           *)
GoOnTo(r) ==
  GoOn([r EXCEPT !.calls = <<>>, !.types = <<>>, !.val = 0, !.held = FALSE], r.next)

(* The local state after one credit type of a call, as NextType leaves it. *)
AfterType(r) ==
  IF Len(r.types) > 1
  THEN [r EXCEPT !.pc = "release", !.types = Tail(@), !.val = 0]
  ELSE IF Tail(r.calls) = <<>> THEN GoOnTo(r)
       ELSE Releasing([r EXCEPT !.val = 0], Tail(r.calls), r.next)

(* NextType leaves the agent in AfterType.                                 *)
LEMMA AfterTypeIs ==
  ASSUME NEW a, NEW r, NextType(a, r)
  PROVE  th' = [th EXCEPT ![a] = AfterType(r)]
BY DEF NextType, AfterType, GoOnTo

(* The counts of the policies are words.                                   *)
Counted == ret_count \in [Ports -> [Policies -> Words]]

(* NextType keeps the counts of the policies words.                        *)
LEMMA NextTypeCounts ==
  ASSUME NEW a \in Agents, NEW r \in AgentType, r.calls # <<>>, Counted, NextType(a, r)
  PROVE  Counted'
<1> DEFINE y == Head(r.calls).policy
           p == a[1]
<1>1. y \in Policies
  <2>1. r.calls \in Seq(Calls)
    BY DEF AgentType
  <2>2. Head(r.calls) \in Calls
    BY <2>1, TailType
  <2> QED
    BY <2>2 DEF Calls
<1>2. p \in Ports
  BY DEF Agents
<1>3. CASE ret_count' = ret_count
  BY <1>3 DEF Counted
<1>4. CASE ret_count' = [ret_count EXCEPT ![p][y] = IF r.held THEN u16(@ + 1) ELSE 0]
  <2> HIDE DEF y, p
  <2>1. ret_count[p][y] \in Int
    BY <1>1, <1>2, WordsAre DEF Counted
  <2>2. u16(ret_count[p][y] + 1) \in Words
    BY <2>1, U16
  <2> DEFINE n == IF r.held THEN u16(ret_count[p][y] + 1) ELSE 0
  <2>3. n \in Words
    BY <2>2, WordsAre
  <2>4. ret_count' = [ret_count EXCEPT ![p][y] = n]
    BY <1>4
  <2> HIDE DEF n
  <2> QED
    BY <1>1, <1>2, <2>3, <2>4 DEF Counted
<1> QED
  BY <1>3, <1>4 DEF NextType

(* AfterType is a local state of the same kind of agent.                   *)
LEMMA AfterTypeOK ==
  ASSUME NEW a \in Agents, NEW r, AgentOK(a, r), r.pc \in {"release", "deduct"}
  PROVE  AgentOK(a, AfterType(r))
<1>1. r \in AgentType /\ Placed(r) /\ r.types \in Seq(Types) /\ r.calls \in Seq(Calls)
      /\ r.types # <<>> /\ r.calls # <<>> /\ Resting(r)
  BY DEF AgentOK, IoOK, CtlOK, AgentType, Placed
<1>2. CASE Len(r.types) > 1
  <2> DEFINE x == [r EXCEPT !.pc = "release", !.types = Tail(@), !.val = 0]
  <2>1. Tail(r.types) \in Seq(Types) /\ Tail(r.types) # <<>>
    BY <1>1, <1>2, TailType
  <2>2. x \in AgentType
    BY <1>1, <2>1 DEF AgentType, IoPlaces
  <2>3. Placed(x) /\ x.pc = "release" /\ x.next = r.next
    BY <1>1, <2>1 DEF AgentType, Placed, Resting
  <2>4. AfterType(r) = x
    BY <1>2 DEF AfterType
  <2> HIDE DEF x
  <2>5. CASE a[2] = "io"
    BY <2>2, <2>3, <2>4, <2>5 DEF AgentOK, IoOK, IoPlaces
  <2>6. CASE a[2] # "io"
    BY <2>2, <2>3, <2>4, <2>6 DEF AgentOK, CtlOK, CtlPlaces
  <2> QED
    BY <2>5, <2>6
<1>3. CASE ~(Len(r.types) > 1) /\ Tail(r.calls) # <<>>
  <2> DEFINE x == [r EXCEPT !.val = 0]
  <2>1. Tail(r.calls) \in Seq(Calls)
    BY <1>1, TailType
  <2>2. x \in AgentType /\ Resting(x) /\ x.taken = r.taken
    BY <1>1 DEF AgentType, Resting
  <2>3. AfterType(r) = Releasing(x, Tail(r.calls), r.next)
    BY <1>3 DEF AfterType
  <2>4. r.next \in IoNexts \cup {"ioctl"} /\ (r.taken # 0 => r.next = "credit")
    BY <1>1 DEF AgentType, Placed
  <2> HIDE DEF x
  <2>5. /\ r.next \in IoNexts => IoOK(Releasing(x, Tail(r.calls), r.next))
        /\ r.next = "ioctl" => CtlOK(Releasing(x, Tail(r.calls), r.next))
    BY <1>3, <2>1, <2>2, <2>4, ReleasingOK
  <2> QED
    BY <2>3, <2>5 DEF AgentOK, IoOK, CtlOK
<1>4. CASE ~(Len(r.types) > 1) /\ Tail(r.calls) = <<>>
  <2>1. AfterType(r) = GoOnTo(r)
    BY <1>4 DEF AfterType
  <2>2. CASE r.next = "idle"
    <3>1. GoOnTo(r) = Idle(r.got) /\ r.got \in Nat
      BY <1>1, <2>2 DEF GoOnTo, GoOn, AgentType
    <3> QED
      BY <2>1, <3>1, IdleOK DEF AgentOK
  <2>3. CASE r.next # "idle"
    <3> DEFINE x == [r EXCEPT !.calls = <<>>, !.types = <<>>, !.val = 0, !.held = FALSE,
                              !.pc = r.next]
    <3>1. GoOnTo(r) = x
      BY <2>3 DEF GoOnTo, GoOn
    <3>2. r.next \in {"ready", "wait", "credit", "ioctl"} /\ (r.taken # 0 => r.next = "credit")
      BY <1>1, <2>3 DEF AgentType, Placed, IoNexts
    <3>3. x \in AgentType
      <4>1. r.next \in IoPlaces \cup CtlPlaces
        BY <3>2 DEF IoPlaces, CtlPlaces
      <4>2. <<>> \in Seq(Calls) /\ <<>> \in Seq(Types) /\ 0 \in Nat /\ FALSE \in BOOLEAN
        OBVIOUS
      <4> QED
        BY <1>1, <4>1, <4>2 DEF AgentType
    <3>4. /\ x.pc = r.next /\ x.next = r.next /\ x.taken = r.taken /\ x.used = r.used
          /\ x.chunk = r.chunk
      BY <1>1 DEF AgentType
    <3> HIDE DEF x
    <3>5. Placed(x)
      BY <1>1, <3>2, <3>4 DEF Placed, Resting
    <3>6. CASE a[2] = "io"
      BY <2>1, <3>1, <3>2, <3>3, <3>4, <3>5, <3>6 DEF AgentOK, IoOK, IoPlaces, IoNexts
    <3>7. CASE a[2] # "io"
      BY <2>1, <3>1, <3>2, <3>3, <3>4, <3>5, <3>7 DEF AgentOK, CtlOK, CtlPlaces, IoNexts
    <3> QED
      BY <3>6, <3>7
  <2> QED
    BY <2>2, <2>3
<1> QED
  BY <1>2, <1>3, <1>4

-----------------------------------------------------------------------------
(* What holds of the state whatever the counters say: Shape, the type      *)
(* invariant in the form that is inductive, and that each action keeps it. *)

(* The two agents of a port differ from each other and from those of any   *)
(* other port.                                                             *)
LEMMA AgentsAre ==
  ASSUME NEW p \in Ports
  PROVE  /\ io(p) \in Agents /\ ctl(p) \in Agents /\ io(p) # ctl(p)
         /\ io(p)[1] = p /\ io(p)[2] = "io" /\ ctl(p)[1] = p /\ ctl(p)[2] = "ctl"
         /\ \A q \in Ports \ {p} : /\ io(q) \notin {io(p), ctl(p)}
                                 /\ ctl(q) \notin {io(p), ctl(p)}
BY DEF io, ctl, Agents

(* Both agents of a port have a local state of their kind.                 *)
LEMMA TheAgents ==
  ASSUME NEW p \in Ports, AgentsOK
  PROVE  /\ IoOK(th[io(p)]) /\ CtlOK(th[ctl(p)])
         /\ th[io(p)] \in AgentType /\ th[ctl(p)] \in AgentType
<1>1. AgentOK(io(p), th[io(p)]) /\ AgentOK(ctl(p), th[ctl(p)])
  BY AgentsAre DEF AgentsOK
<1> QED
  BY <1>1, AgentsAre DEF AgentOK, IoOK, CtlOK

(* A step of one agent to a local state of its kind keeps all of them.     *)
LEMMA PutAgent ==
  ASSUME AgentsOK, NEW a \in Agents, NEW x, AgentOK(a, x), th' = [th EXCEPT ![a] = x]
  PROVE  AgentsOK' /\ th'[a] = x /\ \A b \in Agents \ {a} : th'[b] = th[b]
<1>1. x \in AgentType
  BY DEF AgentOK, IoOK, CtlOK
<1>2. th'[a] = x /\ \A b \in Agents \ {a} : th'[b] = th[b]
  BY DEF AgentsOK
<1>3. th' \in [Agents -> AgentType]
  BY <1>1 DEF AgentsOK
<1>4. \A b \in Agents : AgentOK(b, th'[b])
  BY <1>2 DEF AgentsOK
<1>5. AgentsOK'
  BY <1>3, <1>4 DEF AgentsOK, AgentOK, IoOK, CtlOK
<1> QED
  BY <1>2, <1>5

(* The same for the thread of a port.                                      *)
LEMMA PutIo ==
  ASSUME AgentsOK, NEW p \in Ports, NEW x, IoOK(x), th' = [th EXCEPT ![io(p)] = x]
  PROVE  AgentsOK'
<1>1. AgentOK(io(p), x) /\ io(p) \in Agents
  BY AgentsAre DEF AgentOK
<1> QED
  BY <1>1, PutAgent

(* The same for a thread that disables a port.                             *)
LEMMA PutCtl ==
  ASSUME AgentsOK, NEW p \in Ports, NEW x, CtlOK(x), th' = [th EXCEPT ![ctl(p)] = x]
  PROVE  AgentsOK'
<1>1. AgentOK(ctl(p), x) /\ ctl(p) \in Agents
  BY AgentsAre DEF AgentOK
<1> QED
  BY <1>1, PutAgent

(* The caches are words.                                                   *)
Caches == num \in [Ports -> [Types -> Words]]

(* The type of everything but the agents.                                  *)
Data ==
  /\ pool \in [Types -> Nat]
  /\ Caches
  /\ Counted
  /\ enabled \in [Ports -> BOOLEAN]
  /\ scheduling \in [Ports -> BOOLEAN]
  /\ device \in [Types -> Nat]
  /\ cq \in [Ports -> Nat]

(* The type invariant, with what the agents have at each place.            *)
Shape == Data /\ AgentsOK

(* Shape implies the type invariant that the runs check.                   *)
LEMMA ShapeTypeOK == Shape => TypeOK
<1> SUFFICES ASSUME Shape PROVE TypeOK
  OBVIOUS
<1>1. ASSUME NEW a \in Agents
      PROVE  /\ th[a].pc \in {"idle", "build", "refresh", "charge", "release", "deduct",
                        "ready", "low_pool", "wait", "take", "credit", "ioctl", "clear"}
             /\ th[a].pc \in {"release", "deduct", "low_pool"} => th[a].types # <<>>
             /\ th[a].pc \in {"release", "deduct"} => th[a].calls # <<>>
             /\ th[a].pc = "refresh" => th[a].want # <<>>
  <2>1. AgentOK(a, th[a])
    BY DEF Shape, AgentsOK
  <2>2. Placed(th[a]) /\ (th[a].pc \in IoPlaces \/ th[a].pc \in CtlPlaces)
    BY <2>1 DEF AgentOK, IoOK, CtlOK
  <2> QED
    BY <2>2 DEF Placed, IoPlaces, CtlPlaces
<1> QED
  BY <1>1 DEF Shape, Data, Caches, Counted, TypeOK

(* Shape holds at the start.                                               *)
LEMMA InitShape == Init => Shape
<1> SUFFICES ASSUME Init PROVE Shape
  OBVIOUS
<1>1. 0 \in Words /\ 0 \in Nat
  BY WordsAre
<1>2. Data
  BY <1>1, SwCreditsAssumption DEF Init, Data, Caches, Counted
<1>3. \A a \in Agents : AgentOK(a, Idle(0)) /\ Idle(0) \in AgentType
  BY IdleOK DEF AgentOK, IoOK
<1>4. AgentsOK
  BY <1>3 DEF Init, AgentsOK
<1> QED
  BY <1>2, <1>4 DEF Shape

(* One entry of the caches changes.                                        *)
LEMMA PutNum ==
  ASSUME Caches, NEW p \in Ports, NEW t \in Types, NEW n \in Words,
         num' = [num EXCEPT ![p][t] = n]
  PROVE  Caches'
BY DEF Caches

(* A cache as a number.                                                    *)
LEMMA NumType ==
  ASSUME Caches, NEW p \in Ports, NEW t \in Types
  PROVE  num[p][t] \in Int /\ 0 <= num[p][t] /\ num[p][t] <= 65535
<1>1. num[p][t] \in Words
  BY DEF Caches
<1> QED
  BY <1>1, WordsAre

(* The head of the types and of the calls of an agent that releases.       *)
LEMMA HeadTypes ==
  ASSUME NEW a \in Agents, NEW r, AgentOK(a, r), r.pc \in {"release", "deduct", "low_pool"}
  PROVE  /\ r \in AgentType /\ Resting(r) /\ a[1] \in Ports
         /\ Head(r.types) \in Types
         /\ r.pc # "low_pool" => r.calls # <<>> /\ Head(r.calls) \in Calls
<1>1. r \in AgentType /\ Placed(r)
  BY DEF AgentOK, IoOK, CtlOK
<1>2. r.types \in Seq(Types) /\ r.types # <<>> /\ r.calls \in Seq(Calls) /\ Resting(r)
  BY <1>1 DEF AgentType, Placed
<1>3. r.pc # "low_pool" => r.calls # <<>>
  BY <1>1 DEF Placed
<1>4. a[1] \in Ports
  BY DEF Agents
<1> QED
  BY <1>1, <1>2, <1>3, <1>4, TailType

(* The addition to the pool keeps Shape: what a policy returns is not      *)
(* negative.                                                               *)
LEMMA GiveBackShape ==
  ASSUME Shape, NEW a \in Agents, GiveBack(a)
  PROVE  Shape'
<1> DEFINE r == th[a]
           t == Head(r.types)
           y == Head(r.calls).policy
           val == num[a[1]][t] - credit_rem[y]
           x == [r EXCEPT !.pc = "deduct", !.val = val]
<1>1. AgentOK(a, r) /\ r.pc = "release"
  BY DEF Shape, AgentsOK, GiveBack
<1>2. /\ r \in AgentType /\ Resting(r) /\ a[1] \in Ports /\ t \in Types
      /\ Head(r.calls) \in Calls /\ y \in Policies
  BY <1>1, HeadTypes DEF Calls
<1>3. val \in Nat
  <2>1. num[a[1]][t] > credit_thres[y]
    BY DEF GiveBack, Exceeds
  <2>2. num[a[1]][t] \in Int
    BY <1>2, NumType DEF Shape, Data
  <2> HIDE DEF t, y, r
  <2> QED
    BY <1>2, <2>1, <2>2, TablesType
<1>4. x \in AgentType
  <2> HIDE DEF val, r
  <2> QED
    BY <1>2, <1>3 DEF AgentType, IoPlaces
<1>5. /\ pool' = [pool EXCEPT ![t] = @ + val]
      /\ th' = [th EXCEPT ![a] = x]
      /\ UNCHANGED <<num, ret_count, enabled, scheduling, device, cq>>
  BY DEF GiveBack, portVars, eventVars
<1>6. Data'
  <2>1. pool' \in [Types -> Nat]
    <3> HIDE DEF val, t
    <3> QED
      BY <1>2, <1>3, <1>5 DEF Shape, Data
  <2> QED
    BY <1>5, <2>1 DEF Shape, Data, Caches, Counted
<1>7. AgentOK(a, x)
  <2> HIDE DEF val
  <2>1. x.pc = "deduct" /\ Placed(x) /\ x.next = r.next
    <3> HIDE DEF r
    <3>1. Placed(r)
      BY <1>1 DEF AgentOK, IoOK, CtlOK
    <3> QED
      BY <1>1, <1>2, <3>1 DEF Placed, Resting, AgentType
  <2> HIDE DEF x, r
  <2>2. CASE a[2] = "io"
    BY <1>1, <1>4, <2>1, <2>2 DEF AgentOK, IoOK, IoPlaces
  <2>3. CASE a[2] # "io"
    BY <1>1, <1>4, <2>1, <2>3 DEF AgentOK, CtlOK, CtlPlaces
  <2> QED
    BY <2>2, <2>3
<1>8. AgentsOK'
  BY <1>5, <1>7, PutAgent DEF Shape
<1> QED
  BY <1>6, <1>8 DEF Shape

(* The subtraction from the cache keeps Shape.                             *)
LEMMA DeductShape ==
  ASSUME Shape, NEW a \in Agents, Deduct(a)
  PROVE  Shape'
<1> DEFINE r == th[a]
           t == Head(r.types)
           n == u16(num[a[1]][t] - r.val)
<1>1. AgentOK(a, r) /\ r.pc = "deduct"
  BY DEF Shape, AgentsOK, Deduct
<1>2. r \in AgentType /\ a[1] \in Ports /\ t \in Types /\ r.calls # <<>>
  BY <1>1, HeadTypes
<1>3. n \in Words
  <2>1. num[a[1]][t] \in Int
    BY <1>2, NumType DEF Shape, Data
  <2>2. r.val \in Int
    BY <1>2 DEF AgentType
  <2> HIDE DEF t, r
  <2>3. num[a[1]][t] - r.val \in Int
    BY <2>1, <2>2
  <2> QED
    BY <2>3, U16
<1>4. /\ num' = [num EXCEPT ![a[1]][t] = n]
      /\ NextType(a, r)
      /\ UNCHANGED <<pool, enabled, scheduling, device, cq>>
  BY DEF Deduct, portVars, eventVars
<1> HIDE DEF n, t, r
<1>5. Caches' /\ Counted'
  BY <1>2, <1>3, <1>4, PutNum, NextTypeCounts DEF Shape, Data
<1>6. Data'
  BY <1>4, <1>5 DEF Shape, Data
<1>7. AgentsOK'
  BY <1>1, <1>4, AfterTypeIs, AfterTypeOK, PutAgent DEF Shape, r
<1> QED
  BY <1>6, <1>7 DEF Shape

(* A policy that returns nothing keeps Shape.                              *)
LEMMA KeepShape ==
  ASSUME Shape, NEW a \in Agents, Keep(a)
  PROVE  Shape'
<1> DEFINE r == th[a]
           h == r.held \/ Exceeds(a)
           x == [r EXCEPT !.held = h]
<1>1. AgentOK(a, r) /\ r.pc = "release"
  BY DEF Shape, AgentsOK, Keep
<1>2. r \in AgentType /\ a[1] \in Ports /\ r.calls # <<>>
  BY <1>1, HeadTypes
<1>3. /\ NextType(a, x)
      /\ UNCHANGED <<pool, num, enabled, scheduling, device, cq>>
  BY DEF Keep, portVars, eventVars
<1> HIDE DEF h, r
<1>4. h \in BOOLEAN
  BY <1>2 DEF h, Exceeds, AgentType
<1>5. x \in AgentType /\ x.calls = r.calls /\ x.pc = "release"
  BY <1>1, <1>2, <1>4 DEF AgentType
<1>6. AgentOK(a, x)
  <2>1. Placed(r)
    BY <1>1 DEF AgentOK, IoOK, CtlOK
  <2>2. Placed(x) /\ x.pc = r.pc /\ x.next = r.next
    BY <1>2, <2>1 DEF Placed, Resting, AgentType
  <2> HIDE DEF x
  <2> QED
    BY <1>1, <1>5, <2>2 DEF AgentOK, IoOK, CtlOK
<1> HIDE DEF x
<1>7. Counted'
  BY <1>2, <1>3, <1>5, NextTypeCounts DEF Shape, Data
<1>8. Data'
  BY <1>3, <1>7 DEF Shape, Data, Caches
<1>9. AgentsOK'
  BY <1>3, <1>5, <1>6, AfterTypeIs, AfterTypeOK, PutAgent DEF Shape
<1> QED
  BY <1>8, <1>9 DEF Shape

(* The sequences up to a length are sequences of at most that length.      *)
LEMMA SeqsUpToType ==
  ASSUME NEW S, NEW n, NEW s \in SeqsUpTo(S, n)
  PROVE  n \in Nat => s \in Seq(S) /\ Len(s) <= n
BY DEF SeqsUpTo

(* The calls of dlb2_release_port_credits.                                 *)
LEMMA FailedCalls ==
  ASSUME NEW f \in BOOLEAN
  PROVE  release_port_credits(f) \in Seq(Calls) /\ release_port_credits(f) # <<>>
<1>1. Call("BATCH_2SZ_EXCEED", TRUE) \in Calls /\ Call("ENQ_FAIL", f) \in Calls
  BY PoliciesAre, CallType
<1>2. \A c, d \in Calls : <<c, d>> \in Seq(Calls) /\ <<c, d>> # <<>>
  OBVIOUS
<1> QED
  BY <1>1, <1>2 DEF release_port_credits

(* A thread that has nothing in hand.                                      *)
LEMMA IdleIs ==
  ASSUME NEW g \in Nat
  PROVE  /\ Idle(g) \in AgentType /\ Resting(Idle(g)) /\ Idle(g).taken = 0
BY IdleOK DEF IoOK, Idle, Resting, NoneUsed

(* The thread of a port with nothing in hand may begin to release credits. *)
LEMMA ReleasingIo ==
  ASSUME NEW r \in AgentType, Resting(r), NEW calls \in Seq(Calls), calls # <<>>,
         NEW next \in IoNexts, r.taken # 0 => next = "credit"
  PROVE  IoOK(Releasing(r, calls, next))
BY ReleasingOK

(* So may a thread outside any call.                                       *)
LEMMA IdleReleasing ==
  ASSUME NEW g \in Nat, NEW calls \in Seq(Calls), calls # <<>>
  PROVE  IoOK(Releasing(Idle(g), calls, "idle"))
BY IdleIs, ReleasingIo DEF IoNexts

(* The data stays as it is.                                                *)
LEMMA SameData ==
  ASSUME Data, UNCHANGED <<pool, num, ret_count, enabled, scheduling, device, cq>>
  PROVE  Data'
BY DEF Data, Caches, Counted

(* A send keeps Shape, whether the port refuses it or not.                 *)
LEMMA SendShape ==
  ASSUME Shape, NEW p \in Ports, NEW events \in Seq(Events), Send(p, events)
  PROVE  Shape'
<1> DEFINE b == [Idle(0) EXCEPT !.pc = "build", !.want = events]
           c == Releasing(Idle(0), release_port_credits(FALSE), "idle")
           x == IF enabled[p] THEN b ELSE c
<1>1. IoOK(b)
  <2>1. Idle(0) \in AgentType /\ IoOK(Idle(0))
    BY IdleOK DEF IoOK
  <2>2. b \in AgentType
    BY <2>1 DEF AgentType, IoPlaces
  <2>3. Placed(b)
    <3>1. ChunkSize \in Nat /\ Len(<<>>) = 0
      BY SwCreditsAssumption
    <3> QED
      BY <3>1 DEF Placed, Idle, Resting
  <2>4. b.pc = "build" /\ b.next = "idle"
    BY DEF Idle
  <2> HIDE DEF b
  <2> QED
    BY <2>2, <2>3, <2>4 DEF IoOK, IoPlaces, IoNexts
<1>2. IoOK(c)
  BY FailedCalls, IdleReleasing
<1>3. IoOK(x)
  BY <1>1, <1>2
<1>4. th' = [th EXCEPT ![io(p)] = x] /\ Data'
  BY SameData DEF Send, Shape, portVars, eventVars
<1> HIDE DEF x
<1> QED
  BY <1>3, <1>4, PutIo DEF Shape

(* In the send loop with an event at the head: the event, and what the     *)
(* thread has.                                                             *)
LEMMA BuildingIs ==
  ASSUME Shape, NEW p \in Ports, Building(p)
  PROVE  LET r == th[io(p)] IN
         /\ r \in AgentType /\ Placed(r) /\ r.next \in IoNexts
         /\ r.pc = "build" /\ r.want # <<>> /\ Head(r.want) \in Events
         /\ Tail(r.want) \in Seq(Events)
         /\ r.taken = 0
<1> DEFINE r == th[io(p)]
<1>1. r \in AgentType /\ Placed(r) /\ r.next \in IoNexts
  BY TheAgents DEF Shape, IoOK
<1>2. r.pc = "build" /\ r.want # <<>>
  BY DEF Building, At
<1> HIDE DEF r
<1>3. r.want \in Seq(Events)
  BY <1>1 DEF AgentType
<1>4. r.taken = 0
  BY <1>1, <1>2 DEF Placed
<1> QED
  BY <1>1, <1>2, <1>3, <1>4, TailType DEF r

(* Taking an event into the chunk keeps Shape; the chunk has room.         *)
LEMMA TakeShape ==
  ASSUME Shape, NEW p \in Ports, Take(p)
  PROVE  Shape'
<1> DEFINE r == th[io(p)]
           e == Head(r.want)
           u == [t \in Types |-> r.used[t] + IF t = e THEN 1 ELSE 0]
           x == [r EXCEPT !.want = Tail(r.want), !.chunk = Append(r.chunk, e),
                          !.count = r.count + 1, !.tried = FALSE, !.used = u]
<1>1. Building(p) /\ Len(r.chunk) < ChunkSize
  BY DEF Take, Building
<1>2. /\ r \in AgentType /\ Placed(r) /\ r.next \in IoNexts /\ r.pc = "build"
      /\ e \in Events /\ Tail(r.want) \in Seq(Events) /\ r.taken = 0
  BY <1>1, BuildingIs
<1>3. th' = [th EXCEPT ![io(p)] = x] /\ Data'
  BY SameData DEF Take, Shape, portVars, eventVars
<1> HIDE DEF r, e
<1>4. u \in [Types -> Nat]
  <2>1. r.used \in [Types -> Nat]
    BY <1>2 DEF AgentType
  <2> QED
    BY <2>1
<1>5. /\ Append(r.chunk, e) \in Seq(Events) /\ r.count + 1 \in Nat
      /\ Len(Append(r.chunk, e)) = Len(r.chunk) + 1
  <2>1. r.chunk \in Seq(Events) /\ r.count \in Nat
    BY <1>2 DEF AgentType
  <2> QED
    BY <1>2, <2>1
<1> HIDE DEF u
<1>6. x \in AgentType
  BY <1>2, <1>4, <1>5 DEF AgentType
<1>7. /\ x.pc = "build" /\ x.next = r.next /\ x.taken = 0
      /\ x.chunk = Append(r.chunk, e)
  BY <1>2 DEF AgentType
<1> HIDE DEF x
<1>8. Len(x.chunk) <= ChunkSize
  <2>1. Len(r.chunk) \in Nat /\ ChunkSize \in Nat
    BY <1>2, SwCreditsAssumption DEF AgentType
  <2> QED
    BY <1>1, <1>5, <1>7, <2>1
<1>9. IoOK(x)
  BY <1>2, <1>6, <1>7, <1>8 DEF IoOK, Placed, IoPlaces
<1> QED
  BY <1>3, <1>9, PutIo DEF Shape

(* Reading the pool keeps Shape.                                           *)
LEMMA ReadPoolShape ==
  ASSUME Shape, NEW p \in Ports, ReadPool(p)
  PROVE  Shape'
<1> DEFINE r == th[io(p)]
           e == Head(r.want)
           x == [r EXCEPT !.pc = "refresh", !.seen = pool[e]]
<1>1. Building(p)
  BY DEF ReadPool
<1>2. /\ r \in AgentType /\ Placed(r) /\ r.next \in IoNexts /\ r.pc = "build"
      /\ e \in Events /\ r.want # <<>> /\ r.taken = 0
  BY <1>1, BuildingIs
<1>3. e \in Types
  BY <1>2 DEF ReadPool, OutOfCredits, Events
<1>4. th' = [th EXCEPT ![io(p)] = x] /\ Data'
  BY SameData DEF ReadPool, Shape, portVars, eventVars
<1> HIDE DEF r, e
<1>5. pool[e] \in Nat
  BY <1>3 DEF Shape, Data
<1>6. x \in AgentType
  BY <1>2, <1>5 DEF AgentType, IoPlaces
<1>7. /\ x.pc = "refresh" /\ x.next = r.next /\ x.taken = 0 /\ x.want = r.want
      /\ x.chunk = r.chunk
  BY <1>2 DEF AgentType
<1> HIDE DEF x
<1>8. IoOK(x)
  BY <1>2, <1>3, <1>6, <1>7 DEF IoOK, Placed, IoPlaces, e
<1> QED
  BY <1>4, <1>8, PutIo DEF Shape

(* A refresh takes a number of credits, and no more than the pool has.     *)
LEMMA RefreshBatchType ==
  ASSUME NEW s \in Nat, NEW c \in Nat
  PROVE  RefreshBatch(s, c) \in Nat /\ RefreshBatch(s, c) <= c
BY SwCreditsAssumption DEF RefreshBatch, AtMost

(* A refresh keeps Shape: the pool does not become negative.               *)
LEMMA RefreshShape ==
  ASSUME Shape, NEW p \in Ports, Refresh(p)
  PROVE  Shape'
<1> DEFINE r == th[io(p)]
           e == Head(r.want)
           batch == RefreshBatch(r.seen, pool[e])
           n == u16(num[p][e] + batch)
           x == [r EXCEPT !.pc = "build", !.tried = TRUE, !.seen = 0]
<1>1. /\ r \in AgentType /\ Placed(r) /\ r.next \in IoNexts /\ r.pc = "refresh"
  BY TheAgents DEF Shape, IoOK, Refresh, At
<1>2. e \in Types /\ r.taken = 0
  BY <1>1 DEF Placed
<1>3. batch \in Nat /\ batch <= pool[e] /\ pool[e] \in Nat
  <2>1. pool[e] \in Nat
    BY <1>2 DEF Shape, Data
  <2>2. r.seen \in Nat
    BY <1>1 DEF AgentType
  <2> QED
    BY <2>1, <2>2, RefreshBatchType
<1>4. n \in Words
  <2>1. num[p][e] \in Int
    BY <1>2, NumType DEF Shape, Data
  <2> HIDE DEF batch, e
  <2>2. num[p][e] + batch \in Int
    BY <1>3, <2>1
  <2> QED
    BY <2>2, U16
<1>5. /\ pool' = [pool EXCEPT ![e] = @ - batch]
      /\ num' = [num EXCEPT ![p][e] = n]
      /\ th' = [th EXCEPT ![io(p)] = x]
      /\ UNCHANGED <<ret_count, enabled, scheduling, device, cq>>
  BY DEF Refresh, portVars, eventVars
<1> HIDE DEF batch, n, e, r
<1>6. Data'
  <2>1. pool' \in [Types -> Nat]
    BY <1>2, <1>3, <1>5 DEF Shape, Data
  <2>2. Caches'
    BY <1>2, <1>4, <1>5, PutNum DEF Shape, Data
  <2> QED
    BY <1>5, <2>1, <2>2 DEF Shape, Data, Counted
<1>7. x \in AgentType
  BY <1>1 DEF AgentType, IoPlaces
<1>8. /\ x.pc = "build" /\ x.next = r.next /\ x.taken = 0 /\ x.chunk = r.chunk
  BY <1>1, <1>2 DEF AgentType
<1> HIDE DEF x
<1>9. IoOK(x)
  BY <1>1, <1>7, <1>8 DEF IoOK, Placed, IoPlaces
<1> QED
  BY <1>5, <1>6, <1>9, PutIo DEF Shape

(* The end of the loop without a credit keeps Shape.                       *)
LEMMA GiveUpShape ==
  ASSUME Shape, NEW p \in Ports, GiveUp(p)
  PROVE  Shape'
<1> DEFINE r == th[io(p)]
           x == [r EXCEPT !.want = <<>>, !.tried = FALSE]
<1>1. Building(p)
  BY DEF GiveUp
<1>2. /\ r \in AgentType /\ Placed(r) /\ r.next \in IoNexts /\ r.pc = "build"
      /\ r.taken = 0
  BY <1>1, BuildingIs
<1>3. th' = [th EXCEPT ![io(p)] = x] /\ Data'
  BY SameData DEF GiveUp, Shape, portVars, eventVars
<1> HIDE DEF r
<1>4. x \in AgentType
  <2>1. <<>> \in Seq(Events)
    OBVIOUS
  <2> QED
    BY <1>2, <2>1 DEF AgentType
<1>5. /\ x.pc = "build" /\ x.next = r.next /\ x.taken = 0 /\ x.chunk = r.chunk
  BY <1>2 DEF AgentType
<1> HIDE DEF x
<1>6. IoOK(x)
  BY <1>2, <1>4, <1>5 DEF IoOK, Placed, IoPlaces
<1> QED
  BY <1>3, <1>6, PutIo DEF Shape

(* The events of a type in a chunk are a number, no more than its length.  *)
LEMMA EventsInType ==
  ASSUME NEW c \in Seq(Events), NEW t
  PROVE  EventsIn(c, t) \in Nat /\ EventsIn(c, t) <= Len(c)
<1>1. IsFiniteSet(1 .. Len(c)) /\ Cardinality(1 .. Len(c)) = Len(c)
  <2>1. Len(c) \in Nat
    OBVIOUS
  <2> QED
    BY <2>1, FS_Interval
<1>2. {i \in DOMAIN c : c[i] = t} \subseteq 1 .. Len(c)
  OBVIOUS
<1> QED
  BY <1>1, <1>2, FS_Subset, FS_CardinalityType DEF EventsIn

(* The write to the device keeps Shape.                                    *)
LEMMA EnqueueShape ==
  ASSUME Shape, NEW p \in Ports, Enqueue(p)
  PROVE  Shape'
<1> DEFINE r == th[io(p)]
           pc == IF r.want = <<>> THEN "charge" ELSE "build"
           x == [r EXCEPT !.chunk = <<>>, !.pc = pc]
<1>1. /\ r \in AgentType /\ Placed(r) /\ r.next \in IoNexts /\ r.pc = "build"
  BY TheAgents DEF Shape, IoOK, Enqueue, At
<1>2. r.taken = 0 /\ r.chunk \in Seq(Events)
  BY <1>1 DEF Placed, AgentType
<1>3. /\ device' = [t \in Types |-> device[t] + EventsIn(r.chunk, t)]
      /\ th' = [th EXCEPT ![io(p)] = x]
      /\ UNCHANGED <<pool, num, ret_count, enabled, scheduling, cq>>
  BY DEF Enqueue, portVars
<1> HIDE DEF r
<1>4. Data'
  <2>1. device' \in [Types -> Nat]
    BY <1>2, <1>3, EventsInType DEF Shape, Data
  <2> QED
    BY <1>3, <2>1 DEF Shape, Data, Caches, Counted
<1>5. pc \in {"charge", "build"}
  OBVIOUS
<1> HIDE DEF pc
<1>6. x \in AgentType
  <2>1. <<>> \in Seq(Events) /\ pc \in IoPlaces
    BY <1>5 DEF IoPlaces
  <2> QED
    BY <1>1, <2>1 DEF AgentType
<1>7. /\ x.pc = pc /\ x.next = r.next /\ x.taken = 0 /\ x.chunk = <<>>
  BY <1>1, <1>2 DEF AgentType
<1> HIDE DEF x
<1>8. Len(x.chunk) <= ChunkSize
  BY <1>7, SwCreditsAssumption
<1>9. IoOK(x)
  BY <1>1, <1>5, <1>6, <1>7, <1>8 DEF IoOK, Placed, IoPlaces
<1> QED
  BY <1>3, <1>4, <1>9, PutIo DEF Shape

(* The subtraction of the credits used keeps Shape.                        *)
LEMMA ChargeShape ==
  ASSUME Shape, NEW p \in Ports, Charge(p)
  PROVE  Shape'
<1> DEFINE r == th[io(p)]
           x == Releasing(Idle(0), release_port_credits(r.count = 0), "idle")
<1>1. r \in AgentType
  BY TheAgents DEF Shape
<1>2. /\ num' = [num EXCEPT ![p] = Charged(p)]
      /\ th' = [th EXCEPT ![io(p)] = x]
      /\ UNCHANGED <<pool, ret_count, enabled, scheduling, device, cq>>
  BY DEF Charge, portVars, eventVars
<1>3. Charged(p) \in [Types -> Words]
  <2> SUFFICES ASSUME NEW t \in Types PROVE u16(num[p][t] - r.used[t]) \in Words
    BY DEF Charged
  <2>1. num[p][t] \in Int
    BY NumType DEF Shape, Data
  <2>2. r.used[t] \in Int
    BY <1>1 DEF AgentType
  <2> HIDE DEF r
  <2>3. num[p][t] - r.used[t] \in Int
    BY <2>1, <2>2
  <2> QED
    BY <2>3, U16
<1>4. Data'
  <2>1. Caches'
    BY <1>2, <1>3 DEF Shape, Data, Caches
  <2> QED
    BY <1>2, <2>1 DEF Shape, Data, Counted
<1>5. IoOK(x)
  <2> DEFINE f == r.count = 0
  <2>1. f \in BOOLEAN
    OBVIOUS
  <2> HIDE DEF f
  <2>2. release_port_credits(f) \in Seq(Calls) /\ release_port_credits(f) # <<>>
    BY <2>1, FailedCalls
  <2> QED
    BY <2>2, IdleReleasing DEF f
<1> HIDE DEF x
<1> QED
  BY <1>2, <1>4, <1>5, PutIo DEF Shape

(* A send without credits keeps Shape.                                     *)
LEMMA NoCreditsShape ==
  ASSUME Shape, NEW p \in Ports, send_no_credits(p)
  PROVE  Shape'
<1>1. PICK f \in BOOLEAN :
        th' = [th EXCEPT ![io(p)] = Releasing(Idle(0), release_port_credits(f), "idle")]
  BY DEF send_no_credits
<1>2. IoOK(Releasing(Idle(0), release_port_credits(f), "idle"))
  BY FailedCalls, IdleReleasing
<1>3. Data'
  BY SameData DEF send_no_credits, Shape, portVars, eventVars
<1> QED
  BY <1>1, <1>2, <1>3, PutIo DEF Shape

(* One pending call is a sequence of calls.                                *)
LEMMA OneCall ==
  ASSUME NEW y \in Policies, NEW c \in BOOLEAN
  PROVE  <<Call(y, c)>> \in Seq(Calls) /\ <<Call(y, c)>> # <<>>
BY CallType

(* A receive keeps Shape, whether the port refuses it or not.              *)
LEMMA ReceiveShape ==
  ASSUME Shape, NEW p \in Ports, NEW max \in Nat, NEW wait \in BOOLEAN, NEW pop \in BOOLEAN,
         Receive(p, max, wait, pop)
  PROVE  Shape'
<1> DEFINE b == [Idle(0) EXCEPT !.max = max, !.wait = wait, !.pop = pop]
           calls == <<Call("BATCH_SZ_EXCEED", TRUE)>>
           x == IF NotifyDisabled(p) THEN Idle(0) ELSE Releasing(b, calls, "ready")
<1>1. b \in AgentType /\ Resting(b) /\ b.taken = 0
  <2>1. Idle(0) \in AgentType /\ Resting(Idle(0)) /\ Idle(0).taken = 0
    BY IdleIs
  <2> QED
    BY <2>1 DEF AgentType, Resting
<1>2. calls \in Seq(Calls) /\ calls # <<>>
  BY OneCall, PoliciesAre
<1>3. th' = [th EXCEPT ![io(p)] = x] /\ Data'
  BY SameData DEF Receive, Shape, portVars, eventVars
<1>4. IoOK(x)
  <2> HIDE DEF b, calls
  <2>1. IoOK(Releasing(b, calls, "ready"))
    BY <1>1, <1>2, ReleasingIo DEF IoNexts
  <2> QED
    BY <2>1, IdleOK
<1> HIDE DEF x
<1> QED
  BY <1>3, <1>4, PutIo DEF Shape

(* The look at the CQ before blocking keeps Shape.                         *)
LEMMA ReadyShape ==
  ASSUME Shape, NEW p \in Ports, Ready(p)
  PROVE  Shape'
<1> DEFINE r == th[io(p)]
           b == [r EXCEPT !.pc = "low_pool", !.types = PoolTypes, !.next = "wait"]
           c == [r EXCEPT !.pc = "take"]
           x == IF r.wait /\ cq[p] = 0 THEN b ELSE c
<1>1. r \in AgentType /\ Placed(r) /\ r.next \in IoNexts /\ r.pc = "ready"
  BY TheAgents DEF Shape, IoOK, Ready, At
<1>2. r.taken = 0 /\ Resting(r)
  BY <1>1 DEF Placed
<1>3. th' = [th EXCEPT ![io(p)] = x] /\ Data'
  BY SameData DEF Ready, Shape, portVars, eventVars
<1> HIDE DEF r
<1>4. IoOK(b)
  <2>1. b \in AgentType
    BY <1>1, PoolTypesType DEF AgentType, IoPlaces, IoNexts
  <2>2. /\ b.pc = "low_pool" /\ b.next = "wait" /\ b.taken = 0 /\ b.types = PoolTypes
        /\ b.used = r.used /\ b.chunk = r.chunk
    BY <1>1, <1>2 DEF AgentType
  <2> HIDE DEF b
  <2> QED
    BY <1>1, <1>2, <2>1, <2>2, PoolTypesType DEF IoOK, Placed, IoPlaces, IoNexts, Resting
<1>5. IoOK(c)
  <2>1. c \in AgentType
    BY <1>1 DEF AgentType, IoPlaces
  <2>2. /\ c.pc = "take" /\ c.next = r.next /\ c.taken = 0
        /\ c.used = r.used /\ c.chunk = r.chunk
    BY <1>1, <1>2 DEF AgentType
  <2> HIDE DEF c
  <2> QED
    BY <1>1, <1>2, <2>1, <2>2 DEF IoOK, Placed, IoPlaces, Resting
<1> HIDE DEF b, c
<1>6. IoOK(x)
  BY <1>4, <1>5
<1> HIDE DEF x
<1> QED
  BY <1>3, <1>6, PutIo DEF Shape

(* LOW_POOL_CREDITS keeps Shape.                                           *)
LEMMA LowPoolShape ==
  ASSUME Shape, NEW p \in Ports, LowPool(p)
  PROVE  Shape'
<1> DEFINE r == th[io(p)]
           low == Low(Head(r.types))
           calls == <<Call("RETURN_ALL", low)>>
           b == Releasing(r, calls, r.next)
           c == [r EXCEPT !.types = Tail(@)]
           x == IF low \/ Len(r.types) = 1 THEN b ELSE c
<1>1. r \in AgentType /\ Placed(r) /\ r.next \in IoNexts /\ r.pc = "low_pool"
  BY TheAgents DEF Shape, IoOK, LowPool, At
<1>2. Resting(r) /\ r.types \in Seq(Types) /\ r.types # <<>> /\ (r.taken # 0 => r.next = "credit")
  BY <1>1 DEF Placed, AgentType
<1>3. th' = [th EXCEPT ![io(p)] = x] /\ Data'
  BY SameData DEF LowPool, Shape, portVars, eventVars
<1>4. low \in BOOLEAN
  BY DEF Low
<1> HIDE DEF r, low
<1>5. calls \in Seq(Calls) /\ calls # <<>>
  BY <1>4, OneCall, PoliciesAre
<1> HIDE DEF calls
<1>6. IoOK(b)
  BY <1>1, <1>2, <1>5, ReleasingIo
<1>7. ASSUME Len(r.types) # 1
      PROVE  IoOK(c)
  <2>1. Tail(r.types) \in Seq(Types) /\ Tail(r.types) # <<>>
    <3> DEFINE n == Len(r.types)
    <3>1. n \in Nat \ {0} /\ n # 1
      BY <1>2, <1>7, TailType
    <3>2. n > 1 => Tail(r.types) # <<>>
      BY <1>2, TailType
    <3> HIDE DEF n
    <3> QED
      BY <1>2, <3>1, <3>2, TailType
  <2>2. c \in AgentType
    BY <1>1, <2>1 DEF AgentType
  <2>3. /\ c.pc = "low_pool" /\ c.next = r.next /\ c.taken = r.taken /\ c.types = Tail(r.types)
        /\ c.used = r.used /\ c.chunk = r.chunk
    BY <1>1 DEF AgentType
  <2> HIDE DEF c
  <2> QED
    <3>1. c.next \in {"wait", "credit"} /\ (c.taken # 0 => c.next = "credit")
      BY <1>1, <1>2, <2>3 DEF Placed
    <3>2. Placed(c)
      BY <1>1, <2>1, <2>3, <3>1 DEF Placed, Resting
    <3> QED
      BY <1>1, <2>2, <2>3, <3>2 DEF IoOK, IoPlaces
<1> HIDE DEF b, c
<1>8. IoOK(x)
  BY <1>6, <1>7
<1> HIDE DEF x
<1> QED
  BY <1>3, <1>8, PutIo DEF Shape

(* A blocked receive that goes on to take what there is.                   *)
LEMMA WaitTake ==
  ASSUME Shape, NEW p \in Ports, th[io(p)].pc = "wait"
  PROVE  IoOK([th[io(p)] EXCEPT !.pc = "take"])
<1> DEFINE r == th[io(p)]
           c == [r EXCEPT !.pc = "take"]
<1>1. r \in AgentType /\ Placed(r) /\ r.next \in IoNexts /\ r.pc = "wait"
  BY TheAgents DEF Shape, IoOK
<1>2. r.taken = 0 /\ Resting(r)
  BY <1>1 DEF Placed
<1> HIDE DEF r
<1>3. c \in AgentType
  BY <1>1 DEF AgentType, IoPlaces
<1>4. /\ c.pc = "take" /\ c.next = r.next /\ c.taken = 0
      /\ c.used = r.used /\ c.chunk = r.chunk
  BY <1>1, <1>2 DEF AgentType
<1> HIDE DEF c
<1>5. IoOK(c)
  BY <1>1, <1>2, <1>3, <1>4 DEF IoOK, Placed, IoPlaces, Resting
<1> QED
  BY <1>5 DEF c, r

(* The end of a wait keeps Shape, however it ends.                         *)
LEMMA WaitShape ==
  ASSUME Shape, NEW p \in Ports, WakeUp(p) \/ TimeOut(p) \/ WaitFails(p)
  PROVE  Shape'
<1> DEFINE r == th[io(p)]
           c == [r EXCEPT !.pc = "take"]
<1>1. r.pc = "wait"
  BY DEF WakeUp, TimeOut, WaitFails, At
<1>2. Data'
  BY SameData DEF WakeUp, TimeOut, WaitFails, Shape, portVars, eventVars
<1>3. PICK x \in {Idle(0), c} : th' = [th EXCEPT ![io(p)] = x]
  BY DEF WakeUp, TimeOut, WaitFails
<1>4. IoOK(x)
  BY <1>1, WaitTake, IdleOK
<1> QED
  BY <1>2, <1>3, <1>4, PutIo DEF Shape

(* AtMost gives a number no larger than either.                            *)
LEMMA AtMostIs ==
  ASSUME NEW m \in Nat, NEW n \in Nat
  PROVE  AtMost(m, n) \in Nat /\ AtMost(m, n) <= m /\ AtMost(m, n) <= n
BY DEF AtMost

(* The dequeue keeps Shape: no more is taken than the CQ has.              *)
LEMMA DequeueShape ==
  ASSUME Shape, NEW p \in Ports, Dequeue(p)
  PROVE  Shape'
<1> DEFINE r == th[io(p)]
           k == AtMost(r.max, cq[p])
           b == [r EXCEPT !.pc = "low_pool", !.types = PoolTypes, !.next = "credit", !.taken = k]
           c == [r EXCEPT !.pc = "credit", !.taken = k]
           x == IF p \in EpollPorts /\ k = cq[p] THEN b ELSE c
<1>1. r \in AgentType /\ Placed(r) /\ r.next \in IoNexts /\ r.pc = "take"
  BY TheAgents DEF Shape, IoOK, Dequeue, At
<1>2. Resting(r)
  BY <1>1 DEF Placed
<1>3. k \in Nat /\ k <= cq[p] /\ cq[p] \in Nat
  <2>1. r.max \in Nat /\ cq[p] \in Nat
    BY <1>1 DEF AgentType, Shape, Data
  <2> QED
    BY <2>1, AtMostIs
<1>4. /\ th' = [th EXCEPT ![io(p)] = x]
      /\ cq' = [cq EXCEPT ![p] = @ - k]
      /\ UNCHANGED <<pool, num, ret_count, enabled, scheduling, device>>
  BY DEF Dequeue, portVars
<1> HIDE DEF r, k
<1>5. Data'
  <2>1. cq' \in [Ports -> Nat]
    BY <1>3, <1>4 DEF Shape, Data
  <2> QED
    BY <1>4, <2>1 DEF Shape, Data, Caches, Counted
<1>6. IoOK(b)
  <2>1. b \in AgentType
    BY <1>1, <1>3, PoolTypesType DEF AgentType, IoPlaces, IoNexts
  <2>2. /\ b.pc = "low_pool" /\ b.next = "credit" /\ b.types = PoolTypes
        /\ b.used = r.used /\ b.chunk = r.chunk
    BY <1>1, <1>2 DEF AgentType
  <2> HIDE DEF b
  <2> QED
    BY <1>1, <1>2, <2>1, <2>2, PoolTypesType DEF IoOK, Placed, IoPlaces, IoNexts, Resting
<1>7. IoOK(c)
  <2>1. c \in AgentType
    BY <1>1, <1>3 DEF AgentType, IoPlaces
  <2>2. c.pc = "credit" /\ c.next = r.next /\ c.used = r.used /\ c.chunk = r.chunk
    BY <1>1, <1>2 DEF AgentType
  <2> HIDE DEF c
  <2> QED
    BY <1>1, <1>2, <2>1, <2>2 DEF IoOK, Placed, IoPlaces, Resting
<1> HIDE DEF b, c
<1>8. IoOK(x)
  BY <1>6, <1>7
<1> HIDE DEF x
<1> QED
  BY <1>4, <1>5, <1>8, PutIo DEF Shape

(* The calls at the end of a receive.                                      *)
LEMMA RecvCallsType ==
  ASSUME NEW r
  PROVE  RecvCalls(r) \in Seq(Calls) /\ RecvCalls(r) # <<>>
<1> DEFINE z == r.taken = 0
           one == <<Call("ZERO_DEQ", z)>>
           more == IF r.pop /\ r.taken # 0 THEN release_port_credits(FALSE) ELSE <<>>
<1>1. one \in Seq(Calls) /\ one # <<>>
  <2>1. z \in BOOLEAN
    OBVIOUS
  <2> HIDE DEF z
  <2> QED
    BY <2>1, OneCall, PoliciesAre
<1>2. more \in Seq(Calls)
  <2>1. release_port_credits(FALSE) \in Seq(Calls)
    BY FailedCalls
  <2>2. <<>> \in Seq(Calls)
    OBVIOUS
  <2> QED
    BY <2>1, <2>2
<1>3. RecvCalls(r) = one \o more
  BY DEF RecvCalls
<1> HIDE DEF one, more
<1> QED
  BY <1>1, <1>2, <1>3

(* The credits of a receive keep Shape.                                    *)
LEMMA CreditShape ==
  ASSUME Shape, NEW p \in Ports, Credit(p)
  PROVE  Shape'
<1> DEFINE r == th[io(p)]
           t == RecvType(p)
           n == u16(num[p][t] + r.taken)
           x == Releasing(Idle(r.taken), RecvCalls(r), "idle")
<1>1. r.taken \in Nat
  <2>1. r \in AgentType
    BY TheAgents DEF Shape
  <2> HIDE DEF r
  <2> QED
    BY <2>1 DEF AgentType
<1>2. t \in Types
  BY DEF RecvType, Types
<1>3. /\ num' = [num EXCEPT ![p][t] = n]
      /\ th' = [th EXCEPT ![io(p)] = x]
      /\ UNCHANGED <<pool, ret_count, enabled, scheduling, device, cq>>
  BY DEF Credit, portVars, eventVars
<1>4. n \in Words
  <2>1. num[p][t] \in Int
    BY <1>2, NumType DEF Shape, Data
  <2> HIDE DEF t, r
  <2>2. num[p][t] + r.taken \in Int
    BY <1>1, <2>1
  <2> QED
    BY <2>2, U16
<1> HIDE DEF n, t
<1>5. Data'
  <2>1. Caches'
    BY <1>2, <1>3, <1>4, PutNum DEF Shape, Data
  <2> QED
    BY <1>3, <2>1 DEF Shape, Data, Counted
<1>6. IoOK(x)
  BY <1>1, RecvCallsType, IdleReleasing
<1> HIDE DEF x
<1> QED
  BY <1>3, <1>5, <1>6, PutIo DEF Shape

(* The beginning of dlb_disable_port keeps Shape.                          *)
LEMMA DisableShape ==
  ASSUME Shape, NEW p \in Ports, disable_port(p)
  PROVE  Shape'
<1> DEFINE r == th[io(p)]
           y == [r EXCEPT !.got = 0]
           mid == [th EXCEPT ![io(p)] = y]
<1>1. PICK s \in BOOLEAN :
        th' = [[th EXCEPT ![io(p)].got = 0]
                 EXCEPT ![ctl(p)] = Releasing([Idle(0) EXCEPT !.sched_only = s],
                                              <<Call("RETURN_ALL", TRUE)>>, "ioctl")]
  BY DEF disable_port
<1> DEFINE b == [Idle(0) EXCEPT !.sched_only = s]
           x == Releasing(b, <<Call("RETURN_ALL", TRUE)>>, "ioctl")
<1>2. th' = [mid EXCEPT ![ctl(p)] = x]
  BY <1>1
<1>3. Data'
  BY SameData DEF disable_port, Shape, portVars, eventVars
<1>4. IoOK(y)
  <2>1. IoOK(r)
    BY TheAgents DEF Shape
  <2> HIDE DEF r
  <2>2. r \in AgentType
    BY <2>1 DEF IoOK
  <2>3. y \in AgentType
    BY <2>2 DEF AgentType
  <2>4. /\ y.pc = r.pc /\ y.next = r.next /\ y.calls = r.calls /\ y.types = r.types
        /\ y.want = r.want /\ y.chunk = r.chunk /\ y.used = r.used /\ y.taken = r.taken
    BY <2>2 DEF AgentType
  <2> HIDE DEF y
  <2> QED
    BY <2>1, <2>3, <2>4 DEF IoOK, Placed, Resting
<1>5. CtlOK(x)
  <2>1. Idle(0) \in AgentType /\ Resting(Idle(0)) /\ Idle(0).taken = 0
    BY IdleIs
  <2>2. b \in AgentType /\ Resting(b) /\ b.taken = 0
    BY <2>1 DEF AgentType, Resting
  <2>3. <<Call("RETURN_ALL", TRUE)>> \in Seq(Calls) /\ <<Call("RETURN_ALL", TRUE)>> # <<>>
    BY OneCall, PoliciesAre
  <2> HIDE DEF b
  <2> QED
    BY <2>2, <2>3, ReleasingOK
<1>6. /\ io(p) \in Agents /\ ctl(p) \in Agents /\ AgentOK(io(p), y) /\ AgentOK(ctl(p), x)
  BY <1>4, <1>5, AgentsAre DEF AgentOK
<1> HIDE DEF x, y
<1>7. y \in AgentType /\ x \in AgentType
  BY <1>4, <1>5 DEF IoOK, CtlOK
<1>8. th' \in [Agents -> AgentType]
  BY <1>2, <1>7 DEF Shape, AgentsOK
<1>9. \A a \in Agents : AgentOK(a, th'[a])
  BY <1>2, <1>6 DEF Shape, AgentsOK
<1>10. AgentsOK'
  BY <1>8, <1>9 DEF AgentsOK, AgentOK, IoOK, CtlOK
<1> QED
  BY <1>3, <1>10 DEF Shape

(* Its other steps keep Shape.                                             *)
LEMMA DisableStepShape ==
  ASSUME Shape, NEW p \in Ports, DisableStep(p)
  PROVE  Shape'
<1> DEFINE r == th[ctl(p)]
           c == [r EXCEPT !.pc = "clear"]
<1>1. r \in AgentType /\ CtlOK(r) /\ Placed(r)
  BY TheAgents DEF Shape, CtlOK
<1>2. r.pc = "ioctl" => CtlOK(c)
  <2> HIDE DEF r
  <2>1. c \in AgentType
    BY <1>1 DEF AgentType, CtlPlaces
  <2>2. /\ c.pc = "clear" /\ c.next = r.next /\ c.taken = r.taken
        /\ c.used = r.used /\ c.chunk = r.chunk
    BY <1>1 DEF AgentType
  <2> HIDE DEF c
  <2> QED
    BY <1>1, <2>1, <2>2 DEF CtlOK, Placed, CtlPlaces, Resting
<1>3. PICK x \in {Idle(0), c} : /\ th' = [th EXCEPT ![ctl(p)] = x]
                                /\ x = c => r.pc = "ioctl" \/ x = Idle(0)
  BY DEF DisableStep, DisableIoctl, ClearEnabled
<1>4. CtlOK(x)
  BY <1>2, <1>3, IdleOK
<1>5. Data'
  BY DEF DisableStep, DisableIoctl, ClearEnabled, Shape, Data, Caches, Counted, eventVars
<1> QED
  BY <1>3, <1>4, <1>5, PutCtl DEF Shape

(* dlb_enable_port keeps Shape.                                            *)
LEMMA EnableShape ==
  ASSUME Shape, NEW p \in Ports, enable_port(p)
  PROVE  Shape'
<1>1. PICK s \in BOOLEAN : enabled' = [enabled EXCEPT ![p] = @ \/ ~s]
  BY DEF enable_port
<1>2. enabled' \in [Ports -> BOOLEAN]
  BY <1>1 DEF Shape, Data
<1>3. Data'
  BY <1>2 DEF enable_port, Shape, Data, Caches, Counted, eventVars
<1>4. AgentsOK'
  BY DEF enable_port, Shape, AgentsOK, AgentOK, IoOK, CtlOK
<1> QED
  BY <1>3, <1>4 DEF Shape

(* The device keeps Shape when it schedules an event.                      *)
LEMMA ScheduleShape ==
  ASSUME Shape, NEW p \in Ports, Schedule(p)
  PROVE  Shape'
<1> DEFINE t == RecvType(p)
<1>1. t \in Types
  BY DEF RecvType, Types
<1>2. /\ device[t] > 0
      /\ device' = [device EXCEPT ![t] = @ - 1]
      /\ cq' = [cq EXCEPT ![p] = @ + 1]
      /\ UNCHANGED <<pool, num, ret_count, enabled, scheduling, th>>
  BY DEF Schedule, portVars
<1> HIDE DEF t
<1>3. device' \in [Types -> Nat] /\ cq' \in [Ports -> Nat]
  BY <1>1, <1>2 DEF Shape, Data
<1>4. Data'
  BY <1>2, <1>3 DEF Shape, Data, Caches, Counted
<1>5. AgentsOK'
  BY <1>2 DEF Shape, AgentsOK, AgentOK, IoOK, CtlOK
<1> QED
  BY <1>4, <1>5 DEF Shape

(* The events of a send, of either kind.                                   *)
LEMMA SendEvents ==
  ASSUME NEW p \in Ports, dlb_send(p) \/ dlb_adv_send(p)
  PROVE  \E events \in Seq(Events) : Len(events) <= MaxSend /\ Send(p, events)
<1>1. PICK S \in {SendTypes, Events} : \E events \in SeqsUpTo(S, MaxSend) : Send(p, events)
  BY DEF dlb_send, dlb_adv_send, Events
<1>2. PICK events \in SeqsUpTo(S, MaxSend) : Send(p, events)
  BY <1>1
<1>3. events \in Seq(S) /\ Len(events) <= MaxSend
  BY SwCreditsAssumption, SeqsUpToType
<1>4. S \subseteq Events
  BY DEF SendTypes, Events, Types
<1>5. events \in Seq(Events)
  BY <1>3, <1>4
<1> QED
  BY <1>2, <1>3, <1>5

(* The arguments of a receive.                                             *)
LEMMA ReceiveArgs ==
  ASSUME NEW p \in Ports, dlb_recv(p)
  PROVE  \E max \in Nat, wait, pop \in BOOLEAN : Receive(p, max, wait, pop)
BY SwCreditsAssumption DEF dlb_recv

(* Every step keeps Shape.                                                 *)
LEMMA NextShape == Shape /\ [Next]_vars => Shape'
<1> SUFFICES ASSUME Shape, [Next]_vars PROVE Shape'
  OBVIOUS
<1>1. CASE UNCHANGED vars
  BY <1>1 DEF vars, portVars, eventVars, Shape, Data, Caches, Counted, AgentsOK, AgentOK, IoOK, CtlOK
<1>2. ASSUME NEW a \in Agents, ReleaseStep(a)
      PROVE  Shape'
  BY <1>2, GiveBackShape, DeductShape, KeepShape DEF ReleaseStep
<1>3. ASSUME NEW p \in Ports, dlb_send(p) \/ dlb_adv_send(p)
      PROVE  Shape'
  BY <1>3, SendEvents, SendShape
<1>4. ASSUME NEW p \in Ports, send_no_credits(p)
      PROVE  Shape'
  BY <1>4, NoCreditsShape
<1>5. ASSUME NEW p \in Ports, SendStep(p)
      PROVE  Shape'
  BY <1>5, TakeShape, ReadPoolShape, RefreshShape, GiveUpShape, EnqueueShape, ChargeShape
     DEF SendStep
<1>6. ASSUME NEW p \in Ports, dlb_recv(p)
      PROVE  Shape'
  BY <1>6, ReceiveArgs, ReceiveShape
<1>7. ASSUME NEW p \in Ports, RecvStep(p) \/ TimeOut(p) \/ WaitFails(p)
      PROVE  Shape'
  BY <1>7, ReadyShape, LowPoolShape, WaitShape, DequeueShape, CreditShape DEF RecvStep
<1>8. ASSUME NEW p \in Ports, disable_port(p) \/ enable_port(p) \/ DisableStep(p) \/ Schedule(p)
      PROVE  Shape'
  BY <1>8, DisableShape, EnableShape, DisableStepShape, ScheduleShape
<1> QED
  BY <1>1, <1>2, <1>3, <1>4, <1>5, <1>6, <1>7, <1>8 DEF Next

(* The type invariant of the credits: pools and the device never hold a    *)
(* negative number, the caches and the counts of the policies are 16-bit   *)
(* words, and a thread that releases credits or refreshes its cache knows  *)
(* for what type. It needs no assumption on who disables ports when.       *)
THEOREM TypeCorrect == Spec => []TypeOK
<1>1. Spec => []Shape
  BY InitShape, NextShape, PTL DEF Spec
<1> QED
  BY <1>1, ShapeTypeOK, PTL

-----------------------------------------------------------------------------
(* The invariant about the credits. Of the credits of a cache, Part is     *)
(* what is not spent; of the events of a port, Held is what is still to be *)
(* credited.                                                               *)

(* What an agent has returned to the pool and not yet subtracted.          *)
Pending(r, t) == IF r.pc = "deduct" /\ Head(r.types) = t THEN r.val ELSE 0

(* The credits in the cache of p that are not spent.                       *)
Part(p, t) == num[p][t] - Spent(p, t)

(* The events of p that are still to be credited.                          *)
Held(p, t) == IF RecvType(p) = t THEN cq[p] + th[io(p)].taken ELSE 0

(* What is going to be subtracted is in the cache.                         *)
Covered(n, r) == r.pc = "deduct" => r.val <= n[Head(r.types)]

(* The places inside a send.                                               *)
Sending == {"build", "refresh", "charge"}

(* One of the two agents of a port is outside any call; the cache covers   *)
(* what is returned and what the send in progress uses; and a send uses no *)
(* more credits than it has events.                                        *)
Sound(n, i, c) ==
  /\ c.pc # "idle" => i.pc = "idle"
  /\ Covered(n, i) /\ Covered(n, c)
  /\ \A t \in Types : EventsIn(i.chunk, t) <= i.used[t] /\ i.used[t] <= n[t]
  /\ i.pc \in Sending => \A t \in Types : i.used[t] + Len(i.want) <= MaxSend

(* The agents of p are sound.                                              *)
Local(p) == Sound(num[p], th[io(p)], th[ctl(p)])

(* The inductive invariant.                                                *)
Inv == Shape /\ (\A p \in Ports : Local(p)) /\ CreditsConserved

(* An empty chunk has no events.                                           *)
LEMMA NoEvents == ASSUME NEW t PROVE EventsIn(<<>>, t) = 0
<1>1. {i \in DOMAIN <<>> : <<>>[i] = t} = {}
  OBVIOUS
<1> QED
  BY <1>1, FS_EmptySet DEF EventsIn

(* Spent in terms of Pending.                                              *)
LEMMA SpentIs ==
  ASSUME NEW p, NEW t
  PROVE  Spent(p, t) = Pending(th[io(p)], t) + Pending(th[ctl(p)], t)
                         + th[io(p)].used[t] - EventsIn(th[io(p)].chunk, t)
BY DEF Spent, Pending

(* The numbers of a local state.                                           *)
LEMMA Typing ==
  ASSUME NEW r \in AgentType, NEW t \in Types
  PROVE  /\ Pending(r, t) \in Nat /\ r.used[t] \in Nat /\ EventsIn(r.chunk, t) \in Nat
         /\ r.taken \in Nat /\ r.got \in Nat
         /\ r.pc # "deduct" => Pending(r, t) = 0
         /\ Resting(r) => r.used[t] = 0 /\ EventsIn(r.chunk, t) = 0
<1>1. /\ r.val \in Nat /\ r.used \in [Types -> Nat] /\ r.chunk \in Seq(Events) /\ r.taken \in Nat
      /\ r.got \in Nat
  BY DEF AgentType
<1>2. Pending(r, t) \in Nat /\ (r.pc # "deduct" => Pending(r, t) = 0)
  BY <1>1 DEF Pending
<1>3. EventsIn(r.chunk, t) \in Nat
  BY <1>1, EventsInType
<1>4. Resting(r) => r.used[t] = 0 /\ EventsIn(r.chunk, t) = 0
  BY NoEvents DEF Resting, NoneUsed
<1> QED
  BY <1>1, <1>2, <1>3, <1>4

(* The credits spent are between none and the cache: NoWrapAround for one  *)
(* port and type.                                                          *)
LEMMA SpentBounds ==
  ASSUME Shape, NEW p \in Ports, Local(p), NEW t \in Types
  PROVE  /\ Spent(p, t) \in Int /\ 0 <= Spent(p, t) /\ Spent(p, t) <= num[p][t]
         /\ num[p][t] \in Int
<1> DEFINE i == th[io(p)]
           c == th[ctl(p)]
           n == num[p][t]
<1>1. i \in AgentType /\ c \in AgentType /\ Placed(i) /\ Placed(c)
  BY TheAgents DEF Shape, IoOK, CtlOK
<1>2. n \in Int /\ 0 <= n
  BY NumType DEF Shape, Data
<1>3. Spent(p, t) = Pending(i, t) + Pending(c, t) + i.used[t] - EventsIn(i.chunk, t)
  BY SpentIs
<1>4. Sound(num[p], i, c)
  BY DEF Local
<1>5. i.pc \in {"idle", "deduct"} => i.used[t] = 0 /\ EventsIn(i.chunk, t) = 0
  BY <1>1, Typing DEF Placed
<1>6. /\ Pending(i, t) # 0 => i.pc = "deduct" /\ Pending(i, t) <= n
      /\ Pending(c, t) # 0 => i.pc = "idle" /\ Pending(c, t) <= n
  <2> HIDE DEF i, c
  <2> QED
    BY <1>4 DEF Sound, Covered, Pending, n
<1>7. EventsIn(i.chunk, t) <= i.used[t] /\ i.used[t] <= n
  BY <1>4 DEF Sound
<1>8. /\ Pending(i, t) \in Nat /\ Pending(c, t) \in Nat /\ i.used[t] \in Nat
      /\ EventsIn(i.chunk, t) \in Nat
  BY <1>1, Typing
<1>9. i.pc = "idle" => Pending(i, t) = 0
  BY DEF Pending
<1> DEFINE a == Pending(i, t)
           b == Pending(c, t)
           u == i.used[t]
           v == EventsIn(i.chunk, t)
           s == Spent(p, t)
<1>10. /\ s = a + b + u - v /\ a \in Nat /\ b \in Nat /\ u \in Nat /\ v \in Nat
       /\ v <= u /\ u <= n /\ a <= n /\ b <= n
       /\ a # 0 => b = 0 /\ u = 0 /\ v = 0
       /\ b # 0 => a = 0 /\ u = 0 /\ v = 0
  BY <1>2, <1>3, <1>5, <1>6, <1>7, <1>8, <1>9
<1> HIDE DEF a, b, u, v, s, i, c
<1>11. s \in Int /\ 0 <= s /\ s <= n
  <2> HIDE DEF n
  <2> QED
    BY <1>2, <1>10
<1> QED
  BY <1>2, <1>11 DEF s, n

(* Part and Held are numbers.                                              *)
LEMMA PartType ==
  ASSUME Shape, NEW p \in Ports, NEW t \in Types
  PROVE  Part(p, t) \in Int /\ Held(p, t) \in Nat
<1> DEFINE i == th[io(p)]
           c == th[ctl(p)]
<1>1. i \in AgentType /\ c \in AgentType
  BY TheAgents DEF Shape
<1>2. /\ Pending(i, t) \in Nat /\ Pending(c, t) \in Nat /\ i.used[t] \in Nat
      /\ EventsIn(i.chunk, t) \in Nat /\ i.taken \in Nat
  BY <1>1, Typing
<1>3. num[p][t] \in Int
  BY NumType DEF Shape, Data
<1>4. Part(p, t) = num[p][t] - (Pending(i, t) + Pending(c, t) + i.used[t] - EventsIn(i.chunk, t))
  BY SpentIs DEF Part
<1>5. Part(p, t) \in Int
  <2> HIDE DEF i, c
  <2> QED
    BY <1>2, <1>3, <1>4
<1>6. cq[p] \in Nat
  BY DEF Shape, Data
<1>7. Held(p, t) \in Nat
  BY <1>2, <1>6 DEF Held
<1> QED
  BY <1>5, <1>7

(* Part and Held as functions of the port, to be summed.                   *)
Parts(t) == [p \in Ports |-> Part(p, t)]
Helds(t) == [p \in Ports |-> Held(p, t)]

(* Unused and Stored in terms of these sums.                               *)
LEMMA SumsAre ==
  ASSUME NEW t
  PROVE  Unused(t) = pool[t] + SumFunction(Parts(t)) /\ Stored(t) = device[t] + SumFunction(Helds(t))
BY DEF Unused, Stored, Parts, Helds, Part, Held

(* The sums are numbers.                                                   *)
LEMMA SumsType ==
  ASSUME Shape, NEW t \in Types
  PROVE  /\ Parts(t) \in [Ports -> Int] /\ Helds(t) \in [Ports -> Int]
         /\ SumFunction(Parts(t)) \in Int /\ SumFunction(Helds(t)) \in Int
         /\ pool[t] \in Nat /\ device[t] \in Nat
         /\ Unused(t) \in Int /\ Stored(t) \in Int
<1>1. Parts(t) \in [Ports -> Int] /\ Helds(t) \in [Ports -> Int]
  BY PartType DEF Parts, Helds
<1>2. SumFunction(Parts(t)) \in Int /\ SumFunction(Helds(t)) \in Int
  BY <1>1, SumIsInt, SwCreditsAssumption
<1>3. pool[t] \in Nat /\ device[t] \in Nat
  BY DEF Shape, Data
<1> QED
  BY <1>1, <1>2, <1>3, SumsAre

(* No port has more than the whole.                                        *)
LEMMA Bound ==
  ASSUME Inv, NEW p \in Ports, NEW t \in Types
  PROVE  /\ pool[t] + Part(p, t) + Held(p, t) + device[t] <= Total[t]
         /\ 0 <= Part(p, t) /\ 0 <= Unused(t) /\ 0 <= Stored(t)
<1>1. \A q \in Ports : 0 <= Part(q, t) /\ 0 <= Held(q, t)
  <2> SUFFICES ASSUME NEW q \in Ports PROVE 0 <= Part(q, t) /\ 0 <= Held(q, t)
    OBVIOUS
  <2>1. Held(q, t) \in Nat
    BY PartType DEF Inv
  <2>2. Spent(q, t) \in Int /\ Spent(q, t) <= num[q][t] /\ num[q][t] \in Int
    BY SpentBounds DEF Inv
  <2>3. Part(q, t) = num[q][t] - Spent(q, t)
    BY DEF Part
  <2> QED
    BY <2>1, <2>2, <2>3
<1> DEFINE f == Parts(t)
           g == Helds(t)
<1>2. /\ f \in [Ports -> Int] /\ g \in [Ports -> Int]
      /\ \A q \in Ports : f[q] >= 0 /\ g[q] >= 0
      /\ f[p] = Part(p, t) /\ g[p] = Held(p, t)
  <2>1. /\ f \in [Ports -> Int] /\ g \in [Ports -> Int]
    BY SumsType DEF Inv
  <2>2. /\ \A q \in Ports : f[q] >= 0 /\ g[q] >= 0
        /\ f[p] = Part(p, t) /\ g[p] = Held(p, t)
    <3>1. \A q \in Ports : f[q] = Part(q, t) /\ g[q] = Held(q, t) /\ f[q] \in Int /\ g[q] \in Int
      BY <2>1 DEF Parts, Helds
    <3> HIDE DEF f, g
    <3> QED
      BY <1>1, <3>1
  <2> QED
    BY <2>1, <2>2
<1>3. /\ Unused(t) = pool[t] + SumFunction(f) /\ Stored(t) = device[t] + SumFunction(g)
      /\ SumFunction(f) \in Int /\ SumFunction(g) \in Int
      /\ pool[t] \in Nat /\ device[t] \in Nat
  BY SumsAre, SumsType DEF Inv
<1> HIDE DEF f, g
<1>4. /\ SumFunction(f) >= 0 /\ SumFunction(f) >= f[p]
      /\ SumFunction(g) >= 0 /\ SumFunction(g) >= g[p]
  BY <1>2, SumBound, SwCreditsAssumption
<1>5. Unused(t) + Stored(t) = Total[t]
  BY DEF Inv, CreditsConserved
<1>6. Part(p, t) \in Int /\ Held(p, t) \in Int
  BY PartType DEF Inv
<1> DEFINE F == SumFunction(f)
           G == SumFunction(g)
           P == Part(p, t)
           H == Held(p, t)
<1>7. /\ F >= 0 /\ F >= P /\ G >= 0 /\ G >= H /\ F \in Int /\ G \in Int /\ P \in Int /\ H \in Int
      /\ 0 <= P
  BY <1>1, <1>2, <1>3, <1>4, <1>6
<1>8. Unused(t) = pool[t] + F /\ Stored(t) = device[t] + G
  BY <1>3
<1> HIDE DEF F, G, P, H
<1>9. pool[t] + P + H + device[t] <= Total[t] /\ 0 <= P /\ 0 <= Unused(t) /\ 0 <= Stored(t)
  BY <1>3, <1>5, <1>7, <1>8
<1> QED
  BY <1>9 DEF P, H

-----------------------------------------------------------------------------
(* Steps. A step belongs to one port: it leaves the agents, the cache and  *)
(* the CQ of the others alone, and moves k[t] credits of each type t from  *)
(* the pool and the cache of the port to the device and the events of the  *)
(* port.                                                                   *)

(* A step of p: the others keep what they have.                            *)
Frame(p) ==
  \A q \in Ports \ {p} :
    /\ th'[io(q)] = th[io(q)] /\ th'[ctl(q)] = th[ctl(q)]
    /\ num'[q] = num[q] /\ cq'[q] = cq[q]

(* A step of p moves k[t] credits of each type t from the unused to the    *)
(* stored ones.                                                            *)
Moves(p, k) ==
  \A t \in Types :
    /\ pool'[t] + Part(p, t)' = pool[t] + Part(p, t) - k[t]
    /\ device'[t] + Held(p, t)' = device[t] + Held(p, t) + k[t]

(* What SumsType and SumsAre say of a state, to be said of the next one    *)
(* too.                                                                    *)
Summed(t) ==
  /\ Parts(t) \in [Ports -> Int] /\ Helds(t) \in [Ports -> Int]
  /\ SumFunction(Parts(t)) \in Int /\ SumFunction(Helds(t)) \in Int
  /\ pool[t] \in Nat /\ device[t] \in Nat
  /\ Unused(t) = pool[t] + SumFunction(Parts(t))
  /\ Stored(t) = device[t] + SumFunction(Helds(t))

(* It holds of a state and of the next one.                                *)
LEMMA ShapeSummed ==
  ASSUME NEW t \in Types
  PROVE  (Shape => Summed(t)) /\ (Shape' => Summed(t)')
<1>1. Shape => Summed(t)
  BY SumsType, SumsAre DEF Summed
<1>2. Shape' => Summed(t)'
  BY <1>1, PTL
<1> QED
  BY <1>1, <1>2

(* What the port and the pool lose the sum loses.                          *)
LEMMA Balance ==
  ASSUME NEW P \in Int, NEW Q \in Int, NEW F \in Int, NEW E \in Int, NEW f \in Int,
         NEW e \in Int, NEW d \in Int, Q + e = P + f + d, E = F + e - f
  PROVE  Q + E = P + F + d
OBVIOUS

(* A step of p that moves k[t] credits changes Unused and Stored by that.  *)
LEMMA Moved ==
  ASSUME Shape, Shape', NEW p \in Ports, Frame(p), NEW k \in [Types -> Int], Moves(p, k),
         NEW t \in Types
  PROVE  Unused(t)' = Unused(t) - k[t] /\ Stored(t)' = Stored(t) + k[t]
<1> DEFINE f == Parts(t)
           e == Parts(t)'
           g == Helds(t)
           h == Helds(t)'
<1>1. /\ f \in [Ports -> Int] /\ g \in [Ports -> Int]
      /\ SumFunction(f) \in Int /\ SumFunction(g) \in Int
      /\ pool[t] \in Nat /\ device[t] \in Nat
      /\ Unused(t) = pool[t] + SumFunction(f) /\ Stored(t) = device[t] + SumFunction(g)
  BY ShapeSummed DEF Summed
<1>2. /\ e \in [Ports -> Int] /\ h \in [Ports -> Int]
      /\ SumFunction(e) \in Int /\ SumFunction(h) \in Int
      /\ pool'[t] \in Nat /\ device'[t] \in Nat
      /\ Unused(t)' = pool'[t] + SumFunction(e) /\ Stored(t)' = device'[t] + SumFunction(h)
  BY ShapeSummed DEF Summed
<1>3. \A q \in Ports : /\ f[q] = Part(q, t) /\ e[q] = Part(q, t)'
                       /\ g[q] = Held(q, t) /\ h[q] = Held(q, t)'
  BY DEF Parts, Helds
<1>4. \A q \in Ports \ {p} : Part(q, t)' = Part(q, t) /\ Held(q, t)' = Held(q, t)
  BY DEF Frame, Part, Held, Spent
<1>5. \A q \in Ports \ {p} : e[q] = f[q] /\ h[q] = g[q]
  BY <1>3, <1>4
<1>6. /\ pool'[t] + e[p] = pool[t] + f[p] - k[t]
      /\ device'[t] + h[p] = device[t] + g[p] + k[t]
  BY <1>3 DEF Moves
<1>7. e[p] \in Int /\ f[p] \in Int /\ g[p] \in Int /\ h[p] \in Int /\ k[t] \in Int
  BY <1>1, <1>2
<1> HIDE DEF e, f, g, h
<1>8. /\ SumFunction(e) = SumFunction(f) + e[p] - f[p]
      /\ SumFunction(h) = SumFunction(g) + h[p] - g[p]
  BY <1>1, <1>2, <1>5, SumChange, SwCreditsAssumption
<1>9. pool'[t] + SumFunction(e) = pool[t] + SumFunction(f) + (-k[t])
  <2>1. pool'[t] + e[p] = pool[t] + f[p] + (-k[t]) /\ -k[t] \in Int
    BY <1>1, <1>6, <1>7
  <2>2. /\ pool'[t] \in Int /\ pool[t] \in Int
        /\ SumFunction(e) \in Int /\ SumFunction(f) \in Int
    BY <1>1, <1>2
  <2>3. e[p] \in Int /\ f[p] \in Int
    BY <1>7
  <2>4. SumFunction(e) = SumFunction(f) + e[p] - f[p]
    BY <1>8
  <2> QED
    BY <2>1, <2>2, <2>3, <2>4, Balance
<1>10. device'[t] + SumFunction(h) = device[t] + SumFunction(g) + k[t]
  <2>1. device'[t] + h[p] = device[t] + g[p] + k[t] /\ k[t] \in Int
    BY <1>6, <1>7
  <2>2. /\ device'[t] \in Int /\ device[t] \in Int
        /\ SumFunction(h) \in Int /\ SumFunction(g) \in Int
    BY <1>1, <1>2
  <2>3. h[p] \in Int /\ g[p] \in Int
    BY <1>7
  <2>4. SumFunction(h) = SumFunction(g) + h[p] - g[p]
    BY <1>8
  <2> QED
    BY <2>1, <2>2, <2>3, <2>4, Balance
<1> QED
  BY <1>1, <1>2, <1>7, <1>9, <1>10

(* A step of p that moves k and keeps p sound.                             *)
Done(p, k) == Frame(p) /\ Local(p)' /\ Moves(p, k)

(* A step of an agent that changes nothing that counts.                    *)
Alike(r, s) ==
  /\ s.used = r.used /\ s.chunk = r.chunk /\ s.taken = r.taken
  /\ r.pc # "deduct" /\ s.pc # "deduct"

(* A send uses at most one credit for each of its events.                  *)
Room(r) == r.pc \in Sending => \A t \in Types : r.used[t] + Len(r.want) <= MaxSend

(* A step that changes nothing that counts moves nothing.                  *)
LEMMA Still ==
  ASSUME Inv, Shape', NEW p \in Ports, UNCHANGED <<pool, num, device, cq>>,
         \A q \in Ports \ {p} : th'[io(q)] = th[io(q)] /\ th'[ctl(q)] = th[ctl(q)],
         Alike(th[io(p)], th'[io(p)]), Alike(th[ctl(p)], th'[ctl(p)]),
         th'[ctl(p)].pc # "idle" => th'[io(p)].pc = "idle", Room(th'[io(p)])
  PROVE  Done(p, NoneUsed)
<1> DEFINE i == th[io(p)]
           j == th'[io(p)]
           c == th[ctl(p)]
           d == th'[ctl(p)]
<1>1. Frame(p)
  BY DEF Frame
<1>2. Local(p)'
  <2>1. Sound(num[p], i, c)
    BY DEF Inv, Local
  <2>2. Sound(num[p], j, d)
    <3> HIDE DEF i, j, c, d
    <3> QED
      BY <2>1 DEF Sound, Covered, Alike, Room, i, j, c, d
  <2> QED
    BY <2>2 DEF Local
<1>3. ASSUME NEW t \in Types
      PROVE  /\ pool'[t] + Part(p, t)' = pool[t] + Part(p, t) - NoneUsed[t]
             /\ device'[t] + Held(p, t)' = device[t] + Held(p, t) + NoneUsed[t]
  <2>1. /\ Pending(i, t) = 0 /\ Pending(j, t) = 0 /\ Pending(c, t) = 0 /\ Pending(d, t) = 0
        /\ i.used = j.used /\ i.chunk = j.chunk /\ i.taken = j.taken
    BY DEF Pending, Alike
  <2>2. Part(p, t) = num[p][t] - (0 + 0 + i.used[t] - EventsIn(i.chunk, t))
    BY <2>1, SpentIs DEF Part
  <2>3. Part(p, t)' = num'[p][t] - (0 + 0 + j.used[t] - EventsIn(j.chunk, t))
    BY <2>1 DEF Part, Spent, Pending
  <2>4. Part(p, t)' = Part(p, t) /\ Held(p, t)' = Held(p, t)
    BY <2>1, <2>2, <2>3 DEF Held
  <2>5. /\ pool[t] \in Int /\ device[t] \in Int /\ Part(p, t) \in Int /\ Held(p, t) \in Int
    BY PartType DEF Inv, Shape, Data
  <2>6. NoneUsed[t] = 0 /\ pool' = pool /\ device' = device
    BY DEF NoneUsed
  <2> QED
    BY <2>4, <2>5, <2>6
<1> QED
  BY <1>1, <1>2, <1>3 DEF Done, Moves

(* Only the thread of p takes a step.                                      *)
LEMMA OneIo ==
  ASSUME Shape, NEW p \in Ports, NEW x, th' = [th EXCEPT ![io(p)] = x]
  PROVE  /\ th'[io(p)] = x /\ th'[ctl(p)] = th[ctl(p)]
         /\ \A q \in Ports \ {p} : th'[io(q)] = th[io(q)] /\ th'[ctl(q)] = th[ctl(q)]
<1>1. \A b \in Agents : th'[b] = IF b = io(p) THEN x ELSE th[b]
  BY AgentsAre DEF Shape, AgentsOK
<1> QED
  BY <1>1, AgentsAre

(* Only the thread that disables p takes a step.                           *)
LEMMA OneCtl ==
  ASSUME Shape, NEW p \in Ports, NEW x, th' = [th EXCEPT ![ctl(p)] = x]
  PROVE  /\ th'[ctl(p)] = x /\ th'[io(p)] = th[io(p)]
         /\ \A q \in Ports \ {p} : th'[io(q)] = th[io(q)] /\ th'[ctl(q)] = th[ctl(q)]
<1>1. \A b \in Agents : th'[b] = IF b = ctl(p) THEN x ELSE th[b]
  BY AgentsAre DEF Shape, AgentsOK
<1> QED
  BY <1>1, AgentsAre

(* Still, for the thread of a port.                                        *)
LEMMA StillIo ==
  ASSUME Inv, Shape', NEW p \in Ports, UNCHANGED <<pool, num, device, cq>>,
         NEW x, th' = [th EXCEPT ![io(p)] = x], Alike(th[io(p)], x), Room(x),
         th[ctl(p)].pc = "idle"
  PROVE  Done(p, NoneUsed)
<1>1. /\ th'[io(p)] = x /\ th'[ctl(p)] = th[ctl(p)]
      /\ \A q \in Ports \ {p} : th'[io(q)] = th[io(q)] /\ th'[ctl(q)] = th[ctl(q)]
  BY OneIo DEF Inv
<1>2. Alike(th[ctl(p)], th'[ctl(p)])
  BY <1>1 DEF Alike
<1> QED
  BY <1>1, <1>2, Still

(* Still, for a thread that disables a port.                               *)
LEMMA StillCtl ==
  ASSUME Inv, Shape', NEW p \in Ports, UNCHANGED <<pool, num, device, cq>>,
         NEW x, th' = [th EXCEPT ![ctl(p)] = x], Alike(th[ctl(p)], x),
         th[ctl(p)].pc # "idle"
  PROVE  Done(p, NoneUsed)
<1>1. /\ th'[ctl(p)] = x /\ th'[io(p)] = th[io(p)]
      /\ \A q \in Ports \ {p} : th'[io(q)] = th[io(q)] /\ th'[ctl(q)] = th[ctl(q)]
  BY OneCtl DEF Inv
<1>2. th[io(p)].pc = "idle"
  BY DEF Inv, Local, Sound
<1>3. Alike(th[io(p)], th'[io(p)]) /\ Room(th'[io(p)])
  BY <1>1, <1>2 DEF Alike, Room, Sending
<1> QED
  BY <1>1, <1>2, <1>3, Still

(* An agent with nothing in hand and nothing to subtract.                  *)
Blank(r) ==
  /\ r.used = NoneUsed /\ r.chunk = <<>> /\ r.taken = 0 /\ r.pc # "deduct"

(* Nothing counts between two such states.                                 *)
LEMMA BlankAlike ==
  ASSUME NEW r, NEW s, Blank(r), Blank(s)
  PROVE  Alike(r, s)
BY DEF Alike, Blank

(* An agent outside any call is one.                                       *)
LEMMA BlankIdle == ASSUME NEW g PROVE Blank(Idle(g)) /\ Idle(g).pc = "idle" /\ Idle(g).got = g
BY DEF Blank, Idle, NoneUsed

(* What an agent that begins to release has.                               *)
LEMMA BlankReleasing ==
  ASSUME NEW r \in AgentType, NEW calls, NEW next
  PROVE  LET x == Releasing(r, calls, next) IN
         /\ x.pc = "release" /\ x.next = next /\ x.calls = calls
         /\ x.used = r.used /\ x.chunk = r.chunk /\ x.taken = r.taken /\ x.got = r.got
         /\ Blank(r) => Blank(x)
<1> DEFINE x == Releasing(r, calls, next)
<1>1. /\ x.pc = "release" /\ x.next = next /\ x.calls = calls
      /\ x.used = r.used /\ x.chunk = r.chunk /\ x.taken = r.taken /\ x.got = r.got
  BY DEF Releasing, AgentType
<1> HIDE DEF x
<1>2. Blank(r) => Blank(x)
  BY <1>1 DEF Blank
<1> QED
  BY <1>1, <1>2 DEF x

(* An agent that has finished a call and begins to release is one.         *)
LEMMA BlankCalls ==
  ASSUME NEW g \in Nat, NEW calls
  PROVE  /\ Blank(Releasing(Idle(g), calls, "idle"))
         /\ Releasing(Idle(g), calls, "idle").pc = "release"
<1>1. Idle(g) \in AgentType /\ Blank(Idle(g))
  BY IdleIs, BlankIdle
<1> QED
  BY <1>1, BlankReleasing

(* What a thread has in hand, by its place.                                *)
LEMMA BlankPlaces ==
  ASSUME Shape, NEW p \in Ports, NEW r \in {th[io(p)], th[ctl(p)]},
         r.pc \in {"idle", "ready", "wait", "take", "ioctl", "clear"}
  PROVE  Blank(r)
<1>1. Placed(r)
  BY TheAgents DEF Shape, IoOK, CtlOK
<1> QED
  BY <1>1 DEF Placed, Blank, Resting

(* The places of a thread that is not in a send.                           *)
Quiet == {"idle", "release", "ready", "low_pool", "wait", "take", "credit"}

(* Outside a send there is nothing to show about its events.               *)
LEMMA QuietRoom == ASSUME NEW r, r.pc \in Quiet PROVE Room(r)
BY DEF Room, Sending, Quiet

(* The thread of p is at pc and nobody disables p.                         *)
LEMMA AtIs ==
  ASSUME NEW p, NEW pc, At(p, pc), Exclusive
  PROVE  th[io(p)].pc = pc /\ th[ctl(p)].pc = "idle"
BY DEF At

(* A send begins with no credits used.                                     *)
LEMMA SendDone ==
  ASSUME Inv, Shape', Exclusive, NEW p \in Ports, NEW events \in Seq(Events),
         Len(events) <= MaxSend, Send(p, events)
  PROVE  Done(p, NoneUsed)
<1> DEFINE b == [Idle(0) EXCEPT !.pc = "build", !.want = events]
           c == Releasing(Idle(0), release_port_credits(FALSE), "idle")
           x == IF enabled[p] THEN b ELSE c
<1>1. th' = [th EXCEPT ![io(p)] = x] /\ UNCHANGED <<pool, num, device, cq>>
  BY DEF Send, eventVars
<1>2. th[io(p)].pc = "idle" /\ th[ctl(p)].pc = "idle"
  BY AtIs DEF Send
<1>3. Blank(b) /\ b.pc = "build" /\ b.want = events
  BY DEF Blank, Idle, NoneUsed
<1>4. Blank(c) /\ c.pc = "release"
  BY BlankCalls
<1>5. Room(b)
  <2>1. \A t \in Types : b.used[t] = 0
    BY <1>3 DEF Blank, NoneUsed
  <2>2. Len(events) \in Nat
    OBVIOUS
  <2> HIDE DEF b
  <2> QED
    BY <1>3, <2>1, <2>2 DEF Room
<1> HIDE DEF b, c
<1>6. Blank(x) /\ Room(x)
  BY <1>3, <1>4, <1>5, QuietRoom DEF Quiet
<1> HIDE DEF x
<1>7. Alike(th[io(p)], x)
  BY <1>2, <1>6, BlankPlaces, BlankAlike DEF Inv
<1> QED
  BY <1>1, <1>2, <1>6, <1>7, StillIo

(* A send without credits moves nothing.                                   *)
LEMMA NoCreditsDone ==
  ASSUME Inv, Shape', Exclusive, NEW p \in Ports, send_no_credits(p)
  PROVE  Done(p, NoneUsed)
<1>1. PICK f \in BOOLEAN :
        th' = [th EXCEPT ![io(p)] = Releasing(Idle(0), release_port_credits(f), "idle")]
  BY DEF send_no_credits
<1> DEFINE x == Releasing(Idle(0), release_port_credits(f), "idle")
<1>2. UNCHANGED <<pool, num, device, cq>> /\ th[io(p)].pc = "idle" /\ th[ctl(p)].pc = "idle"
  BY AtIs DEF send_no_credits, eventVars
<1>3. Blank(x) /\ x.pc = "release"
  BY BlankCalls
<1>4. th' = [th EXCEPT ![io(p)] = x]
  BY <1>1
<1> HIDE DEF x
<1>5. Alike(th[io(p)], x) /\ Room(x)
  BY <1>2, <1>3, BlankPlaces, BlankAlike, QuietRoom DEF Inv, Quiet
<1> QED
  BY <1>2, <1>4, <1>5, StillIo

(* The beginning of a receive moves nothing.                               *)
LEMMA ReceiveDone ==
  ASSUME Inv, Shape', Exclusive, NEW p \in Ports, NEW max \in Nat, NEW wait \in BOOLEAN,
         NEW pop \in BOOLEAN, Receive(p, max, wait, pop)
  PROVE  Done(p, NoneUsed)
<1> DEFINE b == [Idle(0) EXCEPT !.max = max, !.wait = wait, !.pop = pop]
           c == Releasing(b, <<Call("BATCH_SZ_EXCEED", TRUE)>>, "ready")
           x == IF NotifyDisabled(p) THEN Idle(0) ELSE c
<1>1. th' = [th EXCEPT ![io(p)] = x] /\ UNCHANGED <<pool, num, device, cq>>
  BY DEF Receive, eventVars
<1>2. th[io(p)].pc = "idle" /\ th[ctl(p)].pc = "idle"
  BY AtIs DEF Receive
<1>3. Blank(b) /\ b \in AgentType
  <2>1. Idle(0) \in AgentType
    BY IdleIs
  <2>2. b \in AgentType
    BY <2>1 DEF AgentType
  <2>3. Blank(b)
    BY DEF Blank, Idle, NoneUsed
  <2> QED
    BY <2>2, <2>3
<1> HIDE DEF b
<1>4. Blank(c) /\ c.pc = "release"
  BY <1>3, BlankReleasing
<1> HIDE DEF c
<1>5. Blank(x) /\ Room(x)
  BY <1>4, BlankIdle, QuietRoom DEF Quiet
<1> HIDE DEF x
<1>6. Alike(th[io(p)], x)
  BY <1>2, <1>5, BlankPlaces, BlankAlike DEF Inv
<1> QED
  BY <1>1, <1>2, <1>5, <1>6, StillIo

(* The look at the CQ before blocking moves nothing.                       *)
LEMMA ReadyDone ==
  ASSUME Inv, Shape', Exclusive, NEW p \in Ports, Ready(p)
  PROVE  Done(p, NoneUsed)
<1> DEFINE r == th[io(p)]
           b == [r EXCEPT !.pc = "low_pool", !.types = PoolTypes, !.next = "wait"]
           c == [r EXCEPT !.pc = "take"]
           x == IF r.wait /\ cq[p] = 0 THEN b ELSE c
<1>1. th' = [th EXCEPT ![io(p)] = x] /\ UNCHANGED <<pool, num, device, cq>>
  BY DEF Ready, eventVars
<1>2. r.pc = "ready" /\ th[ctl(p)].pc = "idle"
  BY AtIs DEF Ready
<1>3. Blank(r) /\ r \in AgentType
  BY <1>2, BlankPlaces, TheAgents DEF Inv, Shape
<1> HIDE DEF r
<1>4. Blank(b) /\ Blank(c) /\ b.pc = "low_pool" /\ c.pc = "take"
  BY <1>3 DEF Blank, AgentType
<1> HIDE DEF b, c
<1>5. Blank(x) /\ Room(x)
  BY <1>4, QuietRoom DEF Quiet
<1> HIDE DEF x
<1>6. Alike(r, x)
  BY <1>3, <1>5, BlankAlike
<1> QED
  BY <1>1, <1>2, <1>5, <1>6, StillIo DEF r

(* The end of a wait moves nothing.                                        *)
LEMMA WaitDone ==
  ASSUME Inv, Shape', Exclusive, NEW p \in Ports, WakeUp(p) \/ TimeOut(p) \/ WaitFails(p)
  PROVE  Done(p, NoneUsed)
<1> DEFINE r == th[io(p)]
           c == [r EXCEPT !.pc = "take"]
<1>1. r.pc = "wait" /\ th[ctl(p)].pc = "idle"
  BY AtIs DEF WakeUp, TimeOut, WaitFails
<1>2. UNCHANGED <<pool, num, device, cq>>
  BY DEF WakeUp, TimeOut, WaitFails, eventVars
<1>3. PICK x \in {Idle(0), c} : th' = [th EXCEPT ![io(p)] = x]
  BY DEF WakeUp, TimeOut, WaitFails
<1>4. Blank(r) /\ r \in AgentType
  BY <1>1, BlankPlaces, TheAgents DEF Inv, Shape
<1> HIDE DEF r
<1>5. Blank(c) /\ c.pc = "take"
  BY <1>4 DEF Blank, AgentType
<1> HIDE DEF c
<1>6. Blank(x) /\ Room(x)
  BY <1>5, BlankIdle, QuietRoom DEF Quiet
<1>7. Alike(r, x)
  BY <1>4, <1>6, BlankAlike
<1> QED
  BY <1>1, <1>2, <1>3, <1>6, <1>7, StillIo DEF r

(* LOW_POOL_CREDITS moves nothing.                                         *)
LEMMA LowPoolDone ==
  ASSUME Inv, Shape', Exclusive, NEW p \in Ports, LowPool(p)
  PROVE  Done(p, NoneUsed)
<1> DEFINE r == th[io(p)]
           low == Low(Head(r.types))
           calls == <<Call("RETURN_ALL", low)>>
           b == Releasing(r, calls, r.next)
           c == [r EXCEPT !.types = Tail(@)]
           x == IF low \/ Len(r.types) = 1 THEN b ELSE c
<1>1. th' = [th EXCEPT ![io(p)] = x] /\ UNCHANGED <<pool, num, device, cq>>
  BY DEF LowPool, eventVars
<1>2. r.pc = "low_pool" /\ th[ctl(p)].pc = "idle"
  BY AtIs DEF LowPool
<1>3. r \in AgentType
  BY TheAgents DEF Inv, Shape
<1> HIDE DEF r
<1>4. Alike(r, b) /\ b.pc = "release"
  <2> HIDE DEF calls
  <2>1. /\ b.pc = "release" /\ b.used = r.used /\ b.chunk = r.chunk /\ b.taken = r.taken
    BY <1>3, BlankReleasing
  <2> HIDE DEF b
  <2> QED
    BY <1>2, <2>1 DEF Alike
<1>5. Alike(r, c) /\ c.pc = "low_pool"
  BY <1>2, <1>3 DEF Alike, AgentType
<1> HIDE DEF b, c, low
<1>6. Alike(r, x) /\ Room(x)
  BY <1>4, <1>5, QuietRoom DEF Quiet
<1> HIDE DEF x
<1> QED
  BY <1>1, <1>2, <1>6, StillIo DEF r

(* Reading the pool, or giving up, moves nothing.                          *)
LEMMA ReadPoolDone ==
  ASSUME Inv, Shape', Exclusive, NEW p \in Ports, ReadPool(p) \/ GiveUp(p)
  PROVE  Done(p, NoneUsed)
<1> DEFINE r == th[io(p)]
           b == [r EXCEPT !.pc = "refresh", !.seen = pool[Head(r.want)]]
           c == [r EXCEPT !.want = <<>>, !.tried = FALSE]
<1>1. PICK x \in {b, c} : th' = [th EXCEPT ![io(p)] = x]
  BY DEF ReadPool, GiveUp
<1>2. UNCHANGED <<pool, num, device, cq>>
  BY DEF ReadPool, GiveUp, eventVars
<1>3. r.pc = "build" /\ th[ctl(p)].pc = "idle"
  BY AtIs DEF ReadPool, GiveUp, Building
<1>4. r \in AgentType
  BY TheAgents DEF Inv, Shape
<1>5. \A t \in Types : r.used[t] + Len(r.want) <= MaxSend
  BY <1>3 DEF Inv, Local, Sound, Sending
<1>6. \A t \in Types : r.used[t] \in Nat
  BY <1>4, Typing
<1> HIDE DEF r
<1>7. r.want \in Seq(Events)
  BY <1>4 DEF AgentType
<1>8. Len(r.want) \in Nat /\ Len(<<>>) = 0
  BY <1>7
<1>9. Alike(r, b) /\ b.want = r.want /\ b.used = r.used
  BY <1>3, <1>4 DEF Alike, AgentType
<1>10. Alike(r, c) /\ c.want = <<>> /\ c.used = r.used
  BY <1>3, <1>4 DEF Alike, AgentType
<1> HIDE DEF b, c
<1>11. Room(b)
  BY <1>5, <1>9 DEF Room
<1>12. Room(c)
  <2>1. \A t \in Types : r.used[t] + 0 <= MaxSend
    <3> SUFFICES ASSUME NEW t \in Types PROVE r.used[t] + 0 <= MaxSend
      OBVIOUS
    <3> DEFINE u == r.used[t]
               l == Len(r.want)
    <3>1. u + l <= MaxSend /\ u \in Nat /\ l \in Nat /\ MaxSend \in Nat
      BY <1>5, <1>6, <1>8, SwCreditsAssumption
    <3> HIDE DEF u, l
    <3>2. u + 0 <= MaxSend
      BY <3>1
    <3> QED
      BY <3>2 DEF u
  <2> QED
    BY <1>8, <1>10, <2>1 DEF Room
<1> QED
  BY <1>1, <1>2, <1>3, <1>9, <1>10, <1>11, <1>12, StillIo DEF r

(* The beginning of dlb_disable_port moves nothing.                        *)
LEMMA DisableDone ==
  ASSUME Inv, Shape', Exclusive, NEW p \in Ports, disable_port(p)
  PROVE  Done(p, NoneUsed)
<1> DEFINE r == th[io(p)]
           y == [r EXCEPT !.got = 0]
           mid == [th EXCEPT ![io(p)] = y]
<1>1. PICK s \in BOOLEAN :
        th' = [[th EXCEPT ![io(p)].got = 0]
                 EXCEPT ![ctl(p)] = Releasing([Idle(0) EXCEPT !.sched_only = s],
                                              <<Call("RETURN_ALL", TRUE)>>, "ioctl")]
  BY DEF disable_port
<1> DEFINE b == [Idle(0) EXCEPT !.sched_only = s]
           x == Releasing(b, <<Call("RETURN_ALL", TRUE)>>, "ioctl")
<1>2. th' = [mid EXCEPT ![ctl(p)] = x]
  BY <1>1
<1>3. UNCHANGED <<pool, num, device, cq>> /\ th[ctl(p)].pc = "idle" /\ r.pc = "idle"
  BY DEF disable_port, eventVars
<1>4. Blank(b) /\ b \in AgentType
  <2>1. Idle(0) \in AgentType
    BY IdleIs
  <2>2. b \in AgentType
    BY <2>1 DEF AgentType
  <2>3. Blank(b)
    BY DEF Blank, Idle, NoneUsed
  <2> QED
    BY <2>2, <2>3
<1> HIDE DEF b
<1>5. Blank(x)
  BY <1>4, BlankReleasing
<1>6. Blank(r) /\ Blank(th[ctl(p)])
  BY <1>3, BlankPlaces DEF Inv
<1>7. r \in AgentType
  BY TheAgents DEF Inv, Shape
<1> HIDE DEF x, r
<1>8. Alike(r, y) /\ y.pc = "idle"
  BY <1>3, <1>6, <1>7 DEF Alike, Blank, AgentType
<1> HIDE DEF y
<1>9. /\ th'[ctl(p)] = x /\ th'[io(p)] = y
      /\ \A q \in Ports \ {p} : th'[io(q)] = th[io(q)] /\ th'[ctl(q)] = th[ctl(q)]
  <2>1. \A a \in Agents : th'[a] = IF a = ctl(p) THEN x ELSE IF a = io(p) THEN y ELSE th[a]
    BY <1>2, AgentsAre DEF Inv, Shape, AgentsOK
  <2> QED
    BY <2>1, AgentsAre
<1>10. Alike(th[ctl(p)], x)
  BY <1>5, <1>6, BlankAlike
<1>11. Room(y)
  BY <1>8, QuietRoom DEF Quiet
<1>12. Alike(th[io(p)], th'[io(p)]) /\ Alike(th[ctl(p)], th'[ctl(p)]) /\ th'[io(p)].pc = "idle"
       /\ Room(th'[io(p)])
  BY <1>8, <1>9, <1>10, <1>11 DEF r
<1> QED
  BY <1>3, <1>9, <1>12, Still

(* The steps of dlb_disable_port after the release move nothing.           *)
LEMMA DisableStepDone ==
  ASSUME Inv, Shape', NEW p \in Ports, DisableStep(p)
  PROVE  Done(p, NoneUsed)
<1> DEFINE r == th[ctl(p)]
           c == [r EXCEPT !.pc = "clear"]
<1>1. PICK x \in {Idle(0), c} : th' = [th EXCEPT ![ctl(p)] = x]
  BY DEF DisableStep, DisableIoctl, ClearEnabled
<1>2. UNCHANGED <<pool, num, device, cq>> /\ r.pc \in {"ioctl", "clear"}
  BY DEF DisableStep, DisableIoctl, ClearEnabled, eventVars
<1>3. Blank(r) /\ r \in AgentType
  BY <1>2, BlankPlaces, TheAgents DEF Inv, Shape
<1> HIDE DEF r
<1>4. Blank(c)
  BY <1>3 DEF Blank, AgentType
<1> HIDE DEF c
<1>5. Alike(r, x)
  BY <1>3, <1>4, BlankIdle, BlankAlike
<1> QED
  BY <1>1, <1>2, <1>5, StillCtl DEF r

(* What an agent has after one credit type of a call.                      *)
LEMMA AfterTypeHas ==
  ASSUME NEW a \in Agents, NEW r, AgentOK(a, r), r.pc \in {"release", "deduct"}
  PROVE  LET x == AfterType(r) IN
         /\ x.used = NoneUsed /\ x.chunk = <<>> /\ x.taken = r.taken
         /\ x.pc \notin Sending \cup {"deduct"}
<1>1. /\ r \in AgentType /\ Resting(r)
  BY HeadTypes
<1>2. Placed(r)
  BY DEF AgentOK, IoOK, CtlOK
<1>3. CASE Len(r.types) > 1
  <2>1. AfterType(r) = [r EXCEPT !.pc = "release", !.types = Tail(@), !.val = 0]
    BY <1>3 DEF AfterType
  <2> QED
    BY <1>1, <2>1 DEF AgentType, Resting, Sending
<1>4. CASE ~(Len(r.types) > 1) /\ Tail(r.calls) # <<>>
  <2> DEFINE b == [r EXCEPT !.val = 0]
  <2>1. b \in AgentType /\ Resting(b) /\ b.taken = r.taken
    BY <1>1 DEF AgentType, Resting
  <2>2. AfterType(r) = Releasing(b, Tail(r.calls), r.next)
    BY <1>4 DEF AfterType
  <2> HIDE DEF b
  <2> QED
    BY <2>1, <2>2, BlankReleasing DEF Resting, Sending
<1>5. CASE ~(Len(r.types) > 1) /\ Tail(r.calls) = <<>>
  <2>1. AfterType(r) = GoOnTo(r)
    BY <1>5 DEF AfterType
  <2>2. CASE r.next = "idle"
    <3>1. GoOnTo(r) = Idle(r.got)
      BY <1>1, <2>2 DEF GoOnTo, GoOn, AgentType
    <3>2. r.taken = 0
      BY <1>2, <2>2 DEF Placed
    <3> QED
      BY <2>1, <3>1, <3>2, BlankIdle DEF Blank, Sending
  <2>3. CASE r.next # "idle"
    <3>1. GoOnTo(r) = [r EXCEPT !.calls = <<>>, !.types = <<>>, !.val = 0, !.held = FALSE,
                                !.pc = r.next]
      BY <2>3 DEF GoOnTo, GoOn
    <3>2. r.next \in IoNexts \cup {"ioctl"}
      BY <1>1 DEF AgentType
    <3> QED
      BY <1>1, <2>1, <3>1, <3>2 DEF AgentType, Resting, Sending, IoNexts
  <2> QED
    BY <2>2, <2>3
<1> QED
  BY <1>3, <1>4, <1>5

(* An agent that releases: whose it is, and that the other one is idle.    *)
LEMMA Releaser ==
  ASSUME Inv, NEW a \in Agents, th[a].pc \in {"release", "deduct"}
  PROVE  \E p \in Ports : /\ a[1] = p
                          /\ \/ a = io(p) /\ th[ctl(p)].pc = "idle"
                             \/ a = ctl(p) /\ th[io(p)].pc = "idle"
<1>1. PICK p \in Ports : a[1] = p /\ (a = io(p) \/ a = ctl(p))
  BY DEF Agents, io, ctl
<1>2. Sound(num[p], th[io(p)], th[ctl(p)])
  BY DEF Inv, Local
<1>3. th[ctl(p)].pc # "idle" => th[io(p)].pc = "idle"
  BY <1>2 DEF Sound
<1> QED
  BY <1>1, <1>3

(* A policy that returns nothing moves nothing.                            *)
LEMMA KeepDone ==
  ASSUME Inv, Shape', NEW a \in Agents, Keep(a)
  PROVE  \E p \in Ports : Done(p, NoneUsed)
<1> DEFINE r == th[a]
           h == r.held \/ Exceeds(a)
           y == [r EXCEPT !.held = h]
           x == AfterType(y)
<1>1. AgentOK(a, r) /\ r.pc = "release"
  BY DEF Inv, Shape, AgentsOK, Keep
<1>2. r \in AgentType /\ Resting(r)
  BY <1>1, HeadTypes
<1>3. UNCHANGED <<pool, num, device, cq>> /\ NextType(a, y)
  BY DEF Keep, eventVars
<1> HIDE DEF h, r
<1>4. h \in BOOLEAN
  BY <1>2 DEF h, Exceeds, AgentType
<1>5. y \in AgentType /\ y.pc = "release" /\ y.taken = r.taken
  BY <1>1, <1>2, <1>4 DEF AgentType
<1>6. AgentOK(a, y)
  <2>1. Placed(r)
    BY <1>1 DEF AgentOK, IoOK, CtlOK
  <2>2. Placed(y) /\ y.next = r.next
    BY <1>1, <1>2, <2>1 DEF Placed, Resting, AgentType
  <2> HIDE DEF y
  <2> QED
    BY <1>1, <1>5, <2>2 DEF AgentOK, IoOK, CtlOK
<1> HIDE DEF y
<1>7. th' = [th EXCEPT ![a] = x]
  BY <1>3, AfterTypeIs
<1>8. x.used = NoneUsed /\ x.chunk = <<>> /\ x.taken = r.taken /\ x.pc \notin Sending \cup {"deduct"}
  BY <1>5, <1>6, AfterTypeHas
<1> HIDE DEF x
<1>9. Alike(r, x) /\ Room(x)
  BY <1>1, <1>2, <1>8 DEF Alike, Resting, Room
<1>10. PICK p \in Ports : \/ a = io(p) /\ th[ctl(p)].pc = "idle"
                          \/ a = ctl(p) /\ th[io(p)].pc = "idle"
  BY <1>1, Releaser DEF r
<1>11. CASE a = io(p) /\ th[ctl(p)].pc = "idle"
  BY <1>3, <1>7, <1>9, <1>11, StillIo DEF r
<1>12. CASE a = ctl(p) /\ th[io(p)].pc = "idle"
  <2>1. th[ctl(p)].pc # "idle"
    BY <1>1, <1>12 DEF r
  <2> QED
    BY <1>3, <1>7, <1>9, <1>12, <2>1, StillCtl DEF r
<1> QED
  BY <1>10, <1>11, <1>12

-----------------------------------------------------------------------------
(* Returning credits to the pool moves none to or from the events.         *)

(* Part and Held in this state and in the next.                            *)
LEMMA PartNow ==
  ASSUME NEW p, NEW t
  PROVE  /\ Part(p, t) = num[p][t] - (Pending(th[io(p)], t) + Pending(th[ctl(p)], t)
                            + th[io(p)].used[t] - EventsIn(th[io(p)].chunk, t))
         /\ Part(p, t)' = num'[p][t] - (Pending(th'[io(p)], t) + Pending(th'[ctl(p)], t)
                            + th'[io(p)].used[t] - EventsIn(th'[io(p)].chunk, t))
         /\ Held(p, t)' = IF RecvType(p) = t THEN cq'[p] + th'[io(p)].taken ELSE 0
BY DEF Part, Spent, Pending, Held

(* Sums with zeros.                                                        *)
LEMMA ZeroSum ==
  ASSUME NEW n \in Int, NEW a \in Int
  PROVE  n - (a + 0 + 0 - 0) = n - a /\ n - (0 + a + 0 - 0) = n - a
OBVIOUS

(* What changes the pool and the cache of p when an agent of p goes from   *)
(* r to x with nothing in hand.                                            *)
Shifts(p, r, x) ==
  /\ x.used = NoneUsed /\ x.chunk = <<>> /\ x.taken = r.taken /\ x.pc \notin Sending
  /\ Covered(num'[p], x)
  /\ \A q \in Ports \ {p} : num'[q] = num[q]
  /\ \A t \in Types : pool'[t] + (num'[p][t] - Pending(x, t))
                       = pool[t] + (num[p][t] - Pending(r, t))

(* A step of an agent that releases is a step of its port.                 *)
LEMMA ReleaseMove ==
  ASSUME Inv, Shape', NEW a \in Agents, th[a].pc \in {"release", "deduct"},
         NEW x, th' = [th EXCEPT ![a] = x],
         UNCHANGED <<device, cq>>, Shifts(a[1], th[a], x)
  PROVE  \E p \in Ports : Done(p, NoneUsed)
<1>1. PICK p \in Ports : /\ a[1] = p
                         /\ \/ a = io(p) /\ th[ctl(p)].pc = "idle"
                            \/ a = ctl(p) /\ th[io(p)].pc = "idle"
  BY Releaser
<1> DEFINE r == th[a]
           i == th[io(p)]
           j == th'[io(p)]
           c == th[ctl(p)]
           d == th'[ctl(p)]
<1>0. /\ x.used = NoneUsed /\ x.chunk = <<>> /\ x.taken = r.taken /\ x.pc \notin Sending
      /\ Covered(num'[p], x)
      /\ \A q \in Ports \ {p} : num'[q] = num[q]
      /\ \A t \in Types : pool'[t] + (num'[p][t] - Pending(x, t))
                           = pool[t] + (num[p][t] - Pending(r, t))
  BY <1>1 DEF Shifts
<1>2. AgentOK(a, r)
  BY DEF Inv, Shape, AgentsOK
<1>3. r \in AgentType /\ Resting(r)
  BY <1>2, HeadTypes
<1>4. x \in AgentType /\ i \in AgentType /\ c \in AgentType
  <2>1. Shape' => th'[a] \in AgentType
    BY DEF Shape, AgentsOK
  <2>2. th'[a] = x
    BY DEF Inv, Shape, AgentsOK
  <2> QED
    BY <2>1, <2>2, TheAgents DEF Inv, Shape
<1>5. Frame(p) /\ (a = io(p) => j = x /\ d = c) /\ (a = ctl(p) => j = i /\ d = x)
  <2>1. \A b \in Agents : th'[b] = IF b = a THEN x ELSE th[b]
    BY DEF Inv, Shape, AgentsOK
  <2> QED
    BY <1>0, <1>1, <2>1, AgentsAre DEF Frame
<1>6. i.pc = "idle" => Resting(i)
  BY BlankPlaces DEF Inv, Blank, Resting
<1>7. \A t \in Types : num[p][t] \in Int /\ num'[p][t] \in Int /\ 0 <= num'[p][t]
  <2>1. \A t \in Types : num[p][t] \in Int
    BY NumType DEF Inv, Shape, Data
  <2>2. \A t \in Types : num'[p][t] \in Words
    BY DEF Shape, Data, Caches
  <2> QED
    BY <2>1, <2>2, WordsAre
<1>8. Local(p)'
  <2>1. \A t \in Types : EventsIn(j.chunk, t) = 0 /\ j.used[t] = 0
    BY <1>0, <1>1, <1>4, <1>5, <1>6, NoEvents DEF Resting, NoneUsed
  <2>2. d.pc # "idle" => j.pc = "idle"
    BY <1>1, <1>5
  <2>3. j.pc \notin Sending
    BY <1>0, <1>1, <1>5 DEF Sending
  <2>4. Covered(num'[p], j) /\ Covered(num'[p], d)
    BY <1>0, <1>1, <1>5 DEF Covered
  <2> HIDE DEF j, d
  <2>5. Sound(num'[p], j, d)
    BY <1>7, <2>1, <2>2, <2>3, <2>4 DEF Sound
  <2> QED
    BY <2>5 DEF Local, j, d
<1>9. ASSUME NEW t \in Types
      PROVE  /\ pool'[t] + Part(p, t)' = pool[t] + Part(p, t) - NoneUsed[t]
             /\ device'[t] + Held(p, t)' = device[t] + Held(p, t) + NoneUsed[t]
  <2>1. Pending(r, t) \in Int /\ Pending(x, t) \in Int
    BY <1>3, <1>4, Typing
  <2>2. /\ i.used[t] = 0 /\ EventsIn(i.chunk, t) = 0 /\ j.used[t] = 0 /\ EventsIn(j.chunk, t) = 0
    BY <1>0, <1>1, <1>3, <1>5, <1>6, NoEvents DEF Resting, NoneUsed
  <2>3. /\ a = io(p) => /\ Pending(i, t) = Pending(r, t) /\ Pending(c, t) = 0
                        /\ Pending(j, t) = Pending(x, t) /\ Pending(d, t) = 0
        /\ a = ctl(p) => /\ Pending(c, t) = Pending(r, t) /\ Pending(i, t) = 0
                         /\ Pending(d, t) = Pending(x, t) /\ Pending(j, t) = 0
    BY <1>1, <1>5, AgentsAre DEF Pending
  <2>4. Part(p, t) = num[p][t] - Pending(r, t)
    BY <1>1, <1>7, <2>1, <2>2, <2>3, PartNow, ZeroSum
  <2>5. Part(p, t)' = num'[p][t] - Pending(x, t)
    BY <1>1, <1>7, <2>1, <2>2, <2>3, PartNow, ZeroSum
  <2>6. Held(p, t)' = Held(p, t)
    <3>1. i.taken = j.taken
      BY <1>0, <1>1, <1>5
    <3> QED
      BY <3>1, PartNow DEF Held
  <2>7. Part(p, t) \in Int /\ Held(p, t) \in Int /\ pool[t] \in Int /\ device[t] \in Int
    BY PartType DEF Inv, Shape, Data
  <2>8. NoneUsed[t] = 0
    BY DEF NoneUsed
  <2>9. pool'[t] + Part(p, t)' = pool[t] + Part(p, t)
    BY <1>0, <2>4, <2>5
  <2> QED
    BY <2>6, <2>7, <2>8, <2>9
<1> QED
  BY <1>5, <1>8, <1>9 DEF Done, Moves

(* What is added to the pool is spent from the cache at once.              *)
LEMMA GiveBackDone ==
  ASSUME Inv, Shape', NEW a \in Agents, GiveBack(a)
  PROVE  \E p \in Ports : Done(p, NoneUsed)
<1> DEFINE r == th[a]
           e == Head(r.types)
           y == Head(r.calls).policy
           val == num[a[1]][e] - credit_rem[y]
           x == [r EXCEPT !.pc = "deduct", !.val = val]
<1>1. AgentOK(a, r) /\ r.pc = "release"
  BY DEF Inv, Shape, AgentsOK, GiveBack
<1>2. /\ r \in AgentType /\ Resting(r) /\ a[1] \in Ports /\ e \in Types
      /\ Head(r.calls) \in Calls /\ y \in Policies
  BY <1>1, HeadTypes DEF Calls
<1>3. /\ pool' = [pool EXCEPT ![e] = @ + val]
      /\ th' = [th EXCEPT ![a] = x]
      /\ UNCHANGED <<num, device, cq>>
  BY DEF GiveBack, portVars, eventVars
<1>4. val <= num[a[1]][e] /\ val \in Int
  <2>1. num[a[1]][e] \in Int
    BY <1>2, NumType DEF Inv, Shape, Data
  <2>2. credit_rem[y] \in Nat
    BY <1>2, TablesType
  <2> HIDE DEF e, y
  <2> QED
    BY <2>1, <2>2
<1> HIDE DEF val, e, r
<1>5. /\ x.used = NoneUsed /\ x.chunk = <<>> /\ x.taken = r.taken /\ x.pc = "deduct" /\ x.val = val
      /\ x.types = r.types
  BY <1>2 DEF AgentType, Resting
<1> HIDE DEF x
<1>6. Covered(num'[a[1]], x)
  BY <1>3, <1>4, <1>5 DEF Covered, e
<1>7. ASSUME NEW t \in Types
      PROVE  pool'[t] + (num'[a[1]][t] - Pending(x, t)) = pool[t] + (num[a[1]][t] - Pending(r, t))
  <2>1. Pending(r, t) = 0 /\ Pending(x, t) = IF e = t THEN val ELSE 0
    BY <1>1, <1>5 DEF Pending, e
  <2>2. pool[t] \in Int /\ pool'[t] = IF e = t THEN pool[t] + val ELSE pool[t]
    BY <1>2, <1>3 DEF Inv, Shape, Data
  <2>3. num[a[1]][t] \in Int /\ num' = num
    BY <1>2, <1>3, NumType DEF Inv, Shape, Data
  <2> DEFINE n == num[a[1]][t]
             s == pool[t]
             v == Pending(x, t)
             w == pool'[t]
  <2>4. n \in Int /\ s \in Int
    BY <2>2, <2>3
  <2>5. CASE e = t
    <3>1. v = val /\ w = s + val
      BY <2>1, <2>2, <2>5
    <3> HIDE DEF n, s, v, w
    <3>2. w + (n - v) = s + (n - 0)
      BY <1>4, <2>4, <3>1
    <3> QED
      BY <2>1, <2>3, <3>2 DEF n, s, v, w
  <2>6. CASE e # t
    <3>1. v = 0 /\ w = s
      BY <2>1, <2>2, <2>6
    <3> HIDE DEF n, s, v, w
    <3>2. w + (n - v) = s + (n - 0)
      BY <2>4, <3>1
    <3> QED
      BY <2>1, <2>3, <3>2 DEF n, s, v, w
  <2> QED
    BY <2>5, <2>6
<1>8. x.pc \notin Sending /\ th[a].pc \in {"release", "deduct"}
  BY <1>1, <1>5 DEF Sending, r
<1>9. Shifts(a[1], r, x)
  BY <1>3, <1>5, <1>6, <1>7, <1>8 DEF Shifts
<1> QED
  BY <1>3, <1>8, <1>9, ReleaseMove DEF r

(* The subtraction only makes up for that: it does not wrap, because       *)
(* nobody else lowered the cache since.                                    *)
LEMMA DeductDone ==
  ASSUME Inv, Shape', NEW a \in Agents, Deduct(a)
  PROVE  \E p \in Ports : Done(p, NoneUsed)
<1> DEFINE r == th[a]
           e == Head(r.types)
           p == a[1]
           n == num[p][e] - r.val
           x == AfterType(r)
<1>1. AgentOK(a, r) /\ r.pc = "deduct"
  BY DEF Inv, Shape, AgentsOK, Deduct
<1>2. r \in AgentType /\ p \in Ports /\ e \in Types
  BY <1>1, HeadTypes
<1>3. r.val \in Nat /\ r.val <= num[p][e] /\ num[p][e] \in Int /\ num[p][e] <= 65535
  <2>1. num[p][e] \in Int /\ num[p][e] <= 65535
    BY <1>2, NumType DEF Inv, Shape, Data
  <2>2. r.val \in Nat
    BY <1>2 DEF AgentType
  <2>3. Covered(num[p], r)
    <3>1. PICK q \in Ports : p = q /\ (a = io(q) \/ a = ctl(q))
      BY <1>1, Releaser
    <3> QED
      BY <3>1 DEF Inv, Local, Sound
  <2> QED
    BY <1>1, <2>1, <2>2, <2>3 DEF Covered
<1>4. n \in Int /\ u16(n) = n
  <2> HIDE DEF r, e, p
  <2>1. n \in Int /\ 0 <= n /\ n <= 65535
    BY <1>3
  <2> QED
    BY <2>1, U16
<1>5. /\ num' = [num EXCEPT ![p][e] = n]
      /\ NextType(a, r)
      /\ UNCHANGED <<pool, device, cq>>
  BY <1>4 DEF Deduct, eventVars
<1>6. th' = [th EXCEPT ![a] = x]
  BY <1>5, AfterTypeIs
<1>7. x.used = NoneUsed /\ x.chunk = <<>> /\ x.taken = r.taken /\ x.pc \notin Sending \cup {"deduct"}
  BY <1>1, AfterTypeHas
<1> HIDE DEF x, n, e, p, r
<1>8. ASSUME NEW t \in Types
      PROVE  pool'[t] + (num'[p][t] - Pending(x, t)) = pool[t] + (num[p][t] - Pending(r, t))
  <2>1. Pending(x, t) = 0 /\ Pending(r, t) = IF e = t THEN r.val ELSE 0
    BY <1>1, <1>7 DEF Pending, e
  <2>2. pool[t] \in Int /\ pool' = pool
    BY <1>5 DEF Inv, Shape, Data
  <2>3. num[p][t] \in Int
    BY <1>2, NumType DEF Inv, Shape, Data
  <2>4. num'[p][t] = IF e = t THEN n ELSE num[p][t]
    BY <1>2, <1>5 DEF Inv, Shape, Data, Caches
  <2>5. num'[p][t] - Pending(x, t) = num[p][t] - Pending(r, t)
    <3>1. CASE e = t
      BY <1>3, <1>4, <2>1, <2>3, <2>4, <3>1 DEF n
    <3>2. CASE e # t
      BY <2>1, <2>3, <2>4, <3>2
    <3> QED
      BY <3>1, <3>2
  <2> QED
    BY <2>2, <2>5
<1>9. Covered(num'[p], x) /\ \A q \in Ports \ {p} : num'[q] = num[q]
  BY <1>2, <1>5, <1>7 DEF Covered, Inv, Shape, Data, Caches
<1>10. Shifts(p, r, x)
  BY <1>7, <1>8, <1>9 DEF Shifts
<1>11. Shifts(a[1], th[a], x) /\ th[a].pc \in {"release", "deduct"}
  BY <1>1, <1>10 DEF p, r
<1> QED
  BY <1>5, <1>6, <1>11, ReleaseMove

-----------------------------------------------------------------------------
(* Steps inside a send or a receive.                                       *)

(* One more event in a chunk.                                              *)
LEMMA EventsInAppend ==
  ASSUME NEW c \in Seq(Events), NEW e \in Events, NEW t
  PROVE  EventsIn(Append(c, e), t) = EventsIn(c, t) + IF t = e THEN 1 ELSE 0
<1> DEFINE n == Len(c)
           S == {i \in 1 .. n : c[i] = t}
           T == {i \in 1 .. n + 1 : Append(c, e)[i] = t}
<1>1. n \in Nat /\ IsFiniteSet(1 .. n)
  BY FS_Interval
<1>2. IsFiniteSet(S) /\ Cardinality(S) \in Nat
  BY <1>1, FS_Subset, FS_CardinalityType
<1>3. EventsIn(c, t) = Cardinality(S) /\ EventsIn(Append(c, e), t) = Cardinality(T)
  <2>1. DOMAIN c = 1 .. n /\ DOMAIN Append(c, e) = 1 .. n + 1
    OBVIOUS
  <2> QED
    BY <2>1 DEF EventsIn
<1>4. \A i \in 1 .. n + 1 : Append(c, e)[i] = IF i = n + 1 THEN e ELSE c[i]
  OBVIOUS
<1>5. CASE t = e
  <2>1. T = S \cup {n + 1} /\ n + 1 \notin S
    BY <1>1, <1>4, <1>5
  <2> HIDE DEF S, T, n
  <2>2. Cardinality(T) = Cardinality(S) + 1
    BY <1>2, <2>1, FS_AddElement
  <2> QED
    BY <1>3, <1>5, <2>2
<1>6. CASE t # e
  <2>1. T = S
    BY <1>1, <1>4, <1>6
  <2> HIDE DEF S, T, n
  <2> QED
    BY <1>2, <1>3, <1>6, <2>1
<1> QED
  BY <1>5, <1>6

(* The credits in a cache that are not spent, and the events in hand, seen *)
(* from the cache, the CQ and the agent.                                   *)
PartAt(n, r, t) == n[t] - (r.used[t] - EventsIn(r.chunk, t))
HeldAt(p, c, r, t) == IF RecvType(p) = t THEN c + r.taken ELSE 0

(* A step of the thread of p, while nobody disables p, seen from its cache *)
(* and its agent: from r to x.                                             *)
IoShifts(p, r, x, k) ==
  /\ r.pc # "deduct" /\ x.pc # "deduct" /\ Room(x)
  /\ \A q \in Ports \ {p} : num'[q] = num[q] /\ cq'[q] = cq[q]
  /\ \A t \in Types :
       /\ EventsIn(x.chunk, t) <= x.used[t] /\ x.used[t] <= num'[p][t]
       /\ pool'[t] + PartAt(num'[p], x, t) = pool[t] + PartAt(num[p], r, t) - k[t]
       /\ device'[t] + HeldAt(p, cq'[p], x, t) = device[t] + HeldAt(p, cq[p], r, t) + k[t]

(* A cache without pending subtractions.                                   *)
LEMMA ZeroChunk ==
  ASSUME NEW n \in Int, NEW u \in Int, NEW v \in Int
  PROVE  n - (0 + 0 + u - v) = n - (u - v)
OBVIOUS

(* A step that is a shift is a step of its port.                           *)
LEMMA IoMove ==
  ASSUME Inv, Shape', NEW p \in Ports, NEW x, th' = [th EXCEPT ![io(p)] = x],
         th[ctl(p)].pc = "idle", NEW k, IoShifts(p, th[io(p)], x, k)
  PROVE  Done(p, k)
<1> DEFINE r == th[io(p)]
<1>0. /\ r.pc # "deduct" /\ x.pc # "deduct" /\ Room(x)
      /\ \A q \in Ports \ {p} : num'[q] = num[q] /\ cq'[q] = cq[q]
      /\ \A t \in Types :
           /\ EventsIn(x.chunk, t) <= x.used[t] /\ x.used[t] <= num'[p][t]
           /\ pool'[t] + PartAt(num'[p], x, t) = pool[t] + PartAt(num[p], r, t) - k[t]
           /\ device'[t] + HeldAt(p, cq'[p], x, t) = device[t] + HeldAt(p, cq[p], r, t) + k[t]
  BY DEF IoShifts
<1>1. /\ th'[io(p)] = x /\ th'[ctl(p)] = th[ctl(p)]
      /\ \A q \in Ports \ {p} : th'[io(q)] = th[io(q)] /\ th'[ctl(q)] = th[ctl(q)]
  BY OneIo DEF Inv
<1>2. x \in AgentType /\ r \in AgentType
  <2>1. Shape' => th'[io(p)] \in AgentType
    BY AgentsAre DEF Shape, AgentsOK
  <2> QED
    BY <1>1, <2>1, TheAgents DEF Inv, Shape
<1>3. Frame(p)
  BY <1>0, <1>1 DEF Frame
<1> HIDE DEF r
<1>4. Local(p)'
  <2>1. Sound(num'[p], x, th[ctl(p)])
    <3>1. Covered(num'[p], x) /\ Covered(num'[p], th[ctl(p)])
      BY <1>0 DEF Covered
    <3> QED
      BY <1>0, <3>1 DEF Sound, Room
  <2> QED
    BY <1>1, <2>1 DEF Local
<1>5. ASSUME NEW t \in Types
      PROVE  /\ pool'[t] + Part(p, t)' = pool[t] + Part(p, t) - k[t]
             /\ device'[t] + Held(p, t)' = device[t] + Held(p, t) + k[t]
  <2>1. /\ Pending(r, t) = 0 /\ Pending(x, t) = 0 /\ Pending(th[ctl(p)], t) = 0
    BY <1>0 DEF Pending
  <2>2. /\ r.used[t] \in Int /\ EventsIn(r.chunk, t) \in Int
        /\ x.used[t] \in Int /\ EventsIn(x.chunk, t) \in Int
    BY <1>2, Typing
  <2>3. num[p][t] \in Int /\ num'[p][t] \in Int
    <3>1. num'[p][t] \in Words
      BY DEF Shape, Data, Caches
    <3> QED
      BY <3>1, WordsAre, NumType DEF Inv, Shape, Data
  <2>4. Part(p, t) = PartAt(num[p], r, t)
    <3>1. Part(p, t) = num[p][t] - (0 + 0 + r.used[t] - EventsIn(r.chunk, t))
      BY <2>1, PartNow DEF r
    <3> QED
      BY <2>2, <2>3, <3>1, ZeroChunk DEF PartAt
  <2>5. Part(p, t)' = PartAt(num'[p], x, t)
    <3>1. Part(p, t)' = num'[p][t] - (0 + 0 + x.used[t] - EventsIn(x.chunk, t))
      BY <1>1, <2>1, PartNow
    <3> QED
      BY <2>2, <2>3, <3>1, ZeroChunk DEF PartAt
  <2>6. pool'[t] + Part(p, t)' = pool[t] + Part(p, t) - k[t]
    BY <1>0, <2>4, <2>5
  <2>7. device'[t] + Held(p, t)' = device[t] + Held(p, t) + k[t]
    BY <1>0, <1>1, PartNow DEF Held, HeldAt, r
  <2> QED
    BY <2>6, <2>7
<1> QED
  BY <1>3, <1>4, <1>5 DEF Done, Moves

(* What Inv says of the numbers of one port.                               *)
LEMMA SoundIs ==
  ASSUME Inv, NEW p \in Ports, NEW t \in Types
  PROVE  /\ EventsIn(th[io(p)].chunk, t) <= th[io(p)].used[t]
         /\ th[io(p)].used[t] <= num[p][t]
         /\ th[io(p)].pc \in Sending => th[io(p)].used[t] + Len(th[io(p)].want) <= MaxSend
         /\ num[p][t] \in Int /\ 0 <= num[p][t] /\ num[p][t] <= 65535
         /\ pool[t] \in Nat /\ device[t] \in Nat /\ cq[p] \in Nat
<1>1. Sound(num[p], th[io(p)], th[ctl(p)])
  BY DEF Inv, Local
<1>2. num[p][t] \in Int /\ 0 <= num[p][t] /\ num[p][t] <= 65535
  BY NumType DEF Inv, Shape, Data
<1>3. pool[t] \in Nat /\ device[t] \in Nat /\ cq[p] \in Nat
  BY DEF Inv, Shape, Data
<1> QED
  BY <1>1, <1>2, <1>3 DEF Sound

(* Taking an event into the chunk uses a credit that is still stored with  *)
(* the event in hand: nothing moves, and there was such a credit.          *)
LEMMA TakeDone ==
  ASSUME Inv, Shape', Exclusive, NEW p \in Ports, Take(p)
  PROVE  Done(p, NoneUsed)
<1> DEFINE r == th[io(p)]
           e == Head(r.want)
           u == [t \in Types |-> r.used[t] + IF t = e THEN 1 ELSE 0]
           x == [r EXCEPT !.want = Tail(r.want), !.chunk = Append(r.chunk, e),
                          !.count = r.count + 1, !.tried = FALSE, !.used = u]
<1>1. Building(p) /\ ~OutOfCredits(p)
  BY DEF Take
<1>2. /\ r \in AgentType /\ r.pc = "build" /\ e \in Events /\ r.want # <<>>
  BY <1>1, BuildingIs DEF Inv
<1>3. /\ th' = [th EXCEPT ![io(p)] = x] /\ UNCHANGED <<pool, num, device, cq>>
      /\ th[ctl(p)].pc = "idle"
  BY AtIs DEF Take, Building, eventVars
<1>4. e \in Types => num[p][e] # r.used[e]
  BY <1>1 DEF OutOfCredits, Free, Types
<1> HIDE DEF e
<1>5. ASSUME NEW t \in Types
      PROVE  /\ EventsIn(r.chunk, t) <= r.used[t] /\ r.used[t] <= num[p][t]
             /\ r.used[t] + Len(r.want) <= MaxSend
             /\ r.used[t] \in Nat /\ EventsIn(r.chunk, t) \in Nat /\ num[p][t] \in Int
             /\ pool[t] \in Nat /\ device[t] \in Nat /\ cq[p] \in Nat /\ r.taken \in Nat
  BY <1>2, SoundIs, Typing DEF Sending
<1> HIDE DEF r
<1>6. /\ x.pc = "build" /\ x.chunk = Append(r.chunk, e) /\ x.used = u /\ x.taken = r.taken
      /\ x.want = Tail(r.want)
  BY <1>2 DEF AgentType
<1>7. ASSUME NEW t \in Types
      PROVE  EventsIn(x.chunk, t) = EventsIn(r.chunk, t) + (IF t = e THEN 1 ELSE 0)
  BY <1>2, <1>6, EventsInAppend DEF AgentType
<1>8. Len(x.want) = Len(r.want) - 1 /\ Len(r.want) \in Nat
  <2>1. r.want \in Seq(Events)
    BY <1>2 DEF AgentType
  <2> QED
    BY <1>2, <1>6, <2>1, TailType
<1> HIDE DEF x
<1>9. ASSUME NEW t \in Types
      PROVE  /\ EventsIn(x.chunk, t) <= x.used[t] /\ x.used[t] <= num[p][t]
             /\ x.used[t] - EventsIn(x.chunk, t) = r.used[t] - EventsIn(r.chunk, t)
             /\ x.used[t] + Len(x.want) <= MaxSend
  <2> DEFINE a == r.used[t]
             b == EventsIn(r.chunk, t)
             c == EventsIn(x.chunk, t)
             l == Len(r.want)
             m == Len(x.want)
             w == x.used[t]
             n == num[p][t]
             d == IF t = e THEN 1 ELSE 0
  <2>1. w = a + d /\ c = b + d
    BY <1>6, <1>7
  <2>2. d \in 0 .. 1 /\ (d = 1 => n # a)
    BY <1>4
  <2>3. /\ b <= a /\ a <= n /\ a + l <= MaxSend /\ a \in Nat /\ b \in Nat /\ n \in Int
        /\ m = l - 1 /\ l \in Nat /\ MaxSend \in Nat
    BY <1>5, <1>8, SwCreditsAssumption
  <2> HIDE DEF a, b, c, l, m, w, n, d
  <2>4. c <= w /\ w <= n /\ w - c = a - b /\ w + m <= MaxSend
    BY <2>1, <2>2, <2>3
  <2> QED
    BY <2>4 DEF a, b, c, l, m, w, n
<1>10. IoShifts(p, r, x, NoneUsed)
  <2>1. Room(x)
    BY <1>9 DEF Room
  <2>2. ASSUME NEW t \in Types
        PROVE  /\ pool'[t] + PartAt(num'[p], x, t) = pool[t] + PartAt(num[p], r, t) - NoneUsed[t]
               /\ device'[t] + HeldAt(p, cq'[p], x, t)
                    = device[t] + HeldAt(p, cq[p], r, t) + NoneUsed[t]
    <3>1. pool'[t] = pool[t] /\ device'[t] = device[t] /\ pool[t] \in Int /\ device[t] \in Int
      BY <1>3, <1>5
    <3>2. PartAt(num'[p], x, t) = PartAt(num[p], r, t) /\ PartAt(num[p], r, t) \in Int
      BY <1>3, <1>5, <1>9 DEF PartAt
    <3>3. HeldAt(p, cq'[p], x, t) = HeldAt(p, cq[p], r, t) /\ HeldAt(p, cq[p], r, t) \in Int
      BY <1>3, <1>5, <1>6 DEF HeldAt
    <3> QED
      BY <3>1, <3>2, <3>3 DEF NoneUsed
  <2> QED
    BY <1>2, <1>3, <1>6, <1>9, <2>1, <2>2 DEF IoShifts
<1> QED
  BY <1>3, <1>10, IoMove DEF r

(* A cache has room for all credits of a type. The sum with MaxSend is     *)
(* there because a send subtracts what it used only at its end: until then *)
(* the cache also has the credits its own events already carry.            *)
Fits == \A t \in Types : Total[t] + MaxSend < 65536

(* What a thread that is not deducting has.                                *)
LEMMA IoPart ==
  ASSUME Inv, NEW p \in Ports, NEW t \in Types, th[io(p)].pc # "deduct",
         th[ctl(p)].pc = "idle"
  PROVE  LET r == th[io(p)] IN
         /\ Part(p, t) = num[p][t] - (r.used[t] - EventsIn(r.chunk, t))
         /\ r.used[t] \in Nat /\ EventsIn(r.chunk, t) \in Nat /\ r.taken \in Nat
         /\ Held(p, t) = HeldAt(p, cq[p], r, t)
<1> DEFINE r == th[io(p)]
<1>1. /\ r.used[t] \in Nat /\ EventsIn(r.chunk, t) \in Nat /\ r.taken \in Nat
      /\ Pending(r, t) = 0 /\ Pending(th[ctl(p)], t) = 0
  BY TheAgents, Typing DEF Inv, Shape
<1>2. num[p][t] \in Int
  BY SoundIs
<1>3. Part(p, t) = num[p][t] - (Pending(r, t) + Pending(th[ctl(p)], t)
                            + r.used[t] - EventsIn(r.chunk, t))
  BY PartNow
<1> HIDE DEF r
<1>4. Part(p, t) = num[p][t] - (r.used[t] - EventsIn(r.chunk, t))
  BY <1>1, <1>2, <1>3, ZeroChunk
<1> QED
  BY <1>1, <1>4 DEF Held, HeldAt, r

(* A refresh moves credits from the pool to the cache, which has room for  *)
(* them; it takes no more than the pool has, whatever happened since the   *)
(* pool was read.                                                          *)
LEMMA RefreshDone ==
  ASSUME Inv, Shape', Exclusive, Fits, NEW p \in Ports, Refresh(p)
  PROVE  Done(p, NoneUsed)
<1> DEFINE r == th[io(p)]
           e == Head(r.want)
           b == RefreshBatch(r.seen, pool[e])
           n == num[p][e] + b
           x == [r EXCEPT !.pc = "build", !.tried = TRUE, !.seen = 0]
<1>1. /\ r \in AgentType /\ Placed(r) /\ r.pc = "refresh" /\ th[ctl(p)].pc = "idle"
  BY TheAgents, AtIs DEF Inv, Shape, IoOK, Refresh
<1>2. e \in Types
  BY <1>1 DEF Placed
<1>3. b \in Nat /\ b <= pool[e]
  <2>1. pool[e] \in Nat
    BY <1>2 DEF Inv, Shape, Data
  <2>2. r.seen \in Nat
    BY <1>1 DEF AgentType
  <2> QED
    BY <2>1, <2>2, RefreshBatchType
<1>4. ASSUME NEW t \in Types
      PROVE  /\ EventsIn(r.chunk, t) <= r.used[t] /\ r.used[t] <= num[p][t]
             /\ r.used[t] + Len(r.want) <= MaxSend
             /\ num[p][t] \in Int /\ 0 <= num[p][t]
             /\ pool[t] \in Nat /\ device[t] \in Nat /\ cq[p] \in Nat
             /\ r.used[t] \in Nat /\ EventsIn(r.chunk, t) \in Nat /\ r.taken \in Nat
             /\ Part(p, t) = num[p][t] - (r.used[t] - EventsIn(r.chunk, t))
  BY <1>1, SoundIs, IoPart DEF Sending
<1>5. r.want \in Seq(Events)
  BY <1>1 DEF AgentType
<1>6. n \in Int /\ u16(n) = n
  <2> DEFINE u == r.used[e]
             v == EventsIn(r.chunk, e)
             l == Len(r.want)
             m == num[p][e]
             s == pool[e]
             d == device[e]
             P == Part(p, e)
             H == Held(p, e)
             T == Total[e]
  <2>1. s + P + H + d <= T
    BY <1>2, Bound
  <2>2. H \in Nat /\ T \in Nat
    BY <1>2, PartType, SwCreditsAssumption DEF Inv
  <2>3. P = m - (u - v)
    BY <1>2, <1>4
  <2>4. u + l <= MaxSend /\ l \in Nat /\ T + MaxSend < 65536 /\ MaxSend \in Nat
    <3>1. u + l <= MaxSend
      BY <1>2, <1>4
    <3>2. l \in Nat
      BY <1>5
    <3>3. T + MaxSend < 65536
      BY <1>2 DEF Fits
    <3> QED
      BY <3>1, <3>2, <3>3, SwCreditsAssumption
  <2>5. m \in Int /\ 0 <= m /\ s \in Nat /\ d \in Nat /\ u \in Nat /\ v \in Nat /\ v <= u
    BY <1>2, <1>4
  <2>6. n = m + b /\ b \in Nat /\ b <= s
    BY <1>3
  <2> HIDE DEF u, v, l, m, s, d, P, H, T, b, n
  <2>7. n \in Int /\ 0 <= n /\ n <= 65535
    BY <2>1, <2>2, <2>3, <2>4, <2>5, <2>6
  <2> QED
    BY <2>7, U16
<1>7. /\ pool' = [pool EXCEPT ![e] = @ - b]
      /\ num' = [num EXCEPT ![p][e] = n]
      /\ th' = [th EXCEPT ![io(p)] = x]
      /\ UNCHANGED <<device, cq>>
  BY <1>6 DEF Refresh, eventVars
<1> HIDE DEF b, n, e, r
<1>8. /\ x.pc = "build" /\ x.used = r.used /\ x.chunk = r.chunk /\ x.taken = r.taken
      /\ x.want = r.want
  BY <1>1 DEF AgentType
<1> HIDE DEF x
<1>9. ASSUME NEW t \in Types
      PROVE  /\ pool'[t] = IF t = e THEN pool[t] - b ELSE pool[t]
             /\ num'[p][t] = IF t = e THEN num[p][t] + b ELSE num[p][t]
  BY <1>2, <1>7 DEF Inv, Shape, Data, Caches, n
<1>10. IoShifts(p, r, x, NoneUsed)
  <2>1. Room(x)
    BY <1>4, <1>8 DEF Room
  <2>2. ASSUME NEW t \in Types
        PROVE  /\ EventsIn(x.chunk, t) <= x.used[t] /\ x.used[t] <= num'[p][t]
               /\ pool'[t] + PartAt(num'[p], x, t) = pool[t] + PartAt(num[p], r, t) - NoneUsed[t]
               /\ device'[t] + HeldAt(p, cq'[p], x, t)
                    = device[t] + HeldAt(p, cq[p], r, t) + NoneUsed[t]
    <3> DEFINE u == r.used[t]
               v == EventsIn(r.chunk, t)
               m == num[p][t]
               s == pool[t]
    <3>1. /\ v <= u /\ u <= m /\ m \in Int /\ s \in Nat /\ u \in Nat /\ v \in Nat
          /\ pool'[t] = (IF t = e THEN s - b ELSE s)
          /\ num'[p][t] = (IF t = e THEN m + b ELSE m)
      BY <1>4, <1>9
    <3>2. PartAt(num'[p], x, t) = num'[p][t] - (u - v) /\ PartAt(num[p], r, t) = m - (u - v)
      BY <1>8 DEF PartAt
    <3>3. x.used[t] = u /\ EventsIn(x.chunk, t) = v
      BY <1>8
    <3>4. HeldAt(p, cq'[p], x, t) = HeldAt(p, cq[p], r, t) /\ HeldAt(p, cq[p], r, t) \in Int
      BY <1>4, <1>7, <1>8 DEF HeldAt
    <3>5. device'[t] = device[t] /\ device[t] \in Int
      BY <1>4, <1>7
    <3>6. NoneUsed[t] = 0
      BY DEF NoneUsed
    <3> HIDE DEF u, v, m, s
    <3>7. u <= num'[p][t] /\ pool'[t] + (num'[p][t] - (u - v)) = s + (m - (u - v)) - 0
      BY <1>3, <3>1
    <3>8. pool'[t] + PartAt(num'[p], x, t) = s + PartAt(num[p], r, t) - NoneUsed[t]
      BY <3>2, <3>6, <3>7
    <3>9. EventsIn(x.chunk, t) <= x.used[t] /\ x.used[t] <= num'[p][t]
      BY <3>1, <3>3, <3>7
    <3>10. device'[t] + HeldAt(p, cq'[p], x, t) = device[t] + HeldAt(p, cq[p], r, t) + NoneUsed[t]
      BY <3>4, <3>5, <3>6
    <3> QED
      BY <3>8, <3>9, <3>10 DEF s
  <2>3. \A q \in Ports \ {p} : num'[q] = num[q] /\ cq'[q] = cq[q]
    BY <1>7 DEF Inv, Shape, Data, Caches
  <2> QED
    BY <1>1, <1>8, <2>1, <2>2, <2>3 DEF IoShifts
<1> QED
  BY <1>1, <1>7, <1>10, IoMove DEF r

(* The events of the chunk leave the account.                              *)
ChunkOf(p) == [t \in Types |-> EventsIn(th[io(p)].chunk, t)]

(* The write to the device moves the credits of the chunk to the events.   *)
LEMMA EnqueueDone ==
  ASSUME Inv, Shape', Exclusive, NEW p \in Ports, Enqueue(p)
  PROVE  Done(p, ChunkOf(p))
<1> DEFINE r == th[io(p)]
           pc == IF r.want = <<>> THEN "charge" ELSE "build"
           x == [r EXCEPT !.chunk = <<>>, !.pc = pc]
           k == ChunkOf(p)
<1>1. /\ r \in AgentType /\ r.pc = "build" /\ th[ctl(p)].pc = "idle"
  BY TheAgents, AtIs DEF Inv, Shape, IoOK, Enqueue
<1>2. /\ device' = [t \in Types |-> device[t] + k[t]]
      /\ th' = [th EXCEPT ![io(p)] = x]
      /\ UNCHANGED <<pool, num, cq>>
  BY DEF Enqueue, ChunkOf
<1>3. ASSUME NEW t \in Types
      PROVE  /\ EventsIn(r.chunk, t) <= r.used[t] /\ r.used[t] <= num[p][t]
             /\ r.used[t] + Len(r.want) <= MaxSend
             /\ num[p][t] \in Int
             /\ pool[t] \in Nat /\ device[t] \in Nat /\ cq[p] \in Nat
             /\ r.used[t] \in Nat /\ EventsIn(r.chunk, t) \in Nat /\ r.taken \in Nat
             /\ k[t] = EventsIn(r.chunk, t)
  BY <1>1, SoundIs, IoPart DEF Sending, ChunkOf
<1>4. pc \in Sending
  BY DEF Sending
<1> HIDE DEF r, k, pc
<1>5. /\ x.pc = pc /\ x.used = r.used /\ x.chunk = <<>> /\ x.taken = r.taken
      /\ x.want = r.want
  BY <1>1 DEF AgentType
<1> HIDE DEF x
<1>6. IoShifts(p, r, x, k)
  <2>1. Room(x)
    BY <1>3, <1>5 DEF Room
  <2>2. ASSUME NEW t \in Types
        PROVE  /\ EventsIn(x.chunk, t) <= x.used[t] /\ x.used[t] <= num'[p][t]
               /\ pool'[t] + PartAt(num'[p], x, t) = pool[t] + PartAt(num[p], r, t) - k[t]
               /\ device'[t] + HeldAt(p, cq'[p], x, t) = device[t] + HeldAt(p, cq[p], r, t) + k[t]
    <3> DEFINE u == r.used[t]
               v == EventsIn(r.chunk, t)
               m == num[p][t]
               s == pool[t]
               z == HeldAt(p, cq[p], r, t)
               d == device[t]
    <3>1. HeldAt(p, cq'[p], x, t) = z /\ z \in Int
      BY <1>2, <1>3, <1>5 DEF HeldAt
    <3>2. /\ v <= u /\ u <= m /\ m \in Int /\ s \in Nat /\ u \in Nat /\ v \in Nat
          /\ pool'[t] = s /\ num'[p][t] = m /\ k[t] = v /\ d \in Nat /\ device'[t] = d + v
      BY <1>2, <1>3
    <3>3. x.used[t] = u /\ EventsIn(x.chunk, t) = 0
      BY <1>5, NoEvents
    <3>4. PartAt(num'[p], x, t) = m - (u - 0) /\ PartAt(num[p], r, t) = m - (u - v)
      BY <3>2, <3>3 DEF PartAt
    <3> HIDE DEF z, u, v, m, s, d
    <3>5. 0 <= u /\ u <= m /\ s + (m - (u - 0)) = s + (m - (u - v)) - v /\ d + v + z = d + z + v
      BY <3>1, <3>2
    <3>6. EventsIn(x.chunk, t) <= x.used[t] /\ x.used[t] <= num'[p][t]
      BY <3>2, <3>3, <3>5
    <3>7. pool'[t] + PartAt(num'[p], x, t) = s + PartAt(num[p], r, t) - k[t]
      BY <3>2, <3>4, <3>5
    <3>8. device'[t] + HeldAt(p, cq'[p], x, t) = d + z + k[t]
      BY <3>1, <3>2, <3>5
    <3> QED
      BY <3>6, <3>7, <3>8 DEF s, d, z
  <2>3. x.pc # "deduct" /\ r.pc # "deduct"
    BY <1>1, <1>4, <1>5 DEF Sending
  <2>4. \A q \in Ports \ {p} : num'[q] = num[q] /\ cq'[q] = cq[q]
    BY <1>2
  <2> QED
    BY <2>1, <2>2, <2>3, <2>4 DEF IoShifts
<1> QED
  BY <1>1, <1>2, <1>6, IoMove DEF r, k

(* The credits used are in the cache when they are subtracted at the end.  *)
LEMMA ChargeDone ==
  ASSUME Inv, Shape', Exclusive, NEW p \in Ports, Charge(p)
  PROVE  Done(p, NoneUsed)
<1> DEFINE r == th[io(p)]
           x == Releasing(Idle(0), release_port_credits(r.count = 0), "idle")
<1>1. /\ r.pc = "charge" /\ th[ctl(p)].pc = "idle"
  BY AtIs DEF Charge
<1>2. r.chunk = <<>> /\ r.taken = 0
  <2>1. Placed(r)
    BY TheAgents DEF Inv, Shape, IoOK
  <2> QED
    BY <1>1, <2>1 DEF Placed
<1>3. /\ num' = [num EXCEPT ![p] = Charged(p)]
      /\ th' = [th EXCEPT ![io(p)] = x]
      /\ UNCHANGED <<pool, device, cq>>
  BY DEF Charge, eventVars
<1>4. Blank(x) /\ x.pc = "release"
  <2> DEFINE calls == release_port_credits(r.count = 0)
  <2> HIDE DEF calls
  <2>1. Blank(Releasing(Idle(0), calls, "idle")) /\ Releasing(Idle(0), calls, "idle").pc = "release"
    BY BlankCalls
  <2> QED
    BY <2>1 DEF calls
<1> HIDE DEF x
<1>5. ASSUME NEW t \in Types
      PROVE  /\ r.used[t] <= num[p][t] /\ r.used[t] \in Nat
             /\ num[p][t] \in Int /\ 0 <= num[p][t] /\ num[p][t] <= 65535
             /\ pool[t] \in Nat /\ device[t] \in Nat /\ cq[p] \in Nat
  BY <1>1, SoundIs, IoPart
<1>6. ASSUME NEW t \in Types
      PROVE  num'[p][t] = num[p][t] - r.used[t]
  <2>1. num'[p] = Charged(p)
    BY <1>3 DEF Inv, Shape, Data, Caches
  <2>2. num'[p][t] = u16(num[p][t] - r.used[t])
    BY <2>1 DEF Charged
  <2> HIDE DEF r
  <2>3. num[p][t] - r.used[t] \in Int /\ 0 <= num[p][t] - r.used[t] /\ num[p][t] - r.used[t] <= 65535
    BY <1>5
  <2> QED
    BY <2>2, <2>3, U16
<1> HIDE DEF r
<1>7. IoShifts(p, r, x, NoneUsed)
  <2>1. Room(x) /\ x.pc # "deduct" /\ r.pc # "deduct"
    BY <1>1, <1>4, QuietRoom DEF Quiet
  <2>2. ASSUME NEW t \in Types
        PROVE  /\ EventsIn(x.chunk, t) <= x.used[t] /\ x.used[t] <= num'[p][t]
               /\ pool'[t] + PartAt(num'[p], x, t) = pool[t] + PartAt(num[p], r, t) - NoneUsed[t]
               /\ device'[t] + HeldAt(p, cq'[p], x, t)
                    = device[t] + HeldAt(p, cq[p], r, t) + NoneUsed[t]
    <3> DEFINE u == r.used[t]
               m == num[p][t]
               n == num'[p][t]
    <3>1. u <= m /\ u \in Nat /\ m \in Int /\ n = m - u
      BY <1>5, <1>6
    <3>2. x.used[t] = 0 /\ EventsIn(x.chunk, t) = 0 /\ EventsIn(r.chunk, t) = 0
      BY <1>2, <1>4, NoEvents DEF Blank, NoneUsed
    <3>3. PartAt(num'[p], x, t) = n - (0 - 0) /\ PartAt(num[p], r, t) = m - (u - 0)
      BY <3>2 DEF PartAt
    <3>4. HeldAt(p, cq'[p], x, t) = HeldAt(p, cq[p], r, t) /\ HeldAt(p, cq[p], r, t) \in Int
      BY <1>2, <1>3, <1>4, <1>5 DEF HeldAt, Blank
    <3>5. device'[t] = device[t] /\ device[t] \in Int /\ pool'[t] = pool[t] /\ pool[t] \in Int
      BY <1>3, <1>5
    <3>6. NoneUsed[t] = 0
      BY DEF NoneUsed
    <3> HIDE DEF u, m, n
    <3>7. n - (0 - 0) = m - (u - 0) /\ m - (u - 0) \in Int /\ 0 <= n
      BY <3>1
    <3>8. PartAt(num'[p], x, t) = PartAt(num[p], r, t) /\ PartAt(num[p], r, t) \in Int
      BY <3>3, <3>7
    <3> QED
      BY <3>2, <3>4, <3>5, <3>6, <3>7, <3>8 DEF n
  <2>3. \A q \in Ports \ {p} : num'[q] = num[q] /\ cq'[q] = cq[q]
    BY <1>3 DEF Inv, Shape, Data, Caches
  <2> QED
    BY <2>1, <2>2, <2>3 DEF IoShifts
<1> QED
  BY <1>1, <1>3, <1>7, IoMove DEF r

(* The events taken from the CQ are in hand until they are credited.       *)
LEMMA DequeueDone ==
  ASSUME Inv, Shape', Exclusive, NEW p \in Ports, Dequeue(p)
  PROVE  Done(p, NoneUsed)
<1> DEFINE r == th[io(p)]
           k == AtMost(r.max, cq[p])
           b == [r EXCEPT !.pc = "low_pool", !.types = PoolTypes, !.next = "credit", !.taken = k]
           c == [r EXCEPT !.pc = "credit", !.taken = k]
           x == IF p \in EpollPorts /\ k = cq[p] THEN b ELSE c
<1>1. r.pc = "take" /\ th[ctl(p)].pc = "idle" /\ r \in AgentType
  BY AtIs, TheAgents DEF Inv, Shape, Dequeue
<1>2. Blank(r)
  BY <1>1, BlankPlaces DEF Inv
<1>3. k \in Nat /\ cq[p] \in Nat
  <2>1. r.max \in Nat /\ cq[p] \in Nat
    BY <1>1 DEF AgentType, Inv, Shape, Data
  <2> QED
    BY <2>1, AtMostIs
<1>4. /\ th' = [th EXCEPT ![io(p)] = x]
      /\ cq' = [cq EXCEPT ![p] = @ - k]
      /\ UNCHANGED <<pool, num, device>>
  BY DEF Dequeue
<1>5. ASSUME NEW t \in Types
      PROVE  /\ num[p][t] \in Int /\ 0 <= num[p][t] /\ pool[t] \in Int /\ device[t] \in Int
  BY SoundIs
<1> HIDE DEF r, k
<1>6. b.pc = "low_pool" /\ b.used = NoneUsed /\ b.chunk = <<>> /\ b.taken = k
  BY <1>1, <1>2 DEF AgentType, Blank
<1>7. c.pc = "credit" /\ c.used = NoneUsed /\ c.chunk = <<>> /\ c.taken = k
  BY <1>1, <1>2 DEF AgentType, Blank
<1> HIDE DEF b, c
<1>8. x.pc \in Quiet /\ x.used = NoneUsed /\ x.chunk = <<>> /\ x.taken = k
  BY <1>6, <1>7 DEF Quiet
<1> HIDE DEF x
<1>9. IoShifts(p, r, x, NoneUsed)
  <2>1. Room(x) /\ x.pc # "deduct" /\ r.pc # "deduct"
    BY <1>1, <1>8, QuietRoom DEF Quiet
  <2>2. ASSUME NEW t \in Types
        PROVE  /\ EventsIn(x.chunk, t) <= x.used[t] /\ x.used[t] <= num'[p][t]
               /\ pool'[t] + PartAt(num'[p], x, t) = pool[t] + PartAt(num[p], r, t) - NoneUsed[t]
               /\ device'[t] + HeldAt(p, cq'[p], x, t)
                    = device[t] + HeldAt(p, cq[p], r, t) + NoneUsed[t]
    <3>1. /\ x.used[t] = 0 /\ EventsIn(x.chunk, t) = 0
          /\ r.used[t] = 0 /\ EventsIn(r.chunk, t) = 0 /\ NoneUsed[t] = 0
      BY <1>2, <1>8, NoEvents DEF Blank, NoneUsed
    <3>2. PartAt(num'[p], x, t) = PartAt(num[p], r, t) /\ PartAt(num[p], r, t) \in Int
      BY <1>4, <1>5, <3>1 DEF PartAt
    <3>3. HeldAt(p, cq'[p], x, t) = HeldAt(p, cq[p], r, t) /\ HeldAt(p, cq[p], r, t) \in Int
      <4>1. cq'[p] = cq[p] - k
        BY <1>4 DEF Inv, Shape, Data
      <4>2. x.taken = k /\ r.taken = 0
        BY <1>2, <1>8 DEF Blank
      <4> QED
        BY <1>3, <4>1, <4>2 DEF HeldAt
    <3>4. /\ device'[t] = device[t] /\ device[t] \in Int /\ pool'[t] = pool[t] /\ pool[t] \in Int
          /\ 0 <= num'[p][t]
      BY <1>4, <1>5
    <3> QED
      BY <3>1, <3>2, <3>3, <3>4
  <2>3. \A q \in Ports \ {p} : num'[q] = num[q] /\ cq'[q] = cq[q]
    BY <1>4 DEF Inv, Shape, Data
  <2> QED
    BY <2>1, <2>2, <2>3 DEF IoShifts
<1> QED
  BY <1>1, <1>4, <1>9, IoMove DEF r

(* The events of a receive come back to the account.                       *)
CreditOf(p) == [t \in Types |-> IF t = RecvType(p) THEN -th[io(p)].taken ELSE 0]

(* The credits of the events fit in the cache of the port.                 *)
LEMMA CreditFits ==
  ASSUME Inv, Exclusive, Fits, NEW p \in Ports, Credit(p)
  PROVE  LET n == num[p][RecvType(p)] + th[io(p)].taken IN n \in Int /\ u16(n) = n
<1> DEFINE r == th[io(p)]
           e == RecvType(p)
           n == num[p][e] + r.taken
<1>1. r.pc = "credit" /\ th[ctl(p)].pc = "idle" /\ r \in AgentType /\ Resting(r)
  <2>1. r.pc = "credit" /\ th[ctl(p)].pc = "idle"
    BY AtIs DEF Credit
  <2>2. r \in AgentType /\ Placed(r)
    BY TheAgents DEF Inv, Shape, IoOK
  <2> QED
    BY <2>1, <2>2 DEF Placed
<1>2. e \in Types
  BY DEF RecvType, Types
<1>3. ASSUME NEW t \in Types
      PROVE  /\ num[p][t] \in Int /\ 0 <= num[p][t] /\ pool[t] \in Nat /\ device[t] \in Nat
             /\ r.taken \in Nat /\ cq[p] \in Nat
             /\ r.used[t] = 0 /\ EventsIn(r.chunk, t) = 0
  BY <1>1, SoundIs, Typing
<1>4. n \in Int /\ u16(n) = n
  <2>1. Part(p, e) = num[p][e] - (r.used[e] - EventsIn(r.chunk, e))
    BY <1>1, <1>2, IoPart
  <2>2. Held(p, e) = cq[p] + r.taken
    BY DEF Held
  <2>3. pool[e] + Part(p, e) + Held(p, e) + device[e] <= Total[e]
    BY <1>2, Bound
  <2>4. Total[e] + MaxSend < 65536 /\ Total[e] \in Nat /\ MaxSend \in Nat
    BY <1>2, SwCreditsAssumption DEF Fits
  <2> DEFINE m == num[p][e]
             g == r.taken
             s == pool[e]
             d == device[e]
             P == Part(p, e)
             H == Held(p, e)
             T == Total[e]
             c == cq[p]
  <2>5. m \in Int /\ 0 <= m /\ g \in Nat /\ s \in Nat /\ d \in Nat /\ c \in Nat
    BY <1>2, <1>3
  <2>6. P = m - (0 - 0) /\ H = c + g /\ s + P + H + d <= T /\ T + MaxSend < 65536 /\ T \in Nat
        /\ MaxSend \in Nat /\ n = m + g
    BY <1>2, <1>3, <2>1, <2>2, <2>3, <2>4
  <2> HIDE DEF m, g, s, d, P, H, T, c, n
  <2>7. n \in Int /\ 0 <= n /\ n <= 65535
    BY <2>5, <2>6
  <2> QED
    BY <2>7, U16
<1> QED
  BY <1>4

(* The credits come back to the port that received the events.             *)
LEMMA CreditDone ==
  ASSUME Inv, Shape', Exclusive, Fits, NEW p \in Ports, Credit(p)
  PROVE  Done(p, CreditOf(p))
<1> DEFINE r == th[io(p)]
           e == RecvType(p)
           n == num[p][e] + r.taken
           x == Releasing(Idle(r.taken), RecvCalls(r), "idle")
           k == CreditOf(p)
<1>1. r.pc = "credit" /\ th[ctl(p)].pc = "idle" /\ r \in AgentType /\ Resting(r)
  <2>1. r.pc = "credit" /\ th[ctl(p)].pc = "idle"
    BY AtIs DEF Credit
  <2>2. r \in AgentType /\ Placed(r)
    BY TheAgents DEF Inv, Shape, IoOK
  <2> QED
    BY <2>1, <2>2 DEF Placed
<1>2. e \in Types
  BY DEF RecvType, Types
<1>3. ASSUME NEW t \in Types
      PROVE  /\ num[p][t] \in Int /\ 0 <= num[p][t] /\ pool[t] \in Nat /\ device[t] \in Nat
             /\ r.taken \in Nat /\ cq[p] \in Nat
             /\ r.used[t] = 0 /\ EventsIn(r.chunk, t) = 0
  BY <1>1, SoundIs, Typing
<1>4. n \in Int /\ u16(n) = n
  BY CreditFits
<1>5. /\ num' = [num EXCEPT ![p][e] = n]
      /\ th' = [th EXCEPT ![io(p)] = x]
      /\ UNCHANGED <<pool, device, cq>>
  BY <1>4 DEF Credit, eventVars
<1>6. Blank(x) /\ x.pc = "release"
  <2> DEFINE g == r.taken
             calls == RecvCalls(r)
  <2>1. g \in Nat
    BY <1>2, <1>3
  <2> HIDE DEF g, calls
  <2>2. /\ Blank(Releasing(Idle(g), calls, "idle"))
        /\ Releasing(Idle(g), calls, "idle").pc = "release"
    BY <2>1, BlankCalls
  <2> QED
    BY <2>2 DEF g, calls
<1>7. \A t \in Types : k[t] = IF t = e THEN -r.taken ELSE 0
  BY DEF CreditOf
<1> HIDE DEF x, n, e, r, k
<1>8. IoShifts(p, r, x, k)
  <2>1. Room(x) /\ x.pc # "deduct" /\ r.pc # "deduct"
    BY <1>1, <1>6, QuietRoom DEF Quiet
  <2>2. ASSUME NEW t \in Types
        PROVE  /\ EventsIn(x.chunk, t) <= x.used[t] /\ x.used[t] <= num'[p][t]
               /\ pool'[t] + PartAt(num'[p], x, t) = pool[t] + PartAt(num[p], r, t) - k[t]
               /\ device'[t] + HeldAt(p, cq'[p], x, t) = device[t] + HeldAt(p, cq[p], r, t) + k[t]
    <3> DEFINE m == num[p][t]
               l == num'[p][t]
               g == r.taken
               s == pool[t]
               d == device[t]
               c == cq[p]
               y == k[t]
    <3>1. /\ m \in Int /\ 0 <= m /\ g \in Nat /\ s \in Nat /\ d \in Nat /\ c \in Nat
          /\ pool'[t] = s /\ device'[t] = d /\ cq'[p] = c
          /\ y = (IF t = e THEN -g ELSE 0)
      BY <1>3, <1>5, <1>7
    <3>2. l = IF t = e THEN m + g ELSE m
      BY <1>2, <1>5 DEF n, Inv, Shape, Data, Caches
    <3>3. x.used[t] = 0 /\ EventsIn(x.chunk, t) = 0 /\ x.taken = 0
      BY <1>6, NoEvents DEF Blank, NoneUsed
    <3>4. PartAt(num'[p], x, t) = l - (0 - 0) /\ PartAt(num[p], r, t) = m - (0 - 0)
      BY <1>3, <3>3 DEF PartAt
    <3>5. /\ HeldAt(p, cq'[p], x, t) = (IF t = e THEN c + 0 ELSE 0)
          /\ HeldAt(p, cq[p], r, t) = (IF t = e THEN c + g ELSE 0)
      BY <3>1, <3>3 DEF HeldAt, e
    <3> HIDE DEF m, l, g, s, d, c, y
    <3>6. /\ 0 <= l
          /\ s + (l - (0 - 0)) = s + (m - (0 - 0)) - y
          /\ d + (IF t = e THEN c + 0 ELSE 0) = d + (IF t = e THEN c + g ELSE 0) + y
      BY <3>1, <3>2
    <3>7. EventsIn(x.chunk, t) <= x.used[t] /\ x.used[t] <= l
      BY <3>3, <3>6
    <3>8. pool'[t] + PartAt(num'[p], x, t) = s + PartAt(num[p], r, t) - y
      BY <3>1, <3>4, <3>6
    <3>9. device'[t] + HeldAt(p, cq'[p], x, t) = d + HeldAt(p, cq[p], r, t) + y
      BY <3>1, <3>5, <3>6
    <3> QED
      BY <3>7, <3>8, <3>9 DEF l, s, d, y
  <2>3. \A q \in Ports \ {p} : num'[q] = num[q] /\ cq'[q] = cq[q]
    BY <1>5 DEF Inv, Shape, Data, Caches
  <2> QED
    BY <2>1, <2>2, <2>3 DEF IoShifts
<1> QED
  BY <1>1, <1>5, <1>8, IoMove DEF r, k

(* The device only hands an event on.                                      *)
LEMMA ScheduleDone ==
  ASSUME Inv, Shape', NEW p \in Ports, Schedule(p)
  PROVE  Done(p, NoneUsed)
<1> DEFINE e == RecvType(p)
<1>1. e \in Types
  BY DEF RecvType, Types
<1>2. /\ device' = [device EXCEPT ![e] = @ - 1]
      /\ cq' = [cq EXCEPT ![p] = @ + 1]
      /\ UNCHANGED <<pool, num, th>>
  BY DEF Schedule
<1>3. Frame(p)
  BY <1>2 DEF Frame, Inv, Shape, Data
<1>4. Local(p)'
  BY <1>2 DEF Inv, Local
<1>5. ASSUME NEW t \in Types
      PROVE  /\ pool'[t] + Part(p, t)' = pool[t] + Part(p, t) - NoneUsed[t]
             /\ device'[t] + Held(p, t)' = device[t] + Held(p, t) + NoneUsed[t]
  <2>1. /\ pool[t] \in Int /\ device[t] \in Int /\ cq[p] \in Int /\ Part(p, t) \in Int
        /\ th[io(p)].taken \in Int /\ NoneUsed[t] = 0
    <3>1. th[io(p)].taken \in Nat
      BY TheAgents, Typing DEF Inv, Shape
    <3> QED
      BY <3>1, SoundIs, PartType DEF NoneUsed, Inv
  <2>2. Part(p, t)' = Part(p, t)
    BY <1>2 DEF Part, Spent
  <2>3. device'[t] = (IF t = e THEN device[t] - 1 ELSE device[t]) /\ cq'[p] = cq[p] + 1
    BY <1>1, <1>2 DEF Inv, Shape, Data
  <2>4. /\ Held(p, t) = (IF t = e THEN cq[p] + th[io(p)].taken ELSE 0)
        /\ Held(p, t)' = (IF t = e THEN cq'[p] + th[io(p)].taken ELSE 0)
    BY <1>2 DEF Held
  <2> HIDE DEF e
  <2>5. pool'[t] + Part(p, t)' = pool[t] + Part(p, t) - NoneUsed[t]
    BY <1>2, <2>1, <2>2
  <2>6. device'[t] + Held(p, t)' = device[t] + Held(p, t) + NoneUsed[t]
    BY <2>1, <2>3, <2>4
  <2> QED
    BY <2>5, <2>6
<1> QED
  BY <1>3, <1>4, <1>5 DEF Done, Moves

-----------------------------------------------------------------------------
(* Every step, the invariant and the theorems.                             *)

(* dlb_enable_port moves nothing.                                          *)
LEMMA EnableDone ==
  ASSUME Inv, NEW p \in Ports, enable_port(p)
  PROVE  Done(p, NoneUsed)
<1>1. UNCHANGED <<pool, num, device, cq, th>>
  BY DEF enable_port, eventVars
<1>2. Frame(p)
  BY <1>1 DEF Frame
<1>3. Local(p)'
  BY <1>1 DEF Inv, Local
<1>4. ASSUME NEW t \in Types
      PROVE  /\ pool'[t] + Part(p, t)' = pool[t] + Part(p, t) - NoneUsed[t]
             /\ device'[t] + Held(p, t)' = device[t] + Held(p, t) + NoneUsed[t]
  <2>1. /\ pool[t] \in Int /\ device[t] \in Int /\ Part(p, t) \in Int /\ Held(p, t) \in Int
        /\ NoneUsed[t] = 0
    BY PartType DEF NoneUsed, Inv, Shape, Data
  <2>2. Part(p, t)' = Part(p, t) /\ Held(p, t)' = Held(p, t)
    BY <1>1 DEF Part, Spent, Held
  <2> QED
    BY <1>1, <2>1, <2>2
<1> QED
  BY <1>2, <1>3, <1>4 DEF Done, Moves

(* Every step is a step of one port; only two kinds of steps move credits  *)
(* between the events and the rest.                                        *)
StepOf(p) ==
  \/ Done(p, NoneUsed)
  \/ Enqueue(p) /\ Done(p, ChunkOf(p))
  \/ Credit(p) /\ Done(p, CreditOf(p))

(* The steps of Next that name a port.                                     *)
PortStep(p) ==
  \/ dlb_send(p) \/ dlb_adv_send(p) \/ send_no_credits(p) \/ SendStep(p)
  \/ dlb_recv(p) \/ RecvStep(p) \/ TimeOut(p) \/ WaitFails(p)
  \/ disable_port(p) \/ enable_port(p) \/ DisableStep(p)
  \/ Schedule(p)

(* Every step releases credits or names a port.                            *)
LEMMA NextIs ==
  ASSUME Next
  PROVE  (\E a \in Agents : ReleaseStep(a)) \/ (\E p \in Ports : PortStep(p))
BY DEF Next, PortStep

(* The steps that name a port are steps of that port.                      *)
LEMMA PortStepOf ==
  ASSUME Inv, Shape', Exclusive, Fits, NEW p \in Ports, PortStep(p)
  PROVE  StepOf(p)
<1>1. CASE dlb_send(p) \/ dlb_adv_send(p)
  BY <1>1, SendEvents, SendDone DEF StepOf
<1>2. CASE send_no_credits(p)
  BY <1>2, NoCreditsDone DEF StepOf
<1>3. CASE SendStep(p)
  BY <1>3, TakeDone, ReadPoolDone, RefreshDone, EnqueueDone, ChargeDone DEF SendStep, StepOf
<1>4. CASE dlb_recv(p)
  BY <1>4, ReceiveArgs, ReceiveDone DEF StepOf
<1>5. CASE RecvStep(p) \/ TimeOut(p) \/ WaitFails(p)
  BY <1>5, ReadyDone, LowPoolDone, WaitDone, DequeueDone, CreditDone DEF RecvStep, StepOf
<1>6. CASE disable_port(p) \/ enable_port(p) \/ DisableStep(p) \/ Schedule(p)
  BY <1>6, DisableDone, EnableDone, DisableStepDone, ScheduleDone DEF StepOf
<1> QED
  BY <1>1, <1>2, <1>3, <1>4, <1>5, <1>6 DEF PortStep

(* Every step is a step of some port.                                      *)
LEMMA NextDone ==
  ASSUME Inv, Exclusive, Fits, Next
  PROVE  \E p \in Ports : StepOf(p)
<1> Shape'
  BY NextShape DEF Inv
<1>1. ASSUME NEW a \in Agents, ReleaseStep(a)
      PROVE  \E p \in Ports : StepOf(p)
  BY <1>1, GiveBackDone, DeductDone, KeepDone DEF ReleaseStep, StepOf
<1>2. ASSUME NEW p \in Ports, PortStep(p)
      PROVE  \E q \in Ports : StepOf(q)
  BY <1>2, PortStepOf
<1> QED
  BY <1>1, <1>2, NextIs

(* The amounts that steps move.                                            *)
LEMMA AmountsType ==
  ASSUME Inv, NEW p \in Ports
  PROVE  /\ NoneUsed \in [Types -> Int] /\ ChunkOf(p) \in [Types -> Nat]
         /\ CreditOf(p) \in [Types -> Int]
<1>1. th[io(p)] \in AgentType
  BY TheAgents DEF Inv, Shape
<1>2. th[io(p)].taken \in Nat
  BY <1>1 DEF AgentType
<1>3. \A t \in Types : EventsIn(th[io(p)].chunk, t) \in Nat
  BY <1>1, Typing
<1>4. CreditOf(p) \in [Types -> Int]
  BY <1>2 DEF CreditOf
<1>5. ChunkOf(p) \in [Types -> Nat]
  BY <1>3 DEF ChunkOf
<1> QED
  BY <1>4, <1>5 DEF NoneUsed

(* A step of a port keeps the invariant.                                   *)
LEMMA DoneInv ==
  ASSUME Inv, Shape', NEW p \in Ports, NEW k \in [Types -> Int], Done(p, k)
  PROVE  Inv'
<1>1. ASSUME NEW q \in Ports
      PROVE  Local(q)'
  <2>1. CASE q = p
    BY <2>1 DEF Done
  <2>2. CASE q # p
    <3>1. Sound(num[q], th[io(q)], th[ctl(q)])
      BY DEF Inv, Local
    <3>2. th'[io(q)] = th[io(q)] /\ th'[ctl(q)] = th[ctl(q)] /\ num'[q] = num[q]
      BY <2>2 DEF Done, Frame
    <3> QED
      BY <3>1, <3>2 DEF Local
  <2> QED
    BY <2>1, <2>2
<1>2. ASSUME NEW t \in Types
      PROVE  Unused(t)' + Stored(t)' = Total[t]
  <2>1. Unused(t)' = Unused(t) - k[t] /\ Stored(t)' = Stored(t) + k[t]
    BY Moved DEF Inv, Done
  <2>2. Unused(t) \in Int /\ Stored(t) \in Int /\ k[t] \in Int
    BY SumsType DEF Inv
  <2>3. Unused(t) + Stored(t) = Total[t]
    BY DEF Inv, CreditsConserved
  <2> QED
    BY <2>1, <2>2, <2>3
<1>3. CreditsConserved'
  BY <1>2 DEF CreditsConserved
<1> QED
  BY <1>1, <1>3 DEF Inv

(* The invariant is inductive.                                             *)
LEMMA NextInv == Inv /\ [Next]_vars /\ Exclusive /\ Fits => Inv'
<1> SUFFICES ASSUME Inv, [Next]_vars, Exclusive, Fits PROVE Inv'
  OBVIOUS
<1>1. CASE UNCHANGED vars
  <2>1. UNCHANGED <<pool, num, ret_count, enabled, scheduling, device, cq, th>>
    BY <1>1 DEF vars
  <2>2. Shape'
    BY NextShape DEF Inv
  <2>3. \A p \in Ports : Local(p)'
    BY <2>1 DEF Inv, Local
  <2>4. CreditsConserved'
    BY <2>1 DEF Inv, CreditsConserved, Unused, Stored, Spent
  <2> QED
    BY <2>2, <2>3, <2>4 DEF Inv
<1>2. CASE Next
  <2>1. PICK p \in Ports : StepOf(p)
    BY <1>2, NextDone
  <2>2. \E k \in [Types -> Int] : Done(p, k)
    <3>1. ChunkOf(p) \in [Types -> Int]
      <4>1. ChunkOf(p) \in [Types -> Nat]
        BY AmountsType
      <4> QED
        BY <4>1
    <3> QED
      BY <2>1, <3>1, AmountsType DEF StepOf
  <2>3. Shape'
    BY NextShape DEF Inv
  <2> QED
    BY <2>2, <2>3, DoneInv
<1> QED
  BY <1>1, <1>2

(* At the start all credits are unused.                                    *)
LEMMA InitSums ==
  ASSUME Init, NEW t \in Types
  PROVE  Unused(t) = Total[t] /\ Stored(t) = 0
<1>1. Shape
  BY InitShape
<1>2. Total[t] \in Nat
  BY SwCreditsAssumption
<1>3. ASSUME NEW p \in Ports
      PROVE  Part(p, t) = 0 /\ Held(p, t) = 0
  <2>1. th[io(p)] = Idle(0) /\ th[ctl(p)] = Idle(0)
    BY AgentsAre DEF Init
  <2>2. Pending(th[io(p)], t) = 0 /\ Pending(th[ctl(p)], t) = 0
    BY <2>1 DEF Pending, Idle
  <2>3. th[io(p)].used[t] = 0 /\ EventsIn(th[io(p)].chunk, t) = 0 /\ th[io(p)].taken = 0
    BY <2>1, NoEvents DEF Idle
  <2>4. num[p][t] = 0 /\ cq[p] = 0
    BY DEF Init
  <2>5. Spent(p, t) = 0
    BY <2>2, <2>3, SpentIs
  <2> QED
    BY <2>3, <2>4, <2>5 DEF Part, Held
<1>4. Parts(t) \in [Ports -> Int] /\ Helds(t) \in [Ports -> Int]
  BY <1>1, SumsType
<1>5. \A p \in Ports : Parts(t)[p] = 0 /\ Helds(t)[p] = 0
  BY <1>3 DEF Parts, Helds
<1>6. SumFunction(Parts(t)) = 0 /\ SumFunction(Helds(t)) = 0
  BY <1>4, <1>5, SumZero, SwCreditsAssumption
<1>7. pool[t] = Total[t] /\ device[t] = 0
  BY DEF Init
<1> QED
  BY <1>2, <1>6, <1>7, SumsAre

(* The invariant holds at the start.                                       *)
LEMMA InitInv == Init => Inv
<1> SUFFICES ASSUME Init PROVE Inv
  OBVIOUS
<1>1. ASSUME NEW p \in Ports
      PROVE  Local(p)
  <2>1. th[io(p)] = Idle(0) /\ th[ctl(p)] = Idle(0)
    BY AgentsAre DEF Init
  <2>2. \A t \in Types : num[p][t] = 0
    BY DEF Init
  <2>3. /\ Idle(0).pc = "idle" /\ Idle(0).chunk = <<>>
        /\ \A t \in Types : Idle(0).used[t] = 0
    BY DEF Idle
  <2> QED
    BY <2>1, <2>2, <2>3, NoEvents DEF Local, Sound, Covered, Sending
<1>2. CreditsConserved
  BY InitSums, SwCreditsAssumption DEF CreditsConserved
<1> QED
  BY <1>1, <1>2, InitShape DEF Inv

(* The invariant of every behaviour.                                       *)
LEMMA Invariant ==
  ASSUME Exclusive, Fits
  PROVE  Spec => []Inv
<1>1. Inv /\ [Next]_vars => Inv'
  BY NextInv
<1> QED
  BY <1>1, InitInv, PTL DEF Spec

(* No interleaving of sends, receives, releases and disables loses a       *)
(* credit or makes one, for any number of ports, any thresholds and any    *)
(* batch: of each type, what the pool and the caches have unspent and what *)
(* backs events is the initial number. Assumed: nobody disables a port     *)
(* while its thread is in a datapath function, and a cache has room for    *)
(* all credits.                                                            *)
THEOREM CreditsAreConserved ==
  ASSUME Exclusive, Fits
  PROVE  Spec => []CreditsConserved
<1>1. Inv => CreditsConserved
  BY DEF Inv
<1> QED
  BY <1>1, Invariant, PTL

(* A thread never subtracts more from a 16-bit cache than is there,        *)
(* although the decision is several steps old.                             *)
THEOREM CachesDoNotWrap ==
  ASSUME Exclusive, Fits
  PROVE  Spec => []NoWrapAround
<1>1. Inv => NoWrapAround
  <2> SUFFICES ASSUME Inv, NEW p \in Ports, NEW t \in Types
               PROVE  Spent(p, t) \in 0 .. num[p][t]
    BY DEF NoWrapAround
  <2> QED
    BY SpentBounds DEF Inv
<1> QED
  BY <1>1, Invariant, PTL

(* Neither sum is negative.                                                *)
NonNegative == \A t \in Types : 0 <= Unused(t) /\ 0 <= Stored(t)

(* The invariant keeps both sums from being negative.                      *)
LEMMA InvNonNegative == Inv => NonNegative
<1> SUFFICES ASSUME Inv, NEW t \in Types PROVE 0 <= Unused(t) /\ 0 <= Stored(t)
  BY DEF NonNegative
<1>1. /\ Parts(t) \in [Ports -> Int] /\ Helds(t) \in [Ports -> Int]
      /\ SumFunction(Parts(t)) \in Int /\ SumFunction(Helds(t)) \in Int
      /\ pool[t] \in Nat /\ device[t] \in Nat
      /\ Unused(t) = pool[t] + SumFunction(Parts(t))
      /\ Stored(t) = device[t] + SumFunction(Helds(t))
  BY SumsType, SumsAre DEF Inv
<1>2. \A p \in Ports : Parts(t)[p] >= 0 /\ Helds(t)[p] >= 0
  <2> SUFFICES ASSUME NEW p \in Ports PROVE Parts(t)[p] >= 0 /\ Helds(t)[p] >= 0
    OBVIOUS
  <2>1. Parts(t)[p] = Part(p, t) /\ Helds(t)[p] = Held(p, t)
    BY DEF Parts, Helds
  <2>2. 0 <= Part(p, t) /\ Part(p, t) \in Int /\ Held(p, t) \in Nat
    BY Bound, PartType DEF Inv
  <2> QED
    BY <2>1, <2>2
<1>3. SumFunction(Parts(t)) >= 0 /\ SumFunction(Helds(t)) >= 0
  BY <1>1, <1>2, SumBound, SwCreditsAssumption
<1> QED
  BY <1>1, <1>3

(* The same of the next state.                                             *)
LEMMA BoundNext == Inv' => NonNegative'
BY InvNonNegative, PTL

(* The device holds no more events than there are credits.                 *)
LEMMA DeviceBound ==
  ASSUME Inv, NEW t \in Types
  PROVE  device[t] <= Total[t]
<1>1. /\ Helds(t) \in [Ports -> Int] /\ SumFunction(Helds(t)) \in Int
      /\ device[t] \in Nat /\ Unused(t) \in Int
      /\ Stored(t) = device[t] + SumFunction(Helds(t))
  BY SumsType, SumsAre DEF Inv
<1>2. \A p \in Ports : Helds(t)[p] >= 0
  BY PartType DEF Helds, Inv
<1>3. SumFunction(Helds(t)) >= 0
  BY <1>1, <1>2, SumBound, SwCreditsAssumption
<1>4. 0 <= Unused(t)
  BY InvNonNegative DEF NonNegative
<1>5. Unused(t) + Stored(t) = Total[t] /\ Total[t] \in Nat
  BY SwCreditsAssumption DEF Inv, CreditsConserved
<1> QED
  BY <1>1, <1>3, <1>4, <1>5

(* The device never holds more events of a type than the storage the       *)
(* credits stand for.                                                      *)
THEOREM StorageIsEnough ==
  ASSUME Exclusive, Fits
  PROVE  Spec => []StorageSuffices
<1>1. Inv => StorageSuffices
  BY DeviceBound DEF StorageSuffices
<1> QED
  BY <1>1, Invariant, PTL

(* The credits start as the account does.                                  *)
LEMMA AccountInit == Init => Account!Init
<1> SUFFICES ASSUME Init PROVE Account!Init
  OBVIOUS
<1>1. Total = [t \in Types |-> Total[t]]
  BY SwCreditsAssumption
<1>2. [t \in Types |-> Unused(t)] = Total
  BY <1>1, InitSums
<1>3. [t \in Types |-> Stored(t)] = [t \in Types |-> 0]
  BY InitSums
<1> QED
  BY <1>2, <1>3 DEF Account!Init

(* The account, in terms of the credits.                                   *)
Account_vars == <<[t \in Types |-> Unused(t)], [t \in Types |-> Stored(t)]>>

(* A step that moves nothing does not change the account.                  *)
LEMMA AccountStutter ==
  ASSUME Inv, Shape', NEW p \in Ports, Done(p, NoneUsed)
  PROVE  UNCHANGED Account_vars
<1>1. ASSUME NEW t \in Types
      PROVE  Unused(t)' = Unused(t) /\ Stored(t)' = Stored(t)
  <2>1. NoneUsed \in [Types -> Int] /\ NoneUsed[t] = 0
    BY DEF NoneUsed
  <2>2. Unused(t)' = Unused(t) - NoneUsed[t] /\ Stored(t)' = Stored(t) + NoneUsed[t]
    BY <2>1, Moved DEF Inv, Done
  <2> QED
    BY <2>1, <2>2, SumsType DEF Inv
<1> QED
  BY <1>1 DEF Account_vars

(* The write of a chunk is an enqueue of the account: at most four events, *)
(* for which there are free credits.                                       *)
LEMMA AccountEnqueue ==
  ASSUME Inv, Inv', ChunkSize <= 4, NEW p \in Ports, Enqueue(p), Done(p, ChunkOf(p))
  PROVE  Account!Enqueue
<1> DEFINE k == ChunkOf(p)
           u == [t \in Types |-> Unused(t)]
           s == [t \in Types |-> Stored(t)]
<1>1. k \in [Types -> 0 .. 4]
  <2> SUFFICES ASSUME NEW t \in Types PROVE EventsIn(th[io(p)].chunk, t) \in 0 .. 4
    BY DEF ChunkOf
  <2>1. th[io(p)] \in AgentType /\ Placed(th[io(p)])
    BY TheAgents DEF Inv, Shape, IoOK
  <2>2. th[io(p)].chunk \in Seq(Events) /\ Len(th[io(p)].chunk) <= ChunkSize
    BY <2>1 DEF AgentType, Placed
  <2>3. /\ EventsIn(th[io(p)].chunk, t) \in Nat
        /\ EventsIn(th[io(p)].chunk, t) <= Len(th[io(p)].chunk)
        /\ Len(th[io(p)].chunk) \in Nat /\ ChunkSize \in Nat
    BY <2>2, EventsInType, SwCreditsAssumption
  <2> QED
    BY <2>2, <2>3
<1>2. ASSUME NEW t \in Types
      PROVE  /\ k[t] <= Unused(t)
             /\ Unused(t)' = Unused(t) - k[t] /\ Stored(t)' = Stored(t) + k[t]
  <2>1. k \in [Types -> Int] /\ k[t] \in Int
    BY <1>1
  <2>2. Unused(t)' = Unused(t) - k[t] /\ Stored(t)' = Stored(t) + k[t]
    BY <2>1, Moved DEF Inv, Done
  <2>3. 0 <= Unused(t)'
    BY BoundNext DEF NonNegative
  <2>4. Unused(t) \in Int
    BY SumsType DEF Inv
  <2> QED
    BY <2>1, <2>2, <2>3, <2>4
<1> HIDE DEF k
<1>3. /\ \A t \in Types : k[t] <= u[t]
      /\ u' = [t \in Types |-> u[t] - k[t]]
      /\ s' = [t \in Types |-> s[t] + k[t]]
  BY <1>2
<1> QED
  BY <1>1, <1>3 DEF Account!Enqueue

(* Crediting events is a receive of the account, if there are any.         *)
LEMMA AccountReceive ==
  ASSUME Inv, Inv', NEW p \in Ports, Credit(p), Done(p, CreditOf(p))
  PROVE  Account!Receive \/ UNCHANGED Account_vars
<1> DEFINE n == th[io(p)].taken
           e == RecvType(p)
           u == [t \in Types |-> Unused(t)]
           s == [t \in Types |-> Stored(t)]
<1>1. e \in Types /\ CreditOf(p) \in [Types -> Int]
  BY AmountsType DEF RecvType, Types
<1>2. n \in Nat
  BY TheAgents DEF Inv, Shape, AgentType
<1>3. ASSUME NEW t \in Types
      PROVE  /\ Unused(t)' = IF t = e THEN Unused(t) + n ELSE Unused(t)
             /\ Stored(t)' = IF t = e THEN Stored(t) - n ELSE Stored(t)
  <2>1. CreditOf(p)[t] = IF t = e THEN -n ELSE 0
    BY DEF CreditOf
  <2>2. Unused(t)' = Unused(t) - CreditOf(p)[t] /\ Stored(t)' = Stored(t) + CreditOf(p)[t]
    BY <1>1, Moved DEF Inv, Done
  <2>3. Unused(t) \in Int /\ Stored(t) \in Int
    BY SumsType DEF Inv
  <2> HIDE DEF e, n
  <2> QED
    BY <1>2, <2>1, <2>2, <2>3
<1>4. n <= Stored(e)
  <2>1. 0 <= Stored(e)' /\ Stored(e)' = Stored(e) - n /\ Stored(e) \in Int
    BY <1>1, <1>3, BoundNext, SumsType DEF NonNegative, Inv
  <2> HIDE DEF e, n
  <2> QED
    BY <1>2, <2>1
<1> HIDE DEF e, n
<1>5. CASE n = 0
  <2>1. \A t \in Types : Unused(t)' = Unused(t) /\ Stored(t)' = Stored(t)
    BY <1>3, <1>5, SumsType DEF Inv
  <2> QED
    BY <2>1 DEF Account_vars
<1>6. CASE n # 0
  <2>1. n \in 1 .. s[e]
    BY <1>1, <1>2, <1>4, <1>6, SumsType DEF Inv
  <2>2. u' = [u EXCEPT ![e] = @ + n]
    BY <1>1, <1>3
  <2>3. s' = [s EXCEPT ![e] = @ - n]
    BY <1>1, <1>3
  <2> QED
    BY <1>1, <2>1, <2>2, <2>3 DEF Account!Receive
<1> QED
  BY <1>5, <1>6

(* Every step is a step of the account or leaves it alone.                 *)
LEMMA AccountStep ==
  Inv /\ Inv' /\ [Next]_vars /\ Exclusive /\ Fits /\ ChunkSize <= 4
    => [Account!Enqueue \/ Account!Receive]_Account_vars
<1> SUFFICES ASSUME Inv, Inv', [Next]_vars, Exclusive, Fits, ChunkSize <= 4
             PROVE  [Account!Enqueue \/ Account!Receive]_Account_vars
  OBVIOUS
<1>1. CASE UNCHANGED vars
  <2>1. UNCHANGED <<pool, num, ret_count, enabled, scheduling, device, cq, th>>
    BY <1>1 DEF vars
  <2>2. UNCHANGED Account_vars
    BY <2>1 DEF Account_vars, Unused, Stored, Spent
  <2> QED
    BY <2>2
<1>2. CASE Next
  <2>1. PICK p \in Ports : StepOf(p)
    BY <1>2, NextDone
  <2>2. Shape'
    BY DEF Inv
  <2> QED
    BY <2>1, <2>2, AccountStutter, AccountEnqueue, AccountReceive DEF StepOf
<1> QED
  BY <1>1, <1>2

(* The pool and the caches together behave like one account per credit     *)
(* type, for chunks of at most four events as in the code.                 *)
THEOREM CreditsImplementAccount ==
  ASSUME Exclusive, Fits, ChunkSize <= 4
  PROVE  Spec => ImplementsAccount
<1>1. Inv /\ Inv' /\ [Next]_vars
        => [Account!Enqueue \/ Account!Receive]_<<[t \in Types |-> Unused(t)],
                                                  [t \in Types |-> Stored(t)]>>
  BY AccountStep DEF Account_vars
<1>2. Spec => []Inv
  BY Invariant
<1> QED
  BY <1>1, <1>2, AccountInit, PTL DEF Spec, ImplementsAccount, Account!Spec

-----------------------------------------------------------------------------
(* Workers that forward what they received.                                *)

(* Pending calls that leave a batch in the cache.                          *)
Generous(calls) ==
  \A k \in DOMAIN calls : calls[k].cond => credit_rem[calls[k].policy] >= Batch

(* A worker between a receive and what it does next: only such calls are   *)
(* pending, and nobody disables its port.                                  *)
Working(i, c) ==
  /\ i.pc \in {"idle", "release", "deduct"} /\ i.next = "idle"
  /\ c.pc = "idle"
  /\ Generous(i.calls)

(* Its cache keeps what it received, up to a batch.                        *)
Kept(n, i, t) == AtMost(i.got, Batch) <= n[t] - Pending(i, t)

(* Every thread that received something is such a worker.                  *)
Worker(p) ==
  th[io(p)].got # 0 =>
    /\ Working(th[io(p)], th[ctl(p)])
    /\ Kept(num[p], th[io(p)], RecvType(p))

(* The inductive invariant for workers.                                    *)
WorkerInv == Inv /\ \A p \in Ports : Worker(p)

(* The calls after the first, and the first.                               *)
LEMMA GenerousTail ==
  ASSUME NEW calls \in Seq(Calls), calls # <<>>, Generous(calls)
  PROVE  /\ Generous(Tail(calls)) /\ Tail(calls) \in Seq(Calls)
         /\ Head(calls).cond => credit_rem[Head(calls).policy] >= Batch
<1>1. Len(calls) \in Nat \ {0} /\ DOMAIN calls = 1 .. Len(calls) /\ Head(calls) = calls[1]
  OBVIOUS
<1>2. Head(calls).cond => credit_rem[Head(calls).policy] >= Batch
  BY <1>1 DEF Generous
<1>3. /\ Tail(calls) \in Seq(Calls) /\ DOMAIN Tail(calls) = 1 .. (Len(calls) - 1)
      /\ \A k \in 1 .. (Len(calls) - 1) : Tail(calls)[k] = calls[k + 1]
  <2>1. Tail(calls) \in Seq(Calls) /\ Len(Tail(calls)) = Len(calls) - 1
    OBVIOUS
  <2> QED
    BY <2>1
<1>4. Generous(Tail(calls))
  <2> SUFFICES ASSUME NEW k \in 1 .. (Len(calls) - 1), calls[k + 1].cond
               PROVE  credit_rem[calls[k + 1].policy] >= Batch
    BY <1>3 DEF Generous
  <2>1. k + 1 \in DOMAIN calls
    BY <1>1
  <2> QED
    BY <2>1 DEF Generous
<1> QED
  BY <1>2, <1>3, <1>4

(* NextType keeps what was received and the calls that follow.             *)
LEMMA AfterTypeWorks ==
  ASSUME NEW a \in Agents, NEW r, AgentOK(a, r), r.pc \in {"release", "deduct"}
  PROVE  LET x == AfterType(r) IN
         /\ x.got = r.got
         /\ r.next = "idle" /\ Generous(r.calls) =>
              /\ x.pc \in {"idle", "release"} /\ x.next = "idle"
              /\ Generous(x.calls)
<1>1. r \in AgentType /\ r.calls \in Seq(Calls) /\ r.calls # <<>>
  BY HeadTypes DEF AgentType
<1>2. Generous(<<>>)
  BY DEF Generous
<1>3. CASE Len(r.types) > 1
  <2>1. AfterType(r) = [r EXCEPT !.pc = "release", !.types = Tail(@), !.val = 0]
    BY <1>3 DEF AfterType
  <2> QED
    BY <1>1, <2>1 DEF AgentType
<1>4. CASE ~(Len(r.types) > 1) /\ Tail(r.calls) # <<>>
  <2> DEFINE b == [r EXCEPT !.val = 0]
  <2>1. b \in AgentType /\ b.got = r.got
    BY <1>1 DEF AgentType
  <2>2. AfterType(r) = Releasing(b, Tail(r.calls), r.next)
    BY <1>4 DEF AfterType
  <2> HIDE DEF b
  <2>3. /\ AfterType(r).pc = "release" /\ AfterType(r).next = r.next
        /\ AfterType(r).calls = Tail(r.calls) /\ AfterType(r).got = r.got
    BY <2>1, <2>2, BlankReleasing
  <2> QED
    BY <1>1, <2>3, GenerousTail
<1>5. CASE ~(Len(r.types) > 1) /\ Tail(r.calls) = <<>>
  <2>1. AfterType(r) = GoOnTo(r)
    BY <1>5 DEF AfterType
  <2>2. CASE r.next = "idle"
    <3>1. GoOnTo(r) = Idle(r.got)
      BY <1>1, <2>2 DEF GoOnTo, GoOn, AgentType
    <3> QED
      BY <1>2, <2>1, <3>1 DEF Idle
  <2>3. CASE r.next # "idle"
    <3>1. GoOnTo(r) = [r EXCEPT !.calls = <<>>, !.types = <<>>, !.val = 0, !.held = FALSE,
                                !.pc = r.next]
      BY <2>3 DEF GoOnTo, GoOn
    <3> QED
      BY <1>1, <2>1, <2>3, <3>1 DEF AgentType
  <2> QED
    BY <2>2, <2>3
<1> QED
  BY <1>3, <1>4, <1>5

(* A thread with nothing received owes nothing to itself.                  *)
LEMMA WorkerFresh == ASSUME NEW p, th'[io(p)].got = 0 PROVE Worker(p)'
BY DEF Worker

(* A thread that does not move, with its cache, stays a worker.            *)
LEMMA WorkerSame ==
  ASSUME NEW p, Worker(p), th'[io(p)] = th[io(p)], th'[ctl(p)] = th[ctl(p)], num'[p] = num[p]
  PROVE  Worker(p)'
<1>1. th[io(p)].got # 0 => /\ Working(th[io(p)], th[ctl(p)])
                           /\ Kept(num[p], th[io(p)], RecvType(p))
  BY DEF Worker
<1> QED
  BY <1>1 DEF Worker

(* A thread elsewhere, or whose port is being disabled, has received       *)
(* nothing.                                                                *)
LEMMA WorkerPlaces ==
  ASSUME NEW p, Worker(p),
         \/ th[io(p)].pc \notin {"idle", "release", "deduct"}
         \/ th[ctl(p)].pc # "idle"
  PROVE  th[io(p)].got = 0
BY DEF Worker, Working

(* What the agents of the other ports have is left alone.                  *)
LEMMA ReleaseFrame ==
  ASSUME Shape, NEW a \in Agents, ReleaseStep(a), NEW q \in Ports, q # a[1]
  PROVE  th'[io(q)] = th[io(q)] /\ th'[ctl(q)] = th[ctl(q)] /\ num'[q] = num[q]
<1>1. \E x : th' = [th EXCEPT ![a] = x]
  BY AfterTypeIs DEF ReleaseStep, GiveBack, Deduct, Keep
<1>2. PICK x : th' = [th EXCEPT ![a] = x]
  BY <1>1
<1>3. io(q) \in Agents \ {a} /\ ctl(q) \in Agents \ {a}
  BY AgentsAre
<1>4. th'[io(q)] = th[io(q)] /\ th'[ctl(q)] = th[ctl(q)]
  BY <1>2, <1>3 DEF Shape, AgentsOK
<1>5. num'[q] = num[q]
  <2>1. CASE GiveBack(a) \/ Keep(a)
    BY <2>1 DEF GiveBack, Keep
  <2>2. CASE Deduct(a)
    BY <2>2 DEF Deduct, Shape, Data, Caches
  <2> QED
    BY <2>1, <2>2 DEF ReleaseStep
<1> QED
  BY <1>4, <1>5

(* A policy that may take from the cache of a worker leaves it a batch.    *)
LEMMA GiveBackWorker ==
  ASSUME Inv, NEW p \in Ports, Worker(p), GiveBack(io(p))
  PROVE  Worker(p)'
<1> DEFINE a == io(p)
           r == th[a]
           e == Head(r.types)
           y == Head(r.calls).policy
           val == num[p][e] - credit_rem[y]
           x == [r EXCEPT !.pc = "deduct", !.val = val]
<1>0. a \in Agents /\ a[1] = p
  BY AgentsAre
<1>1. AgentOK(a, r) /\ r.pc = "release"
  BY <1>0 DEF Inv, Shape, AgentsOK, GiveBack
<1>2. /\ r \in AgentType /\ e \in Types /\ r.calls \in Seq(Calls) /\ r.calls # <<>>
      /\ Head(r.calls) \in Calls /\ y \in Policies
  <2>1. r \in AgentType /\ e \in Types /\ r.calls # <<>> /\ Head(r.calls) \in Calls
    BY <1>1, <1>0, HeadTypes
  <2>2. r.calls \in Seq(Calls)
    BY <2>1 DEF AgentType
  <2>3. y \in Policies
    BY <2>1 DEF Calls
  <2> QED
    BY <2>1, <2>2, <2>3
<1>3. th' = [th EXCEPT ![io(p)] = x] /\ num' = num /\ Head(r.calls).cond
  BY <1>0 DEF GiveBack, Exceeds
<1>4. th'[io(p)] = x /\ th'[ctl(p)] = th[ctl(p)]
  BY <1>3, OneIo DEF Inv
<1>5. /\ x.pc = "deduct" /\ x.val = val /\ x.got = r.got /\ x.next = r.next /\ x.calls = r.calls
      /\ x.types = r.types
  BY <1>2 DEF AgentType
<1>6. CASE r.got = 0
  BY <1>4, <1>5, <1>6, WorkerFresh
<1>7. CASE r.got # 0
  <2>1. Working(r, th[ctl(p)]) /\ Kept(num[p], r, RecvType(p))
    BY <1>7 DEF Worker
  <2>2. Working(x, th[ctl(p)])
    BY <1>5, <2>1 DEF Working
  <2>3. credit_rem[y] >= Batch
    BY <1>2, <1>3, <2>1, GenerousTail DEF Working
  <2>4. Kept(num[p], x, RecvType(p))
    <3>1. r.got \in Nat /\ Batch \in Nat /\ credit_rem[y] \in Nat
      BY <1>2, SwCreditsAssumption, TablesType DEF AgentType
    <3>2. num[p][e] \in Int /\ num[p][RecvType(p)] \in Int
      BY <1>2, NumType DEF Inv, Shape, Data, RecvType, Types
    <3> DEFINE g == AtMost(r.got, Batch)
               s == num[p][e]
               m == credit_rem[y]
    <3>3. g \in Nat /\ g <= m
      <4>1. g \in Nat /\ g <= Batch
        BY <3>1, AtMostIs
      <4>2. Batch \in Nat /\ m \in Nat /\ Batch <= m
        BY <2>3, <3>1
      <4> HIDE DEF g, m
      <4> QED
        BY <4>1, <4>2
    <3>4. CASE RecvType(p) = e
      <4>1. Pending(x, e) = s - m
        <5>1. x.pc = "deduct" /\ Head(x.types) = e /\ x.val = s - m
          BY <1>5
        <5> HIDE DEF x, e, s, m
        <5> QED
          BY <5>1 DEF Pending
      <4> HIDE DEF g, s, m, x
      <4>2. g <= s - (s - m)
        <5>1. s \in Int /\ m \in Nat
          BY <3>1, <3>2 DEF s, m
        <5> QED
          BY <3>3, <5>1
      <4> QED
        BY <1>5, <3>4, <4>1, <4>2 DEF Kept, g, s
    <3>5. CASE RecvType(p) # e
      <4>1. Pending(x, RecvType(p)) = 0 /\ Pending(r, RecvType(p)) = 0
        BY <1>1, <1>5, <3>5 DEF Pending
      <4> QED
        BY <1>5, <2>1, <4>1 DEF Kept
    <3> QED
      BY <3>4, <3>5
  <2> QED
    BY <1>3, <1>4, <2>2, <2>4 DEF Worker
<1> QED
  BY <1>6, <1>7

(* The subtraction takes what was decided and no more.                     *)
LEMMA DeductWorker ==
  ASSUME Inv, NEW p \in Ports, Worker(p), Deduct(io(p))
  PROVE  Worker(p)'
<1> DEFINE a == io(p)
           r == th[a]
           e == Head(r.types)
           n == num[p][e] - r.val
           x == AfterType(r)
<1>0. a \in Agents /\ a[1] = p
  BY AgentsAre
<1>1. AgentOK(a, r) /\ r.pc = "deduct"
  BY <1>0 DEF Inv, Shape, AgentsOK, Deduct
<1>2. r \in AgentType /\ e \in Types
  BY <1>0, <1>1, HeadTypes
<1>3. r.val \in Nat /\ r.val <= num[p][e] /\ num[p][e] \in Int /\ num[p][e] <= 65535
  <2>1. num[p][e] \in Int /\ num[p][e] <= 65535
    BY <1>2, NumType DEF Inv, Shape, Data
  <2>2. r.val \in Nat
    BY <1>2 DEF AgentType
  <2>3. Covered(num[p], r)
    BY DEF Inv, Local, Sound
  <2> QED
    BY <1>1, <2>1, <2>2, <2>3 DEF Covered
<1>4. n \in Int /\ u16(n) = n
  <2> HIDE DEF r, e
  <2>1. n \in Int /\ 0 <= n /\ n <= 65535
    BY <1>3
  <2> QED
    BY <2>1, U16
<1>5. num' = [num EXCEPT ![p][e] = n] /\ NextType(a, r)
  BY <1>0, <1>4 DEF Deduct
<1>6. th'[io(p)] = x /\ th'[ctl(p)] = th[ctl(p)]
  <2>1. th' = [th EXCEPT ![io(p)] = x]
    BY <1>5, AfterTypeIs
  <2> HIDE DEF x
  <2> QED
    BY <2>1, OneIo DEF Inv
<1>7. /\ x.got = r.got
      /\ r.next = "idle" /\ Generous(r.calls) =>
           x.pc \in {"idle", "release"} /\ x.next = "idle" /\ Generous(x.calls)
  BY <1>0, <1>1, AfterTypeWorks
<1> HIDE DEF x
<1>8. CASE r.got = 0
  BY <1>6, <1>7, <1>8, WorkerFresh
<1>9. CASE r.got # 0
  <2>1. Working(r, th[ctl(p)]) /\ Kept(num[p], r, RecvType(p))
    BY <1>9 DEF Worker
  <2>2. Working(x, th[ctl(p)])
    BY <1>7, <2>1 DEF Working
  <2>3. num'[p][RecvType(p)] = num[p][RecvType(p)] - Pending(r, RecvType(p))
    <3>1. RecvType(p) \in Types
      BY DEF RecvType, Types
    <3>2. num[p][RecvType(p)] \in Int
      BY <3>1, NumType DEF Inv, Shape, Data
    <3>3. CASE RecvType(p) = e
      <4>1. num'[p][e] = n
        BY <1>2, <1>5 DEF Inv, Shape, Data, Caches
      <4> QED
        BY <1>1, <3>3, <4>1 DEF Pending
    <3>4. CASE RecvType(p) # e
      <4>1. num'[p][RecvType(p)] = num[p][RecvType(p)]
        BY <1>2, <1>5, <3>1, <3>4 DEF Inv, Shape, Data, Caches
      <4>2. Pending(r, RecvType(p)) = 0
        BY <3>4 DEF Pending
      <4> QED
        BY <3>2, <4>1, <4>2
    <3> QED
      BY <3>3, <3>4
  <2>4. Pending(x, RecvType(p)) = 0
    BY <1>7, <2>1 DEF Pending, Working
  <2>5. Kept(num'[p], x, RecvType(p))
    <3> DEFINE l == num'[p][RecvType(p)]
               g == AtMost(r.got, Batch)
    <3>1. g <= l
      BY <2>1, <2>3 DEF Kept
    <3>2. l \in Int
      <4>1. num[p][RecvType(p)] \in Int
        BY NumType DEF Inv, Shape, Data, RecvType, Types
      <4>2. Pending(r, RecvType(p)) \in Nat
        BY <1>2, Typing DEF RecvType, Types
      <4> QED
        BY <2>3, <4>1, <4>2
    <3> HIDE DEF l, g
    <3>3. g <= l - 0
      BY <3>1, <3>2
    <3> QED
      BY <1>7, <2>4, <3>3 DEF Kept, l, g
  <2> QED
    BY <1>6, <2>2, <2>5 DEF Worker
<1> QED
  BY <1>8, <1>9

(* A policy that returns nothing takes nothing.                            *)
LEMMA KeepWorker ==
  ASSUME Inv, NEW p \in Ports, Worker(p), Keep(io(p))
  PROVE  Worker(p)'
<1> DEFINE a == io(p)
           r == th[a]
           h == r.held \/ Exceeds(a)
           y == [r EXCEPT !.held = h]
           x == AfterType(y)
<1>0. a \in Agents /\ a[1] = p
  BY AgentsAre
<1>1. AgentOK(a, r) /\ r.pc = "release"
  BY <1>0 DEF Inv, Shape, AgentsOK, Keep
<1>2. r \in AgentType /\ Resting(r)
  BY <1>1, <1>0, HeadTypes
<1>3. UNCHANGED num /\ NextType(a, y)
  BY DEF Keep
<1> HIDE DEF h, r
<1>4. h \in BOOLEAN
  BY <1>2 DEF h, Exceeds, AgentType
<1>5. /\ y \in AgentType /\ y.pc = "release" /\ y.got = r.got /\ y.next = r.next
      /\ y.calls = r.calls
  BY <1>1, <1>2, <1>4 DEF AgentType
<1>6. AgentOK(a, y)
  <2>1. Placed(r)
    BY <1>1 DEF AgentOK, IoOK, CtlOK
  <2>2. Placed(y) /\ y.next = r.next
    BY <1>1, <1>2, <2>1 DEF Placed, Resting, AgentType
  <2> HIDE DEF y
  <2> QED
    BY <1>1, <1>5, <2>2 DEF AgentOK, IoOK, CtlOK
<1> HIDE DEF y
<1>7. th'[io(p)] = x /\ th'[ctl(p)] = th[ctl(p)]
  <2>1. th' = [th EXCEPT ![io(p)] = x]
    BY <1>3, AfterTypeIs
  <2> HIDE DEF x
  <2> QED
    BY <2>1, OneIo DEF Inv
<1>8. /\ x.got = y.got
      /\ y.next = "idle" /\ Generous(y.calls) =>
           x.pc \in {"idle", "release"} /\ x.next = "idle" /\ Generous(x.calls)
  BY <1>0, <1>5, <1>6, AfterTypeWorks
<1> HIDE DEF x
<1>9. CASE r.got = 0
  BY <1>5, <1>7, <1>8, <1>9, WorkerFresh
<1>10. CASE r.got # 0
  <2>1. Working(r, th[ctl(p)]) /\ Kept(num[p], r, RecvType(p))
    BY <1>10 DEF Worker, r
  <2>2. Working(x, th[ctl(p)])
    BY <1>5, <1>8, <2>1 DEF Working
  <2>3. Pending(x, RecvType(p)) = 0 /\ Pending(r, RecvType(p)) = 0
    BY <1>1, <1>5, <1>8, <2>1 DEF Pending, Working
  <2>4. Kept(num[p], x, RecvType(p))
    BY <1>5, <1>8, <2>1, <2>3 DEF Kept
  <2> QED
    BY <1>3, <1>7, <2>2, <2>4 DEF Worker
<1> QED
  BY <1>9, <1>10

(* No release of credits takes from a worker.                              *)
LEMMA ReleaseWorker ==
  ASSUME Inv, NEW a \in Agents, ReleaseStep(a), NEW p \in Ports, Worker(p)
  PROVE  Worker(p)'
<1>1. th[a].pc \in {"release", "deduct"}
  BY DEF ReleaseStep, GiveBack, Deduct, Keep
<1>2. CASE a[1] # p
  BY <1>2, ReleaseFrame, WorkerSame DEF Inv
<1>3. CASE a = io(p)
  BY <1>3, GiveBackWorker, DeductWorker, KeepWorker DEF ReleaseStep
<1>4. CASE a = ctl(p)
  <2>1. th[io(p)].got = 0
    BY <1>1, <1>4, WorkerPlaces
  <2>2. PICK x : th' = [th EXCEPT ![ctl(p)] = x]
    BY <1>4, AfterTypeIs DEF ReleaseStep, GiveBack, Deduct, Keep
  <2>3. th'[io(p)] = th[io(p)]
    BY <2>2, OneCtl DEF Inv
  <2> QED
    BY <2>1, <2>3, WorkerFresh
<1>5. a[1] # p \/ a = io(p) \/ a = ctl(p)
  BY DEF Agents, io, ctl
<1> QED
  BY <1>2, <1>3, <1>4, <1>5

(* A send begins with nothing received.                                    *)
LEMMA SendGot ==
  ASSUME Shape, NEW p \in Ports, NEW events, Send(p, events)
  PROVE  th'[io(p)].got = 0
<1> DEFINE x == IF enabled[p] THEN [Idle(0) EXCEPT !.pc = "build", !.want = events]
                ELSE Releasing(Idle(0), release_port_credits(FALSE), "idle")
<1>1. th' = [th EXCEPT ![io(p)] = x]
  BY DEF Send
<1>2. x.got = 0
  BY DEF Idle, Releasing
<1> HIDE DEF x
<1> QED
  BY <1>1, <1>2, OneIo

(* A send without credits.                                                 *)
LEMMA NoCreditsGot ==
  ASSUME Shape, NEW p \in Ports, send_no_credits(p)
  PROVE  th'[io(p)].got = 0
<1>1. PICK failed \in BOOLEAN :
        th' = [th EXCEPT ![io(p)] = Releasing(Idle(0), release_port_credits(failed), "idle")]
  BY DEF send_no_credits
<1> DEFINE x == Releasing(Idle(0), release_port_credits(failed), "idle")
<1>2. x.got = 0 /\ th' = [th EXCEPT ![io(p)] = x]
  BY <1>1 DEF Idle, Releasing
<1> HIDE DEF x
<1> QED
  BY <1>2, OneIo

(* The beginning of a receive.                                             *)
LEMMA ReceiveGot ==
  ASSUME Shape, NEW p \in Ports, NEW max, NEW wait, NEW pop, Receive(p, max, wait, pop)
  PROVE  th'[io(p)].got = 0
<1> DEFINE x == IF NotifyDisabled(p) THEN Idle(0)
                ELSE Releasing([Idle(0) EXCEPT !.max = max, !.wait = wait, !.pop = pop],
                               <<Call("BATCH_SZ_EXCEED", TRUE)>>, "ready")
<1>1. th' = [th EXCEPT ![io(p)] = x]
  BY DEF Receive
<1>2. x.got = 0
  BY DEF Idle, Releasing
<1> HIDE DEF x
<1> QED
  BY <1>1, <1>2, OneIo

(* A port that is being disabled.                                          *)
LEMMA DisableGot ==
  ASSUME Shape, NEW p \in Ports, disable_port(p)
  PROVE  th'[io(p)].got = 0
<1> DEFINE r == [th[io(p)] EXCEPT !.got = 0]
           h == [th EXCEPT ![io(p)] = r]
<1>1. PICK sched_only \in BOOLEAN :
        th' = [[th EXCEPT ![io(p)].got = 0]
                 EXCEPT ![ctl(p)] =
                   Releasing([Idle(0) EXCEPT !.sched_only = sched_only],
                             <<Call("RETURN_ALL", TRUE)>>, "ioctl")]
  BY DEF disable_port
<1>2. io(p) \in Agents /\ ctl(p) \in Agents /\ io(p) # ctl(p)
  BY AgentsAre
<1>3. th \in [Agents -> AgentType]
  BY DEF Shape, AgentsOK
<1>4. r.got = 0
  BY <1>2, <1>3 DEF AgentType
<1> DEFINE c == Releasing([Idle(0) EXCEPT !.sched_only = sched_only],
                          <<Call("RETURN_ALL", TRUE)>>, "ioctl")
<1>5. th' = [h EXCEPT ![ctl(p)] = c]
  BY <1>1
<1> HIDE DEF c, r
<1>6. th'[io(p)] = r
  BY <1>2, <1>3, <1>5
<1> QED
  BY <1>4, <1>6

(* The steps inside a send, of a thread that has received nothing.         *)
LEMMA SendStepGot ==
  ASSUME Shape, NEW p \in Ports, SendStep(p), th[io(p)].got = 0
  PROVE  th'[io(p)].got = 0
<1> DEFINE r == th[io(p)]
<1>0. r \in AgentType
  BY TheAgents DEF Shape
<1>1. CASE Take(p)
  <2> DEFINE x == [r EXCEPT !.want = Tail(@), !.chunk = Append(@, Head(r.want)),
                            !.count = @ + 1, !.tried = FALSE,
                            !.used = [t \in Types |-> @[t] + IF t = Head(r.want) THEN 1 ELSE 0]]
  <2>1. th' = [th EXCEPT ![io(p)] = x]
    BY <1>1 DEF Take
  <2>2. x.got = 0
    BY <1>0 DEF AgentType
  <2> HIDE DEF x
  <2> QED
    BY <2>1, <2>2, OneIo
<1>2. CASE ReadPool(p)
  <2> DEFINE x == [r EXCEPT !.pc = "refresh", !.seen = pool[Head(r.want)]]
  <2>1. th' = [th EXCEPT ![io(p)] = x]
    BY <1>2 DEF ReadPool
  <2>2. x.got = 0
    BY <1>0 DEF AgentType
  <2> HIDE DEF x
  <2> QED
    BY <2>1, <2>2, OneIo
<1>3. CASE Refresh(p)
  <2> DEFINE x == [r EXCEPT !.pc = "build", !.tried = TRUE, !.seen = 0]
  <2>1. th' = [th EXCEPT ![io(p)] = x]
    BY <1>3 DEF Refresh
  <2>2. x.got = 0
    BY <1>0 DEF AgentType
  <2> HIDE DEF x
  <2> QED
    BY <2>1, <2>2, OneIo
<1>4. CASE GiveUp(p)
  <2> DEFINE x == [r EXCEPT !.want = <<>>, !.tried = FALSE]
  <2>1. th' = [th EXCEPT ![io(p)] = x]
    BY <1>4 DEF GiveUp
  <2>2. x.got = 0
    BY <1>0 DEF AgentType
  <2> HIDE DEF x
  <2> QED
    BY <2>1, <2>2, OneIo
<1>5. CASE Enqueue(p)
  <2> DEFINE x == [r EXCEPT !.chunk = <<>>,
                            !.pc = IF r.want = <<>> THEN "charge" ELSE "build"]
  <2>1. th' = [th EXCEPT ![io(p)] = x]
    BY <1>5 DEF Enqueue
  <2>2. x.got = 0
    BY <1>0 DEF AgentType
  <2> HIDE DEF x
  <2> QED
    BY <2>1, <2>2, OneIo
<1>6. CASE Charge(p)
  <2> DEFINE x == Releasing(Idle(0), release_port_credits(r.count = 0), "idle")
  <2>1. th' = [th EXCEPT ![io(p)] = x]
    BY <1>6 DEF Charge
  <2>2. x.got = 0
    BY DEF Idle, Releasing
  <2> HIDE DEF x
  <2> QED
    BY <2>1, <2>2, OneIo
<1> QED
  BY <1>1, <1>2, <1>3, <1>4, <1>5, <1>6 DEF SendStep

(* The steps inside a receive before the credits.                          *)
LEMMA RecvStepGot ==
  ASSUME Shape, NEW p \in Ports, th[io(p)].got = 0,
         Ready(p) \/ LowPool(p) \/ WakeUp(p) \/ TimeOut(p) \/ WaitFails(p) \/ Dequeue(p)
  PROVE  th'[io(p)].got = 0
<1> DEFINE r == th[io(p)]
<1>0. r \in AgentType /\ th \in [Agents -> AgentType] /\ io(p) \in Agents
  BY TheAgents, AgentsAre DEF Shape, AgentsOK
<1>1. CASE Ready(p)
  <2> DEFINE x == IF r.wait /\ cq[p] = 0
                  THEN [r EXCEPT !.pc = "low_pool", !.types = PoolTypes, !.next = "wait"]
                  ELSE [r EXCEPT !.pc = "take"]
  <2>1. th' = [th EXCEPT ![io(p)] = x]
    BY <1>1 DEF Ready
  <2>2. x.got = 0
    BY <1>0 DEF AgentType
  <2> HIDE DEF x
  <2> QED
    BY <2>1, <2>2, OneIo
<1>2. CASE LowPool(p)
  <2> DEFINE low == Low(Head(r.types))
             done == low \/ Len(r.types) = 1
             x == IF done THEN Releasing(r, <<Call("RETURN_ALL", low)>>, r.next)
                  ELSE [r EXCEPT !.types = Tail(@)]
  <2>1. th' = [th EXCEPT ![io(p)] = x]
    BY <1>2 DEF LowPool
  <2>2. x.got = 0
    <3> DEFINE calls == <<Call("RETURN_ALL", low)>>
    <3>1. CASE done
      <4> HIDE DEF calls, done
      <4>1. x = Releasing(r, calls, r.next)
        BY <3>1 DEF calls
      <4>2. Releasing(r, calls, r.next).got = r.got
        BY <1>0, BlankReleasing
      <4> QED
        BY <4>1, <4>2
    <3>2. CASE ~done
      BY <1>0, <3>2 DEF AgentType
    <3> QED
      BY <3>1, <3>2
  <2> HIDE DEF x
  <2> QED
    BY <2>1, <2>2, OneIo
<1>3. CASE WakeUp(p)
  <2> DEFINE x == IF NotifyDisabled(p) THEN Idle(0) ELSE [r EXCEPT !.pc = "take"]
  <2>1. th' = [th EXCEPT ![io(p)] = x]
    BY <1>3 DEF WakeUp
  <2>2. x.got = 0
    BY <1>0 DEF AgentType, Idle
  <2> HIDE DEF x
  <2> QED
    BY <2>1, <2>2, OneIo
<1>4. CASE TimeOut(p)
  <2> DEFINE x == [r EXCEPT !.pc = "take"]
  <2>1. th' = [th EXCEPT ![io(p)] = x]
    BY <1>4 DEF TimeOut
  <2>2. x.got = 0
    BY <1>0 DEF AgentType
  <2> HIDE DEF x
  <2> QED
    BY <2>1, <2>2, OneIo
<1>5. CASE WaitFails(p)
  <2>1. th' = [th EXCEPT ![io(p)] = Idle(0)] /\ Idle(0).got = 0
    BY <1>5 DEF WaitFails, Idle
  <2> QED
    BY <2>1, OneIo
<1>6. CASE Dequeue(p)
  <2> DEFINE k == AtMost(r.max, cq[p])
             x == IF p \in EpollPorts /\ k = cq[p]
                  THEN [r EXCEPT !.pc = "low_pool", !.types = PoolTypes, !.next = "credit",
                                 !.taken = k]
                  ELSE [r EXCEPT !.pc = "credit", !.taken = k]
  <2>1. th' = [th EXCEPT ![io(p)] = x]
    BY <1>6 DEF Dequeue
  <2> HIDE DEF k
  <2>2. x.got = 0
    BY <1>0 DEF AgentType
  <2> HIDE DEF x
  <2> QED
    BY <2>1, <2>2, OneIo
<1> QED
  BY <1>1, <1>2, <1>3, <1>4, <1>5, <1>6

(* Such calls one after the other.                                         *)
LEMMA GenerousConcat ==
  ASSUME NEW a \in Seq(Calls), NEW b \in Seq(Calls), Generous(a), Generous(b)
  PROVE  Generous(a \o b)
<1> SUFFICES ASSUME NEW k \in DOMAIN (a \o b), (a \o b)[k].cond
             PROVE  credit_rem[(a \o b)[k].policy] >= Batch
  BY DEF Generous
<1>1. /\ Len(a) \in Nat /\ Len(b) \in Nat /\ DOMAIN a = 1 .. Len(a) /\ DOMAIN b = 1 .. Len(b)
      /\ k \in 1 .. (Len(a) + Len(b))
  OBVIOUS
<1>2. CASE k <= Len(a)
  <2>1. k \in DOMAIN a /\ (a \o b)[k] = a[k]
    BY <1>1, <1>2
  <2> QED
    BY <2>1 DEF Generous
<1>3. CASE ~(k <= Len(a))
  <2>1. k - Len(a) \in DOMAIN b /\ (a \o b)[k] = b[k - Len(a)]
    BY <1>1, <1>3
  <2> QED
    BY <2>1 DEF Generous
<1> QED
  BY <1>2, <1>3

(* If something was received, no call at the end of the receive takes the  *)
(* last batch.                                                             *)
LEMMA RecvCallsGenerous ==
  ASSUME NEW r \in AgentType, r.taken # 0
  PROVE  Generous(RecvCalls(r))
<1> DEFINE a == <<Call("ZERO_DEQ", r.taken = 0)>>
           b == IF r.pop /\ r.taken # 0 THEN release_port_credits(FALSE) ELSE <<>>
<1>1. a \in Seq(Calls) /\ Generous(a)
  <2> DEFINE c == Call("ZERO_DEQ", r.taken = 0)
  <2>1. (r.taken = 0) = FALSE
    OBVIOUS
  <2>2. c = Call("ZERO_DEQ", FALSE)
    BY <2>1
  <2>3. c \in Calls /\ c.cond = FALSE
    BY <2>2, PoliciesAre DEF Calls, Call
  <2>4. a = <<c>>
    OBVIOUS
  <2> HIDE DEF c, a
  <2> QED
    BY <2>3, <2>4 DEF Generous
<1>2. b \in Seq(Calls) /\ Generous(b)
  <2>1. release_port_credits(FALSE) \in Seq(Calls)
    BY PoliciesAre DEF release_port_credits, Calls, Call
  <2>2. credit_rem["BATCH_2SZ_EXCEED"] = Batch /\ Batch \in Nat
    BY SwCreditsAssumption DEF credit_rem
  <2>3. Generous(release_port_credits(FALSE))
    BY <2>2 DEF Generous, Call, release_port_credits
  <2>4. <<>> \in Seq(Calls) /\ Generous(<<>>)
    BY DEF Generous
  <2> QED
    BY <2>1, <2>3, <2>4
<1>3. RecvCalls(r) = a \o b
  BY DEF RecvCalls
<1> HIDE DEF a, b
<1> QED
  BY <1>1, <1>2, <1>3, GenerousConcat

(* A receive makes its thread a worker.                                    *)
LEMMA CreditWorker ==
  ASSUME Inv, Shape', Exclusive, Fits, NEW p \in Ports, Credit(p)
  PROVE  Worker(p)'
<1> DEFINE r == th[io(p)]
           e == RecvType(p)
           n == num[p][e] + r.taken
           x == Releasing(Idle(r.taken), RecvCalls(r), "idle")
<1>1. r \in AgentType /\ r.taken \in Nat /\ r.pc = "credit" /\ th[ctl(p)].pc = "idle"
  <2>1. r \in AgentType
    BY TheAgents DEF Inv, Shape
  <2> QED
    BY <2>1, AtIs DEF AgentType, Credit
<1>2. e \in Types /\ num[p][e] \in Int /\ 0 <= num[p][e]
  BY NumType DEF Inv, Shape, Data, RecvType, Types
<1>3. num'[p][e] = n /\ n \in Int
  <2>1. n \in Int /\ u16(n) = n
    BY CreditFits
  <2> QED
    BY <1>1, <1>2, <2>1 DEF Credit, Inv, Shape, Data, Caches
<1>4. th'[io(p)] = x /\ th'[ctl(p)] = th[ctl(p)]
  <2>1. th' = [th EXCEPT ![io(p)] = x]
    BY DEF Credit
  <2> HIDE DEF x
  <2> QED
    BY <2>1, OneIo DEF Inv
<1>5. x.pc = "release" /\ x.next = "idle" /\ x.calls = RecvCalls(r) /\ x.got = r.taken
  BY DEF Releasing, Idle
<1> HIDE DEF x
<1>6. CASE r.taken = 0
  BY <1>4, <1>5, <1>6, WorkerFresh
<1>7. CASE r.taken # 0
  <2>1. Working(x, th[ctl(p)])
    BY <1>1, <1>5, <1>7, RecvCallsGenerous DEF Working
  <2>2. AtMost(r.taken, Batch) \in Nat /\ AtMost(r.taken, Batch) <= r.taken
    BY <1>1, AtMostIs, SwCreditsAssumption
  <2>3. Pending(x, e) = 0
    BY <1>5 DEF Pending
  <2> DEFINE g == AtMost(r.taken, Batch)
             k == r.taken
             s == num[p][e]
  <2>4. g \in Nat /\ g <= k /\ k \in Nat /\ s \in Int /\ 0 <= s
    BY <1>1, <1>2, <2>2
  <2>5. num'[p][e] = s + k
    BY <1>3
  <2> HIDE DEF g, k, s
  <2>6. g <= (s + k) - 0
    BY <2>4
  <2>7. Kept(num'[p], x, e)
    BY <1>5, <2>3, <2>5, <2>6 DEF Kept, g
  <2> QED
    BY <1>4, <2>1, <2>7 DEF Worker
<1> QED
  BY <1>6, <1>7

(* Every step of a port keeps its worker.                                  *)
LEMMA PortWorker ==
  ASSUME Inv, Shape', Exclusive, Fits, NEW p \in Ports, PortStep(p), Worker(p)
  PROVE  Worker(p)'
<1> Shape
  BY DEF Inv
<1>1. CASE dlb_send(p) \/ dlb_adv_send(p)
  BY <1>1, SendEvents, SendGot, WorkerFresh
<1>2. CASE send_no_credits(p)
  BY <1>2, NoCreditsGot, WorkerFresh
<1>3. CASE SendStep(p)
  <2>1. th[io(p)].pc \in Sending
    BY <1>3 DEF SendStep, Take, ReadPool, Refresh, GiveUp, Enqueue, Charge, Building, At, Sending
  <2>2. th[io(p)].got = 0
    BY <2>1, WorkerPlaces DEF Sending
  <2> QED
    BY <1>3, <2>2, SendStepGot, WorkerFresh
<1>4. CASE dlb_recv(p)
  BY <1>4, ReceiveArgs, ReceiveGot, WorkerFresh
<1>5. CASE Ready(p) \/ LowPool(p) \/ WakeUp(p) \/ TimeOut(p) \/ WaitFails(p) \/ Dequeue(p)
  <2>1. th[io(p)].pc \in {"ready", "low_pool", "wait", "take"}
    BY <1>5 DEF Ready, LowPool, WakeUp, TimeOut, WaitFails, Dequeue, At
  <2>2. th[io(p)].got = 0
    BY <2>1, WorkerPlaces
  <2> QED
    BY <1>5, <2>2, RecvStepGot, WorkerFresh
<1>6. CASE Credit(p)
  BY <1>6, CreditWorker
<1>7. CASE disable_port(p)
  BY <1>7, DisableGot, WorkerFresh
<1>8. CASE DisableStep(p)
  <2>1. th[ctl(p)].pc # "idle"
    BY <1>8 DEF DisableStep, DisableIoctl, ClearEnabled
  <2>2. th[io(p)].got = 0
    BY <2>1, WorkerPlaces
  <2>3. \E x : th' = [th EXCEPT ![ctl(p)] = x]
    BY <1>8 DEF DisableStep, DisableIoctl, ClearEnabled
  <2>4. th'[io(p)] = th[io(p)]
    BY <2>3, OneCtl
  <2> QED
    BY <2>2, <2>4, WorkerFresh
<1>9. CASE enable_port(p) \/ Schedule(p)
  <2>1. th' = th /\ num' = num
    BY <1>9 DEF enable_port, Schedule
  <2> QED
    BY <2>1, WorkerSame
<1> QED
  BY <1>1, <1>2, <1>3, <1>4, <1>5, <1>6, <1>7, <1>8, <1>9 DEF PortStep, RecvStep

(* The invariant for workers is inductive.                                 *)
LEMMA NextWorker == WorkerInv /\ [Next]_vars /\ Exclusive /\ Fits => WorkerInv'
<1> SUFFICES ASSUME WorkerInv, [Next]_vars, Exclusive, Fits PROVE WorkerInv'
  OBVIOUS
<1>1. Inv /\ Inv' /\ Shape'
  BY NextInv DEF WorkerInv, Inv
<1>2. ASSUME NEW p \in Ports
      PROVE  Worker(p)'
  <2> Worker(p)
    BY DEF WorkerInv
  <2>1. CASE UNCHANGED vars
    BY <2>1, WorkerSame DEF vars
  <2>2. ASSUME NEW a \in Agents, ReleaseStep(a)
        PROVE  Worker(p)'
    BY <1>1, <2>2, ReleaseWorker
  <2>3. ASSUME NEW q \in Ports, PortStep(q)
        PROVE  Worker(p)'
    <3>1. CASE q = p
      BY <1>1, <2>3, <3>1, PortWorker
    <3>2. CASE q # p
      <4>1. StepOf(q)
        BY <1>1, <2>3, PortStepOf
      <4>2. Frame(q)
        BY <4>1 DEF StepOf, Done
      <4> QED
        BY <3>2, <4>2, WorkerSame DEF Frame
    <3> QED
      BY <3>1, <3>2
  <2> QED
    BY <2>1, <2>2, <2>3, NextIs
<1> QED
  BY <1>1, <1>2 DEF WorkerInv

(* It holds at the start.                                                  *)
LEMMA InitWorker == Init => WorkerInv
<1> SUFFICES ASSUME Init, NEW p \in Ports PROVE Worker(p)
  BY InitInv DEF WorkerInv
<1>1. th[io(p)] = Idle(0)
  BY AgentsAre DEF Init
<1> QED
  BY <1>1 DEF Worker, Idle

(* It implies what the run checks.                                         *)
LEMMA WorkerHasCredits == WorkerInv => WorkerKeepsCredits
<1> SUFFICES ASSUME WorkerInv, NEW p \in Ports, th[io(p)].pc = "idle"
             PROVE  num[p][RecvType(p)] >= AtMost(th[io(p)].got, Batch)
  BY DEF WorkerKeepsCredits
<1> DEFINE r == th[io(p)]
           t == RecvType(p)
           n == num[p][t]
           g == AtMost(r.got, Batch)
<1>1. r \in AgentType /\ n \in Int /\ 0 <= n /\ Batch \in Nat
  BY TheAgents, NumType, SwCreditsAssumption DEF WorkerInv, Inv, Shape, Data, RecvType, Types
<1>2. r.got \in Nat
  BY <1>1 DEF AgentType
<1>3. g \in Nat /\ g <= r.got
  BY <1>1, <1>2, AtMostIs
<1>4. CASE r.got = 0
  <2> HIDE DEF n, g
  <2>1. g = 0
    BY <1>3, <1>4
  <2>2. n >= g
    BY <1>1, <2>1
  <2> QED
    BY <2>2 DEF n, g
<1>5. CASE r.got # 0
  <2>1. Kept(num[p], r, t)
    BY <1>5 DEF WorkerInv, Worker
  <2>2. Pending(r, t) = 0
    BY DEF Pending
  <2>3. g <= n - 0
    BY <2>1, <2>2 DEF Kept
  <2> HIDE DEF n, g
  <2>4. n >= g
    BY <1>1, <1>3, <2>3
  <2> QED
    BY <2>4 DEF n, g
<1> QED
  BY <1>4, <1>5

(* A worker can forward what it received, up to a batch, from its own      *)
(* cache: no policy inside the receive or the pop takes those credits      *)
(* away. The assumptions are those of CreditsAreConserved.                 *)
THEOREM WorkersKeepCredits ==
  ASSUME Exclusive, Fits
  PROVE  Spec => []WorkerKeepsCredits
<1>1. WorkerInv /\ [Next]_vars => WorkerInv'
  BY NextWorker
<1> QED
  BY <1>1, InitWorker, WorkerHasCredits, PTL DEF Spec
=============================================================================
