----------------------------- MODULE Broker_proofs -----------------------------
(***************************************************************************)
(* Proofs about the broker of lab 3, for every set of publishers, messages *)
(* and subscribers, every size of the table of subscribers and each of the *)
(* three strategies.                                                       *)
(***************************************************************************)
EXTENDS Broker, FiniteSetTheorems, TLAPS

-----------------------------------------------------------------------------
(* What the steps have in common.                                          *)

\* A step of a call of Subscribe.
SubscribeStep(s) == BeginSubscribe(s) \/ AddSubscriber(s) \/ SubscribeReturns(s)

\* Subscribe touches nothing of the queue, the publishers and the dispatcher.
LEMMA SubscribeFrame ==
  ASSUME NEW s \in Subscriber, SubscribeStep(s)
  PROVE  UNCHANGED <<pqVars, mutex_PQ, pubVars, dispVars, envVars>>
BY DEF SubscribeStep, BeginSubscribe, AddSubscriber, StoreWriter, StoreTopic,
       IncrementIndex, SubscribeReturns

\* Publish and the dispatcher touch nothing of the table of subscribers.
LEMMA PublishFrame ==
  ASSUME NEW p \in Publisher, Publish(p)
  PROVE  UNCHANGED <<subVars, envVars, td, i, dispatched, registeredAt, written>>
BY DEF Publish, Read, LockPQ, Push, Broadcast, dispVars

LEMMA DispatchFrame ==
  ASSUME Dispatch \/ SpuriousWakeup
  PROVE  UNCHANGED <<subVars, envVars, pubVars, val, enqueued>>
BY DEF Dispatch, SpuriousWakeup, DispatchLock, DispatchEmpty, DispatchWait,
       DispatchPop, WriteNext, WriteEnd, pqVars

\* The program keeps its arguments.
LEMMA SetupStays == [Next]_vars => setup' = setup
BY SubscribeFrame, PublishFrame, DispatchFrame
   DEF Next, vars, envVars, Tick, SubscribeStep

\* The message a handler has in its hands.
LEMMA InHand ==
  ASSUME TypeOK, NEW p \in Publisher, ppc[p] # "read"
  PROVE  /\ Stream \in [Publisher -> Seq(Msg)]
         /\ sent[p] \in 1 .. Len(Stream[p])
         /\ Stream[p][sent[p]] \in Msg
<1>1. Stream \in [Publisher -> Seq(Msg)]
  BY BrokerAssumption DEF TypeOK, Stream
<1>2. sent[p] \in 1 .. Len(Stream[p])
  BY <1>1 DEF TypeOK, PublisherType
<1> QED BY <1>1, <1>2

\* What top() returns is queued, and nothing queued has the higher priority.
LEMMA TopIsFirst ==
  ASSUME TypeOK, PQ # {}, NEW m \in Top(PQ)
  PROVE  m \in PQ /\ m \in Msg /\ \A n \in PQ : val[m] <= val[n]
<1>1. m \in PQ /\ \A n \in PQ : ~ (val[m] > val[n])
  BY DEF Top, myComparison
<1> QED BY <1>1 DEF TypeOK, QueueType

-----------------------------------------------------------------------------
(* Types.                                                                  *)

\* Every key is a number.
LEMMA KeyType == ASSUME TypeOK, NEW m \in Msg PROVE getVal(m) \in Int
<1>1. strategy \in {"EDF", "RM", "FIFO"}
  BY BrokerAssumption DEF TypeOK, strategy
<1> QED BY <1>1, BrokerAssumption
        DEF getVal, AbsoluteDeadline, EnqueueTime, TypeOK

\* Initially every variable is in its type.
LEMMA InitType == Init => TypeOK
<1> SUFFICES ASSUME Init PROVE TypeOK
  OBVIOUS
<1>1. setup \in Setups /\ clock \in Nat /\ Stream \in [Publisher -> Seq(Msg)]
  BY BrokerAssumption DEF Init, Stream
<1>2. QueueType
  <2>1. val = [m \in Msg |-> 0] /\ enqueued = <<>>
    BY DEF Init
  <2>2. val \in [Msg -> Int] /\ enqueued \in Seq(Msg)
    BY <2>1
  <2>3. /\ PQ \subseteq Msg /\ nonEmptyPQ \in BOOLEAN
        /\ mutex_PQ \in Publisher \cup {Dispatcher, NoThread}
    BY DEF Init
  <2> QED BY <2>2, <2>3 DEF QueueType
<1>3. PublisherType
  <2>1. /\ ppc = [p \in Publisher |-> "read"]
        /\ sent = [p \in Publisher |-> 0]
    BY DEF Init
  <2>2. \A p \in Publisher : Len(Stream[p]) \in Nat
    BY <1>1
  <2> QED BY <2>1, <2>2 DEF PublisherType
<1>4. DispatcherType
  <2>1. /\ dpc = "lock" /\ td = NoMsg /\ i = 0 /\ dispatched = <<>>
        /\ registeredAt = [m \in Msg |-> 0]
        /\ written = [s \in Subscriber |-> <<>>]
    BY DEF Init
  <2> QED BY <2>1, BrokerAssumption DEF DispatcherType
<1>5. TableType
  <2>1. /\ subscribers_ = [k \in Slot |-> NoSubscriber]
        /\ topics_ = [k \in Slot |-> NoTopic]
        /\ subscriber_index = 0
        /\ spc = [s \in Subscriber |-> "idle"]
        /\ overlapped = FALSE /\ outOfBounds = FALSE
    BY DEF Init
  <2> QED BY <2>1 DEF TableType
<1> QED BY <1>1, <1>2, <1>3, <1>4, <1>5 DEF TypeOK

\* Types of what Publish works on.
LEMMA TypePublish ==
  ASSUME TypeOK, NEW p \in Publisher, Publish(p)
  PROVE  TypeOK'
<1>0. /\ setup' \in Setups /\ clock' \in Nat /\ TableType'
      /\ Stream' = Stream /\ Stream \in [Publisher -> Seq(Msg)]
  BY PublishFrame, BrokerAssumption DEF TypeOK, TableType, Slot, Topic, subVars, envVars, Stream
<1>1. PublisherType /\ DispatcherType /\ QueueType
  BY DEF TypeOK
<1>2. QueueType'
  <2>1. CASE Push(p)
    <3> DEFINE m == Stream[p][sent[p]]
    <3>1. m \in Msg /\ getVal(m) \in Int
      BY <2>1, KeyType, InHand DEF Push
    <3>2. /\ val' = [val EXCEPT ![m] = getVal(m)] /\ PQ' = PQ \cup {m}
          /\ nonEmptyPQ' = TRUE /\ enqueued' = Append(enqueued, m)
          /\ UNCHANGED mutex_PQ
      BY <2>1 DEF Push
    <3> HIDE DEF m
    <3> QED BY <3>1, <3>2, <1>1 DEF QueueType
  <2>2. CASE Read(p) \/ LockPQ(p) \/ Broadcast(p)
    BY <2>2, <1>1 DEF Read, LockPQ, AcquirePQ, Broadcast, QueueType, pqVars
  <2> QED BY <2>1, <2>2 DEF Publish
<1>3. PublisherType'
  <2>1. /\ ppc' \in [Publisher -> {"read", "lock", "push", "broadcast"}]
        /\ sent' \in [Publisher -> Nat]
    BY <1>1 DEF PublisherType, Publish, Read, LockPQ, Push, Broadcast
  <2>2. \/ sent' = sent /\ ppc[p] # "read"
        \/ /\ sent[p] < Len(Stream[p]) /\ sent' = [sent EXCEPT ![p] = @ + 1]
    BY DEF Publish, Read, LockPQ, Push, Broadcast
  <2>3. \A q \in Publisher : q # p => ppc'[q] = ppc[q]
    BY <1>1 DEF PublisherType, Publish, Read, LockPQ, Push, Broadcast
  <2>4. \A q \in Publisher : Len(Stream[q]) \in Nat
    BY <1>0
  <2>5. ASSUME NEW q \in Publisher
        PROVE  sent'[q] <= Len(Stream[q]) /\ (ppc'[q] # "read" => sent'[q] > 0)
    <3>1. CASE q = p
      BY <3>1, <2>1, <2>2, <2>4, <1>1 DEF PublisherType
    <3>2. CASE q # p
      BY <3>2, <2>2, <2>3, <2>4, <1>1 DEF PublisherType
    <3> QED BY <3>1, <3>2
  <2> QED BY <2>1, <2>5, <1>0 DEF PublisherType
<1>4. DispatcherType'
  <2>1. dpc' = dpc \/ (dpc = "wait" /\ dpc' = "lock")
    BY DEF Publish, Read, LockPQ, Push, Broadcast, Woken, dispVars
  <2> QED BY <2>1, <1>1, PublishFrame DEF DispatcherType
<1> QED BY <1>0, <1>2, <1>3, <1>4 DEF TypeOK

\* Types of what the dispatcher works on.
LEMMA TypeDispatch ==
  ASSUME TypeOK, FlagTellsQueue, Dispatch \/ SpuriousWakeup
  PROVE  TypeOK'
<1>0. /\ setup' \in Setups /\ clock' \in Nat /\ TableType' /\ PublisherType'
  BY DispatchFrame
     DEF TypeOK, TableType, PublisherType, Slot, Topic, subVars, pubVars, envVars, Stream
<1>1. DispatcherType /\ QueueType /\ TableType
  BY DEF TypeOK
<1>2. QueueType'
  <2>1. PQ' \subseteq PQ /\ nonEmptyPQ' \in BOOLEAN
    BY <1>1 DEF Dispatch, SpuriousWakeup, DispatchLock, DispatchEmpty, DispatchWait,
           DispatchPop, Popped, FlagAfterPop, WriteNext, WriteEnd, pqVars, QueueType
  <2>2. mutex_PQ' \in Publisher \cup {Dispatcher, NoThread}
    BY <1>1 DEF Dispatch, SpuriousWakeup, DispatchLock, DispatchEmpty, DispatchWait,
           DispatchPop, WriteNext, WriteEnd, QueueType
  <2> QED BY <2>1, <2>2, <1>1, DispatchFrame DEF QueueType
<1>3. DispatcherType'
  <2>1. CASE DispatchLock \/ DispatchEmpty \/ DispatchWait \/ SpuriousWakeup
    BY <2>1, <1>1 DEF DispatchLock, DispatchEmpty, DispatchWait, SpuriousWakeup, DispatcherType
  <2>2. CASE DispatchPop
    <3>1. PICK m \in Top(PQ) :
            /\ td' = m /\ dispatched' = Append(dispatched, m)
            /\ registeredAt' = [n \in Msg |-> IF n = m THEN subscriber_index
                                              ELSE registeredAt[n]]
      BY <2>2 DEF DispatchPop
    <3>2. m \in Msg
      BY <2>2, TopIsFirst DEF DispatchPop, FlagTellsQueue
    <3>3. dpc' = "write" /\ UNCHANGED <<i, written>>
      BY <2>2 DEF DispatchPop
    <3>4. registeredAt' \in [Msg -> Nat]
      BY <3>1, <1>1 DEF DispatcherType, TableType
    <3> QED BY <3>1, <3>2, <3>3, <3>4, <1>1 DEF DispatcherType
  <2>3. CASE WriteNext
    <3>1. i' = i + 1 /\ dpc = "write"
          /\ UNCHANGED <<dpc, td, dispatched, registeredAt>>
      BY <2>3 DEF WriteNext
    <3>2. written' \in [Subscriber -> Seq(Msg)]
      <4>1. CASE i \in Slot /\ SameTopic(i, td) /\ subscribers_[i] # NoSubscriber
        <5>1. subscribers_[i] \in Subscriber /\ td \in Msg
          BY <4>1, <3>1, <1>1 DEF TableType, DispatcherType
        <5>2. written' = [written EXCEPT ![subscribers_[i]] = Append(@, td)]
          BY <4>1, <2>3 DEF WriteNext
        <5> QED BY <5>1, <5>2, <1>1 DEF DispatcherType
      <4>2. CASE ~ (i \in Slot /\ SameTopic(i, td) /\ subscribers_[i] # NoSubscriber)
        BY <4>2, <2>3, <1>1 DEF WriteNext, DispatcherType
      <4> QED BY <4>1, <4>2
    <3> QED BY <3>1, <3>2, <1>1 DEF DispatcherType
  <2>4. CASE WriteEnd
    BY <2>4, <1>1, BrokerAssumption DEF WriteEnd, DispatcherType
  <2> QED BY <2>1, <2>2, <2>3, <2>4 DEF Dispatch
<1> QED BY <1>0, <1>2, <1>3 DEF TypeOK

\* Types of what Subscribe works on.
LEMMA TypeSubscribe ==
  ASSUME TypeOK, NEW s \in Subscriber, SubscribeStep(s)
  PROVE  TypeOK'
<1>0. /\ setup' \in Setups /\ clock' \in Nat
      /\ QueueType' /\ PublisherType' /\ DispatcherType'
  BY SubscribeFrame
     DEF TypeOK, QueueType, PublisherType, DispatcherType, pqVars, pubVars, dispVars,
         envVars, Stream
<1>1. TableType
  BY DEF TypeOK
<1>2. overlapped' \in BOOLEAN /\ outOfBounds' \in BOOLEAN
  BY <1>1 DEF TableType, SubscribeStep, BeginSubscribe, AddSubscriber, StoreWriter,
              StoreTopic, IncrementIndex, SubscribeReturns
<1>7. subscriber_index' \in Nat
  BY <1>1 DEF TableType, SubscribeStep, BeginSubscribe, AddSubscriber, StoreWriter,
              StoreTopic, IncrementIndex, SubscribeReturns
<1>3. spc' \in [Subscriber -> {"idle", "refused", "sleep", "returned"} \cup SubPC]
  BY <1>1 DEF TableType, SubPC, SubscribeStep, BeginSubscribe, AddSubscriber, StoreWriter,
              StoreTopic, IncrementIndex, SubscribeReturns
<1>4. subscribers_' \in [Slot -> Subscriber \cup {NoSubscriber}]
  BY <1>1 DEF TableType, SubscribeStep, BeginSubscribe, AddSubscriber, StoreWriter,
              StoreTopic, IncrementIndex, SubscribeReturns
<1>5. topics_' \in [Slot -> Topic \cup {NoTopic}]
  <2>1. Wants[s] \in Topic
    BY DEF Topic
  <2> HIDE DEF Topic
  <2> QED
    BY <1>1, <2>1 DEF TableType, SubscribeStep, BeginSubscribe, AddSubscriber, StoreWriter,
                      StoreTopic, IncrementIndex, SubscribeReturns
<1>6. Slot' = Slot /\ Topic' = Topic
  BY DEF Slot, Topic
<1> QED BY <1>0, <1>2, <1>3, <1>4, <1>5, <1>6, <1>7 DEF TypeOK, TableType

\* Every action keeps every variable in its type.
LEMMA TypeStep == TypeOK /\ FlagTellsQueue /\ [Next]_vars => TypeOK'
<1> SUFFICES ASSUME TypeOK, FlagTellsQueue, [Next]_vars PROVE TypeOK'
  OBVIOUS
<1>1. CASE Tick \/ UNCHANGED vars
  <2>1. /\ UNCHANGED <<setup, pqVars, mutex_PQ, pubVars, dispVars, subVars>>
        /\ clock' \in Nat
    BY <1>1 DEF Tick, vars, envVars, TypeOK
  <2> QED
    BY <2>1 DEF TypeOK, QueueType, PublisherType, DispatcherType, TableType, pqVars,
                pubVars, dispVars, subVars, Stream
<1> QED BY <1>1, TypePublish, TypeDispatch, TypeSubscribe DEF Next, SubscribeStep
-----------------------------------------------------------------------------
(* The monitor around the queue.                                           *)

\* A dispatcher on its way into pthread_cond_wait left an empty queue behind:
\* between its test and the wait nobody gets the mutex.
BlockEmpty == dpc = "block" => PQ = {}

MonitorInv == TypeOK /\ PQExclusion /\ FlagTellsQueue /\ BlockEmpty /\ NoLostWakeup

\* The mutex has one holder, whoever acts.
LEMMA ExclusionStep == MonitorInv /\ [Next]_vars => PQExclusion'
<1> SUFFICES ASSUME MonitorInv, [Next]_vars PROVE PQExclusion'
  OBVIOUS
<1>0. /\ ppc \in [Publisher -> {"read", "lock", "push", "broadcast"}]
      /\ PQExclusion
  BY DEF MonitorInv, TypeOK, PublisherType
<1>1. ASSUME NEW p \in Publisher, Publish(p) PROVE PQExclusion'
  <2>1. CASE Read(p)
    BY <2>1, <1>0 DEF Read, dispVars, PQExclusion
  <2>2. CASE LockPQ(p)
    BY <2>2, <1>0, BrokerAssumption DEF LockPQ, AcquirePQ, dispVars, PQExclusion
  <2>3. CASE Push(p)
    BY <2>3, <1>0 DEF Push, dispVars, PQExclusion
  <2>4. CASE Broadcast(p)
    BY <2>4, <1>0, BrokerAssumption DEF Broadcast, Woken, PQExclusion
  <2> QED BY <1>1, <2>1, <2>2, <2>3, <2>4 DEF Publish
<1>2. CASE Dispatch \/ SpuriousWakeup
  <2>1. UNCHANGED ppc
    BY <1>2, DispatchFrame DEF pubVars
  <2> QED
    BY <2>1, <1>0, <1>2, BrokerAssumption
    DEF Dispatch, DispatchLock, DispatchEmpty, DispatchWait, DispatchPop, WriteNext,
        WriteEnd, SpuriousWakeup, PQExclusion
<1>3. ASSUME UNCHANGED <<ppc, dpc, mutex_PQ>> PROVE PQExclusion'
  BY <1>0, <1>3 DEF PQExclusion
<1> QED
  BY <1>1, <1>2, <1>3, SubscribeFrame
  DEF Next, SubscribeStep, Tick, vars, pubVars, dispVars

\* The flag goes on telling whether the queue is empty.
LEMMA FlagStep == MonitorInv /\ [Next]_vars => FlagTellsQueue' /\ BlockEmpty'
<1> SUFFICES ASSUME MonitorInv, [Next]_vars PROVE FlagTellsQueue' /\ BlockEmpty'
  OBVIOUS
<1>0. /\ PQExclusion /\ FlagTellsQueue /\ BlockEmpty
      /\ nonEmptyPQ \in BOOLEAN
  BY DEF MonitorInv, TypeOK, QueueType
<1>1. ASSUME NEW p \in Publisher, Publish(p) PROVE FlagTellsQueue' /\ BlockEmpty'
  <2>1. CASE Read(p) \/ LockPQ(p)
    BY <2>1, <1>0 DEF Read, LockPQ, dispVars, pqVars, FlagTellsQueue, BlockEmpty
  <2>2. CASE Push(p)
    <3>1. dpc # "block"
      BY <2>2, <1>0, BrokerAssumption DEF Push, PQExclusion
    <3> QED BY <2>2, <3>1 DEF Push, dispVars, FlagTellsQueue, BlockEmpty
  <2>3. CASE Broadcast(p)
    BY <2>3, <1>0 DEF Broadcast, Woken, pqVars, FlagTellsQueue, BlockEmpty
  <2> QED BY <1>1, <2>1, <2>2, <2>3 DEF Publish
<1>2. CASE Dispatch \/ SpuriousWakeup
  <2>1. CASE DispatchPop
    <3>1. PICK m \in Top(PQ) : /\ PQ' = Popped(PQ, m)
                               /\ nonEmptyPQ' = FlagAfterPop(nonEmptyPQ, Popped(PQ, m))
      BY <2>1 DEF DispatchPop
    <3>2. nonEmptyPQ /\ dpc' = "write"
      BY <2>1 DEF DispatchPop
    <3> QED BY <3>1, <3>2, <1>0 DEF FlagAfterPop, FlagTellsQueue, BlockEmpty
  <2>2. CASE DispatchEmpty
    BY <2>2, <1>0 DEF DispatchEmpty, pqVars, FlagTellsQueue, BlockEmpty
  <2>3. CASE DispatchLock \/ DispatchWait \/ WriteNext \/ WriteEnd \/ SpuriousWakeup
    BY <2>3, <1>0
    DEF DispatchLock, DispatchWait, WriteNext, WriteEnd, SpuriousWakeup, pqVars,
        FlagTellsQueue, BlockEmpty
  <2> QED BY <1>2, <2>1, <2>2, <2>3 DEF Dispatch
<1>3. ASSUME UNCHANGED <<PQ, nonEmptyPQ, dpc>> PROVE FlagTellsQueue' /\ BlockEmpty'
  BY <1>0, <1>3 DEF FlagTellsQueue, BlockEmpty
<1> QED
  BY <1>1, <1>2, <1>3, SubscribeFrame
  DEF Next, SubscribeStep, Tick, vars, pqVars, dispVars

\* No wakeup is lost.
LEMMA WakeupStep == MonitorInv /\ [Next]_vars => NoLostWakeup'
<1> SUFFICES ASSUME MonitorInv, [Next]_vars PROVE NoLostWakeup'
  OBVIOUS
<1>0. /\ ppc \in [Publisher -> {"read", "lock", "push", "broadcast"}]
      /\ NoLostWakeup /\ BlockEmpty
  BY DEF MonitorInv, TypeOK, PublisherType
<1>1. ASSUME NEW p \in Publisher, Publish(p) PROVE NoLostWakeup'
  <2>1. CASE Read(p) \/ LockPQ(p)
    BY <2>1, <1>0 DEF Read, LockPQ, dispVars, pqVars, NoLostWakeup
  <2>2. CASE Push(p)
    BY <2>2, <1>0 DEF Push, NoLostWakeup
  <2>3. CASE Broadcast(p)
    BY <2>3 DEF Broadcast, Woken, NoLostWakeup
  <2> QED BY <1>1, <2>1, <2>2, <2>3 DEF Publish
<1>2. CASE Dispatch \/ SpuriousWakeup
  <2>1. UNCHANGED ppc
    BY <1>2, DispatchFrame DEF pubVars
  <2>2. dpc' = "wait" => PQ' = {}
    BY <1>2, <1>0
    DEF Dispatch, DispatchLock, DispatchEmpty, DispatchWait, DispatchPop, WriteNext,
        WriteEnd, SpuriousWakeup, BlockEmpty, pqVars
  <2> QED BY <2>1, <2>2 DEF NoLostWakeup
<1>3. ASSUME UNCHANGED <<PQ, ppc, dpc>> PROVE NoLostWakeup'
  BY <1>0, <1>3 DEF NoLostWakeup
<1> QED
  BY <1>1, <1>2, <1>3, SubscribeFrame
  DEF Next, SubscribeStep, Tick, vars, pqVars, pubVars, dispVars

\* The invariant of the monitor is inductive.
LEMMA MonitorInductive ==
  /\ Init => MonitorInv
  /\ MonitorInv /\ [Next]_vars => MonitorInv'
<1>1. Init => MonitorInv
  <2> SUFFICES ASSUME Init PROVE PQExclusion /\ FlagTellsQueue /\ BlockEmpty /\ NoLostWakeup
    BY InitType DEF MonitorInv
  <2> QED
    BY BrokerAssumption DEF Init, PQExclusion, FlagTellsQueue, BlockEmpty, NoLostWakeup
<1>2. MonitorInv /\ [Next]_vars => MonitorInv'
  BY TypeStep, ExclusionStep, FlagStep, WakeupStep DEF MonitorInv
<1> QED BY <1>1, <1>2

LEMMA MonitorInvariance == Spec => []MonitorInv
BY MonitorInductive, PTL DEF Spec

\* The monitor around PQ is right, for any number of publishers: Publish and the
\* dispatcher exclude each other, the flag tested in place of PQ.empty() never
\* lies, and no broadcast comes too early to wake a dispatcher that waits.
THEOREM Monitor == Spec => []DispatchInv
<1>1. MonitorInv => DispatchInv
  BY DEF MonitorInv, DispatchInv
<1> QED BY <1>1, MonitorInvariance, PTL

-----------------------------------------------------------------------------
(* The messages.                                                           *)

Distinct(q) == \A j, k \in DOMAIN q : q[j] = q[k] => j = k

\* A message appended to a sequence that does not hold it.
LEMMA AppendMembers ==
  ASSUME NEW S, NEW q \in Seq(S), NEW m \in S
  PROVE  /\ Members(Append(q, m)) = Members(q) \cup {m}
         /\ Distinct(q) /\ m \notin Members(q) => Distinct(Append(q, m))
<1>1. /\ DOMAIN Append(q, m) = 1 .. Len(q) + 1
      /\ DOMAIN q = 1 .. Len(q)
      /\ \A k \in 1 .. Len(q) : Append(q, m)[k] = q[k]
      /\ Append(q, m)[Len(q) + 1] = m
      /\ Len(q) \in Nat
  OBVIOUS
<1>2. Members(Append(q, m)) = Members(q) \cup {m}
  <2>1. ASSUME NEW x \in Members(Append(q, m)) PROVE x \in Members(q) \cup {m}
    BY <1>1 DEF Members
  <2>2. ASSUME NEW x \in Members(q) PROVE x \in Members(Append(q, m))
    <3>1. PICK k \in DOMAIN q : x = q[k]
      BY DEF Members
    <3>2. k \in DOMAIN Append(q, m) /\ x = Append(q, m)[k]
      BY <3>1, <1>1
    <3> QED BY <3>2 DEF Members
  <2>3. m \in Members(Append(q, m))
    <3>1. Len(q) + 1 \in DOMAIN Append(q, m)
      BY <1>1
    <3> QED BY <3>1, <1>1 DEF Members
  <2> QED BY <2>1, <2>2, <2>3
<1>3. ASSUME Distinct(q), m \notin Members(q) PROVE Distinct(Append(q, m))
  <2>1. \A k \in 1 .. Len(q) : q[k] # m
    BY <1>1, <1>3 DEF Members
  <2> QED BY <1>1, <1>3, <2>1 DEF Distinct
<1> QED BY <1>2, <1>3

\* The messages the handlers have put into the queue.
HandedIn == UNION {{Stream[p][k] : k \in 1 .. HandedOver(p)} : p \in Publisher}

LEMMA HandedMember ==
  ASSUME NEW m
  PROVE  m \in HandedIn <=>
           \E p \in Publisher : \E k \in 1 .. HandedOver(p) : m = Stream[p][k]
BY DEF HandedIn

\* A step queues a message, or takes one, or changes nothing of the flow.
LEMMA FlowSteps ==
  ASSUME MonitorInv, [Next]_vars
  PROVE  \/ \E p \in Publisher : Push(p)
         \/ DispatchPop
         \/ /\ UNCHANGED <<PQ, val, enqueued, dispatched>>
            /\ td' = td \/ td' = NoMsg
            /\ \A p \in Publisher : HandedOver(p)' = HandedOver(p)
<1>0. /\ ppc \in [Publisher -> {"read", "lock", "push", "broadcast"}]
      /\ sent \in [Publisher -> Nat]
  BY DEF MonitorInv, TypeOK, PublisherType
<1>1. ASSUME NEW p \in Publisher, Read(p) \/ LockPQ(p) \/ Broadcast(p)
      PROVE  /\ UNCHANGED <<PQ, val, enqueued, dispatched, td>>
             /\ \A q \in Publisher : HandedOver(q)' = HandedOver(q)
  <2>1. UNCHANGED <<PQ, val, enqueued, dispatched, td>>
    BY <1>1 DEF Read, LockPQ, Broadcast, pqVars, dispVars
  <2>2. ASSUME NEW q \in Publisher PROVE HandedOver(q)' = HandedOver(q)
    BY <1>0, <1>1 DEF Read, LockPQ, Broadcast, HandedOver
  <2> QED BY <2>1, <2>2
<1>2. ASSUME DispatchLock \/ DispatchEmpty \/ DispatchWait \/ WriteNext \/ WriteEnd
             \/ SpuriousWakeup
      PROVE  /\ UNCHANGED <<PQ, val, enqueued, dispatched>>
             /\ td' = td \/ td' = NoMsg
             /\ UNCHANGED <<ppc, sent>>
  BY <1>2 DEF DispatchLock, DispatchEmpty, DispatchWait, WriteNext, WriteEnd,
              SpuriousWakeup, pqVars, pubVars
<1>3. ASSUME NEW s \in Subscriber, SubscribeStep(s)
      PROVE  UNCHANGED <<PQ, val, enqueued, dispatched, td, ppc, sent>>
  BY <1>3, SubscribeFrame DEF pqVars, pubVars, dispVars
<1>4. ASSUME Tick \/ UNCHANGED vars
      PROVE  UNCHANGED <<PQ, val, enqueued, dispatched, td, ppc, sent>>
  BY <1>4 DEF Tick, vars, pqVars, pubVars, dispVars
<1>5. UNCHANGED <<ppc, sent>> => \A p \in Publisher : HandedOver(p)' = HandedOver(p)
  BY DEF HandedOver
<1> QED BY <1>1, <1>2, <1>3, <1>4, <1>5 DEF Next, Publish, Dispatch, SubscribeStep

\* A message being queued is in no other place.
LEMMA PushIsNew ==
  ASSUME MonitorInv, MessagesConserved, NEW p \in Publisher, ppc[p] = "push"
  PROVE  Stream[p][sent[p]] \notin PQ \cup Members(dispatched)
<1> SUFFICES ASSUME Stream[p][sent[p]] \in HandedIn PROVE FALSE
  BY DEF MessagesConserved, HandedIn
<1>1. PICK q \in Publisher : \E k \in 1 .. HandedOver(q) : Stream[p][sent[p]] = Stream[q][k]
  BY HandedMember
<1>2. PICK k \in 1 .. HandedOver(q) : Stream[p][sent[p]] = Stream[q][k]
  BY <1>1
<1>3. TypeOK /\ setup \in Setups /\ sent \in [Publisher -> Nat]
      /\ sent[q] <= Len(Stream[q])
  BY DEF MonitorInv, TypeOK, PublisherType
<1>4. Stream \in [Publisher -> Seq(Msg)] /\ sent[p] \in 1 .. Len(Stream[p])
  BY <1>3, InHand
<1>5. k \in DOMAIN Stream[q] /\ sent[p] \in DOMAIN Stream[p]
  BY <1>3, <1>4 DEF HandedOver
<1>6. p = q /\ sent[p] = k
  BY <1>2, <1>3, <1>5, StreamAssumption DEF Stream
<1>7. HandedOver(p) = sent[p] - 1
  BY DEF HandedOver
<1> QED BY <1>3, <1>6, <1>7

\* Publish puts the message it has read among those handed over.
LEMMA PushHands ==
  ASSUME MonitorInv, NEW p \in Publisher, Push(p)
  PROVE  HandedIn' = HandedIn \cup {Stream[p][sent[p]]}
<1>0. /\ ppc \in [Publisher -> {"read", "lock", "push", "broadcast"}]
      /\ sent \in [Publisher -> Nat]
      /\ TypeOK
  BY DEF MonitorInv, TypeOK, PublisherType
<1>1. /\ ppc[p] = "push" /\ ppc' = [ppc EXCEPT ![p] = "broadcast"]
      /\ sent' = sent /\ setup' = setup
  BY DEF Push, envVars
<1>2. /\ sent[p] \in Nat \ {0}
      /\ HandedOver(p) = sent[p] - 1 /\ HandedOver(p)' = sent[p]
      /\ \A q \in Publisher : q # p => HandedOver(q)' = HandedOver(q)
  BY <1>0, <1>1, InHand DEF HandedOver
<1>3. ASSUME NEW x PROVE x \in HandedIn' <=> x \in HandedIn \cup {Stream[p][sent[p]]}
  <2>1. x \in HandedIn' <=>
          \E q \in Publisher : \E k \in 1 .. HandedOver(q)' : x = Stream[q][k]
    BY <1>1 DEF HandedIn, Stream
  <2>2. (\E k \in 1 .. HandedOver(p)' : x = Stream[p][k]) <=>
          (\E k \in 1 .. HandedOver(p) : x = Stream[p][k]) \/ x = Stream[p][sent[p]]
    BY <1>2
  <2> QED BY <2>1, <2>2, <1>2, HandedMember
<1> QED BY <1>3

\* Every action conserves the messages.
LEMMA ConservedStep ==
  ASSUME MonitorInv, MessagesConserved, [Next]_vars
  PROVE  MessagesConserved'
<1>0. /\ TypeOK /\ dispatched \in Seq(Msg)
      /\ PQ \cup Members(dispatched) = HandedIn
      /\ PQ \cap Members(dispatched) = {} /\ Distinct(dispatched)
  BY DEF MonitorInv, TypeOK, DispatcherType, MessagesConserved, HandedIn, Distinct
<1> SUFFICES /\ PQ' \cup Members(dispatched)' = HandedIn'
             /\ PQ' \cap Members(dispatched)' = {} /\ Distinct(dispatched')
  BY DEF MessagesConserved, HandedIn, Distinct
<1>1. ASSUME NEW p \in Publisher, Push(p)
      PROVE  /\ PQ' \cup Members(dispatched)' = HandedIn'
             /\ PQ' \cap Members(dispatched)' = {} /\ Distinct(dispatched')
  <2>1. PQ' = PQ \cup {Stream[p][sent[p]]} /\ dispatched' = dispatched /\ ppc[p] = "push"
    BY <1>1 DEF Push, dispVars
  <2>2. Members(dispatched)' = Members(dispatched)
    BY <2>1 DEF Members
  <2> QED BY <2>1, <2>2, <1>0, <1>1, PushIsNew, PushHands
<1>2. ASSUME DispatchPop
      PROVE  /\ PQ' \cup Members(dispatched)' = HandedIn'
             /\ PQ' \cap Members(dispatched)' = {} /\ Distinct(dispatched')
  <2>1. PICK m \in Top(PQ) : PQ' = PQ \ {m} /\ dispatched' = Append(dispatched, m)
    BY <1>2 DEF DispatchPop, Popped
  <2>2. m \in PQ /\ m \in Msg
    BY <1>0, <1>2, TopIsFirst DEF DispatchPop, MonitorInv, FlagTellsQueue
  <2>3. m \notin Members(dispatched)
    BY <2>2, <1>0
  <2>4. Members(dispatched)' = Members(dispatched) \cup {m} /\ Distinct(dispatched')
    <3>1. Members(dispatched)' = Members(Append(dispatched, m))
      BY <2>1 DEF Members
    <3> QED BY <3>1, <2>1, <2>2, <2>3, <1>0, AppendMembers
  <2>5. HandedIn' = HandedIn
    BY <1>2 DEF DispatchPop, pubVars, envVars, HandedIn, HandedOver, Stream
  <2> QED BY <2>1, <2>2, <2>3, <2>4, <2>5, <1>0
<1>3. ASSUME UNCHANGED <<PQ, dispatched>>,
             \A p \in Publisher : HandedOver(p)' = HandedOver(p)
      PROVE  /\ PQ' \cup Members(dispatched)' = HandedIn'
             /\ PQ' \cap Members(dispatched)' = {} /\ Distinct(dispatched')
  <2>1. Stream' = Stream
    BY SetupStays DEF Stream
  <2>2. HandedIn' = HandedIn
    BY <2>1, <1>3 DEF HandedIn
  <2>3. Members(dispatched)' = Members(dispatched)
    BY <1>3 DEF Members
  <2> QED BY <2>2, <2>3, <1>0, <1>3
<1> QED BY <1>1, <1>2, <1>3, FlowSteps

LEMMA ConservedInvariance == Spec => [](MonitorInv /\ MessagesConserved)
<1>1. Init => MessagesConserved
  BY DEF Init, MessagesConserved, Members, HandedOver
<1> QED BY <1>1, ConservedStep, MonitorInductive, PTL DEF Spec

\* Between the moment a handler has read it and the moment it is dispatched, no
\* message is lost, and none is dispatched twice.
THEOREM Conservation == Spec => []MessagesConserved
BY ConservedInvariance, PTL

-----------------------------------------------------------------------------
(* The order of the strategies.                                            *)

\* What is queued, in the order of PQ.push: everything not yet dispatched has
\* the key the strategy gives it, and for FIFO the keys never decrease.
EnqueuedInv ==
  /\ Members(enqueued) = PQ \cup Members(dispatched)
  /\ strategy # "FIFO" => \A m \in PQ : val[m] = StaticKey(strategy, m)
  /\ strategy = "FIFO" =>
       /\ \A j \in DOMAIN enqueued : val[enqueued[j]] <= clock
       /\ \A j, k \in DOMAIN enqueued : j < k => val[enqueued[j]] <= val[enqueued[k]]

\* The message the dispatcher has in its hands is the last it took.
LastTaken ==
  td \in Msg => dispatched # <<>> /\ td = dispatched[Len(dispatched)]

FlowInv == MonitorInv /\ MessagesConserved /\ EnqueuedInv /\ LastTaken

\* The time of day never goes back.
LEMMA ClockStep == TypeOK /\ [Next]_vars => clock' \in Nat /\ clock <= clock'
<1> SUFFICES ASSUME TypeOK, [Next]_vars PROVE clock' \in Nat /\ clock <= clock'
  OBVIOUS
<1>1. clock' = clock \/ clock' = clock + 1
  BY SubscribeFrame, PublishFrame, DispatchFrame
  DEF Next, vars, envVars, Tick, SubscribeStep
<1> QED BY <1>1 DEF TypeOK

\* What Publish adds to the end of the queue's history.
LEMMA PushEnqueues ==
  ASSUME FlowInv, NEW p \in Publisher, Push(p)
  PROVE  \E m \in Msg :
           /\ m \notin Members(enqueued)
           /\ PQ' = PQ \cup {m} /\ val' = [val EXCEPT ![m] = getVal(m)]
           /\ enqueued' = Append(enqueued, m)
           /\ Members(enqueued)' = Members(enqueued) \cup {m}
           /\ UNCHANGED <<dispatched, td, setup, clock>>
<1> DEFINE m == Stream[p][sent[p]]
<1>1. /\ ppc[p] = "push"
      /\ PQ' = PQ \cup {m} /\ val' = [val EXCEPT ![m] = getVal(m)]
      /\ enqueued' = Append(enqueued, m)
      /\ UNCHANGED <<dispatched, td, setup, clock>>
  BY DEF Push, dispVars, envVars
<1>2. /\ m \in Msg /\ m \notin Members(enqueued) /\ enqueued \in Seq(Msg)
  BY <1>1, InHand, PushIsNew DEF FlowInv, MonitorInv, TypeOK, QueueType, EnqueuedInv
<1> HIDE DEF m
<1>3. Members(enqueued)' = Members(enqueued) \cup {m}
  <2>1. Members(enqueued)' = Members(Append(enqueued, m))
    BY <1>1 DEF Members
  <2> QED BY <2>1, <1>2, AppendMembers
<1> QED BY <1>1, <1>2, <1>3

\* What the dispatcher takes is the first in the order of the keys.
LEMMA PopTakes ==
  ASSUME FlowInv, DispatchPop
  PROVE  \E m \in PQ :
           /\ m \in Msg /\ \A n \in PQ : val[m] <= val[n]
           /\ PQ' = PQ \ {m} /\ td' = m
           /\ dispatched' = Append(dispatched, m)
           /\ Members(dispatched)' = Members(dispatched) \cup {m}
           /\ td = NoMsg
           /\ UNCHANGED <<val, enqueued, setup, clock>>
<1>1. PICK m \in Top(PQ) : /\ PQ' = PQ \ {m} /\ td' = m
                           /\ dispatched' = Append(dispatched, m)
  BY DEF DispatchPop, Popped
<1>2. m \in PQ /\ m \in Msg /\ \A n \in PQ : val[m] <= val[n]
  BY TopIsFirst DEF FlowInv, MonitorInv, DispatchPop, FlagTellsQueue
<1>3. Members(dispatched)' = Members(dispatched) \cup {m}
  <2>1. Members(dispatched)' = Members(Append(dispatched, m)) /\ dispatched \in Seq(Msg)
    BY <1>1 DEF Members, FlowInv, MonitorInv, TypeOK, DispatcherType
  <2> QED BY <2>1, <1>2, AppendMembers
<1>4. td = NoMsg /\ UNCHANGED <<val, enqueued, setup, clock>>
  BY DEF DispatchPop, envVars, FlowInv, MonitorInv, TypeOK, DispatcherType
<1> QED BY <1>1, <1>2, <1>3, <1>4

\* The keys of what is queued keep their order.
LEMMA EnqueuedStep == FlowInv /\ [Next]_vars => EnqueuedInv'
<1> SUFFICES ASSUME FlowInv, [Next]_vars PROVE EnqueuedInv'
  OBVIOUS
<1>0. /\ EnqueuedInv /\ TypeOK /\ MonitorInv
      /\ enqueued \in Seq(Msg) /\ val \in [Msg -> Int] /\ clock \in Nat
      /\ setup' = setup /\ clock' \in Nat /\ clock <= clock'
  BY SetupStays, ClockStep DEF FlowInv, MonitorInv, TypeOK, QueueType
<1>1. ASSUME NEW p \in Publisher, Push(p) PROVE EnqueuedInv'
  <2>1. PICK m \in Msg :
           /\ m \notin Members(enqueued)
           /\ PQ' = PQ \cup {m} /\ val' = [val EXCEPT ![m] = getVal(m)]
           /\ enqueued' = Append(enqueued, m)
           /\ Members(enqueued)' = Members(enqueued) \cup {m}
           /\ UNCHANGED <<dispatched, td, setup, clock>>
    BY <1>1, PushEnqueues
  <2>2. /\ val'[m] = getVal(m) /\ getVal(m) \in Int
        /\ \A n \in Msg : n # m => val'[n] = val[n]
    BY <2>1, <1>0, KeyType
  <2>3. Members(dispatched)' = Members(dispatched)
    BY <2>1 DEF Members
  <2>4. strategy' # "FIFO" => \A n \in PQ' : val'[n] = StaticKey(strategy', n)
    <3>1. strategy \in {"EDF", "RM", "FIFO"} /\ strategy' = strategy
      BY <1>0, BrokerAssumption DEF TypeOK, strategy
    <3>2. strategy # "FIFO" => getVal(m) = StaticKey(strategy, m)
      BY <3>1, BrokerAssumption DEF getVal, AbsoluteDeadline, StaticKey
    <3>3. PQ \subseteq Members(enqueued) /\ PQ \subseteq Msg
      BY <1>0 DEF EnqueuedInv, TypeOK, QueueType
    <3> QED BY <3>1, <3>2, <3>3, <2>1, <2>2, <1>0 DEF EnqueuedInv
  <2>5. ASSUME strategy' = "FIFO"
        PROVE  /\ \A j \in DOMAIN enqueued' : val'[enqueued'[j]] <= clock'
               /\ \A j, k \in DOMAIN enqueued' :
                    j < k => val'[enqueued'[j]] <= val'[enqueued'[k]]
    <3>1. getVal(m) = clock /\ strategy = "FIFO"
      BY <1>0, <2>5 DEF getVal, EnqueueTime, strategy
    <3>2. /\ DOMAIN enqueued' = 1 .. Len(enqueued) + 1 /\ Len(enqueued) \in Nat
          /\ DOMAIN enqueued = 1 .. Len(enqueued)
          /\ \A j \in 1 .. Len(enqueued) : enqueued'[j] = enqueued[j]
          /\ enqueued'[Len(enqueued) + 1] = m
      BY <2>1, <1>0
    <3>3. \A j \in 1 .. Len(enqueued) : enqueued[j] \in Msg /\ enqueued[j] # m
      BY <2>1, <3>2, <1>0 DEF Members
    <3>4. \A j \in 1 .. Len(enqueued) : val'[enqueued'[j]] = val[enqueued[j]]
      BY <3>2, <3>3, <2>2
    <3>5. \A j \in 1 .. Len(enqueued) : val[enqueued[j]] <= clock
      BY <3>1, <3>2, <1>0 DEF EnqueuedInv
    <3>6. val'[enqueued'[Len(enqueued) + 1]] = clock
      BY <3>1, <3>2, <2>2
    <3>7. ASSUME NEW j \in DOMAIN enqueued', NEW k \in DOMAIN enqueued', j < k
          PROVE  val'[enqueued'[j]] <= val'[enqueued'[k]]
      <4>1. CASE k = Len(enqueued) + 1
        BY <4>1, <3>2, <3>4, <3>5, <3>6, <3>7
      <4>2. CASE k # Len(enqueued) + 1
        <5>1. j \in 1 .. Len(enqueued) /\ k \in 1 .. Len(enqueued)
          BY <4>2, <3>2, <3>7
        <5>2. val[enqueued[j]] <= val[enqueued[k]]
          BY <5>1, <3>1, <3>2, <3>7, <1>0 DEF EnqueuedInv
        <5> QED BY <5>1, <5>2, <3>4
      <4> QED BY <4>1, <4>2
    <3>8. \A j \in DOMAIN enqueued' : val'[enqueued'[j]] <= clock
      BY <3>2, <3>4, <3>5, <3>6, <1>0
    <3> QED BY <3>7, <3>8, <2>1
  <2>6. Members(enqueued)' = PQ' \cup Members(dispatched)'
    BY <2>1, <2>3, <1>0 DEF EnqueuedInv
  <2> QED BY <2>4, <2>5, <2>6 DEF EnqueuedInv
<1>2. CASE DispatchPop
  <2>1. PICK m \in PQ :
           /\ PQ' = PQ \ {m}
           /\ Members(dispatched)' = Members(dispatched) \cup {m}
           /\ UNCHANGED <<val, enqueued, setup, clock>>
    BY <1>2, PopTakes
  <2>2. Members(enqueued)' = Members(enqueued) /\ strategy' = strategy
    BY <2>1 DEF Members, strategy
  <2> QED BY <2>1, <2>2, <1>0 DEF EnqueuedInv
<1>3. ASSUME UNCHANGED <<PQ, val, enqueued, dispatched>> PROVE EnqueuedInv'
  <2>1. /\ Members(enqueued)' = Members(enqueued) /\ strategy' = strategy
        /\ Members(dispatched)' = Members(dispatched)
    BY <1>0, <1>3 DEF Members, strategy
  <2>2. ASSUME strategy = "FIFO", NEW j \in DOMAIN enqueued
        PROVE  val[enqueued[j]] <= clock'
    <3>1. val[enqueued[j]] \in Int /\ val[enqueued[j]] <= clock
      BY <1>0, <2>2 DEF EnqueuedInv
    <3> QED BY <3>1, <1>0
  <2> QED BY <2>1, <2>2, <1>0, <1>3 DEF EnqueuedInv
<1> QED BY <1>0, <1>1, <1>2, <1>3, FlowSteps

\* The dispatcher works on what it took last.
LEMMA LastStep == FlowInv /\ [Next]_vars => LastTaken'
<1> SUFFICES ASSUME FlowInv, [Next]_vars PROVE LastTaken'
  OBVIOUS
<1>0. LastTaken /\ MonitorInv /\ dispatched \in Seq(Msg) /\ NoMsg \notin Msg
  BY BrokerAssumption DEF FlowInv, MonitorInv, TypeOK, DispatcherType
<1>1. ASSUME NEW p \in Publisher, Push(p) PROVE LastTaken'
  BY <1>0, <1>1 DEF Push, dispVars, LastTaken
<1>2. CASE DispatchPop
  <2>1. PICK m \in Msg : td' = m /\ dispatched' = Append(dispatched, m)
    BY <1>2, PopTakes
  <2> QED BY <2>1, <1>0 DEF LastTaken
<1>3. ASSUME UNCHANGED dispatched, td' = td \/ td' = NoMsg PROVE LastTaken'
  BY <1>0, <1>3 DEF LastTaken
<1> QED BY <1>0, <1>1, <1>2, <1>3, FlowSteps

LEMMA FlowInductive ==
  /\ Init => FlowInv
  /\ FlowInv /\ [Next]_vars => FlowInv'
<1>1. Init => FlowInv
  <2> SUFFICES ASSUME Init PROVE FlowInv
    OBVIOUS
  <2>1. MonitorInv
    BY MonitorInductive
  <2>2. PQ = {} /\ enqueued = <<>> /\ dispatched = <<>> /\ td = NoMsg
    BY DEF Init
  <2>3. MessagesConserved
    BY DEF Init, MessagesConserved, Members, HandedOver
  <2>4. EnqueuedInv /\ LastTaken
    BY <2>2, BrokerAssumption DEF EnqueuedInv, LastTaken, Members
  <2> QED BY <2>1, <2>3, <2>4 DEF FlowInv
<1>2. FlowInv /\ [Next]_vars => FlowInv'
  BY MonitorInductive, ConservedStep, EnqueuedStep, LastStep DEF FlowInv
<1> QED BY <1>1, <1>2

LEMMA FlowInvariance == Spec => []FlowInv
BY FlowInductive, PTL DEF Spec

\* Every action keeps the order of a FIFO.
LEMMA FifoStep == FlowInv /\ FifoOrder /\ [Next]_vars => FifoOrder'
<1> SUFFICES ASSUME FlowInv, FifoOrder, [Next]_vars, strategy = "FIFO",
                    NEW j \in DOMAIN enqueued', NEW k \in DOMAIN enqueued', j < k,
                    val'[enqueued'[j]] # val'[enqueued'[k]],
                    enqueued'[k] \in Members(dispatched)'
             PROVE  \E a, b \in DOMAIN dispatched' :
                      /\ a < b
                      /\ dispatched'[a] = enqueued'[j] /\ dispatched'[b] = enqueued'[k]
  BY SetupStays DEF FifoOrder, strategy
<1> DEFINE Before(d, m, n) == \E a, b \in DOMAIN d : a < b /\ d[a] = m /\ d[b] = n
<1>0. /\ enqueued \in Seq(Msg) /\ dispatched \in Seq(Msg) /\ val \in [Msg -> Int]
      /\ EnqueuedInv /\ MonitorInv
  BY DEF FlowInv, MonitorInv, TypeOK, QueueType, DispatcherType
<1>1. ASSUME NEW p \in Publisher, Push(p) PROVE Before(dispatched', enqueued'[j], enqueued'[k])
  <2>1. PICK m \in Msg :
           /\ m \notin Members(enqueued)
           /\ val' = [val EXCEPT ![m] = getVal(m)]
           /\ enqueued' = Append(enqueued, m)
           /\ UNCHANGED dispatched
    BY <1>1, PushEnqueues
  <2>2. /\ DOMAIN enqueued' = 1 .. Len(enqueued) + 1 /\ Len(enqueued) \in Nat
        /\ DOMAIN enqueued = 1 .. Len(enqueued)
        /\ \A l \in 1 .. Len(enqueued) : enqueued'[l] = enqueued[l]
        /\ enqueued'[Len(enqueued) + 1] = m
    BY <2>1, <1>0
  <2>3. Members(dispatched)' = Members(dispatched) /\ m \notin Members(dispatched)
    <3>1. dispatched' = dispatched /\ Members(dispatched) \subseteq Members(enqueued)
      BY <2>1, <1>0 DEF EnqueuedInv
    <3>2. Members(dispatched)' = Members(dispatched)
      BY <3>1 DEF Members
    <3> QED BY <3>1, <3>2, <2>1
  <2>4. j \in 1 .. Len(enqueued) /\ k \in 1 .. Len(enqueued)
    BY <2>2, <2>3
  <2>5. \A l \in 1 .. Len(enqueued) : enqueued[l] \in Msg /\ enqueued[l] # m
    <3>1. \A l \in DOMAIN enqueued : enqueued[l] \in Members(enqueued)
      BY DEF Members
    <3>2. \A l \in DOMAIN enqueued : enqueued[l] \in Msg
      BY <1>0
    <3> QED BY <3>1, <3>2, <2>1, <2>2
  <2>6. \A l \in 1 .. Len(enqueued) : val'[enqueued'[l]] = val[enqueued[l]]
    BY <2>1, <2>2, <2>5, <1>0
  <2>7. Before(dispatched, enqueued[j], enqueued[k])
    BY <2>2, <2>3, <2>4, <2>6 DEF FifoOrder
  <2> QED BY <2>1, <2>2, <2>4, <2>7
<1>2. CASE DispatchPop
  <2>1. PICK m \in PQ :
           /\ m \in Msg /\ \A n \in PQ : val[m] <= val[n]
           /\ dispatched' = Append(dispatched, m)
           /\ Members(dispatched)' = Members(dispatched) \cup {m}
           /\ UNCHANGED <<val, enqueued>>
    BY <1>2, PopTakes
  <2>2. /\ DOMAIN dispatched' = 1 .. Len(dispatched) + 1 /\ Len(dispatched) \in Nat
        /\ DOMAIN dispatched = 1 .. Len(dispatched)
        /\ \A l \in 1 .. Len(dispatched) : dispatched'[l] = dispatched[l]
        /\ dispatched'[Len(dispatched) + 1] = m
    BY <2>1, <1>0
  <2>3. CASE enqueued[k] \in Members(dispatched)
    <3>1. PICK a, b \in DOMAIN dispatched :
            a < b /\ dispatched[a] = enqueued[j] /\ dispatched[b] = enqueued[k]
      BY <2>1, <2>3 DEF FifoOrder
    <3>2. a \in DOMAIN dispatched' /\ b \in DOMAIN dispatched'
      BY <3>1, <2>2
    <3> QED BY <3>1, <3>2, <2>1, <2>2
  <2>4. CASE enqueued[k] \notin Members(dispatched)
    <3>1. enqueued[k] = m
      BY <2>1, <2>4
    <3>2. enqueued[j] \in Msg /\ val[enqueued[j]] <= val[m] /\ val[enqueued[j]] # val[m]
      BY <3>1, <2>1, <1>0 DEF EnqueuedInv
    <3>3. enqueued[j] \notin PQ
      <4>1. val[enqueued[j]] \in Int /\ val[m] \in Int
        BY <3>2, <2>1, <1>0
      <4> QED BY <4>1, <3>2, <2>1
    <3>4. enqueued[j] \in Members(dispatched)
      <4>1. enqueued[j] \in Members(enqueued)
        BY <2>1 DEF Members
      <4> QED BY <4>1, <3>3, <1>0 DEF EnqueuedInv
    <3>5. PICK a \in DOMAIN dispatched : dispatched[a] = enqueued[j]
      BY <3>4 DEF Members
    <3>6. /\ a \in DOMAIN dispatched' /\ Len(dispatched) + 1 \in DOMAIN dispatched'
          /\ a < Len(dispatched) + 1
      BY <3>5, <2>2
    <3> QED BY <3>1, <3>5, <3>6, <2>1, <2>2
  <2> QED BY <2>3, <2>4
<1>3. ASSUME UNCHANGED <<val, enqueued, dispatched>>
      PROVE  Before(dispatched', enqueued'[j], enqueued'[k])
  <2>1. Members(dispatched)' = Members(dispatched)
    BY <1>3 DEF Members
  <2> QED BY <2>1, <1>3 DEF FifoOrder
<1> QED BY <1>0, <1>1, <1>2, <1>3, FlowSteps

\* With the FIFO strategy the dispatcher takes the messages in the order of
\* PQ.push, for any number of publishers, up to those of the same microsecond.
THEOREM FirstInFirstOut == Spec => []FifoOrder
<1>1. Init => FifoOrder
  BY DEF Init, FifoOrder
<1> QED BY <1>1, FifoStep, FlowInvariance, PTL DEF Spec

-----------------------------------------------------------------------------
(* The broker implements the abstract EDF service.                         *)

EdfStep == \A s \in {"EDF", "RM"} : strategy = s => Edf(s)!Next

\* What is left of a message that has been taken and is being written.
LEMMA DoneBut ==
  ASSUME NEW q \in Seq(Msg), NEW m \in Msg
  PROVE  /\ SubSeq(Append(q, m), 1, Len(Append(q, m)) - 1) = q
         /\ q # <<>> => Append(SubSeq(q, 1, Len(q) - 1), q[Len(q)]) = q
OBVIOUS

\* With a strategy whose keys stay, the broker starts as the abstract service.
LEMMA EdfInit ==
  ASSUME Init, NEW s \in {"EDF", "RM"}
  PROVE  Edf(s)!Init
<1>1. PQ = {} /\ dispatched = <<>> /\ td = NoMsg
  BY DEF Init
<1>2. Members(dispatched) = {}
  BY <1>1 DEF Members
<1> QED BY <1>1, <1>2 DEF Edf!Init

\* Accepting, starting and finishing a message are the steps of the service.
LEMMA EdfNext ==
  ASSUME FlowInv, [Next]_vars, NEW s \in {"EDF", "RM"}, strategy = s
  PROVE  Edf(s)!Next \/ UNCHANGED <<PQ, td, dispatched>>
<1> DEFINE key == [m \in Msg |-> StaticKey(s, m)]
           fresh == Msg \ (PQ \cup Members(dispatched))
           done == IF td = NoMsg THEN dispatched
                   ELSE SubSeq(dispatched, 1, Len(dispatched) - 1)
<1>0. /\ dispatched \in Seq(Msg) /\ NoMsg \notin Msg /\ td \in Msg \cup {NoMsg}
      /\ EnqueuedInv /\ LastTaken /\ MonitorInv /\ PQ \subseteq Msg
  BY BrokerAssumption DEF FlowInv, MonitorInv, TypeOK, QueueType, DispatcherType
<1>1. ASSUME NEW p \in Publisher, Push(p) PROVE Edf(s)!Next
  <2>1. PICK m \in Msg :
           /\ m \notin Members(enqueued) /\ PQ' = PQ \cup {m}
           /\ UNCHANGED <<dispatched, td>>
    BY <1>1, PushEnqueues
  <2>2. Members(dispatched)' = Members(dispatched)
    BY <2>1 DEF Members
  <2>3. m \in fresh /\ fresh' = fresh \ {m}
    BY <2>1, <2>2, <1>0 DEF EnqueuedInv
  <2>4. UNCHANGED <<td, done>>
    BY <2>1
  <2>5. Edf(s)!Accept(m)
    BY <2>1, <2>3, <2>4 DEF Edf!Accept
  <2> QED BY <2>5 DEF Edf!Next
<1>2. CASE DispatchPop
  <2>1. PICK m \in PQ :
           /\ m \in Msg /\ \A n \in PQ : val[m] <= val[n]
           /\ PQ' = PQ \ {m} /\ td' = m
           /\ dispatched' = Append(dispatched, m)
           /\ Members(dispatched)' = Members(dispatched) \cup {m}
           /\ td = NoMsg
    BY <1>2, PopTakes
  <2>2. \A n \in PQ : key[m] <= key[n]
    BY <2>1, <1>0 DEF EnqueuedInv
  <2>3. UNCHANGED <<fresh, done>>
    BY <2>1, <1>0, DoneBut
  <2>4. Edf(s)!Start(m)
    BY <2>1, <2>2, <2>3 DEF Edf!Start
  <2> QED BY <2>1, <2>4 DEF Edf!Next
<1>3. ASSUME UNCHANGED <<PQ, dispatched>>, td' = NoMsg, td # NoMsg PROVE Edf(s)!Next
  <2>1. td \in Msg /\ dispatched # <<>> /\ td = dispatched[Len(dispatched)]
    BY <1>0, <1>3 DEF LastTaken
  <2>2. done' = Append(done, td)
    BY <2>1, <1>0, <1>3, DoneBut
  <2>3. UNCHANGED fresh
    BY <1>3 DEF Members
  <2>4. Edf(s)!Finish
    BY <2>2, <2>3, <1>3 DEF Edf!Finish
  <2> QED BY <2>4 DEF Edf!Next
<1> QED BY <1>0, <1>1, <1>2, <1>3, FlowSteps

\* With EDF and RM, whose keys do not depend on when a message is queued, the
\* broker is the abstract EDF service: it always takes the message of the least
\* key among those queued, one at a time.
THEOREM Refinement == Spec => ImplementsEdf
<1>1. Init => \A s \in {"EDF", "RM"} : strategy = s => Edf(s)!Init
  BY EdfInit
<1>2. FlowInv /\ [Next]_vars => [EdfStep]_<<PQ, td, dispatched>>
  BY EdfNext DEF EdfStep
<1> HIDE DEF EdfStep
<1>3. Spec => /\ \A s \in {"EDF", "RM"} : strategy = s => Edf(s)!Init
              /\ [][EdfStep]_<<PQ, td, dispatched>>
  BY <1>1, <1>2, FlowInvariance, PTL DEF Spec
<1> QED BY <1>3 DEF ImplementsEdf, EdfStep

-----------------------------------------------------------------------------
(* The table of subscribers, as long as calls of Subscribe do not overlap.  *)

Used == {k \in Slot : k < subscriber_index}

\* A call of addSubscriber has the slot it tested for, to itself, until it
\* counts it.
OneAtATime ==
  /\ \A s, u \in Subscriber : spc[s] \in SubPC /\ spc[u] \in SubPC => s = u
  /\ \A s \in Subscriber :
       /\ spc[s] \in SubPC => subscriber_index \in Slot
       /\ spc[s] \in {"storeTopic", "increment"} => subscribers_[subscriber_index] = s
       /\ spc[s] = "increment" => topics_[subscriber_index] = Wants[s]

\* The slots counted hold the accepted calls, one each.
UsedSlots ==
  /\ \A k \in Used : /\ subscribers_[k] \in Subscriber
                     /\ spc[subscribers_[k]] \in {"sleep", "returned"}
                     /\ topics_[k] = Wants[subscribers_[k]]
  /\ \A j, k \in Used : subscribers_[j] = subscribers_[k] => j = k
  /\ \A s \in Subscriber : spc[s] \in {"sleep", "returned"} =>
       \E k \in Used : subscribers_[k] = s

TableInv ==
  overlapped \/
    (subscriber_index <= MAX_SUBSCRIBERS /\ ~ outOfBounds /\ OneAtATime /\ UsedSlots)

\* Calls that come one after another keep the table right.
LEMMA TableStep == TypeOK /\ TableInv /\ [Next]_vars => TableInv'
<1> SUFFICES ASSUME TypeOK, TableInv, [Next]_vars, ~ overlapped' PROVE TableInv'
  BY DEF TableInv
<1>0. /\ TableType /\ MAX_SUBSCRIBERS \in Nat \ {0}
      /\ Slot' = Slot /\ Slot = 0 .. MAX_SUBSCRIBERS - 1
  BY BrokerAssumption DEF TypeOK, Slot
<1>1. ASSUME NEW s \in Subscriber, SubscribeStep(s) PROVE TableInv'
  <2>0. ~ overlapped /\ subscriber_index \in Nat
    BY <1>0, <1>1 DEF TableType, SubscribeStep, BeginSubscribe, AddSubscriber,
                      StoreWriter, StoreTopic, IncrementIndex, SubscribeReturns
  <2>1. /\ subscriber_index <= MAX_SUBSCRIBERS /\ ~ outOfBounds
        /\ OneAtATime /\ UsedSlots
    BY <2>0 DEF TableInv
  <2> HIDE DEF TableInv
  <2>2. CASE BeginSubscribe(s)
    <3>1. /\ spc[s] = "idle" /\ InAddSubscriber = {}
          /\ spc' = [spc EXCEPT ![s] = IF HasRoom(subscriber_index)
                                       THEN "storeWriter" ELSE "refused"]
          /\ UNCHANGED <<subscribers_, topics_, subscriber_index, outOfBounds>>
      BY <2>2 DEF BeginSubscribe
    <3>2. \A u \in Subscriber : spc[u] \notin SubPC
      BY <3>1 DEF InAddSubscriber
    <3>3. spc'[s] \in SubPC => subscriber_index \in Slot
      BY <3>1, <1>0, <2>0 DEF HasRoom, SubPC, TableType
    <3>4. OneAtATime'
      BY <3>1, <3>2, <3>3, <1>0 DEF OneAtATime, SubPC, TableType
    <3>5. UsedSlots'
      BY <3>1, <2>1, <1>0 DEF UsedSlots, Used, TableType
    <3> QED BY <3>1, <3>4, <3>5, <2>1 DEF TableInv
  <2>3. CASE StoreWriter(s)
    <3>1. spc[s] = "storeWriter" /\ subscriber_index \in Slot
      BY <2>1, <2>3 DEF StoreWriter, OneAtATime, SubPC
    <3>2. /\ subscribers_' = [subscribers_ EXCEPT ![subscriber_index] = s]
          /\ spc' = [spc EXCEPT ![s] = "storeTopic"]
          /\ UNCHANGED <<topics_, subscriber_index, outOfBounds>>
      BY <2>3, <3>1 DEF StoreWriter
    <3>3. OneAtATime'
      BY <3>1, <3>2, <2>1, <1>0 DEF OneAtATime, SubPC, TableType
    <3>4. UsedSlots'
      <4>1. \A k \in Used : subscribers_'[k] = subscribers_[k]
        BY <3>2, <1>0, <2>0 DEF Used, TableType
      <4>2. \A u \in Subscriber : spc'[u] \in {"sleep", "returned"} <=>
                                  spc[u] \in {"sleep", "returned"}
        BY <3>1, <3>2, <1>0 DEF TableType
      <4>3. Used' = Used
        BY <3>2, <1>0 DEF Used
      <4> QED BY <4>1, <4>2, <4>3, <3>2, <2>1 DEF UsedSlots
    <3> QED BY <3>2, <3>3, <3>4, <2>1 DEF TableInv
  <2>4. CASE StoreTopic(s)
    <3>1. spc[s] = "storeTopic" /\ subscriber_index \in Slot
          /\ subscribers_[subscriber_index] = s
      BY <2>1, <2>4 DEF StoreTopic, OneAtATime, SubPC
    <3>2. /\ topics_' = [topics_ EXCEPT ![subscriber_index] = Wants[s]]
          /\ spc' = [spc EXCEPT ![s] = "increment"]
          /\ UNCHANGED <<subscribers_, subscriber_index, outOfBounds>>
      BY <2>4, <3>1 DEF StoreTopic
    <3>3. OneAtATime'
      BY <3>1, <3>2, <2>1, <1>0 DEF OneAtATime, SubPC, TableType
    <3>4. UsedSlots'
      <4>1. \A k \in Used : topics_'[k] = topics_[k]
        BY <3>2, <1>0, <2>0 DEF Used, TableType
      <4>2. \A u \in Subscriber : spc'[u] \in {"sleep", "returned"} <=>
                                  spc[u] \in {"sleep", "returned"}
        BY <3>1, <3>2, <1>0 DEF TableType
      <4>3. Used' = Used
        BY <3>2, <1>0 DEF Used
      <4> QED BY <4>1, <4>2, <4>3, <3>2, <2>1 DEF UsedSlots
    <3> QED BY <3>2, <3>3, <3>4, <2>1 DEF TableInv
  <2>5. CASE IncrementIndex(s)
    <3>1. spc[s] = "increment" /\ subscriber_index \in Slot
          /\ subscribers_[subscriber_index] = s /\ topics_[subscriber_index] = Wants[s]
      BY <2>1, <2>5 DEF IncrementIndex, OneAtATime, SubPC
    <3>2. /\ subscriber_index' = subscriber_index + 1
          /\ spc' = [spc EXCEPT ![s] = "sleep"]
          /\ UNCHANGED <<subscribers_, topics_, outOfBounds>>
      BY <2>5 DEF IncrementIndex
    <3>3. OneAtATime'
      BY <3>1, <3>2, <2>1, <1>0 DEF OneAtATime, SubPC, TableType
    <3>4. UsedSlots'
      <4>1. Used' = Used \cup {subscriber_index}
        BY <3>1, <3>2, <1>0, <2>0 DEF Used
      <4>2. /\ spc'[s] = "sleep"
            /\ \A u \in Subscriber : u # s => spc'[u] = spc[u]
        BY <3>2, <1>0 DEF TableType
      <4>3. \A k \in Used : subscribers_[k] # s
        BY <3>1, <2>1 DEF UsedSlots
      <4> QED BY <4>1, <4>2, <4>3, <3>1, <3>2, <2>1 DEF UsedSlots
    <3>5. subscriber_index' <= MAX_SUBSCRIBERS
      BY <3>1, <3>2, <1>0
    <3> QED BY <3>2, <3>3, <3>4, <3>5, <2>1 DEF TableInv
  <2>6. CASE SubscribeReturns(s)
    <3>1. /\ spc[s] = "sleep" /\ spc' = [spc EXCEPT ![s] = "returned"]
          /\ UNCHANGED <<subscribers_, topics_, subscriber_index, outOfBounds>>
      BY <2>6 DEF SubscribeReturns
    <3>2. OneAtATime'
      BY <3>1, <2>1, <1>0 DEF OneAtATime, SubPC, TableType
    <3>3. UsedSlots'
      <4>1. \A u \in Subscriber : spc'[u] \in {"sleep", "returned"} <=>
                                  spc[u] \in {"sleep", "returned"}
        BY <3>1, <1>0 DEF TableType
      <4> QED BY <4>1, <3>1, <2>1, <1>0 DEF UsedSlots, Used
    <3> QED BY <3>1, <3>2, <3>3, <2>1 DEF TableInv
  <2> QED BY <1>1, <2>2, <2>3, <2>4, <2>5, <2>6 DEF SubscribeStep, AddSubscriber
<1>2. ASSUME UNCHANGED subVars PROVE TableInv'
  BY <1>0, <1>2 DEF subVars, TableInv, OneAtATime, UsedSlots, Used
<1> QED
  BY <1>1, <1>2, PublishFrame, DispatchFrame DEF Next, SubscribeStep, Tick, vars

-----------------------------------------------------------------------------
(* Who is written to.                                                      *)

\* The message occurs once in what a subscriber was written.
Once(w, m) == \E n \in DOMAIN w : w[n] = m /\ \A l \in DOMAIN w : w[l] = m => l = n

LEMMA OnceAppend ==
  ASSUME NEW S, NEW w \in Seq(S), NEW x \in S, NEW m
  PROVE  /\ m # x /\ Once(w, m) => Once(Append(w, x), m)
         /\ x \notin Members(w) => Once(Append(w, x), x)
<1>1. /\ DOMAIN Append(w, x) = 1 .. Len(w) + 1
      /\ DOMAIN w = 1 .. Len(w)
      /\ \A k \in 1 .. Len(w) : Append(w, x)[k] = w[k]
      /\ Append(w, x)[Len(w) + 1] = x
      /\ Len(w) \in Nat
  OBVIOUS
<1>2. ASSUME m # x, Once(w, m) PROVE Once(Append(w, x), m)
  BY <1>1, <1>2 DEF Once
<1>3. ASSUME x \notin Members(w) PROVE Once(Append(w, x), x)
  <2>1. \A k \in 1 .. Len(w) : w[k] # x
    BY <1>1, <1>3 DEF Members
  <2> QED BY <1>1, <2>1 DEF Once
<1> QED BY <1>2, <1>3

\* What has been dispatched was written to the slots registered at the time; of
\* the message at hand, this is so as far as the loop has come; and nothing was
\* written to anybody that was not dispatched, or is of another topic.
ReachInv ==
  /\ dpc # "write" => i = 0
  /\ \A m \in Members(dispatched) : registeredAt[m] <= subscriber_index
  /\ \A s \in Subscriber : \A n \in DOMAIN written[s] :
       /\ written[s][n] \in Members(dispatched)
       /\ TopicOf[written[s][n]] = Wants[s]
  /\ \A m \in Members(dispatched) \ {td} : \A k \in Slot :
       k < registeredAt[m] /\ topics_[k] = TopicOf[m] => Once(written[subscribers_[k]], m)
  /\ td \in Msg =>
       /\ i <= subscriber_index
       /\ \A k \in Slot : k < i /\ topics_[k] = TopicOf[td] =>
            Once(written[subscribers_[k]], td)
       /\ \A s \in Subscriber : td \in Members(written[s]) =>
            \E k \in Slot : k < i /\ subscribers_[k] = s

ServedInv == TableInv /\ (overlapped \/ ReachInv)

\* The loop of writeToSubscribers goes on.
LEMMA ReachWrite ==
  ASSUME FlowInv, TableInv, ~ overlapped, ReachInv, WriteNext
  PROVE  ReachInv'
<1>0. /\ TableType /\ DispatcherType /\ UsedSlots /\ subscriber_index <= MAX_SUBSCRIBERS
      /\ MAX_SUBSCRIBERS \in Nat \ {0} /\ Slot = 0 .. MAX_SUBSCRIBERS - 1 /\ LastTaken
      /\ subscriber_index \in Nat /\ written \in [Subscriber -> Seq(Msg)]
      /\ dispatched \in Seq(Msg)
  BY BrokerAssumption DEF FlowInv, MonitorInv, TypeOK, TableInv, Slot, TableType, DispatcherType
<1>1. /\ dpc = "write" /\ i \in Nat /\ i < subscriber_index /\ i' = i + 1
      /\ td \in Msg /\ i \in Slot /\ i \in Used
      /\ UNCHANGED <<dpc, td, dispatched, registeredAt, subscribers_, topics_, subscriber_index>>
  BY <1>0 DEF WriteNext, Used, DispatcherType, subVars
<1>2. subscribers_[i] \in Subscriber /\ topics_[i] = Wants[subscribers_[i]]
  BY <1>0, <1>1 DEF UsedSlots
<1>3. td \in Members(dispatched)
  BY <1>0, <1>1 DEF LastTaken, Members
<1>4. Members(dispatched)' = Members(dispatched) /\ Slot' = Slot
  BY <1>1 DEF Members, Slot
<1>5. \A k \in Slot : k < i + 1 => k < i \/ k = i
  BY <1>0, <1>1
<1>6. CASE SameTopic(i, td) /\ subscribers_[i] # NoSubscriber
  <2> DEFINE u == subscribers_[i]
  <2>1. written' = [written EXCEPT ![u] = Append(@, td)]
    BY <1>1, <1>6 DEF WriteNext
  <2>2. u \in Subscriber /\ written[u] \in Seq(Msg) /\ TopicOf[td] = Wants[u]
    BY <1>0, <1>2, <1>6 DEF SameTopic
  <2>3. /\ written'[u] = Append(written[u], td)
        /\ \A s \in Subscriber : s # u => written'[s] = written[s]
    BY <1>0, <2>1, <2>2
  <2>4. td \notin Members(written[u])
    <3> SUFFICES ASSUME td \in Members(written[u]) PROVE FALSE
      OBVIOUS
    <3>1. PICK k \in Slot : k < i /\ subscribers_[k] = u
      BY <1>1, <2>2 DEF ReachInv
    <3>2. k \in Used /\ k # i
      BY <1>0, <1>1, <3>1 DEF Used
    <3> QED BY <1>0, <1>1, <3>1, <3>2 DEF UsedSlots
  <2>5. \A m \in Msg : m # td => \A s : Once(written[s], m) => Once(written'[s], m)
    <3> SUFFICES ASSUME NEW m \in Msg, m # td, NEW s, Once(written[s], m)
                 PROVE  Once(written'[s], m)
      OBVIOUS
    <3>1. CASE s = u
      BY <3>1, <2>2, <2>3, <1>1, OnceAppend
    <3>2. CASE s # u
      <4>1. written'[s] = written[s]
        BY <1>0, <2>1, <3>2
      <4> QED BY <4>1
    <3> QED BY <3>1, <3>2
  <2>6. Once(written'[u], td)
    BY <2>2, <2>3, <2>4, <1>1, OnceAppend
  <2>7. ASSUME NEW s \in Subscriber, NEW n \in DOMAIN written'[s]
        PROVE  /\ written'[s][n] \in Members(dispatched)
               /\ TopicOf[written'[s][n]] = Wants[s]
    <3>1. CASE s = u
      <4>1. \/ n \in DOMAIN written[u] /\ written'[u][n] = written[u][n]
            \/ written'[u][n] = td
        BY <2>2, <2>3, <2>7, <3>1
      <4> QED BY <4>1, <2>2, <3>1, <1>3 DEF ReachInv
    <3>2. CASE s # u
      BY <2>3, <2>7, <3>2 DEF ReachInv
    <3> QED BY <3>1, <3>2
  <2>8. ASSUME NEW k \in Slot, k < i', topics_[k] = TopicOf[td]
        PROVE  Once(written'[subscribers_[k]], td)
    <3>1. CASE k = i
      BY <3>1, <2>6
    <3>2. CASE k < i
      <4>1. k \in Used /\ subscribers_[k] \in Subscriber /\ subscribers_[k] # u
        BY <3>2, <1>0, <1>1 DEF Used, UsedSlots
      <4> QED BY <4>1, <3>2, <2>3, <2>8, <1>1 DEF ReachInv
    <3> QED BY <3>1, <3>2, <2>8, <1>1, <1>5
  <2>9. ASSUME NEW s \in Subscriber, td \in Members(written'[s])
        PROVE  \E k \in Slot : k < i' /\ subscribers_[k] = s
    <3>1. CASE s = u
      BY <3>1, <1>1
    <3>2. CASE s # u
      <4>1. PICK k \in Slot : k < i /\ subscribers_[k] = s
        BY <3>2, <2>3, <2>9, <1>1 DEF ReachInv
      <4>2. k < i'
        BY <4>1, <1>0, <1>1
      <4> QED BY <4>1, <4>2
    <3> QED BY <3>1, <3>2
  <2>10. \A s \in Subscriber : Members(written[s])' = Members(written'[s])
    BY DEF Members
  <2>11. Members(dispatched) \subseteq Msg
    BY <1>0 DEF Members
  <2>12. \A m \in Members(dispatched) \ {td} : \A k \in Slot :
           k < registeredAt[m] /\ topics_[k] = TopicOf[m] =>
             Once(written'[subscribers_[k]], m)
    BY <2>5, <2>11 DEF ReachInv
  <2>13. i' <= subscriber_index
    BY <1>0, <1>1
  <2> HIDE DEF u
  <2> QED
    BY <1>1, <1>4, <2>7, <2>8, <2>9, <2>10, <2>12, <2>13 DEF ReachInv
<1>7. CASE ~ (SameTopic(i, td) /\ subscribers_[i] # NoSubscriber)
  <2>1. written' = written
    BY <1>1, <1>7 DEF WriteNext
  <2>2. topics_[i] # TopicOf[td]
    BY <1>2, <1>7, BrokerAssumption DEF SameTopic
  <2>3. \A k \in Slot : k < i' /\ topics_[k] = TopicOf[td] =>
          Once(written[subscribers_[k]], td)
    BY <1>1, <1>5, <2>2 DEF ReachInv
  <2>4. \A s \in Subscriber : td \in Members(written[s]) =>
            \E k \in Slot : k < i' /\ subscribers_[k] = s
    <3> SUFFICES ASSUME NEW s \in Subscriber, td \in Members(written[s])
                 PROVE  \E k \in Slot : k < i' /\ subscribers_[k] = s
      OBVIOUS
    <3>1. PICK k \in Slot : k < i /\ subscribers_[k] = s
      BY <1>1 DEF ReachInv
    <3>2. k < i'
      BY <3>1, <1>0, <1>1
    <3> QED BY <3>1, <3>2
  <2>5. i' <= subscriber_index
    BY <1>0, <1>1
  <2>6. \A s \in Subscriber : Members(written[s])' = Members(written[s])
    BY <2>1 DEF Members
  <2> QED BY <1>1, <1>4, <2>1, <2>3, <2>4, <2>5, <2>6 DEF ReachInv
<1> QED BY <1>6, <1>7

\* A message is taken from the queue: nobody has been written it.
LEMMA ReachPop ==
  ASSUME FlowInv, TableInv, ~ overlapped, ReachInv, DispatchPop
  PROVE  ReachInv'
<1>1. PICK m \in Top(PQ) :
        /\ td' = m /\ dispatched' = Append(dispatched, m)
        /\ registeredAt' = [n \in Msg |-> IF n = m THEN subscriber_index
                                          ELSE registeredAt[n]]
  BY DEF DispatchPop
<1>2. m \in PQ /\ m \in Msg /\ m \notin Members(dispatched)
  <2>1. m \in PQ /\ m \in Msg
    BY TopIsFirst DEF FlowInv, MonitorInv, DispatchPop, FlagTellsQueue
  <2> QED BY <2>1 DEF FlowInv, MessagesConserved
<1>3. /\ dpc = "test" /\ dpc' = "write" /\ td = NoMsg /\ i = 0
      /\ UNCHANGED <<i, written, subscribers_, topics_, subscriber_index>>
  BY DEF DispatchPop, FlowInv, MonitorInv, TypeOK, DispatcherType, ReachInv, subVars
<1>4. Members(dispatched)' = Members(dispatched) \cup {m}
  <2>1. Members(dispatched)' = Members(Append(dispatched, m)) /\ dispatched \in Seq(Msg)
    BY <1>1 DEF Members, FlowInv, MonitorInv, TypeOK, DispatcherType
  <2> QED BY <2>1, <1>2, AppendMembers
<1>5. /\ Members(dispatched) \subseteq Msg /\ subscriber_index \in Nat
      /\ Slot' = Slot /\ \A k \in Slot : ~ (k < 0)
      /\ NoMsg \notin Members(dispatched)
  BY BrokerAssumption DEF Members, FlowInv, MonitorInv, TypeOK, DispatcherType, TableType, Slot
<1>6. \A n \in Members(dispatched) : registeredAt'[n] = registeredAt[n] /\ n # m
  BY <1>1, <1>2, <1>5
<1>7. registeredAt'[m] = subscriber_index
  BY <1>1, <1>2
<1>8. \A s \in Subscriber : m \notin Members(written[s])
  BY <1>2 DEF ReachInv, Members
<1>9. \A n \in Members(dispatched)' : registeredAt'[n] <= subscriber_index
  BY <1>4, <1>5, <1>6, <1>7 DEF ReachInv
<1>10. \A n \in Members(dispatched)' \ {m} : \A k \in Slot :
         k < registeredAt'[n] /\ topics_[k] = TopicOf[n] => Once(written[subscribers_[k]], n)
  BY <1>3, <1>4, <1>5, <1>6 DEF ReachInv
<1>11. \A s \in Subscriber : \A n \in DOMAIN written[s] :
         /\ written[s][n] \in Members(dispatched)'
         /\ TopicOf[written[s][n]] = Wants[s]
  BY <1>4 DEF ReachInv
<1>12. \A s \in Subscriber : Members(written[s])' = Members(written[s])
  BY <1>3 DEF Members
<1>13. i' <= subscriber_index /\ \A k \in Slot : ~ (k < i')
  BY <1>3, <1>5
<1> QED
  BY <1>1, <1>3, <1>5, <1>8, <1>9, <1>10, <1>11, <1>12, <1>13 DEF ReachInv

\* The loop is over: the message has been written to every slot.
LEMMA ReachEnd ==
  ASSUME FlowInv, ReachInv, WriteEnd
  PROVE  ReachInv'
<1>1. /\ dpc = "write" /\ td \in Msg /\ td' = NoMsg /\ i' = 0 /\ dpc' = "lock"
      /\ i >= subscriber_index /\ i \in Nat /\ subscriber_index \in Nat
      /\ UNCHANGED <<dispatched, registeredAt, written, subscribers_, topics_,
                     subscriber_index>>
  BY DEF WriteEnd, FlowInv, MonitorInv, TypeOK, DispatcherType, TableType, subVars
<1>2. Members(dispatched)' = Members(dispatched) /\ Slot' = Slot
  BY <1>1 DEF Members, Slot
<1>3. NoMsg \notin Msg /\ td' \notin Msg
  BY <1>1, BrokerAssumption
<1>4. \A m \in Members(dispatched) : registeredAt[m] \in Nat
  BY DEF Members, FlowInv, MonitorInv, TypeOK, DispatcherType
<1>5. \A m \in Members(dispatched) : \A k \in Slot :
        k < registeredAt[m] /\ topics_[k] = TopicOf[m] => Once(written[subscribers_[k]], m)
  <2> SUFFICES ASSUME td \in Members(dispatched), NEW k \in Slot, k < registeredAt[td],
                      topics_[k] = TopicOf[td]
               PROVE  Once(written[subscribers_[k]], td)
    BY DEF ReachInv
  <2>1. k < i
    BY <1>1, <1>4 DEF ReachInv, Slot
  <2> QED BY <2>1, <1>1 DEF ReachInv
<1> QED BY <1>1, <1>2, <1>3, <1>5 DEF ReachInv

\* A call of Subscribe changes no slot that is counted.
LEMMA ReachSubscribe ==
  ASSUME FlowInv, TableInv, ~ overlapped, ReachInv, NEW s \in Subscriber, SubscribeStep(s)
  PROVE  ReachInv'
<1>1. UNCHANGED <<dpc, td, i, dispatched, registeredAt, written>>
  BY SubscribeFrame DEF dispVars
<1>2. /\ TableType /\ i \in Nat /\ \A m \in Members(dispatched) : registeredAt[m] \in Nat
      /\ Slot = 0 .. MAX_SUBSCRIBERS - 1 /\ MAX_SUBSCRIBERS \in Nat
  BY BrokerAssumption DEF FlowInv, MonitorInv, TypeOK, DispatcherType, Members, Slot
<1>3. \A k \in Slot : k < subscriber_index =>
        topics_'[k] = topics_[k] /\ subscribers_'[k] = subscribers_[k]
  BY <1>2 DEF TableType, SubscribeStep, BeginSubscribe, AddSubscriber, StoreWriter,
              StoreTopic, IncrementIndex, SubscribeReturns
<1>4. subscriber_index' \in Nat /\ subscriber_index \in Nat
      /\ subscriber_index <= subscriber_index'
  <2>1. subscriber_index' = subscriber_index \/ subscriber_index' = subscriber_index + 1
    BY DEF SubscribeStep, BeginSubscribe, AddSubscriber, StoreWriter,
           StoreTopic, IncrementIndex, SubscribeReturns
  <2> QED BY <2>1, <1>2 DEF TableType
<1>5. Members(dispatched)' = Members(dispatched) /\ Slot' = Slot
      /\ \A u \in Subscriber : Members(written[u])' = Members(written[u])
  BY <1>1 DEF Members, Slot
<1>6. \A m \in Members(dispatched) : registeredAt[m] <= subscriber_index'
  BY <1>2, <1>4 DEF ReachInv
<1>7. ASSUME NEW m \in Members(dispatched) \ {td}, NEW k \in Slot, k < registeredAt[m],
             topics_'[k] = TopicOf[m]
      PROVE  Once(written[subscribers_'[k]], m)
  <2>1. k < subscriber_index
    BY <1>2, <1>4, <1>7 DEF ReachInv
  <2> QED BY <2>1, <1>3, <1>7 DEF ReachInv
<1>8. ASSUME td \in Msg
      PROVE  /\ i <= subscriber_index'
             /\ \A k \in Slot : k < i /\ topics_'[k] = TopicOf[td] =>
                  Once(written[subscribers_'[k]], td)
             /\ \A u \in Subscriber : td \in Members(written[u]) =>
                  \E k \in Slot : k < i /\ subscribers_'[k] = u
  <2>1. i <= subscriber_index /\ i <= subscriber_index'
    BY <1>2, <1>4, <1>8 DEF ReachInv
  <2>2. \A k \in Slot : k < i => k < subscriber_index
    BY <2>1, <1>2, <1>4
  <2>3. \A k \in Slot : k < i =>
          topics_'[k] = topics_[k] /\ subscribers_'[k] = subscribers_[k]
    BY <2>2, <1>3
  <2> QED BY <2>1, <2>3, <1>8 DEF ReachInv
<1> QED BY <1>1, <1>5, <1>6, <1>7, <1>8 DEF ReachInv

\* Every action keeps who was written what.
LEMMA ServedStep == FlowInv /\ ServedInv /\ [Next]_vars => ServedInv'
<1> SUFFICES ASSUME FlowInv, ServedInv, [Next]_vars PROVE ServedInv'
  OBVIOUS
<1>0. TypeOK /\ TableInv
  BY DEF FlowInv, MonitorInv, ServedInv
<1>1. TableInv'
  BY <1>0, TableStep
<1> SUFFICES ASSUME ~ overlapped' PROVE ReachInv'
  BY <1>1 DEF ServedInv
<1>2. ~ overlapped
  BY PublishFrame, DispatchFrame, <1>0
  DEF Next, BeginSubscribe, AddSubscriber, StoreWriter, StoreTopic, IncrementIndex,
      SubscribeReturns, Tick, vars, subVars, TypeOK, TableType
<1>3. ReachInv
  BY <1>2 DEF ServedInv
<1>4. ASSUME UNCHANGED <<td, i, dispatched, registeredAt, written, subVars>>,
             dpc' = "write" <=> dpc = "write"
      PROVE  ReachInv'
  <2>1. /\ UNCHANGED <<td, i, dispatched, registeredAt, written>>
        /\ UNCHANGED <<subscribers_, topics_, subscriber_index>>
    BY <1>4 DEF subVars
  <2>2. Members(dispatched)' = Members(dispatched) /\ Slot' = Slot
        /\ \A u \in Subscriber : Members(written[u])' = Members(written[u])
    BY <2>1 DEF Members, Slot
  <2> QED BY <1>3, <1>4, <2>1, <2>2 DEF ReachInv
<1>5. ASSUME NEW p \in Publisher, Publish(p) PROVE ReachInv'
  <2>1. dpc' = dpc \/ (dpc = "wait" /\ dpc' = "lock")
    BY <1>5 DEF Publish, Read, LockPQ, Push, Broadcast, Woken, dispVars
  <2> QED BY <2>1, <1>4, <1>5, PublishFrame
<1>6. CASE DispatchLock \/ DispatchEmpty \/ DispatchWait \/ SpuriousWakeup
  BY <1>4, <1>6 DEF DispatchLock, DispatchEmpty, DispatchWait, SpuriousWakeup
<1>7. CASE Tick \/ UNCHANGED vars
  BY <1>4, <1>7 DEF Tick, vars, dispVars
<1> QED
  BY <1>0, <1>2, <1>3, <1>5, <1>6, <1>7, ReachWrite, ReachPop, ReachEnd, ReachSubscribe
  DEF Next, Dispatch, SubscribeStep

LEMMA OnceCardinality ==
  ASSUME NEW w, NEW m, Once(w, m)
  PROVE  Cardinality({n \in DOMAIN w : w[n] = m}) = 1
<1>1. PICK n \in DOMAIN w : w[n] = m /\ \A l \in DOMAIN w : w[l] = m => l = n
  BY DEF Once
<1>2. {l \in DOMAIN w : w[l] = m} = {n}
  BY <1>1
<1> QED BY <1>2, FS_Singleton

\* The inductive invariant says what SubscribersServed says.
LEMMA ServedHolds == FlowInv /\ ServedInv => SubscribersServed
<1> SUFFICES ASSUME FlowInv, ServedInv, ~ overlapped
             PROVE  TableMatches /\ ~ outOfBounds /\ DispatchReaches
  BY DEF SubscribersServed
<1>1. UsedSlots /\ ~ outOfBounds /\ ReachInv
  BY DEF ServedInv, TableInv
<1>2. TableMatches
  <2>1. \A k \in Used : /\ subscribers_[k] # NoSubscriber
                        /\ topics_[k] = Wants[subscribers_[k]]
    BY <1>1, BrokerAssumption DEF UsedSlots
  <2>2. ASSUME NEW s \in Subscriber, spc[s] \in {"sleep", "returned"}
        PROVE  Cardinality({k \in Used : subscribers_[k] = s}) = 1
    <3>1. PICK k \in Used : subscribers_[k] = s
      BY <1>1, <2>2 DEF UsedSlots
    <3>2. {j \in Used : subscribers_[j] = s} = {k}
      BY <1>1, <3>1 DEF UsedSlots
    <3> QED BY <3>2, FS_Singleton
  <2> QED BY <2>1, <2>2 DEF TableMatches, Used
<1>3. DispatchReaches
  <2>1. \A m \in Members(dispatched) \ {td} : \A k \in Slot :
          k < registeredAt[m] /\ topics_[k] = TopicOf[m] =>
            Once(written[subscribers_[k]], m)
    BY <1>1 DEF ReachInv
  <2>2. \A s \in Subscriber : \A n \in DOMAIN written[s] :
          TopicOf[written[s][n]] = Wants[s]
    BY <1>1 DEF ReachInv
  <2> QED BY <2>1, <2>2, OnceCardinality DEF DispatchReaches
<1> QED BY <1>1, <1>2, <1>3

\* As long as calls of Subscribe do not overlap, for any number of them: no two
\* share a slot, nothing is written past the table, and every dispatched message
\* has gone once to each subscriber of its topic that was registered when it was
\* taken, and to nobody else.
THEOREM Served == Spec => []SubscribersServed
<1>1. Init => ServedInv
  <2> SUFFICES ASSUME Init PROVE ServedInv
    OBVIOUS
  <2>1. subscriber_index = 0 /\ \A s \in Subscriber : spc[s] = "idle"
    BY DEF Init
  <2>2. Used = {}
    BY <2>1 DEF Used, Slot
  <2>3. TableInv
    BY <2>1, <2>2, BrokerAssumption DEF Init, TableInv, OneAtATime, UsedSlots, SubPC
  <2>4. ReachInv
    BY BrokerAssumption DEF Init, ReachInv, Members
  <2> QED BY <2>3, <2>4 DEF ServedInv
<1> QED BY <1>1, ServedStep, ServedHolds, FlowInvariance, PTL DEF Spec

================================================================================
