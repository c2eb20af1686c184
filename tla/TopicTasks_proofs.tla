--------------------------- MODULE TopicTasks_proofs ---------------------------
(***************************************************************************)
(* Proofs about the event service of lab 2, for every number of topics,    *)
(* publishers and subscribers, once its constructor overwrites nothing the *)
(* tasks are using (CalmSpec).                                             *)
(***************************************************************************)
EXTENDS TopicTasks, TLAPS

-----------------------------------------------------------------------------
(* The constructor.                                                        *)

CalmNext == Next /\ raced' = raced

\* No task is being overwritten.
Calm == \A t \in Topic : ~ raced[t]

LEMMA OrderFacts ==
  /\ N \in Nat \ {0} /\ DOMAIN TaskOrder = 1 .. N
  /\ \A k \in 1 .. N : TaskOrder[k] \in Topic
  /\ \A t \in Topic : \E k \in 1 .. N : TaskOrder[k] = t
BY TopicTasksAssumption DEF N, Topic

\* The constructor's position, as a phase and a place in the order.
LEMMA PhaseFacts ==
  ASSUME ctor \in 0 .. 4 * N
  PROVE  /\ Phase = 0 <=> ctor < N
         /\ Phase \in 0 .. 3 <=> ctor < 4 * N
         /\ ctor % N \in 0 .. N - 1
         /\ ctor < N => ctor % N = ctor
<1>1. N \in Nat /\ N > 0 /\ ctor \in Nat /\ ctor <= 4 * N
  BY OrderFacts
<1> DEFINE n == N  c == ctor  d == c \div n  r == c % n
<1>2. n \in Nat /\ n > 0 /\ c \in Nat /\ c <= 4 * n
  BY <1>1
<1> SUFFICES /\ d = 0 <=> c < n
             /\ d \in 0 .. 3 <=> c < 4 * n
             /\ r \in 0 .. n - 1
             /\ c < n => r = c
  BY DEF Phase
<1> HIDE DEF n, c
<1>3. d \in Int /\ r \in Int /\ c = n * d + r /\ 0 <= r /\ r < n
  BY <1>2
<1> HIDE DEF d, r
<1>4. d = 0 \/ d = 1 \/ d = 2 \/ d = 3 \/ d = 4
  <2>1. d >= 0
    BY <1>2, <1>3
  <2>2. d < 5
    BY <1>2, <1>3
  <2> QED BY <2>1, <2>2, <1>3
<1> QED BY <1>2, <1>3, <1>4

\* What a step of the constructor does, if it overwrites nothing in use: it
\* creates the next task, or resets a flag, or leaves the tasks alone.
LEMMA CtorSteps ==
  ASSUME TypeOK, Calm, Construct, raced' = raced
  PROVE  /\ ctor' = ctor + 1 /\ ctor' \in 0 .. 4 * N /\ ~ Running
         /\ UNCHANGED <<td, stored, pubVars, subVars, outVars>>
         /\ \/ /\ ctor < N
               /\ tpc' = [tpc EXCEPT ![TaskOrder[ctor + 1]] = "lock"]
               /\ UNCHANGED <<hasData, mutex>>
            \/ /\ ctor >= N
               /\ \E t \in Topic : hasData' = [hasData EXCEPT ![t] = FALSE]
               /\ UNCHANGED <<tpc, mutex>>
            \/ ctor >= N /\ UNCHANGED <<hasData, tpc, mutex>>
<1>0. /\ ctor \in 0 .. 4 * N /\ N \in Nat \ {0}
      /\ raced \in [Topic -> BOOLEAN] /\ mutex \in [Topic -> Topic \cup Publisher \cup {NoThread}]
      /\ tpc \in [Topic -> {"none", "lock", "test", "block", "wait", "relock",
                            "stranded", "serve", "write", "reset"}]
  BY OrderFacts DEF TypeOK, TaskType
<1>1. /\ Current \in Topic
      /\ ctor < N => Current = TaskOrder[ctor + 1]
  BY <1>0, PhaseFacts, OrderFacts DEF Current
<1>2. Phase \in 0 .. 3 /\ ctor' = ctor + 1
  BY DEF Construct, CreateTask, InitFlag, InitMutex, InitCond
<1>3. ctor < 4 * N /\ ctor' \in 0 .. 4 * N /\ ~ Running
  BY <1>0, <1>2, PhaseFacts DEF Running
<1>4. CASE CreateTask
  <2>1. /\ Phase = 0 /\ tpc' = [tpc EXCEPT ![Current] = "lock"]
        /\ UNCHANGED <<hasData, mutex>>
    BY <1>4 DEF CreateTask
  <2>2. ctor < N
    BY <2>1, <1>0, PhaseFacts
  <2> QED BY <2>1, <2>2, <1>1, <1>2, <1>3 DEF Construct
<1>5. CASE InitFlag
  <2>1. /\ Phase = 1 /\ hasData' = [hasData EXCEPT ![Current] = FALSE]
        /\ UNCHANGED <<tpc, mutex>>
    BY <1>5 DEF InitFlag
  <2>2. ctor >= N
    BY <2>1, <1>0, PhaseFacts
  <2> QED BY <2>1, <2>2, <1>1, <1>2, <1>3 DEF Construct
<1>6. CASE InitMutex
  <2>1. /\ Phase = 2 /\ mutex' = [mutex EXCEPT ![Current] = NoThread]
        /\ raced' = [raced EXCEPT ![Current] = @ \/ mutex[Current] # NoThread]
        /\ UNCHANGED <<hasData, tpc>>
    BY <1>6 DEF InitMutex
  <2>2. ctor >= N
    BY <2>1, <1>0, PhaseFacts
  <2>3. mutex[Current] = NoThread
    BY <2>1, <1>0, <1>1 DEF Calm
  <2>4. mutex' = mutex
    BY <2>1, <2>3, <1>0, <1>1
  <2> QED BY <2>1, <2>2, <2>4, <1>2, <1>3 DEF Construct
<1>7. CASE InitCond
  <2>1. /\ Phase = 3
        /\ tpc' = [tpc EXCEPT ![Current] = IF @ = "wait" THEN "stranded" ELSE @]
        /\ raced' = [raced EXCEPT ![Current] = @ \/ tpc[Current] = "wait"]
        /\ UNCHANGED <<hasData, mutex>>
    BY <1>7 DEF InitCond
  <2>2. ctor >= N
    BY <2>1, <1>0, PhaseFacts
  <2>3. tpc[Current] # "wait"
    BY <2>1, <1>0, <1>1 DEF Calm
  <2>4. tpc' = tpc
    BY <2>1, <2>3, <1>0, <1>1
  <2> QED BY <2>1, <2>2, <2>4, <1>2, <1>3 DEF Construct
<1> QED BY <1>4, <1>5, <1>6, <1>7 DEF Construct

-----------------------------------------------------------------------------
(* The inductive invariant.                                                *)

Holding == {"test", "block", "serve", "write", "reset"}
Serving == {"serve", "write", "reset"}

\* The constructor creates each task once, before anything is published.
CtorInv ==
  /\ Calm
  /\ \A k \in 1 .. N : tpc[TaskOrder[k]] = "none" <=> ctor < k
  /\ \A t \in Topic : tpc[t] # "stranded"
  /\ ~ Running => (\A p \in Publisher : ppc[p] = "read") /\ \A t \in Topic : ~ hasData[t]

\* A handler that has a message goes on with a topic of the service.
HandInv ==
  \A p \in Publisher : ppc[p] # "read" =>
    sent[p] \in 1 .. Len(Stream[p]) /\ Data(p) \in Msg /\ TopicOf[Data(p)] \in Topic

\* The mutex of a topic has one holder: its task or a handler.
SlotExclusion ==
  \A t \in Topic :
    /\ mutex[t] = t <=> tpc[t] \in Holding
    /\ \A p \in Publisher :
         mutex[t] = p <=> ppc[p] \in {"store", "broadcast"} /\ TopicOf[Data(p)] = t

\* What the flag of a topic tells its task.
FlagInv ==
  \A t \in Topic : /\ hasData[t] => td[t] \in Msg
                   /\ tpc[t] \in Serving => hasData[t]
                   /\ tpc[t] = "block" => ~ hasData[t]

IndInv ==
  /\ TypeOK /\ CtorInv /\ HandInv /\ SlotExclusion /\ FlagInv
  /\ NoLostWakeup /\ WritesToSomebody

-----------------------------------------------------------------------------
(* What each kind of step leaves alone.                                    *)

LEMMA PublishFrame ==
  ASSUME NEW p \in Publisher, Publish(p)
  PROVE  UNCHANGED <<ctor, raced, subVars, outVars>> /\ (Running \/ ppc[p] # "read")
BY DEF Publish, Read, LockSlot, Store, Broadcast, taskVars

LEMMA TaskFrame ==
  ASSUME NEW t \in Topic, Task(t) \/ SpuriousWakeup(t)
  PROVE  UNCHANGED <<ctor, td, stored, raced, pubVars, subVars>>
BY DEF Task, TaskLock, TaskTest, TaskWait, TaskServe, TaskWrite, TaskReset,
       SpuriousWakeup, slotVars

LEMMA SubscribeFrame ==
  ASSUME NEW s \in Subscriber, Subscribe(s)
  PROVE  UNCHANGED <<ctor, slotVars, mutex, taskVars, pubVars, outVars>>
BY DEF Subscribe, StoreWriter, SubscribeReturns

-----------------------------------------------------------------------------
(* Types.                                                                  *)

LEMMA InitType == Init => TypeOK
<1> SUFFICES ASSUME Init PROVE TypeOK
  OBVIOUS
<1>1. ctor \in 0 .. 4 * N
  BY OrderFacts DEF Init
<1>2. TaskType
  BY DEF Init, TaskType
<1>3. PublisherType
  <2>1. \A p \in Publisher : Len(Stream[p]) \in Nat
    BY TopicTasksAssumption
  <2> QED BY <2>1 DEF Init, PublisherType
<1>4. SubscriberType
  BY OrderFacts DEF Init, SubscriberType, Returned
<1>5. handled \in [Topic -> Seq(Msg)] /\ got \in [Subscriber -> Seq(Msg)]
  BY DEF Init
<1> QED BY <1>1, <1>2, <1>3, <1>4, <1>5 DEF TypeOK

LEMMA TypeStep == IndInv /\ [CalmNext]_vars => TypeOK'
<1> SUFFICES ASSUME IndInv, [CalmNext]_vars PROVE TypeOK'
  OBVIOUS
<1>0. /\ ctor \in 0 .. 4 * N /\ TaskType /\ PublisherType /\ SubscriberType
      /\ handled \in [Topic -> Seq(Msg)] /\ got \in [Subscriber -> Seq(Msg)]
      /\ Topic' = Topic /\ N' = N /\ Returned' = Returned
      /\ N \in Nat \ {0} /\ \A p \in Publisher : Len(Stream[p]) \in Nat
  BY TopicTasksAssumption, OrderFacts DEF IndInv, TypeOK, Topic, N, Returned
<1>1. ASSUME Construct, raced' = raced PROVE TypeOK'
  <2>1. /\ ctor' \in 0 .. 4 * N /\ UNCHANGED <<td, stored, ppc, sent, writer, spc, handled, got>>
    BY <1>1, CtorSteps DEF IndInv, CtorInv, pubVars, subVars, outVars
  <2>2. /\ tpc' \in [Topic -> {"none", "lock", "test", "block", "wait", "relock",
                        "stranded", "serve", "write", "reset"}]
        /\ mutex' = mutex /\ hasData' \in [Topic -> BOOLEAN]
    BY <1>0, <1>1, CtorSteps DEF IndInv, CtorInv, TaskType
  <2>3. TaskType'
    BY <2>1, <2>2, <1>0, <1>1 DEF TaskType
  <2> QED BY <2>1, <2>3, <1>0 DEF TypeOK, PublisherType, SubscriberType
<1>2. ASSUME NEW p \in Publisher, Publish(p) PROVE TypeOK'
  <2>1. UNCHANGED <<ctor, raced, writer, spc, handled, got>>
    BY <1>2, PublishFrame DEF subVars, outVars
  <2>2. PublisherType'
    <3>1. CASE Read(p)
      <4>1. /\ sent[p] < Len(Stream[p]) /\ sent' = [sent EXCEPT ![p] = @ + 1]
            /\ \E w \in {"read", "lock"} : ppc' = [ppc EXCEPT ![p] = w]
            /\ ppc[p] = "read"
        BY <3>1, <1>0 DEF Read, PublisherType
      <4>2. \A q \in Publisher : sent'[q] <= Len(Stream[q])
        BY <4>1, <1>0 DEF PublisherType
      <4> QED BY <4>1, <4>2, <1>0 DEF PublisherType
    <3>2. CASE LockSlot(p) \/ Store(p) \/ Broadcast(p)
      <4>1. sent' = sent /\ \E w \in {"read", "store", "broadcast"} :
                              ppc' = [ppc EXCEPT ![p] = w]
        BY <3>2 DEF LockSlot, Store, Broadcast
      <4> QED BY <4>1, <1>0 DEF PublisherType
    <3> QED BY <1>2, <3>1, <3>2 DEF Publish
  <2>3. TaskType'
    <3>1. CASE Read(p)
      BY <3>1, <1>0 DEF Read, TaskType, slotVars, taskVars
    <3>2. ASSUME ppc[p] # "read"
          PROVE  Data(p) \in Msg /\ TopicOf[Data(p)] \in Topic
      BY <3>2 DEF IndInv, HandInv
    <3>3. CASE LockSlot(p)
      BY <3>3, <1>0 DEF LockSlot, AcquireSlot, TaskType, slotVars, taskVars
    <3>4. CASE Store(p)
      <4> DEFINE t == TopicOf[Data(p)]  m == Data(p)
      <4>1. m \in Msg /\ t \in Topic
        BY <3>2, <3>4 DEF Store
      <4>2. /\ td' = [td EXCEPT ![t] = m] /\ hasData' = [hasData EXCEPT ![t] = TRUE]
            /\ stored' = [stored EXCEPT ![t] = Append(@, m)]
            /\ UNCHANGED <<mutex, tpc, raced>>
        BY <3>4 DEF Store, taskVars
      <4> HIDE DEF t, m
      <4> QED BY <4>1, <4>2, <1>0 DEF TaskType
    <3>5. CASE Broadcast(p)
      BY <3>5, <1>0 DEF Broadcast, Woken, TaskType, slotVars
    <3> QED BY <1>2, <3>1, <3>3, <3>4, <3>5 DEF Publish
  <2> QED BY <2>1, <2>2, <2>3, <1>0 DEF TypeOK, SubscriberType
<1>3. ASSUME NEW t \in Topic, Task(t) \/ SpuriousWakeup(t) PROVE TypeOK'
  <2>1. UNCHANGED <<ctor, td, stored, raced, ppc, sent, writer, spc>>
    BY <1>3, TaskFrame DEF pubVars, subVars
  <2>2. /\ tpc' \in [Topic -> {"none", "lock", "test", "block", "wait", "relock",
                        "stranded", "serve", "write", "reset"}]
        /\ hasData' \in [Topic -> BOOLEAN]
    BY <1>0, <1>3
    DEF Task, TaskLock, TaskTest, TaskWait, TaskServe, TaskWrite, TaskReset, AfterWait,
        FlagAfterServe, SpuriousWakeup, slotVars, TaskType
  <2>3. mutex' \in [Topic -> Topic \cup Publisher \cup {NoThread}]
    BY <1>0, <1>3
    DEF Task, TaskLock, TaskTest, TaskWait, TaskServe, TaskWrite, TaskReset,
        SpuriousWakeup, TaskType
  <2>4. /\ handled' \in [Topic -> Seq(Msg)] /\ got' \in [Subscriber -> Seq(Msg)]
    <3>1. CASE TaskServe(t) \/ TaskWrite(t)
      <4>1. td[t] \in Msg
        BY <3>1 DEF TaskServe, TaskWrite, IndInv, FlagInv, Serving
      <4>2. handled' \in [Topic -> Seq(Msg)]
        <5>1. handled' = handled \/ handled' = [handled EXCEPT ![t] = Append(@, td[t])]
          BY <3>1 DEF TaskServe, TaskWrite
        <5>2. handled \in [Topic -> Seq(Msg)] /\ Append(handled[t], td[t]) \in Seq(Msg)
          BY <4>1, <1>0
        <5> QED BY <5>1, <5>2
      <4>3. CASE TaskServe(t)
        BY <4>2, <4>3, <1>0 DEF TaskServe
      <4>4. CASE TaskWrite(t)
        <5>1. writer[t] \in Subscriber
          BY <4>4, <1>0 DEF TaskWrite, IndInv, WritesToSomebody, SubscriberType
        <5> QED BY <4>1, <4>2, <4>4, <5>1, <1>0 DEF TaskWrite
      <4> QED BY <3>1, <4>3, <4>4
    <3>2. CASE TaskLock(t) \/ TaskTest(t) \/ TaskWait(t) \/ TaskReset(t) \/ SpuriousWakeup(t)
      BY <3>2, <1>0
      DEF TaskLock, TaskTest, TaskWait, TaskReset, SpuriousWakeup, outVars
    <3> QED BY <1>3, <3>1, <3>2 DEF Task
  <2> QED
    BY <2>1, <2>2, <2>3, <2>4, <1>0 DEF TypeOK, TaskType, PublisherType, SubscriberType
<1>4. ASSUME NEW s \in Subscriber, Subscribe(s) PROVE TypeOK'
  <2>1. UNCHANGED <<ctor, td, hasData, stored, mutex, tpc, raced, ppc, sent, handled, got>>
    BY <1>4, SubscribeFrame DEF slotVars, taskVars, pubVars, outVars
  <2>2. SubscriberType'
    <3>1. CASE StoreWriter(s)
      <4>1. spc[s] \in 0 .. Returned /\ spc[s] < N
        BY <3>1, <1>0 DEF StoreWriter, SubscriberType
      <4>2. TaskOrder[spc[s] + 1] \in Topic /\ spc[s] + 1 \in 0 .. Returned
        BY <4>1, OrderFacts DEF Returned
      <4> QED BY <3>1, <4>2, <1>0 DEF StoreWriter, SubscriberType
    <3>2. CASE SubscribeReturns(s)
      BY <3>2, <1>0 DEF SubscribeReturns, LeftBehind, SubscriberType, Returned
    <3> QED BY <1>4, <3>1, <3>2 DEF Subscribe
  <2> QED BY <2>1, <2>2, <1>0 DEF TypeOK, TaskType, PublisherType
<1>5. CASE UNCHANGED vars
  BY <1>0, <1>5
  DEF vars, slotVars, taskVars, pubVars, subVars, outVars, TypeOK, TaskType,
      PublisherType, SubscriberType
<1> QED BY <1>1, <1>2, <1>3, <1>4, <1>5 DEF CalmNext, Next

-----------------------------------------------------------------------------
(* Each part of the invariant is kept by every action.                     *)

\* The types the steps below need, and what is known of a task's steps.
LEMMA Typed ==
  ASSUME IndInv
  PROVE  /\ ctor \in 0 .. 4 * N /\ N \in Nat \ {0}
         /\ td \in [Topic -> Msg \cup {NoMsg}] /\ hasData \in [Topic -> BOOLEAN]
         /\ mutex \in [Topic -> Topic \cup Publisher \cup {NoThread}]
         /\ tpc \in [Topic -> {"none", "lock", "test", "block", "wait", "relock",
                               "stranded", "serve", "write", "reset"}]
         /\ ppc \in [Publisher -> {"read", "lock", "store", "broadcast"}]
         /\ sent \in [Publisher -> Nat]
         /\ Topic' = Topic /\ N' = N
BY OrderFacts DEF IndInv, TypeOK, TaskType, PublisherType, Topic, N

\* What a handler does to the task of its topic.
LEMMA PublishSteps ==
  ASSUME IndInv, NEW p \in Publisher, ppc[p] # "read", Publish(p), NEW t, t = TopicOf[Data(p)]
  PROVE  /\ t \in Topic /\ sent' = sent /\ Data(p) \in Msg
         /\ \/ /\ ppc[p] = "lock" /\ mutex[t] = NoThread
               /\ mutex' = [mutex EXCEPT ![t] = p]
               /\ ppc' = [ppc EXCEPT ![p] = "store"]
               /\ UNCHANGED <<td, hasData, stored, tpc>>
            \/ /\ ppc[p] = "store"
               /\ td' = [td EXCEPT ![t] = Data(p)]
               /\ hasData' = [hasData EXCEPT ![t] = TRUE]
               /\ stored' = [stored EXCEPT ![t] = Append(@, Data(p))]
               /\ ppc' = [ppc EXCEPT ![p] = "broadcast"]
               /\ UNCHANGED <<mutex, tpc>>
            \/ /\ ppc[p] = "broadcast"
               /\ tpc' = [tpc EXCEPT ![t] = Woken(@)]
               /\ mutex' = [mutex EXCEPT ![t] = NoThread]
               /\ ppc' = [ppc EXCEPT ![p] = "read"]
               /\ UNCHANGED <<td, hasData, stored>>
<1>1. t \in Topic /\ Data(p) \in Msg
  BY DEF IndInv, HandInv
<1>2. CASE LockSlot(p)
  BY <1>1, <1>2 DEF LockSlot, AcquireSlot, slotVars, taskVars
<1>3. CASE Store(p)
  BY <1>1, <1>3 DEF Store, taskVars
<1>4. CASE Broadcast(p)
  BY <1>1, <1>4 DEF Broadcast, slotVars
<1>5. ~ Read(p)
  BY DEF Read
<1> QED BY <1>2, <1>3, <1>4, <1>5 DEF Publish

\* What Publish does when it reads a message.
LEMMA ReadStep ==
  ASSUME IndInv, NEW p \in Publisher, ppc[p] = "read", Publish(p)
  PROVE  /\ Running /\ sent' = [sent EXCEPT ![p] = @ + 1]
         /\ \/ ppc' = ppc
            \/ /\ ppc' = [ppc EXCEPT ![p] = "lock"]
               /\ sent[p] + 1 \in 1 .. Len(Stream[p])
               /\ Stream[p][sent[p] + 1] \in Msg
               /\ TopicOf[Stream[p][sent[p] + 1]] \in Topic
         /\ UNCHANGED <<td, hasData, stored, mutex, tpc>>
<1>1. /\ Running /\ sent[p] < Len(Stream[p]) /\ sent' = [sent EXCEPT ![p] = @ + 1]
      /\ ppc' = [ppc EXCEPT ![p] =
                   IF TopicOf[Stream[p][sent[p] + 1]] \in Topic THEN "lock" ELSE @]
      /\ UNCHANGED <<td, hasData, stored, mutex, tpc>>
  BY DEF Publish, Read, LockSlot, Store, Broadcast, slotVars, taskVars
<1>2. sent[p] + 1 \in 1 .. Len(Stream[p]) /\ Stream[p][sent[p] + 1] \in Msg
  BY <1>1, Typed, TopicTasksAssumption
<1>3. CASE TopicOf[Stream[p][sent[p] + 1]] \in Topic
  BY <1>1, <1>2, <1>3
<1>4. CASE TopicOf[Stream[p][sent[p] + 1]] \notin Topic
  <2>1. ppc' = [ppc EXCEPT ![p] = ppc[p]]
    BY <1>1, <1>4
  <2> QED BY <1>1, <2>1, Typed
<1> QED BY <1>3, <1>4

\* What the task of a topic does to its slot.
LEMMA TaskSteps ==
  ASSUME IndInv, NEW t \in Topic, Task(t) \/ SpuriousWakeup(t)
  PROVE  \E w \in Holding \cup {"lock", "wait", "relock"} :
           /\ tpc' = [tpc EXCEPT ![t] = w]
           /\ \/ /\ tpc[t] \in {"lock", "relock"} /\ mutex[t] = NoThread
                 /\ mutex' = [mutex EXCEPT ![t] = t] /\ w = "test"
                 /\ UNCHANGED <<hasData, handled>>
              \/ /\ tpc[t] = "test" /\ w = IF hasData[t] THEN "serve" ELSE "block"
                 /\ UNCHANGED <<hasData, mutex, handled>>
              \/ /\ tpc[t] = "block" /\ w = "wait"
                 /\ mutex' = [mutex EXCEPT ![t] = NoThread]
                 /\ UNCHANGED <<hasData, handled>>
              \/ /\ tpc[t] = "serve" /\ w = "write" /\ writer[t] # NULL
                 /\ UNCHANGED <<hasData, mutex, handled>>
              \/ /\ tpc[t] \in {"serve", "write"} /\ w = "reset"
                 /\ handled' = [handled EXCEPT ![t] = Append(@, td[t])]
                 /\ UNCHANGED <<hasData, mutex>>
              \/ /\ tpc[t] = "reset" /\ w = "lock"
                 /\ hasData' = [hasData EXCEPT ![t] = FALSE]
                 /\ mutex' = [mutex EXCEPT ![t] = NoThread] /\ UNCHANGED handled
              \/ /\ tpc[t] = "wait" /\ w = "relock"
                 /\ UNCHANGED <<hasData, mutex, handled>>
<1> USE DEF Holding, slotVars, outVars
<1>1. CASE TaskLock(t)
  BY <1>1, Typed DEF TaskLock, AfterWait
<1>2. CASE TaskTest(t)
  BY <1>2, Typed DEF TaskTest
<1>3. CASE TaskWait(t)
  BY <1>3, Typed DEF TaskWait
<1>4. CASE TaskServe(t)
  BY <1>4, Typed DEF TaskServe
<1>5. CASE TaskWrite(t)
  BY <1>5, Typed DEF TaskWrite
<1>6. CASE TaskReset(t)
  BY <1>6, Typed DEF TaskReset, FlagAfterServe
<1>7. CASE SpuriousWakeup(t)
  BY <1>7, Typed DEF SpuriousWakeup
<1> QED BY <1>1, <1>2, <1>3, <1>4, <1>5, <1>6, <1>7 DEF Task

\* The constructor creates each task once.
LEMMA CtorStep == IndInv /\ [CalmNext]_vars => CtorInv'
<1> SUFFICES ASSUME IndInv, [CalmNext]_vars PROVE CtorInv'
  OBVIOUS
<1>0. CtorInv /\ Running' = (ctor' = 4 * N) /\ Running = (ctor = 4 * N)
      /\ N' = N /\ Topic' = Topic
  BY DEF IndInv, Running, N, Topic
<1>1. Calm'
  BY <1>0 DEF CtorInv, Calm, CalmNext, vars, taskVars
<1>2. ASSUME Construct, raced' = raced PROVE CtorInv'
  <2>1. /\ ctor' = ctor + 1 /\ ctor \in Nat /\ ~ Running
        /\ UNCHANGED ppc
    BY <1>2, CtorSteps, Typed DEF IndInv, CtorInv, pubVars
  <2>2. CASE /\ ctor < N
             /\ tpc' = [tpc EXCEPT ![TaskOrder[ctor + 1]] = "lock"]
             /\ UNCHANGED hasData
    <3>1. ASSUME NEW k \in 1 .. N PROVE tpc'[TaskOrder[k]] = "none" <=> ctor' < k
      <4>1. CASE k = ctor + 1
        BY <4>1, <2>1, <2>2, Typed, OrderFacts
      <4>2. CASE k # ctor + 1
        <5>1. TaskOrder[k] # TaskOrder[ctor + 1]
          <6>1. k \in DOMAIN TaskOrder /\ ctor + 1 \in DOMAIN TaskOrder
            BY <2>1, <2>2, Typed, OrderFacts
          <6> QED BY <6>1, <4>2, TopicTasksAssumption
        <5>2. tpc'[TaskOrder[k]] = tpc[TaskOrder[k]]
          BY <5>1, <2>2, Typed, OrderFacts
        <5> QED BY <5>2, <4>2, <2>1, <1>0 DEF CtorInv
      <4> QED BY <4>1, <4>2
    <3>2. \A t \in Topic : tpc'[t] # "stranded"
      BY <2>2, <1>0, Typed DEF CtorInv
    <3> QED BY <1>0, <1>1, <2>1, <2>2, <3>1, <3>2 DEF CtorInv
  <2>3. CASE ctor >= N /\ UNCHANGED tpc
             /\ (UNCHANGED hasData \/ \E t \in Topic : hasData' = [hasData EXCEPT ![t] = FALSE])
    <3>1. \A t \in Topic : ~ hasData'[t]
      BY <2>1, <2>3, <1>0, Typed DEF CtorInv
    <3>2. \A k \in 1 .. N : ctor < k <=> ctor' < k
      BY <2>1, <2>3, Typed
    <3> QED BY <1>0, <1>1, <2>1, <2>3, <3>1, <3>2 DEF CtorInv
  <2> QED BY <1>2, <2>2, <2>3, CtorSteps DEF IndInv, CtorInv
<1>3. ASSUME NEW p \in Publisher, Publish(p) PROVE CtorInv'
  <2>1. Running /\ UNCHANGED ctor
    BY <1>0, <1>3, PublishFrame DEF CtorInv
  <2>2. ASSUME NEW t \in Topic PROVE /\ tpc'[t] = "none" <=> tpc[t] = "none"
                                     /\ tpc'[t] # "stranded"
    <3>1. CASE ppc[p] = "read"
      BY <3>1, <1>0, <1>3, ReadStep DEF CtorInv
    <3>2. CASE ppc[p] # "read"
      BY <3>2, <1>0, <1>3, PublishSteps, Typed DEF CtorInv, Woken
    <3> QED BY <3>1, <3>2
  <2> QED BY <1>0, <1>1, <2>1, <2>2, OrderFacts DEF CtorInv
<1>4. ASSUME NEW t \in Topic, Task(t) \/ SpuriousWakeup(t) PROVE CtorInv'
  <2>1. UNCHANGED <<ctor, ppc>>
    BY <1>4, TaskFrame DEF pubVars
  <2>2. PICK w \in Holding \cup {"lock", "wait", "relock"} :
          /\ tpc' = [tpc EXCEPT ![t] = w] /\ tpc[t] # "none"
          /\ hasData' = hasData \/ hasData' = [hasData EXCEPT ![t] = FALSE]
    BY <1>4, TaskSteps
  <2>3. \A u \in Topic : /\ tpc'[u] = "none" <=> tpc[u] = "none"
                         /\ tpc'[u] # "stranded"
                         /\ hasData'[u] => hasData[u]
    BY <2>2, <1>0, Typed DEF CtorInv, Holding
  <2> QED BY <1>0, <1>1, <2>1, <2>3, OrderFacts DEF CtorInv
<1>5. ASSUME UNCHANGED <<ctor, hasData, tpc, ppc>> PROVE CtorInv'
  BY <1>0, <1>1, <1>5 DEF CtorInv
<1> QED
  BY <1>2, <1>3, <1>4, <1>5, SubscribeFrame
  DEF CalmNext, Next, vars, slotVars, taskVars, pubVars

\* A handler keeps the message it has read until it is done with it.
LEMMA HandStep == IndInv /\ [CalmNext]_vars => HandInv'
<1> SUFFICES ASSUME IndInv, [CalmNext]_vars, NEW q \in Publisher, ppc'[q] # "read"
             PROVE  /\ sent'[q] \in 1 .. Len(Stream[q])
                    /\ Data(q)' \in Msg /\ TopicOf[Data(q)'] \in Topic
  BY Typed DEF HandInv
<1>0. HandInv /\ Data(q)' = Stream[q][sent'[q]] /\ Data(q) = Stream[q][sent[q]]
  BY DEF IndInv, Data
<1>1. ASSUME UNCHANGED <<ppc, sent>>
      PROVE  /\ sent'[q] \in 1 .. Len(Stream[q])
             /\ Data(q)' \in Msg /\ TopicOf[Data(q)'] \in Topic
  BY <1>0, <1>1 DEF HandInv
<1>2. ASSUME NEW p \in Publisher, Publish(p)
      PROVE  /\ sent'[q] \in 1 .. Len(Stream[q])
             /\ Data(q)' \in Msg /\ TopicOf[Data(q)'] \in Topic
  <2>1. CASE ppc[p] = "read"
    <3>1. CASE q = p
      BY <2>1, <3>1, <1>0, <1>2, ReadStep, Typed
    <3>2. CASE q # p
      <4>1. ppc'[q] = ppc[q] /\ sent'[q] = sent[q]
        BY <2>1, <3>2, <1>2, ReadStep, Typed
      <4> QED BY <4>1, <1>0 DEF HandInv
    <3> QED BY <3>1, <3>2
  <2>2. CASE ppc[p] # "read"
    <3>1. ppc[q] # "read" /\ sent' = sent
      BY <2>2, <1>2, PublishSteps, Typed
    <3> QED BY <3>1, <1>0 DEF HandInv
  <2> QED BY <2>1, <2>2
<1>3. ASSUME Construct, raced' = raced PROVE UNCHANGED <<ppc, sent>>
  BY <1>3, CtorSteps DEF IndInv, CtorInv, pubVars
<1> QED
  BY <1>1, <1>2, <1>3, SubscribeFrame, TaskFrame DEF CalmNext, Next, vars, pubVars

\* The mutex of each topic has one holder, whoever acts.
LEMMA ExclusionStep == IndInv /\ [CalmNext]_vars => SlotExclusion'
<1> SUFFICES ASSUME IndInv, [CalmNext]_vars, NEW u \in Topic
             PROVE  /\ mutex'[u] = u <=> tpc'[u] \in Holding
                    /\ \A q \in Publisher :
                         mutex'[u] = q <=>
                           ppc'[q] \in {"store", "broadcast"} /\ TopicOf[Data(q)'] = u
  BY Typed DEF SlotExclusion, Data
<1> DEFINE Owns(q) == ppc[q] \in {"store", "broadcast"} /\ TopicOf[Data(q)] = u
           Goal == /\ mutex'[u] = u <=> tpc'[u] \in Holding
                   /\ \A q \in Publisher :
                        mutex'[u] = q <=>
                          ppc'[q] \in {"store", "broadcast"} /\ TopicOf[Data(q)'] = u
<1>0. /\ mutex[u] = u <=> tpc[u] \in Holding
      /\ \A q \in Publisher : mutex[u] = q <=> Owns(q)
      /\ \A q \in Publisher : q # u /\ NoThread # q
      /\ NoThread # u
  BY TopicTasksAssumption DEF IndInv, SlotExclusion
<1>1. ASSUME NEW p \in Publisher, Publish(p) PROVE Goal
  <2>1. CASE ppc[p] = "read"
    <3>1. /\ UNCHANGED <<mutex, tpc>> /\ sent' = [sent EXCEPT ![p] = @ + 1]
          /\ ppc' = ppc \/ ppc' = [ppc EXCEPT ![p] = "lock"]
      BY <2>1, <1>1, ReadStep
    <3>2. ASSUME NEW q \in Publisher
          PROVE  (ppc'[q] \in {"store", "broadcast"} /\ TopicOf[Data(q)'] = u) <=> Owns(q)
      <4>1. CASE q = p
        BY <4>1, <3>1, <2>1, Typed
      <4>2. CASE q # p
        <5>1. ppc'[q] = ppc[q] /\ sent'[q] = sent[q]
          BY <4>2, <3>1, Typed
        <5> QED BY <5>1 DEF Data
      <4> QED BY <4>1, <4>2
    <3> QED BY <3>1, <3>2, <1>0
  <2>2. CASE ppc[p] # "read"
    <3> DEFINE t == TopicOf[Data(p)]
    <3>1. t \in Topic /\ sent' = sent
      BY <2>2, <1>1, PublishSteps
    <3>2. \A q \in Publisher : Data(q)' = Data(q)
      BY <3>1 DEF Data
    <3>3. CASE /\ ppc[p] = "lock" /\ mutex[t] = NoThread
               /\ mutex' = [mutex EXCEPT ![t] = p]
               /\ ppc' = [ppc EXCEPT ![p] = "store"]
               /\ UNCHANGED tpc
      <4>1. CASE u = t
        <5>1. mutex'[u] = p /\ tpc[u] \notin Holding /\ \A q \in Publisher : ~ Owns(q)
          BY <4>1, <3>1, <3>3, <1>0, Typed
        <5>2. ASSUME NEW q \in Publisher
              PROVE  mutex'[u] = q <=>
                       ppc'[q] \in {"store", "broadcast"} /\ TopicOf[Data(q)'] = u
          BY <5>1, <4>1, <3>2, <3>3, Typed
        <5> QED BY <5>1, <5>2, <3>3, <1>0
      <4>2. CASE u # t
        <5>1. mutex'[u] = mutex[u] /\ ~ Owns(p)
          BY <4>2, <3>1, <3>3, <1>0, Typed
        <5>2. ASSUME NEW q \in Publisher
              PROVE  ppc'[q] \in {"store", "broadcast"} /\ TopicOf[Data(q)'] = u <=> Owns(q)
          BY <5>1, <4>2, <3>2, <3>3, Typed
        <5> QED BY <5>1, <5>2, <3>3, <1>0
      <4> QED BY <4>1, <4>2
    <3>4. CASE /\ ppc[p] = "store" /\ ppc' = [ppc EXCEPT ![p] = "broadcast"]
               /\ UNCHANGED <<mutex, tpc>>
      <4>1. ASSUME NEW q \in Publisher
            PROVE  ppc'[q] \in {"store", "broadcast"} /\ TopicOf[Data(q)'] = u <=> Owns(q)
        BY <3>2, <3>4, Typed
      <4> QED BY <4>1, <3>4, <1>0
    <3>5. CASE /\ ppc[p] = "broadcast"
               /\ tpc' = [tpc EXCEPT ![t] = Woken(@)]
               /\ mutex' = [mutex EXCEPT ![t] = NoThread]
               /\ ppc' = [ppc EXCEPT ![p] = "read"]
      <4>1. tpc'[u] \in Holding <=> tpc[u] \in Holding
        BY <3>1, <3>5, Typed DEF Woken, Holding
      <4>2. CASE u = t
        <5>1. mutex[u] = p /\ mutex'[u] = NoThread
          BY <4>2, <3>1, <3>5, <1>0, Typed
        <5>2. ASSUME NEW q \in Publisher
              PROVE  ~ (ppc'[q] \in {"store", "broadcast"} /\ TopicOf[Data(q)'] = u)
          BY <5>1, <3>2, <3>5, <1>0, Typed
        <5>3. tpc[u] \notin Holding
          BY <5>1, <1>0
        <5> QED BY <5>1, <5>2, <5>3, <4>1, <1>0
      <4>3. CASE u # t
        <5>1. mutex'[u] = mutex[u] /\ ~ Owns(p)
          BY <4>3, <3>1, <3>5, Typed
        <5>2. ASSUME NEW q \in Publisher
              PROVE  ppc'[q] \in {"store", "broadcast"} /\ TopicOf[Data(q)'] = u <=> Owns(q)
          BY <5>1, <4>3, <3>2, <3>5, Typed
        <5> QED BY <5>1, <5>2, <4>1, <1>0
      <4> QED BY <4>2, <4>3
    <3> HIDE DEF Goal
    <3> QED BY <2>2, <3>3, <3>4, <3>5, <1>1, PublishSteps
  <2> QED BY <2>1, <2>2
<1>2. ASSUME NEW t \in Topic, Task(t) \/ SpuriousWakeup(t) PROVE Goal
  <2>1. \A q \in Publisher : ppc'[q] = ppc[q] /\ Data(q)' = Data(q)
    BY <1>2, TaskFrame DEF pubVars, Data
  <2>2. PICK w \in Holding \cup {"lock", "wait", "relock"} :
          /\ tpc' = [tpc EXCEPT ![t] = w]
          /\ \/ /\ mutex[t] = NoThread /\ mutex' = [mutex EXCEPT ![t] = t] /\ w = "test"
             \/ /\ tpc[t] \in {"block", "reset"} /\ w \in {"wait", "lock"}
                /\ mutex' = [mutex EXCEPT ![t] = NoThread]
             \/ tpc[t] \in Holding /\ w \in Holding /\ UNCHANGED mutex
             \/ tpc[t] = "wait" /\ w = "relock" /\ UNCHANGED mutex
    BY <1>2, TaskSteps DEF Holding
  <2>3. CASE u = t
    BY <2>1, <2>2, <2>3, <1>0, Typed DEF Holding
  <2>4. CASE u # t
    BY <2>1, <2>2, <2>4, <1>0, Typed
  <2> QED BY <2>3, <2>4
<1>3. ASSUME Construct, raced' = raced PROVE Goal
  <2>1. /\ UNCHANGED <<mutex, ppc, sent>> /\ ctor \in Nat
        /\ \/ UNCHANGED tpc
           \/ ctor < N /\ tpc' = [tpc EXCEPT ![TaskOrder[ctor + 1]] = "lock"]
    BY <1>3, CtorSteps, Typed DEF IndInv, CtorInv, pubVars
  <2>2. tpc'[u] \in Holding <=> tpc[u] \in Holding
    <3> SUFFICES ASSUME ctor < N, tpc' = [tpc EXCEPT ![TaskOrder[ctor + 1]] = "lock"]
                 PROVE  tpc'[u] \in Holding <=> tpc[u] \in Holding
      BY <2>1
    <3>1. tpc[TaskOrder[ctor + 1]] = "none"
      BY <2>1, Typed DEF IndInv, CtorInv
    <3> QED BY <3>1, Typed DEF Holding
  <2> QED BY <2>1, <2>2, <1>0 DEF Data
<1>4. ASSUME UNCHANGED <<mutex, tpc, ppc, sent>> PROVE Goal
  BY <1>0, <1>4 DEF Data
<1> QED
  BY <1>1, <1>2, <1>3, <1>4, SubscribeFrame DEF CalmNext, Next, vars, taskVars, pubVars

\* A task that is not inside its critical section when a handler stores.
LEMMA StoreAlone ==
  ASSUME IndInv, NEW p \in Publisher, ppc[p] = "store", NEW t, t = TopicOf[Data(p)]
  PROVE  t \in Topic /\ tpc[t] \notin Holding
<1>1. t \in Topic
  BY DEF IndInv, HandInv
<1>2. mutex[t] = p /\ p # t
  BY <1>1, TopicTasksAssumption DEF IndInv, SlotExclusion
<1> QED BY <1>1, <1>2 DEF IndInv, SlotExclusion

\* The flag of a topic goes on telling its task what to do.
LEMMA FlagStep == IndInv /\ [CalmNext]_vars => FlagInv'
<1> SUFFICES ASSUME IndInv, [CalmNext]_vars, NEW u \in Topic
             PROVE  /\ hasData'[u] => td'[u] \in Msg
                    /\ tpc'[u] \in Serving => hasData'[u]
                    /\ tpc'[u] = "block" => ~ hasData'[u]
  BY Typed DEF FlagInv
<1> DEFINE Goal == /\ hasData'[u] => td'[u] \in Msg
                   /\ tpc'[u] \in Serving => hasData'[u]
                   /\ tpc'[u] = "block" => ~ hasData'[u]
<1>0. /\ hasData[u] => td[u] \in Msg
      /\ tpc[u] \in Serving => hasData[u]
      /\ tpc[u] = "block" => ~ hasData[u]
  BY DEF IndInv, FlagInv
<1>1. ASSUME NEW p \in Publisher, Publish(p) PROVE Goal
  <2>1. CASE ppc[p] = "read"
    BY <2>1, <1>0, <1>1, ReadStep
  <2>2. CASE ppc[p] # "read"
    <3> DEFINE t == TopicOf[Data(p)]
    <3>1. t \in Topic /\ Data(p) \in Msg
      BY <2>2, <1>1, PublishSteps
    <3>2. CASE UNCHANGED <<td, hasData, tpc>>
      BY <3>2, <1>0
    <3>3. CASE /\ ppc[p] = "store"
               /\ td' = [td EXCEPT ![t] = Data(p)]
               /\ hasData' = [hasData EXCEPT ![t] = TRUE] /\ UNCHANGED tpc
      <4>1. tpc[t] # "block"
        BY <3>3, StoreAlone DEF Holding
      <4> HIDE DEF t
      <4> QED BY <4>1, <3>1, <3>3, <1>0, Typed
    <3>4. CASE tpc' = [tpc EXCEPT ![t] = Woken(@)] /\ UNCHANGED <<td, hasData>>
      BY <3>1, <3>4, <1>0, Typed DEF Woken, Serving
    <3> QED BY <2>2, <1>1, <3>2, <3>3, <3>4, PublishSteps
  <2> QED BY <2>1, <2>2
<1>2. ASSUME NEW t \in Topic, Task(t) \/ SpuriousWakeup(t) PROVE Goal
  <2>1. td' = td
    BY <1>2, TaskFrame
  <2>2. PICK w \in Holding \cup {"lock", "wait", "relock"} :
          /\ tpc' = [tpc EXCEPT ![t] = w]
          /\ \/ w \in {"test", "wait", "relock"} /\ UNCHANGED hasData
             \/ w = (IF hasData[t] THEN "serve" ELSE "block") /\ UNCHANGED hasData
             \/ tpc[t] \in Serving /\ w \in {"write", "reset"} /\ UNCHANGED hasData
             \/ w = "lock" /\ hasData' = [hasData EXCEPT ![t] = FALSE]
    BY <1>2, TaskSteps DEF Serving
  <2>3. CASE u = t
    BY <2>1, <2>2, <2>3, <1>0, Typed DEF Serving
  <2>4. CASE u # t
    BY <2>1, <2>2, <2>4, <1>0, Typed
  <2> QED BY <2>3, <2>4
<1>3. ASSUME Construct, raced' = raced PROVE Goal
  <2>1. /\ UNCHANGED td /\ ~ Running
        /\ \/ UNCHANGED hasData /\ \E t \in Topic : tpc' = [tpc EXCEPT ![t] = "lock"]
           \/ UNCHANGED tpc /\ \E t \in Topic : hasData' = [hasData EXCEPT ![t] = FALSE]
           \/ UNCHANGED <<hasData, tpc>>
    <3>1. ctor < N => TaskOrder[ctor + 1] \in Topic
      BY Typed, OrderFacts
    <3> QED BY <1>3, <3>1, CtorSteps DEF IndInv, CtorInv
  <2>2. ~ hasData[u] /\ tpc[u] \notin Serving
    BY <2>1, <1>0 DEF IndInv, CtorInv
  <2> QED BY <2>1, <2>2, Typed DEF Serving
<1>4. ASSUME UNCHANGED <<td, hasData, tpc>> PROVE Goal
  BY <1>0, <1>4
<1> QED
  BY <1>1, <1>2, <1>3, <1>4, SubscribeFrame DEF CalmNext, Next, vars, slotVars, taskVars

\* No wakeup is lost.
LEMMA WakeupStep == IndInv /\ [CalmNext]_vars => NoLostWakeup'
<1> SUFFICES ASSUME IndInv, [CalmNext]_vars, NEW u \in Topic,
                    tpc'[u] = "wait", hasData'[u]
             PROVE  \E q \in Publisher : ppc'[q] = "broadcast" /\ TopicOf[Data(q)'] = u
  BY Typed DEF NoLostWakeup, Data
<1> DEFINE Goal == \E q \in Publisher : ppc'[q] = "broadcast" /\ TopicOf[Data(q)'] = u
<1>0. tpc[u] = "wait" /\ hasData[u] =>
        \E q \in Publisher : ppc[q] = "broadcast" /\ TopicOf[Data(q)] = u
  BY DEF IndInv, NoLostWakeup
<1>1. ASSUME NEW p \in Publisher, Publish(p) PROVE Goal
  <2>1. CASE ppc[p] = "read"
    <3>1. PICK q \in Publisher : ppc[q] = "broadcast" /\ TopicOf[Data(q)] = u
      BY <2>1, <1>0, <1>1, ReadStep
    <3>2. q # p /\ ppc'[q] = ppc[q] /\ sent'[q] = sent[q]
      BY <2>1, <3>1, <1>1, ReadStep, Typed
    <3> QED BY <3>1, <3>2 DEF Data
  <2>2. CASE ppc[p] # "read"
    <3> DEFINE t == TopicOf[Data(p)]
    <3>1. t \in Topic /\ \A q \in Publisher : Data(q)' = Data(q)
      BY <2>2, <1>1, PublishSteps DEF Data
    <3>2. CASE /\ ppc[p] = "lock" /\ ppc' = [ppc EXCEPT ![p] = "store"]
               /\ UNCHANGED <<hasData, tpc>>
      <4>1. PICK q \in Publisher : ppc[q] = "broadcast" /\ TopicOf[Data(q)] = u
        BY <3>2, <1>0
      <4>2. ppc'[q] = "broadcast"
        BY <3>2, <4>1, Typed
      <4> QED BY <3>1, <4>1, <4>2
    <3>3. CASE /\ ppc[p] = "store" /\ ppc' = [ppc EXCEPT ![p] = "broadcast"]
               /\ hasData' = [hasData EXCEPT ![t] = TRUE] /\ UNCHANGED tpc
      <4>1. CASE u = t
        BY <4>1, <3>1, <3>3, Typed
      <4>2. CASE u # t
        <5>1. PICK q \in Publisher : ppc[q] = "broadcast" /\ TopicOf[Data(q)] = u
          BY <4>2, <3>1, <3>3, <1>0, Typed
        <5>2. ppc'[q] = "broadcast"
          BY <3>3, <5>1, Typed
        <5> QED BY <3>1, <5>1, <5>2
      <4> QED BY <4>1, <4>2
    <3>4. CASE /\ ppc[p] = "broadcast" /\ ppc' = [ppc EXCEPT ![p] = "read"]
               /\ tpc' = [tpc EXCEPT ![t] = Woken(@)] /\ UNCHANGED hasData
      <4>1. u # t /\ tpc[u] = "wait"
        BY <3>1, <3>4, Typed DEF Woken
      <4>2. PICK q \in Publisher : ppc[q] = "broadcast" /\ TopicOf[Data(q)] = u
        BY <4>1, <3>4, <1>0
      <4>3. q # p /\ ppc'[q] = "broadcast"
        BY <3>4, <4>1, <4>2, Typed
      <4> QED BY <3>1, <4>2, <4>3
    <3> HIDE DEF Goal, t
    <3> QED BY <2>2, <1>1, <3>2, <3>3, <3>4, PublishSteps DEF t
  <2> QED BY <2>1, <2>2
<1>2. ASSUME NEW t \in Topic, Task(t) \/ SpuriousWakeup(t) PROVE Goal
  <2>1. \A q \in Publisher : ppc'[q] = ppc[q] /\ Data(q)' = Data(q)
    BY <1>2, TaskFrame DEF pubVars, Data
  <2>2. PICK w \in Holding \cup {"lock", "wait", "relock"} :
          /\ tpc' = [tpc EXCEPT ![t] = w]
          /\ w = "wait" => tpc[t] = "block"
          /\ hasData' = hasData \/ hasData' = [hasData EXCEPT ![t] = FALSE]
    BY <1>2, TaskSteps DEF Holding
  <2>3. tpc[u] = "wait" /\ hasData[u]
    BY <2>2, Typed DEF IndInv, FlagInv
  <2> QED BY <2>1, <2>3, <1>0
<1>3. ASSUME Construct, raced' = raced PROVE Goal
  <2>1. ~ Running /\ \/ UNCHANGED hasData
                     \/ \E t \in Topic : hasData' = [hasData EXCEPT ![t] = FALSE]
    BY <1>3, CtorSteps DEF IndInv, CtorInv
  <2> QED BY <2>1, Typed DEF IndInv, CtorInv
<1>4. ASSUME UNCHANGED <<hasData, tpc, ppc, sent>> PROVE Goal
  BY <1>0, <1>4 DEF Data
<1> QED
  BY <1>1, <1>2, <1>3, <1>4, SubscribeFrame
  DEF CalmNext, Next, vars, slotVars, taskVars, pubVars

\* The writer a task has tested is not taken away.
LEMMA WriterStep == IndInv /\ [CalmNext]_vars => WritesToSomebody'
<1> SUFFICES ASSUME IndInv, [CalmNext]_vars, NEW u \in Topic, tpc'[u] = "write"
             PROVE  writer'[u] # NULL
  BY Typed DEF WritesToSomebody
<1>0. tpc[u] = "write" => writer[u] # NULL
  BY DEF IndInv, WritesToSomebody
<1>1. ASSUME NEW p \in Publisher, Publish(p) PROVE writer'[u] # NULL
  <2>1. UNCHANGED writer
    BY <1>1, PublishFrame DEF subVars
  <2>2. CASE ppc[p] = "read"
    BY <2>1, <2>2, <1>0, <1>1, ReadStep
  <2>3. CASE ppc[p] # "read"
    BY <2>1, <2>3, <1>0, <1>1, PublishSteps, Typed DEF Woken
  <2> QED BY <2>2, <2>3
<1>2. ASSUME NEW t \in Topic, Task(t) \/ SpuriousWakeup(t) PROVE writer'[u] # NULL
  <2>1. UNCHANGED writer
    BY <1>2, TaskFrame DEF subVars
  <2>2. PICK w \in Holding \cup {"lock", "wait", "relock"} :
          tpc' = [tpc EXCEPT ![t] = w] /\ (w = "write" => writer[t] # NULL)
    BY <1>2, TaskSteps DEF Holding
  <2> QED BY <2>1, <2>2, <1>0, Typed
<1>3. ASSUME Construct, raced' = raced PROVE writer'[u] # NULL
  <2>1. UNCHANGED writer /\ \/ UNCHANGED tpc
                            \/ \E t \in Topic : tpc' = [tpc EXCEPT ![t] = "lock"]
    <3>1. ctor < N => TaskOrder[ctor + 1] \in Topic
      BY Typed, OrderFacts
    <3> QED BY <1>3, <3>1, CtorSteps DEF IndInv, CtorInv, subVars
  <2> QED BY <2>1, <1>0, Typed
<1>4. ASSUME NEW s \in Subscriber, Subscribe(s) PROVE writer'[u] # NULL
  <2>1. tpc[u] = "write"
    BY <1>4, SubscribeFrame DEF taskVars
  <2>2. writer \in [Topic -> Subscriber \cup {NULL}] /\ s # NULL
    BY TopicTasksAssumption DEF IndInv, TypeOK, SubscriberType
  <2>3. \/ writer' = writer
        \/ \E t : writer' = [writer EXCEPT ![t] = s]
    BY <1>4 DEF Subscribe, StoreWriter, SubscribeReturns, LeftBehind
  <2> QED BY <2>1, <2>2, <2>3, <1>0
<1>5. CASE UNCHANGED vars
  BY <1>0, <1>5 DEF vars, taskVars, subVars
<1> QED BY <1>1, <1>2, <1>3, <1>4, <1>5 DEF CalmNext, Next

LEMMA Inductive ==
  /\ Init => IndInv
  /\ IndInv /\ [CalmNext]_vars => IndInv'
<1>1. Init => IndInv
  <2> SUFFICES ASSUME Init PROVE IndInv
    OBVIOUS
  <2>1. TypeOK
    BY InitType
  <2>2. CtorInv
    BY OrderFacts DEF Init, CtorInv, Calm
  <2>3. HandInv /\ FlagInv /\ NoLostWakeup /\ WritesToSomebody
    BY DEF Init, HandInv, FlagInv, NoLostWakeup, WritesToSomebody, Serving
  <2>4. SlotExclusion
    BY TopicTasksAssumption DEF Init, SlotExclusion, Holding
  <2> QED BY <2>1, <2>2, <2>3, <2>4 DEF IndInv
<1>2. IndInv /\ [CalmNext]_vars => IndInv'
  BY TypeStep, CtorStep, HandStep, ExclusionStep, FlagStep, WakeupStep, WriterStep DEF IndInv
<1> QED BY <1>1, <1>2

LEMMA Invariance == CalmSpec => []IndInv
BY Inductive, PTL DEF CalmSpec, CalmNext

\* A task never waits for a wakeup that came too early, and never writes through a
\* writer that is not there, whatever calls of Subscribe come and go.
THEOREM TasksSafe == CalmSpec => []TaskInv
<1>1. IndInv => TaskInv
  BY DEF IndInv, TaskInv
<1> QED BY <1>1, Invariance, PTL

\* From its test of the flag to its reset, no Publish replaces the message a task
\* works on: the mutex is held during the workload.
THEOREM SlotIsStable == CalmSpec => SlotStable
<1> DEFINE A == \A t \in Topic : tpc[t] \in {"serve", "write", "reset"} => td'[t] = td[t]
<1>1. IndInv /\ [CalmNext]_vars => [A]_vars
  <2> SUFFICES ASSUME IndInv, [CalmNext]_vars, NEW u \in Topic,
                      tpc[u] \in {"serve", "write", "reset"}
               PROVE  td'[u] = td[u]
    OBVIOUS
  <2>1. ASSUME NEW p \in Publisher, Publish(p) PROVE td'[u] = td[u]
    <3>1. CASE ppc[p] = "read"
      BY <2>1, <3>1, ReadStep
    <3>2. CASE ppc[p] # "read"
      <4> DEFINE t == TopicOf[Data(p)]
      <4>1. CASE UNCHANGED td
        BY <4>1
      <4>2. CASE ppc[p] = "store" /\ td' = [td EXCEPT ![t] = Data(p)]
        <5>1. tpc[t] \notin Holding
          BY <4>2, StoreAlone
        <5>2. u # t
          BY <5>1 DEF Holding
        <5> HIDE DEF t
        <5> QED BY <4>2, <5>2, Typed
      <4> QED BY <2>1, <3>2, <4>1, <4>2, PublishSteps
    <3> QED BY <3>1, <3>2
  <2>2. ASSUME Construct, raced' = raced PROVE UNCHANGED td
    BY <2>2, CtorSteps DEF IndInv, CtorInv
  <2> QED
    BY <2>1, <2>2, SubscribeFrame, TaskFrame DEF CalmNext, Next, vars, slotVars
<1> HIDE DEF A
<1>2. CalmSpec => [][A]_vars
  BY <1>1, Invariance, PTL DEF CalmSpec, CalmNext
<1> QED BY <1>2 DEF SlotStable, A

-----------------------------------------------------------------------------
(* The service implements one mailbox per topic.                           *)

\* How much of its stream a publisher has put into slots, or dropped.
Given(p) == IF ppc[p] \in {"lock", "store"} THEN sent[p] - 1 ELSE sent[p]

Stored == UNION {{stored[t][k] : k \in DOMAIN stored[t]} : t \in Topic}

\* What was stored comes from the streams, from before the messages at hand.
StoredInv == \A m \in Stored : \E p \in Publisher : \E j \in 1 .. Given(p) : m = Stream[p][j]

LEMMA StoredMember ==
  ASSUME NEW m
  PROVE  m \in Stored <=> \E t \in Topic : \E k \in DOMAIN stored[t] : m = stored[t][k]
BY DEF Stored

\* Storing a message adds it to what was stored.
LEMMA StoreAdds ==
  ASSUME IndInv, NEW t \in Topic, NEW m \in Msg,
         stored' = [stored EXCEPT ![t] = Append(@, m)]
  PROVE  Stored' = Stored \cup {m}
<1>0. stored \in [Topic -> Seq(Msg)] /\ Topic' = Topic
  BY DEF IndInv, TypeOK, TaskType, Topic
<1>1. /\ stored'[t] = Append(stored[t], m) /\ stored[t] \in Seq(Msg)
      /\ \A u \in Topic : u # t => stored'[u] = stored[u]
  BY <1>0
<1>2. /\ DOMAIN stored'[t] = 1 .. Len(stored[t]) + 1
      /\ DOMAIN stored[t] = 1 .. Len(stored[t]) /\ Len(stored[t]) \in Nat
      /\ \A k \in 1 .. Len(stored[t]) : stored'[t][k] = stored[t][k]
      /\ stored'[t][Len(stored[t]) + 1] = m
  BY <1>1
<1>3. ASSUME NEW x
      PROVE  (\E k \in DOMAIN stored'[t] : x = stored'[t][k]) <=>
               (\E k \in DOMAIN stored[t] : x = stored[t][k]) \/ x = m
  BY <1>2
<1>4. ASSUME NEW x PROVE x \in Stored' <=> x \in Stored \cup {m}
  <2>1. x \in Stored' <=> \E u \in Topic : \E k \in DOMAIN stored'[u] : x = stored'[u][k]
    BY <1>0 DEF Stored
  <2> QED BY <2>1, <1>1, <1>3, StoredMember
<1> QED BY <1>4

\* A message being stored has not been stored before.
LEMMA StoreIsNew ==
  ASSUME IndInv, StoredInv, NEW p \in Publisher, ppc[p] = "store"
  PROVE  Data(p) \notin Stored
<1> SUFFICES ASSUME Data(p) \in Stored PROVE FALSE
  OBVIOUS
<1>1. PICK q \in Publisher : \E j \in 1 .. Given(q) : Data(p) = Stream[q][j]
  BY DEF StoredInv
<1>2. PICK j \in 1 .. Given(q) : Data(p) = Stream[q][j]
  BY <1>1
<1>3. /\ sent[p] \in 1 .. Len(Stream[p]) /\ sent[q] \in Nat /\ sent[q] <= Len(Stream[q])
  BY DEF IndInv, HandInv, TypeOK, PublisherType
<1>4. sent[p] \in DOMAIN Stream[p] /\ j \in DOMAIN Stream[q]
  <2>1. Len(Stream[q]) \in Nat /\ DOMAIN Stream[q] = 1 .. Len(Stream[q])
        /\ DOMAIN Stream[p] = 1 .. Len(Stream[p])
    BY TopicTasksAssumption
  <2> QED BY <2>1, <1>3 DEF Given
<1>5. p = q /\ sent[p] = j
  BY <1>2, <1>4, StreamAssumption DEF Data
<1> QED BY <1>3, <1>5 DEF Given

\* What was stored goes on coming from the streams.
LEMMA StoredStep == IndInv /\ StoredInv /\ [CalmNext]_vars => StoredInv'
<1> SUFFICES ASSUME IndInv, StoredInv, [CalmNext]_vars,
                    NEW m \in Stored'
             PROVE  \E q \in Publisher : \E j \in 1 .. Given(q)' : m = Stream[q][j]
  BY DEF StoredInv
<1>0. m \in Stored => \E q \in Publisher : \E j \in 1 .. Given(q) : m = Stream[q][j]
  BY DEF StoredInv
<1>1. ASSUME NEW p \in Publisher, Publish(p)
      PROVE  \E q \in Publisher : \E j \in 1 .. Given(q)' : m = Stream[q][j]
  <2>1. CASE ppc[p] = "read"
    <3>1. /\ UNCHANGED stored /\ sent' = [sent EXCEPT ![p] = @ + 1]
          /\ ppc' = ppc \/ ppc' = [ppc EXCEPT ![p] = "lock"]
      BY <2>1, <1>1, ReadStep
    <3>2. \A q \in Publisher : Given(q) \in Int /\ Given(q)' \in Int /\ Given(q) <= Given(q)'
      <4> SUFFICES ASSUME NEW q \in Publisher
                   PROVE  Given(q) \in Int /\ Given(q)' \in Int /\ Given(q) <= Given(q)'
        OBVIOUS
      <4>1. CASE q = p
        BY <2>1, <3>1, <4>1, Typed DEF Given
      <4>2. CASE q # p
        BY <3>1, <4>2, Typed DEF Given
      <4> QED BY <4>1, <4>2
    <3>3. Stored' = Stored
      BY <3>1, Typed DEF Stored
    <3>4. PICK q \in Publisher : \E j \in 1 .. Given(q) : m = Stream[q][j]
      BY <3>3, <1>0
    <3> QED BY <3>2, <3>4
  <2>2. CASE ppc[p] # "read"
    <3>1. sent' = sent
      BY <2>2, <1>1, PublishSteps
    <3>2. CASE /\ ppc[p] = "store" /\ ppc' = [ppc EXCEPT ![p] = "broadcast"]
               /\ stored' = [stored EXCEPT ![TopicOf[Data(p)]] = Append(@, Data(p))]
      <4>1. TopicOf[Data(p)] \in Topic /\ Data(p) \in Msg /\ sent[p] \in 1 .. Len(Stream[p])
        BY <2>2 DEF IndInv, HandInv
      <4>2. Stored' = Stored \cup {Data(p)}
        BY <3>2, <4>1, StoreAdds
      <4>3. /\ Given(p)' = sent[p] /\ Given(p) = sent[p] - 1
            /\ \A q \in Publisher : q # p => Given(q)' = Given(q)
        BY <3>1, <3>2, Typed DEF Given
      <4>4. CASE m = Data(p)
        BY <4>1, <4>3, <4>4 DEF Data
      <4>5. CASE m \in Stored
        <5>1. PICK q \in Publisher : \E j \in 1 .. Given(q) : m = Stream[q][j]
          BY <4>5, <1>0
        <5>2. PICK j \in 1 .. Given(q) : m = Stream[q][j]
          BY <5>1
        <5>3. j \in 1 .. Given(q)'
          <6>1. CASE q = p
            BY <5>2, <6>1, <4>1, <4>3
          <6>2. CASE q # p
            BY <5>2, <6>2, <4>3
          <6> QED BY <6>1, <6>2
        <5> QED BY <5>2, <5>3
      <4> QED BY <4>2, <4>4, <4>5
    <3>3. CASE /\ UNCHANGED stored
               /\ \/ ppc[p] = "lock" /\ ppc' = [ppc EXCEPT ![p] = "store"]
                  \/ ppc[p] = "broadcast" /\ ppc' = [ppc EXCEPT ![p] = "read"]
      <4>1. \A q \in Publisher : Given(q)' = Given(q)
        BY <3>1, <3>3, Typed DEF Given
      <4>2. Stored' = Stored
        BY <3>3, Typed DEF Stored
      <4> QED BY <4>1, <4>2, <1>0
    <3> QED BY <2>2, <3>2, <3>3, <1>1, PublishSteps
  <2> QED BY <2>1, <2>2
<1>2. ASSUME UNCHANGED <<stored, ppc, sent>>
      PROVE  \E q \in Publisher : \E j \in 1 .. Given(q)' : m = Stream[q][j]
  <2>1. Stored' = Stored /\ \A q \in Publisher : Given(q)' = Given(q)
    BY <1>2, Typed DEF Stored, Given
  <2> QED BY <2>1, <1>0
<1>3. ASSUME Construct, raced' = raced PROVE UNCHANGED <<stored, ppc, sent>>
  BY <1>3, CtorSteps DEF IndInv, CtorInv, pubVars
<1> QED
  BY <1>1, <1>2, <1>3, SubscribeFrame, TaskFrame
  DEF CalmNext, Next, vars, slotVars, pubVars

\* The mailbox of a topic: what its task has yet to handle.
Mailbox == [t \in Topic |-> IF hasData[t] /\ tpc[t] # "reset" THEN td[t] ELSE NoMsg]

\* What a step of the mailboxes is, in terms of the variables of this module.
LEMMA PutStep ==
  ASSUME NEW m \in Msg, m \notin Stored, TopicOf[m] \in Topic,
         Stored' = Stored \cup {m},
         Mailbox' = [Mailbox EXCEPT ![TopicOf[m]] = m], UNCHANGED handled
  PROVE  Mail!Next
<1>1. m \in Msg \ Stored /\ Msg \ Stored' = (Msg \ Stored) \ {m}
  OBVIOUS
<1>2. Mail!Put(m)
  BY <1>1 DEF Mail!Put, Stored, Mailbox
<1> QED BY <1>2 DEF Mail!Next

\* Every step of the service is one of the mailboxes, or none of their business.
LEMMA MailNext ==
  ASSUME IndInv, StoredInv, [CalmNext]_vars
  PROVE  [Mail!Next]_Mail!mailVars
<1> DEFINE Stutter == UNCHANGED <<Stored, Mailbox, handled>>
<1>0. /\ Mailbox \in [Topic -> Msg \cup {NoMsg}]
      /\ Mailbox' = [t \in Topic |-> IF hasData'[t] /\ tpc'[t] # "reset"
                                     THEN td'[t] ELSE NoMsg]
      /\ NoMsg \notin Msg /\ Topic' = Topic
      /\ UNCHANGED stored => UNCHANGED Stored
      /\ FlagInv
  BY Typed, TopicTasksAssumption DEF Mailbox, Stored, IndInv
<1>1. Stutter => UNCHANGED Mail!mailVars
  BY DEF Mail!mailVars, Stored, Mailbox
<1>2. UNCHANGED <<td, hasData, tpc>> => UNCHANGED Mailbox
  BY <1>0 DEF Mailbox
<1>3. ASSUME NEW p \in Publisher, Publish(p) PROVE Mail!Next \/ Stutter
  <2>1. UNCHANGED handled
    BY <1>3, PublishFrame DEF outVars
  <2>2. CASE ppc[p] = "read"
    BY <2>1, <2>2, <1>0, <1>2, <1>3, ReadStep
  <2>3. CASE ppc[p] # "read"
    <3> DEFINE t == TopicOf[Data(p)]  m == Data(p)
    <3>1. t \in Topic /\ m \in Msg
      BY <2>3, <1>3, PublishSteps
    <3>2. CASE UNCHANGED <<td, hasData, stored, tpc>>
      BY <3>2, <2>1, <1>0, <1>2
    <3>3. CASE /\ ppc[p] = "store" /\ td' = [td EXCEPT ![t] = m]
               /\ hasData' = [hasData EXCEPT ![t] = TRUE]
               /\ stored' = [stored EXCEPT ![t] = Append(@, m)] /\ UNCHANGED tpc
      <4>1. m \notin Stored /\ tpc[t] # "reset"
        BY <3>3, StoreIsNew, StoreAlone DEF Holding
      <4>2. Stored' = Stored \cup {m}
        BY <3>1, <3>3, StoreAdds
      <4>3. Mailbox' = [Mailbox EXCEPT ![t] = m]
        <5>1. Mailbox'[t] = m
          BY <3>1, <3>3, <4>1, <1>0, Typed
        <5>2. \A u \in Topic : u # t => Mailbox'[u] = Mailbox[u]
          BY <3>1, <3>3, <1>0, Typed DEF Mailbox
        <5> HIDE DEF t, m
        <5> QED BY <5>1, <5>2, <1>0, <3>1
      <4> QED BY <3>1, <4>1, <4>2, <4>3, <2>1, PutStep
    <3>4. CASE tpc' = [tpc EXCEPT ![t] = Woken(@)] /\ UNCHANGED <<td, hasData, stored>>
      <4>1. \A u \in Topic : tpc'[u] = "reset" <=> tpc[u] = "reset"
        BY <3>1, <3>4, Typed DEF Woken
      <4>2. Mailbox' = Mailbox
        BY <3>4, <4>1, <1>0 DEF Mailbox
      <4> QED BY <3>4, <4>2, <2>1, <1>0
    <3> QED BY <2>3, <1>3, <3>2, <3>3, <3>4, PublishSteps
  <2> QED BY <2>2, <2>3
<1>4. ASSUME NEW t \in Topic, Task(t) \/ SpuriousWakeup(t) PROVE Mail!Next \/ Stutter
  <2>1. UNCHANGED <<td, stored>>
    BY <1>4, TaskFrame
  <2>2. PICK w \in Holding \cup {"lock", "wait", "relock"} :
          /\ tpc' = [tpc EXCEPT ![t] = w]
          /\ \/ tpc[t] # "reset" /\ w # "reset" /\ UNCHANGED <<hasData, handled>>
             \/ /\ tpc[t] \in {"serve", "write"} /\ w = "reset"
                /\ handled' = [handled EXCEPT ![t] = Append(@, td[t])] /\ UNCHANGED hasData
             \/ /\ tpc[t] = "reset" /\ hasData' = [hasData EXCEPT ![t] = FALSE]
                /\ UNCHANGED handled
    BY <1>4, TaskSteps
  <2>3. /\ tpc'[t] = w /\ \A u \in Topic : u # t => tpc'[u] = tpc[u]
    BY <2>2, Typed
  <2>4. CASE tpc[t] # "reset" /\ w # "reset" /\ UNCHANGED <<hasData, handled>>
    <3>1. Mailbox' = Mailbox
      BY <2>1, <2>3, <2>4, <1>0 DEF Mailbox
    <3> QED BY <3>1, <2>1, <2>4, <1>0
  <2>5. CASE /\ tpc[t] \in {"serve", "write"} /\ w = "reset"
             /\ handled' = [handled EXCEPT ![t] = Append(@, td[t])] /\ UNCHANGED hasData
    <3>1. hasData[t] /\ td[t] \in Msg /\ Mailbox[t] = td[t] /\ Mailbox[t] # NoMsg
      BY <2>5, <1>0 DEF FlagInv, Serving, Mailbox
    <3>2. Mailbox' = [Mailbox EXCEPT ![t] = NoMsg]
      <4>1. Mailbox'[t] = NoMsg
        BY <2>3, <2>5, <1>0
      <4>2. \A u \in Topic : u # t => Mailbox'[u] = Mailbox[u]
        BY <2>1, <2>3, <2>5, <1>0 DEF Mailbox
      <4> QED BY <4>1, <4>2, <1>0
    <3>3. UNCHANGED Stored
      BY <2>1, <1>0
    <3>4. Mail!Handle(t)
      <4>1. handled' = [handled EXCEPT ![t] = Append(@, Mailbox[t])]
        BY <2>5, <3>1
      <4> QED BY <3>1, <3>2, <3>3, <4>1 DEF Mail!Handle, Stored, Mailbox
    <3> QED BY <3>4 DEF Mail!Next
  <2>6. CASE /\ tpc[t] = "reset" /\ hasData' = [hasData EXCEPT ![t] = FALSE]
             /\ UNCHANGED handled
    <3>1. hasData'[t] = FALSE /\ \A u \in Topic : u # t => hasData'[u] = hasData[u]
      BY <2>6, Typed
    <3>2. Mailbox' = Mailbox
      BY <2>1, <2>3, <2>6, <3>1, <1>0 DEF Mailbox
    <3> QED BY <3>2, <2>1, <2>6, <1>0
  <2> QED BY <2>2, <2>4, <2>5, <2>6
<1>5. ASSUME Construct, raced' = raced PROVE Stutter
  <2>1. /\ UNCHANGED <<td, stored, handled>> /\ ~ Running
        /\ UNCHANGED hasData \/ \E t \in Topic : hasData' = [hasData EXCEPT ![t] = FALSE]
    BY <1>5, CtorSteps DEF IndInv, CtorInv, outVars
  <2>2. \A t \in Topic : ~ hasData[t] /\ ~ hasData'[t]
    BY <2>1, Typed DEF IndInv, CtorInv
  <2>3. Mailbox' = Mailbox
    BY <2>2, <1>0 DEF Mailbox
  <2> QED BY <2>1, <2>3, <1>0
<1>6. ASSUME UNCHANGED <<td, hasData, tpc, stored, handled>> PROVE Stutter
  BY <1>0, <1>2, <1>6
<1> QED
  BY <1>1, <1>3, <1>4, <1>5, <1>6, SubscribeFrame
  DEF CalmNext, Next, vars, slotVars, taskVars, outVars

\* The service is one mailbox per topic with room for one message: a message is
\* handled at most once, by the task of its topic, and one that is not handled
\* was replaced by a later one.
THEOREM Refinement == CalmSpec => ImplementsLatestValue
<1>1. Init => Mail!Init /\ StoredInv
  <2> SUFFICES ASSUME Init PROVE Mail!Init /\ StoredInv
    OBVIOUS
  <2>1. Stored = {} /\ Mailbox = [t \in Topic |-> NoMsg] /\ handled = [t \in Topic |-> <<>>]
    BY DEF Init, Stored, Mailbox
  <2> QED BY <2>1 DEF Mail!Init, StoredInv, Stored, Mailbox
<1>2. IndInv /\ StoredInv /\ [CalmNext]_vars => StoredInv' /\ [Mail!Next]_Mail!mailVars
  BY StoredStep, MailNext
<1> QED
  BY <1>1, <1>2, Invariance, PTL
  DEF CalmSpec, CalmNext, ImplementsLatestValue, Mail!Spec

================================================================================
