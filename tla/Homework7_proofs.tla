--------------------------- MODULE Homework7_proofs ---------------------------
(***************************************************************************)
(* Proofs about homework 7: its event service, for every set of suppliers  *)
(* and events and every assignment of sources and time stamps, run as      *)
(* Service.cpp runs it, by one ORB thread; and the supplier threads of its *)
(* application, for any number of suppliers and whatever may fail.         *)
(***************************************************************************)
EXTENDS EdfFifoChannel, Suppliers, SequenceTheorems, TLAPS

-----------------------------------------------------------------------------
(* The inductive invariant.                                                *)

\* The constructor of the singleton runs once, and its worker does nothing
\* before that.
CtorInv ==
  /\ created \in {0, 1}
  /\ uniqueInstance = IF condReady THEN 1 ELSE 0
  /\ created = 0 <=> wpc = "none"
  /\ created = 1 /\ ~ condReady <=>
       \E t \in OrbThread : pc[t] \in {"initMutex", "initCond"}
  /\ condReady => created = 1

\* An event in the hands of the ORB thread is of a source push knows, and is
\* in no queue before it is put there; one in the queue or started is not to
\* come again.
PushInv ==
  /\ unsent \cap (EDFQ \cup Started) = {}
  /\ \A t \in OrbThread :
       /\ pushing[t] \in Event => Source[pushing[t]] \in KnownSource
       /\ pushing[t] \notin unsent
       /\ pc[t] \in {"lockEDFQ", "enqueue"} => pushing[t] \notin EDFQ \cup Started
  /\ \A e \in EDFQ : Source[e] \in KnownSource

\* The flag tells whether there is a result in FIFOQ.
FlagInv == FIFOQ_nonempty <=> FIFOQ # <<>>

IndInv ==
  OneOrbThread /\ TypeOK /\ CtorInv /\ PushInv /\ FlagInv /\ NoUnderflow

\* Initially the invariant holds.
LEMMA InitInd == OneOrbThread /\ Init => IndInv
<1> SUFFICES ASSUME OneOrbThread, Init PROVE IndInv
  OBVIOUS
<1> USE ThreadAssumption, EventAssumption DEF Init, SWInit
<1>1. TypeOK
  <2>1. /\ exited \in BOOLEAN /\ condReady \in BOOLEAN /\ raced \in BOOLEAN
        /\ uniqueInstance \in Nat /\ created \in Nat
        /\ workerObj \in [Supplier -> Nat] /\ arrived \in [Event -> Nat]
        /\ FIFOQ_nonempty \in BOOLEAN
    OBVIOUS
  <2>2. /\ mtx_workerObj \in OrbThread \cup {NoThread}
        /\ mtx_EDFQ \in OrbThread \cup {Worker, NoThread, Raw}
        /\ EDFQ \subseteq Event /\ unsent \subseteq Event
    OBVIOUS
  <2>3. ThreadTypeOK /\ pc \in [OrbThread -> {"idle"} \cup CtorPC \cup PushPC \cup DrainPC]
    BY DEF ThreadTypeOK, CtorPC, PushPC
  <2>4. /\ wpc \in WorkerPC /\ item \in Event \cup {NoEvent}
        /\ wpc = "work" <=> item \in Event
        /\ started \in Seq(Event)
    BY DEF WorkerPC
  <2>5. FIFOQ \in Seq(Event) /\ delivered \in Seq(Event)
    OBVIOUS
  <2>6. /\ ready_event \in [OrbThread -> Event \cup {NoEvent}]
        /\ \A t \in OrbThread : pc[t] = "deliver" <=> ready_event[t] \in Event
    OBVIOUS
  <2> QED BY <2>1, <2>2, <2>3, <2>4, <2>5, <2>6 DEF TypeOK
<1>2. CtorInv
  BY DEF CtorInv
<1>3. Started = {}
  BY DEF Started
<1>4. PushInv /\ FlagInv /\ NoUnderflow
  BY <1>3 DEF PushInv, FlagInv, NoUnderflow
<1> QED BY <1>1, <1>2, <1>4 DEF IndInv

-----------------------------------------------------------------------------
(* What the steps do.                                                      *)

\* The type invariant in two parts: where the ORB threads are and what they hold,
\* and all the rest.
ThreadType ==
  /\ pc \in [OrbThread -> {"idle"} \cup CtorPC \cup PushPC \cup DrainPC]
  /\ ThreadTypeOK
  /\ ready_event \in [OrbThread -> Event \cup {NoEvent}]
  /\ \A t \in OrbThread : pc[t] = "deliver" <=> ready_event[t] \in Event

DataType ==
  /\ exited \in BOOLEAN
  /\ uniqueInstance \in Nat /\ created \in Nat
  /\ workerObj \in [Supplier -> Nat]
  /\ mtx_workerObj \in OrbThread \cup {NoThread}
  /\ mtx_EDFQ \in OrbThread \cup {Worker, NoThread, Raw}
  /\ condReady \in BOOLEAN /\ raced \in BOOLEAN
  /\ EDFQ \subseteq Event /\ unsent \subseteq Event
  /\ wpc \in WorkerPC
  /\ item \in Event \cup {NoEvent}
  /\ wpc = "work" <=> item \in Event
  /\ started \in Seq(Event)
  /\ arrived \in [Event -> Nat]
  /\ FIFOQ \in Seq(Event) /\ FIFOQ_nonempty \in BOOLEAN
  /\ delivered \in Seq(Event)

LEMMA TypeParts ==
  (TypeOK <=> ThreadType /\ DataType) /\ (TypeOK' <=> ThreadType' /\ DataType')
BY DEF TypeOK, ThreadType, DataType

\* Every action leaves the ORB threads where their variables say.
LEMMA ThreadTypeStep ==
  ASSUME ThreadType, DataType, [Next]_vars PROVE ThreadType'
<1> USE EventAssumption
    DEF ThreadType, ThreadTypeOK, CtorPC, PushPC, DrainPC, ctorVars, fifoVars
<1>1. ASSUME UNCHANGED <<pc, making, pushing, ready_event>> PROVE ThreadType'
  BY <1>1
<1>2. ASSUME NEW t \in OrbThread, Construct(t), UNCHANGED fifoVars PROVE ThreadType'
  <2>1. CASE /\ pc[t] \in CtorPC /\ UNCHANGED <<making, pushing>>
             /\ \E next \in CtorPC : pc' = [pc EXCEPT ![t] = next]
    BY <1>2, <2>1
  <2>2. CASE UnlockWorkerObj(t)
    BY <1>2, <2>2 DEF UnlockWorkerObj
  <2> QED
    BY <1>2, <2>1, <2>2
    DEF Construct, LockWorkerObj, FindInstance, CreateWorker, InitMutex, InitCond
<1>3. ASSUME NEW t \in OrbThread, NEW s \in Supplier, BeginConstruct(t, s),
             UNCHANGED fifoVars
      PROVE  ThreadType'
  <2>1. /\ pc[t] = "idle" /\ pc' = [pc EXCEPT ![t] = "lockObj"]
        /\ making' = [making EXCEPT ![t] = s] /\ UNCHANGED <<pushing, ready_event>>
    BY <1>3 DEF BeginConstruct
  <2> QED BY <2>1
<1>4. ASSUME NEW t \in OrbThread, NEW e \in Event, BeginPush(t, e), UNCHANGED fifoVars
      PROVE  ThreadType'
  <2>1. /\ pc[t] = "idle" /\ pc' = [pc EXCEPT ![t] = "lockEDFQ"]
        /\ pushing' = [pushing EXCEPT ![t] = e] /\ UNCHANGED <<making, ready_event>>
    BY <1>4 DEF BeginPush
  <2> QED BY <2>1
<1>5. ASSUME NEW t \in OrbThread, NEW e \in Event, PushUnknown(t, e), UNCHANGED fifoVars
      PROVE  ThreadType'
  BY <1>1, <1>5 DEF PushUnknown
<1>6. ASSUME NEW t \in OrbThread, LockEDFQ(t) \/ Enqueue(t), UNCHANGED fifoVars
      PROVE  ThreadType'
  <2>1. /\ pc[t] \in PushPC /\ UNCHANGED <<making, pushing, ready_event>>
        /\ \E next \in PushPC : pc' = [pc EXCEPT ![t] = next]
    BY <1>6 DEF LockEDFQ, Enqueue
  <2> QED BY <2>1
<1>7. ASSUME NEW t \in OrbThread, FinishEnqueue(t) PROVE ThreadType'
  <2>1. /\ pc[t] = "unlockEDFQ" /\ pc' = [pc EXCEPT ![t] = "checkFIFOQ"]
        /\ pushing' = [pushing EXCEPT ![t] = NoEvent] /\ UNCHANGED <<making, ready_event>>
    BY <1>7 DEF FinishEnqueue, SignalAndUnlock
  <2> QED BY <2>1
<1>8. ASSUME NEW t \in OrbThread, CheckFIFOQ(t) PROVE ThreadType'
  <2>1. /\ pc[t] = "checkFIFOQ" /\ UNCHANGED <<making, pushing, ready_event>>
        /\ \E next \in {"popFIFOQ", "idle"} : pc' = [pc EXCEPT ![t] = next]
    BY <1>8 DEF CheckFIFOQ, DrainFrame
  <2> QED BY <2>1
<1>9. ASSUME NEW t \in OrbThread, PopFIFOQ(t) PROVE ThreadType'
  <2>1. /\ pc[t] = "popFIFOQ" /\ pc' = [pc EXCEPT ![t] = "deliver"]
        /\ ready_event' = [ready_event EXCEPT ![t] = Head(FIFOQ)]
        /\ UNCHANGED <<making, pushing>>
    BY <1>9 DEF PopFIFOQ, DrainFrame
  <2>2. Head(FIFOQ) \in Event
    BY <1>9, HeadTailProperties DEF PopFIFOQ, DataType
  <2> QED BY <2>1, <2>2
<1>10. ASSUME NEW t \in OrbThread, Deliver(t) PROVE ThreadType'
  <2>1. /\ pc[t] = "deliver" /\ pc' = [pc EXCEPT ![t] = "checkFIFOQ"]
        /\ ready_event' = [ready_event EXCEPT ![t] = NoEvent]
        /\ UNCHANGED <<making, pushing>>
    BY <1>10 DEF Deliver, DrainFrame
  <2> QED BY <2>1
<1>11. ASSUME WorkerStep \/ Spurious PROVE ThreadType'
  <2>1. UNCHANGED <<pc, making, pushing, ready_event>>
    BY <1>11
    DEF WorkerStep, WorkerFront, WorkerLock, WorkerHang, WorkerEmpty, WorkerWait,
        WorkerPop, Finish, WorkerDone, Spurious, SpuriousWakeup
  <2> QED BY <1>1, <2>1
<1>12. CASE UNCHANGED vars
  BY <1>1, <1>12 DEF vars, swVars
<1> QED
  BY <1>2, <1>3, <1>4, <1>5, <1>6, <1>7, <1>8, <1>9, <1>10, <1>11, <1>12
  DEF Next, Orb, Drain, Arrival

\* Every action keeps the other variables in their types.
LEMMA DataTypeStep ==
  ASSUME OneOrbThread, ThreadType, DataType, CtorInv, [Next]_vars PROVE DataType'
<1> USE ThreadAssumption, EventAssumption
    DEF DataType, WorkerPC, ctorVars, workerVars, histVars, fifoVars
<1>1. ASSUME NEW t \in OrbThread, Construct(t), UNCHANGED fifoVars PROVE DataType'
  <2>1. CASE LockWorkerObj(t)
    BY <1>1, <2>1 DEF LockWorkerObj, AcquireWorkerObj
  <2>2. CASE FindInstance(t)
    BY <1>1, <2>2 DEF FindInstance
  <2>3. CASE CreateWorker(t)
    <3>1. created = 0 /\ wpc = "none"
      BY <2>3 DEF CreateWorker, CtorInv, OneOrbThread
    <3> QED BY <1>1, <2>3, <3>1 DEF CreateWorker
  <2>4. CASE InitMutex(t)
    BY <1>1, <2>4 DEF InitMutex
  <2>5. CASE InitCond(t)
    BY <1>1, <2>5 DEF InitCond
  <2>6. CASE UnlockWorkerObj(t)
    BY <1>1, <2>6 DEF UnlockWorkerObj
  <2> QED BY <1>1, <2>1, <2>2, <2>3, <2>4, <2>5, <2>6 DEF Construct
<1>2. ASSUME NEW t \in OrbThread, Arrival(t) PROVE DataType'
  BY <1>2 DEF Arrival, BeginConstruct, BeginPush, PushUnknown
<1>3. ASSUME NEW t \in OrbThread, LockEDFQ(t), UNCHANGED fifoVars PROVE DataType'
  BY <1>3 DEF LockEDFQ, AcquireEDFQ
<1>4. ASSUME NEW t \in OrbThread, Enqueue(t), UNCHANGED fifoVars PROVE DataType'
  <2>1. pushing[t] \in Event /\ Len(started) \in Nat
    BY <1>4 DEF Enqueue, ThreadType, ThreadTypeOK, PushPC
  <2>2. EDFQ' \subseteq Event /\ arrived' \in [Event -> Nat]
    BY <1>4, <2>1 DEF Enqueue
  <2> QED BY <1>4, <2>2 DEF Enqueue
<1>5. ASSUME NEW t \in OrbThread, FinishEnqueue(t) PROVE DataType'
  BY <1>5 DEF FinishEnqueue, SignalAndUnlock, Signalled
<1>6. ASSUME NEW t \in OrbThread, CheckFIFOQ(t) PROVE DataType'
  BY <1>6 DEF CheckFIFOQ, DrainFrame
<1>7. ASSUME NEW t \in OrbThread, PopFIFOQ(t) PROVE DataType'
  <2>1. FIFOQ' \in Seq(Event) /\ FIFOQ_nonempty' \in BOOLEAN /\ delivered' = delivered
    BY <1>7, HeadTailProperties DEF PopFIFOQ, FlagAfterPop
  <2> QED BY <1>7, <2>1 DEF PopFIFOQ, DrainFrame
<1>8. ASSUME NEW t \in OrbThread, Deliver(t) PROVE DataType'
  <2>1. delivered' \in Seq(Event) /\ UNCHANGED <<FIFOQ, FIFOQ_nonempty>>
    BY <1>8, AppendProperties DEF Deliver, ThreadType
  <2> QED BY <1>8, <2>1 DEF Deliver, DrainFrame
<1>9. ASSUME WorkerStep \/ Spurious PROVE DataType'
  <2>1. CASE WorkerLock /\ UNCHANGED fifoVars
    BY <2>1 DEF WorkerLock
  <2>2. CASE (WorkerHang \/ WorkerEmpty \/ WorkerWait) /\ UNCHANGED fifoVars
    BY <2>2 DEF WorkerHang, WorkerEmpty, WorkerWait
  <2>3. CASE WorkerPop /\ UNCHANGED fifoVars
    <3>1. item' \in Event /\ EDFQ' \subseteq Event /\ started' \in Seq(Event)
      BY <2>3, AppendProperties DEF WorkerPop, Popped, Top
    <3> QED BY <2>3, <3>1 DEF WorkerPop
  <2>4. CASE Finish
    <3>1. FIFOQ' \in Seq(Event) /\ FIFOQ_nonempty' = TRUE /\ delivered' = delivered
      BY <2>4, AppendProperties DEF Finish, WorkerDone, Queued
    <3> QED BY <2>4, <3>1 DEF Finish, WorkerDone
  <2>5. CASE Spurious
    BY <2>5 DEF Spurious, SpuriousWakeup
  <2> QED BY <1>9, <2>1, <2>2, <2>3, <2>4, <2>5 DEF WorkerStep, WorkerFront
<1>10. CASE UNCHANGED vars
  BY <1>10 DEF vars, swVars
<1> QED
  BY <1>1, <1>2, <1>3, <1>4, <1>5, <1>6, <1>7, <1>8, <1>9, <1>10
  DEF Next, Orb, Drain

\* What the steps of the constructor do to the fields CtorInv speaks of.
LEMMA CtorSteps ==
  ASSUME NEW t \in OrbThread, Construct(t)
  PROVE  /\ UNCHANGED <<exited, EDFQ, unsent, pushing, item, started>>
         /\ \E next \in {"getInstance", "initMutex", "initCond", "unlockObj", "idle"} :
              pc' = [pc EXCEPT ![t] = next]
BY DEF Construct, LockWorkerObj, FindInstance, CreateWorker, InitMutex, InitCond,
       UnlockWorkerObj, histVars, workerVars

\* What the arrival of a supplier or of an event does.
LEMMA ArrivalSteps ==
  ASSUME NEW t \in OrbThread, Arrival(t)
  PROVE  /\ UNCHANGED <<uniqueInstance, created, condReady, wpc, EDFQ, item, started>>
         /\ UNCHANGED fifoVars
         /\ \/ UNCHANGED <<pushing, unsent, pc>>
            \/ pc[t] = "idle" /\ pc' = [pc EXCEPT ![t] = "lockObj"]
                 /\ UNCHANGED <<pushing, unsent>>
            \/ \E e \in unsent :
                 /\ Source[e] \in KnownSource
                 /\ pc[t] = "idle" /\ pc' = [pc EXCEPT ![t] = "lockEDFQ"]
                 /\ unsent' = unsent \ {e}
                 /\ pushing' = [pushing EXCEPT ![t] = e]
BY DEF Arrival, BeginConstruct, BeginPush, PushUnknown, ctorVars, workerVars, histVars

\* What the steps of push do, up to the unlocking of the EDF queue.
LEMMA PushSteps ==
  ASSUME NEW t \in OrbThread, LockEDFQ(t) \/ Enqueue(t) \/ FinishEnqueue(t)
  PROVE  /\ UNCHANGED <<uniqueInstance, created, condReady, unsent, item, started>>
         /\ \/ /\ pc[t] = "lockEDFQ" /\ pc' = [pc EXCEPT ![t] = "enqueue"]
               /\ UNCHANGED <<wpc, EDFQ, pushing>>
            \/ /\ pc[t] = "enqueue" /\ pc' = [pc EXCEPT ![t] = "unlockEDFQ"]
               /\ EDFQ' = EDFQ \cup {pushing[t]}
               /\ UNCHANGED <<wpc, pushing>>
            \/ /\ pc[t] = "unlockEDFQ" /\ pc' = [pc EXCEPT ![t] = "checkFIFOQ"]
               /\ wpc' = Signalled(wpc)
               /\ pushing' = [pushing EXCEPT ![t] = NoEvent]
               /\ UNCHANGED <<EDFQ, fifoVars>>
BY DEF LockEDFQ, Enqueue, FinishEnqueue, SignalAndUnlock, ctorVars, workerVars, histVars

\* What the steps of the drain loop do.
LEMMA DrainSteps ==
  ASSUME NEW t \in OrbThread, Drain(t)
  PROVE  /\ UNCHANGED <<uniqueInstance, created, condReady, wpc, EDFQ, unsent, pushing,
                        item, started>>
         /\ \/ /\ pc[t] = "checkFIFOQ" /\ UNCHANGED fifoVars
               /\ pc' = [pc EXCEPT ![t] = IF FIFOQ_nonempty THEN "popFIFOQ" ELSE "idle"]
            \/ /\ pc[t] = "popFIFOQ" /\ pc' = [pc EXCEPT ![t] = "deliver"]
               /\ FIFOQ # <<>> /\ FIFOQ' = Tail(FIFOQ)
               /\ FIFOQ_nonempty' = (IF FIFOQ' = <<>> THEN FALSE ELSE FIFOQ_nonempty)
               /\ ready_event' = [ready_event EXCEPT ![t] = Head(FIFOQ)]
               /\ UNCHANGED delivered
            \/ /\ pc[t] = "deliver" /\ pc' = [pc EXCEPT ![t] = "checkFIFOQ"]
               /\ delivered' = Append(delivered, ready_event[t])
               /\ ready_event' = [ready_event EXCEPT ![t] = NoEvent]
               /\ UNCHANGED <<FIFOQ, FIFOQ_nonempty>>
<1>1. CASE CheckFIFOQ(t)
  BY <1>1 DEF CheckFIFOQ, DrainFrame, ctorVars, workerVars, histVars
<1>2. CASE PopFIFOQ(t)
  BY <1>2 DEF PopFIFOQ, FlagAfterPop, DrainFrame, ctorVars, workerVars, histVars
<1>3. CASE Deliver(t)
  BY <1>3 DEF Deliver, DrainFrame, ctorVars, workerVars, histVars
<1> QED BY <1>1, <1>2, <1>3 DEF Drain

\* What the steps of the worker do.
LEMMA WorkerSteps ==
  ASSUME WorkerStep \/ Spurious
  PROVE  /\ UNCHANGED <<uniqueInstance, created, condReady, unsent, pc, pushing>>
         /\ wpc # "none" /\ wpc' # "none"
         /\ \/ UNCHANGED <<EDFQ, item, started, fifoVars>>
            \/ WorkerPop /\ UNCHANGED fifoVars
            \/ /\ wpc = "work" /\ item' = NoEvent
               /\ FIFOQ' = Append(FIFOQ, item) /\ FIFOQ_nonempty' = TRUE
               /\ UNCHANGED <<EDFQ, started, ready_event, delivered>>
<1>1. CASE WorkerFront /\ UNCHANGED fifoVars
  BY <1>1 DEF WorkerFront, WorkerLock, WorkerHang, WorkerEmpty, WorkerWait, WorkerPop,
              ctorVars, histVars
<1>2. CASE Finish
  BY <1>2 DEF Finish, Queued, WorkerDone, ctorVars, histVars
<1>3. CASE Spurious
  BY <1>3 DEF Spurious, SpuriousWakeup, ctorVars, histVars
<1> QED BY <1>1, <1>2, <1>3 DEF WorkerStep

\* What the worker takes: one of the earliest events of the queue.
LEMMA PopSteps ==
  ASSUME TypeOK, WorkerPop
  PROVE  \E e \in EDFQ : /\ EDFQ' = EDFQ \ {e} /\ item = NoEvent /\ item' = e
                         /\ \A f \in EDFQ : ~ myComparison(e, f)
                         /\ Started' = Started \cup {e}
<1>1. PICK e \in EDFQ : /\ EDFQ' = EDFQ \ {e} /\ item' = e
                        /\ started' = Append(started, e)
                        /\ \A f \in EDFQ : ~ myComparison(e, f)
  BY DEF WorkerPop, Popped, Top
<1>2. item = NoEvent /\ e \in Event /\ started \in Seq(Event)
  BY DEF TypeOK, WorkerPop
<1>3. /\ DOMAIN started = 1 .. Len(started) /\ Len(started) \in Nat
      /\ DOMAIN started' = 1 .. (Len(started) + 1)
      /\ \A k \in DOMAIN started : started'[k] = started[k]
      /\ started'[Len(started) + 1] = e
  BY <1>1, <1>2, AppendProperties
<1>4. Started' = Started \cup {e}
  BY <1>3 DEF Started
<1> QED BY <1>1, <1>2, <1>4

-----------------------------------------------------------------------------
(* The steps keep the invariant.                                           *)

\* The constructor runs once.
LEMMA CtorStep ==
  ASSUME OneOrbThread, TypeOK, CtorInv, [Next]_vars PROVE CtorInv'
<1>1. PICK o \in OrbThread : OrbThread = {o}
  BY DEF OneOrbThread
<1>2. pc \in [OrbThread -> {"idle"} \cup CtorPC \cup PushPC \cup DrainPC]
  BY DEF TypeOK
<1>3. ASSUME Construct(o) PROVE CtorInv'
  <2> USE <1>1, <1>2 DEF CtorInv, ctorVars, workerVars
  <2>1. CASE LockWorkerObj(o)
    BY <2>1 DEF LockWorkerObj
  <2>2. CASE FindInstance(o)
    BY <2>2 DEF FindInstance
  <2>3. CASE CreateWorker(o)
    BY <2>3 DEF CreateWorker
  <2>4. CASE InitMutex(o)
    BY <2>4 DEF InitMutex
  <2>5. CASE InitCond(o)
    BY <2>5 DEF InitCond
  <2>6. CASE UnlockWorkerObj(o)
    BY <2>6 DEF UnlockWorkerObj
  <2> QED BY <1>3, <2>1, <2>2, <2>3, <2>4, <2>5, <2>6 DEF Construct
<1>4. ASSUME Arrival(o) PROVE CtorInv'
  BY <1>1, <1>2, <1>4, ArrivalSteps DEF CtorInv
<1>5. ASSUME LockEDFQ(o) \/ Enqueue(o) \/ FinishEnqueue(o) PROVE CtorInv'
  BY <1>1, <1>2, <1>5, PushSteps DEF CtorInv, Signalled
<1>6. ASSUME Drain(o) PROVE CtorInv'
  BY <1>1, <1>2, <1>6, DrainSteps DEF CtorInv
<1>7. ASSUME WorkerStep \/ Spurious PROVE CtorInv'
  <2>1. /\ UNCHANGED <<uniqueInstance, created, condReady, pc>>
        /\ wpc # "none" /\ wpc' # "none"
    BY <1>7, WorkerSteps
  <2> QED BY <2>1 DEF CtorInv
<1>8. ASSUME UNCHANGED vars PROVE CtorInv'
  BY <1>8 DEF vars, swVars, ctorVars, workerVars, CtorInv
<1> QED BY <1>1, <1>3, <1>4, <1>5, <1>6, <1>7, <1>8 DEF Next, Orb

\* An event comes once, from a source push knows.
LEMMA PushStep ==
  ASSUME OneOrbThread, TypeOK, PushInv, [Next]_vars PROVE PushInv'
<1>1. PICK o \in OrbThread : OrbThread = {o}
  BY DEF OneOrbThread
<1>2. /\ pc \in [OrbThread -> {"idle"} \cup CtorPC \cup PushPC \cup DrainPC]
      /\ pushing \in [OrbThread -> Event \cup {NoEvent}]
      /\ pc[o] \in PushPC <=> pushing[o] \in Event
      /\ EDFQ \subseteq Event /\ unsent \subseteq Event /\ NoEvent \notin Event
  BY EventAssumption DEF TypeOK, ThreadTypeOK
<1>3. UNCHANGED started => Started' = Started
  BY DEF Started
<1> USE <1>1, <1>2 DEF PushInv
<1>4. ASSUME UNCHANGED <<EDFQ, unsent, pushing, started>>,
             \A t \in OrbThread : pc'[t] \in {"lockEDFQ", "enqueue"} =>
                                 pc[t] \in {"lockEDFQ", "enqueue"}
      PROVE  PushInv'
  BY <1>3, <1>4
<1>5. ASSUME Construct(o) PROVE PushInv'
  BY <1>4, <1>5, CtorSteps
<1>6. ASSUME Arrival(o) PROVE PushInv'
  BY <1>3, <1>4, <1>6, ArrivalSteps
<1>7. ASSUME LockEDFQ(o) \/ Enqueue(o) \/ FinishEnqueue(o) PROVE PushInv'
  BY <1>3, <1>7, PushSteps DEF PushPC
<1>8. ASSUME Drain(o) PROVE PushInv'
  BY <1>4, <1>8, DrainSteps
<1>9. ASSUME WorkerStep \/ Spurious PROVE PushInv'
  <2>1. CASE WorkerPop
    BY <1>9, <2>1, PopSteps, WorkerSteps
  <2> QED BY <1>3, <1>9, <2>1, WorkerSteps
<1>10. ASSUME UNCHANGED vars PROVE PushInv'
  BY <1>4, <1>10 DEF vars, swVars, histVars
<1> QED BY <1>5, <1>6, <1>7, <1>8, <1>9, <1>10 DEF Next, Orb

\* The flag follows FIFOQ, and nobody empties FIFOQ between the test of the loop
\* and the pop.
LEMMA DrainStep ==
  ASSUME OneOrbThread, TypeOK, FlagInv, NoUnderflow, [Next]_vars
  PROVE  FlagInv' /\ NoUnderflow'
<1>1. PICK o \in OrbThread : OrbThread = {o}
  BY DEF OneOrbThread
<1>2. /\ pc \in [OrbThread -> {"idle"} \cup CtorPC \cup PushPC \cup DrainPC]
      /\ FIFOQ \in Seq(Event) /\ FIFOQ_nonempty \in BOOLEAN
      /\ wpc = "work" <=> item \in Event
  BY DEF TypeOK
<1> USE <1>1, <1>2 DEF FlagInv, NoUnderflow
<1>3. ASSUME UNCHANGED fifoVars, pc'[o] = "popFIFOQ" => pc[o] = "popFIFOQ"
      PROVE  FlagInv' /\ NoUnderflow'
  BY <1>3 DEF fifoVars
<1>4. ASSUME Construct(o), UNCHANGED fifoVars PROVE FlagInv' /\ NoUnderflow'
  BY <1>3, <1>4, CtorSteps
<1>5. ASSUME Arrival(o) PROVE FlagInv' /\ NoUnderflow'
  BY <1>3, <1>5, ArrivalSteps
<1>6. ASSUME LockEDFQ(o) \/ Enqueue(o) \/ FinishEnqueue(o), UNCHANGED fifoVars
      PROVE  FlagInv' /\ NoUnderflow'
  BY <1>3, <1>6, PushSteps
<1>7. ASSUME Drain(o) PROVE FlagInv' /\ NoUnderflow'
  BY <1>7, DrainSteps DEF fifoVars
<1>8. ASSUME WorkerStep \/ Spurious PROVE FlagInv' /\ NoUnderflow'
  <2>1. CASE UNCHANGED fifoVars
    BY <1>3, <1>8, <2>1, WorkerSteps
  <2>2. CASE wpc = "work" /\ FIFOQ' = Append(FIFOQ, item) /\ FIFOQ_nonempty' = TRUE
    BY <2>2, AppendProperties
  <2> QED BY <1>8, <2>1, <2>2, WorkerSteps
<1>9. ASSUME UNCHANGED vars PROVE FlagInv' /\ NoUnderflow'
  BY <1>3, <1>9 DEF vars, swVars
<1> QED BY <1>4, <1>5, <1>6, <1>7, <1>8, <1>9 DEF Next, Orb, FinishEnqueue

\* The inductive invariant holds in every reachable state.
THEOREM Invariance == OneOrbThread /\ Spec => []IndInv
<1>1. OneOrbThread /\ Init => IndInv
  BY InitInd
<1>2. IndInv /\ [Next]_vars => IndInv'
  BY TypeParts, ThreadTypeStep, DataTypeStep, CtorStep, PushStep, DrainStep
  DEF IndInv, OneOrbThread
<1> QED BY <1>1, <1>2, PTL DEF Spec

\* With one ORB thread the drain loop never takes the front of an empty FIFOQ,
\* although it tests and pops in two critical sections.
THEOREM DrainSafe == OneOrbThread /\ Spec => []DrainInv
<1>1. IndInv => DrainInv
  BY DEF IndInv, DrainInv
<1> QED BY <1>1, Invariance, PTL

-----------------------------------------------------------------------------
(* The service implements EdfService.                                      *)

\* The results in the order of completion: those delivered, the one the ORB
\* thread holds, and those in FIFOQ.
Done(t) == delivered \o AsSequence(ready_event[t]) \o FIFOQ

\* Queueing a result adds it at the end of the results.
LEMMA DoneFinish ==
  ASSUME NEW S, NEW d \in Seq(S), NEW r \in Seq(S), NEW q \in Seq(S), NEW e \in S
  PROVE  d \o r \o Append(q, e) = Append(d \o r \o q, e)
<1>1. Append(q, e) = q \o <<e>> /\ <<e>> \in Seq(S)
  BY AppendIsConcat
<1>2. d \o r \in Seq(S) /\ d \o r \o q \in Seq(S)
  BY ConcatProperties
<1>3. d \o r \o (q \o <<e>>) = (d \o r \o q) \o <<e>>
  BY <1>1, <1>2, ConcatAssociative
<1>4. Append(d \o r \o q, e) = (d \o r \o q) \o <<e>>
  BY <1>2, AppendIsConcat
<1> QED BY <1>1, <1>3, <1>4

\* Taking the front of FIFOQ into the hand of the thread moves no result.
LEMMA DonePop ==
  ASSUME NEW S, NEW d \in Seq(S), NEW q \in Seq(S), q # <<>>
  PROVE  d \o <<Head(q)>> \o Tail(q) = d \o <<>> \o q
<1>1. /\ Head(q) \in S /\ Tail(q) \in Seq(S)
      /\ <<Head(q)>> \in Seq(S) /\ <<>> \in Seq(S)
  BY HeadTailProperties
<1>2. <<Head(q)>> \o Tail(q) = q
  BY <1>1
<1>3. d \o <<Head(q)>> \o Tail(q) = d \o (<<Head(q)>> \o Tail(q))
  BY <1>1, ConcatAssociative
<1>4. d \o <<>> = d
  BY ConcatEmptySeq
<1> QED BY <1>2, <1>3, <1>4

\* Nor does delivering what is in the hand.
LEMMA DoneDeliver ==
  ASSUME NEW S, NEW d \in Seq(S), NEW q \in Seq(S), NEW e \in S
  PROVE  Append(d, e) \o <<>> \o q = d \o <<e>> \o q
<1>1. Append(d, e) = d \o <<e>> /\ Append(d, e) \in Seq(S)
  BY AppendIsConcat, AppendProperties
<1>2. Append(d, e) \o <<>> = Append(d, e)
  BY <1>1, ConcatEmptySeq
<1> QED BY <1>1, <1>2

\* The deadline of an event of a source push knows is an integer.
LEMMA DeadlineType ==
  ASSUME NEW e \in Event, Source[e] \in KnownSource PROVE Deadline(e) \in Int
<1>1. Interval(Source[e]) \in Int
  BY DEF Interval, KnownSource
<1> QED BY <1>1, EventAssumption DEF Deadline

\* Every step is one of the abstract service, or none of its business.
LEMMA RefineStep == IndInv /\ [Next]_vars => [Edf!Next]_Edf!edfVars
<1> SUFFICES ASSUME IndInv, [Next]_vars PROVE [Edf!Next]_Edf!edfVars
  OBVIOUS
<1> DEFINE Key == [e \in Event |-> Deadline(e)]
<1>1. PICK o \in OrbThread : OrbThread = {o}
  BY DEF IndInv, OneOrbThread
<1>2. /\ OneThread = o
      /\ pushing \in [OrbThread -> Event \cup {NoEvent}] /\ NoEvent \notin Event
      /\ pc[o] \in PushPC <=> pushing[o] \in Event
      /\ pc[o] = "deliver" <=> ready_event[o] \in Event
      /\ ready_event \in [OrbThread -> Event \cup {NoEvent}]
      /\ delivered \in Seq(Event) /\ FIFOQ \in Seq(Event) /\ EDFQ \subseteq Event
      /\ wpc = "work" <=> item \in Event
      /\ TypeOK /\ PushInv
  BY <1>1, EventAssumption DEF OneThread, IndInv, TypeOK, ThreadTypeOK
<1>3. UNCHANGED started => Started' = Started
  BY DEF Started
<1>4. ASSUME UNCHANGED <<EDFQ, started, item>>, Done(o)' = Done(o)
      PROVE  UNCHANGED Edf!edfVars
  BY <1>2, <1>3, <1>4 DEF Edf!edfVars, Done
<1>5. UNCHANGED fifoVars => Done(o)' = Done(o)
  BY DEF Done, fifoVars
<1>6. ASSUME Construct(o), UNCHANGED fifoVars PROVE UNCHANGED Edf!edfVars
  BY <1>4, <1>5, <1>6, CtorSteps
<1>7. ASSUME Arrival(o) PROVE UNCHANGED Edf!edfVars
  BY <1>4, <1>5, <1>7, ArrivalSteps
<1>8. ASSUME LockEDFQ(o) \/ FinishEnqueue(o), UNCHANGED fifoVars
      PROVE  UNCHANGED Edf!edfVars
  BY <1>4, <1>5, <1>8
  DEF LockEDFQ, FinishEnqueue, SignalAndUnlock, workerVars, histVars
<1>9. ASSUME Enqueue(o), UNCHANGED fifoVars PROVE Edf!Next
  <2>1. pushing[o] \in Event /\ pushing[o] \notin EDFQ \cup Started
    BY <1>2, <1>9 DEF Enqueue, PushPC, PushInv
  <2>2. EDFQ' = EDFQ \cup {pushing[o]} /\ UNCHANGED <<started, item>>
    BY <1>9 DEF Enqueue, workerVars
  <2>3. Edf!Accept(pushing[o])
    BY <2>1, <2>2, <1>2, <1>3, <1>5, <1>9 DEF Edf!Accept, Done
  <2> QED BY <2>1, <2>3 DEF Edf!Next
<1>10. ASSUME Drain(o) PROVE UNCHANGED Edf!edfVars
  <2>1. UNCHANGED <<EDFQ, started, item>>
    BY <1>10, DrainSteps
  <2>2. CASE UNCHANGED fifoVars
    BY <2>1, <2>2, <1>4, <1>5
  <2>3. CASE /\ pc[o] = "popFIFOQ" /\ FIFOQ # <<>> /\ FIFOQ' = Tail(FIFOQ)
             /\ ready_event' = [ready_event EXCEPT ![o] = Head(FIFOQ)]
             /\ UNCHANGED delivered
    <3>1. Head(FIFOQ) \in Event
      BY <2>3, <1>2, HeadTailProperties
    <3>2. /\ AsSequence(ready_event[o]) = <<>>
          /\ AsSequence(ready_event'[o]) = <<Head(FIFOQ)>>
      BY <2>3, <3>1, <1>2 DEF AsSequence
    <3>3. Done(o)' = Done(o)
      BY <2>3, <3>2, <1>2, DonePop DEF Done
    <3> QED BY <2>1, <3>3, <1>4
  <2>4. CASE /\ pc[o] = "deliver" /\ delivered' = Append(delivered, ready_event[o])
             /\ ready_event' = [ready_event EXCEPT ![o] = NoEvent]
             /\ UNCHANGED FIFOQ
    <3>1. /\ AsSequence(ready_event[o]) = <<ready_event[o]>>
          /\ AsSequence(ready_event'[o]) = <<>> /\ ready_event[o] \in Event
      BY <2>4, <1>2 DEF AsSequence
    <3>2. Done(o)' = Done(o)
      BY <2>4, <3>1, <1>2, DoneDeliver DEF Done
    <3> QED BY <2>1, <3>2, <1>4
  <2> QED BY <2>2, <2>3, <2>4, <1>10, DrainSteps
<1>11. ASSUME WorkerPop, UNCHANGED fifoVars PROVE Edf!Next
  <2>1. PICK e \in EDFQ : /\ EDFQ' = EDFQ \ {e} /\ item = NoEvent /\ item' = e
                          /\ \A f \in EDFQ : ~ myComparison(e, f)
                          /\ Started' = Started \cup {e}
    BY <1>2, <1>11, PopSteps
  <2>2. \A f \in EDFQ : Deadline(f) \in Int
    BY <1>2, DeadlineType DEF PushInv
  <2>3. \A f \in EDFQ : Key[e] <= Key[f]
    BY <2>1, <2>2, <1>2 DEF myComparison
  <2>4. Event \ (EDFQ' \cup Started') = Event \ (EDFQ \cup Started)
    BY <2>1
  <2>5. Edf!Start(e)
    BY <1>2, <1>5, <1>11, <2>1, <2>3, <2>4 DEF Edf!Start, Done
  <2> QED BY <1>2, <2>1, <2>5 DEF Edf!Next
<1>12. ASSUME wpc = "work", item' = NoEvent, FIFOQ' = Append(FIFOQ, item),
              UNCHANGED <<EDFQ, started, ready_event, delivered>>
       PROVE  Edf!Next
  <2>1. AsSequence(ready_event[o]) \in Seq(Event)
    BY <1>2 DEF AsSequence
  <2>2. Done(o)' = Append(Done(o), item)
    BY <1>2, <1>12, <2>1, DoneFinish DEF Done
  <2>3. Edf!Finish
    BY <1>2, <1>3, <1>12, <2>2 DEF Edf!Finish, Done
  <2> QED BY <2>3 DEF Edf!Next
<1>13. ASSUME WorkerStep \/ Spurious PROVE [Edf!Next]_Edf!edfVars
  BY <1>4, <1>5, <1>11, <1>12, <1>13, WorkerSteps
<1>14. ASSUME UNCHANGED vars PROVE UNCHANGED Edf!edfVars
  BY <1>4, <1>5, <1>14 DEF vars, swVars, histVars, workerVars
<1> QED
  BY <1>1, <1>6, <1>7, <1>8, <1>9, <1>10, <1>13, <1>14
  DEF Next, Orb, FinishEnqueue

\* With one ORB thread, the two queues of homework 7 are one non-preemptive EDF
\* server: results leave in the order the worker finished them.
THEOREM Refinement == OneOrbThread /\ Spec => ImplementsEdf
<1>1. OneOrbThread /\ Init => Edf!Init
  <2> SUFFICES ASSUME OneOrbThread, Init PROVE Edf!Init
    OBVIOUS
  <2>1. /\ EDFQ = {} /\ item = NoEvent /\ delivered = <<>> /\ FIFOQ = <<>>
        /\ Started = {} /\ OneThread \in OrbThread
    BY DEF Init, SWInit, Started, OneOrbThread, OneThread
  <2>2. ready_event[OneThread] = NoEvent
    BY <2>1 DEF Init
  <2> QED BY <2>1, <2>2 DEF Edf!Init, AsSequence
<1>2. IndInv /\ [Next]_vars => [Edf!Next]_Edf!edfVars
  BY RefineStep
<1> QED BY <1>1, <1>2, Invariance, PTL DEF Spec, ImplementsEdf, Edf!Spec

-----------------------------------------------------------------------------
(* The application: its supplier threads.  It shares no variable with the  *)
(* service.                                                                *)

\* However long the sleep of main is: only threads whose turn has come exist, and
\* the argument they share is never that of a turn before their own.
ArgumentInv ==
  /\ main = "create" => \A t \in SupplierId : at[t] # "none" => t <= pack /\ pack < i
  /\ main = "sleep" => pack = i /\ \A t \in SupplierId : at[t] # "none" => t <= i
  /\ main \in {"timers", "join", "returned"} => pack = N - 1
  /\ OwnOrLater

\* What a thread has done before main goes on, if main has not rushed.
Settled == {"none", "pause", "ended"}

\* How far the threads are at each place of main: only the thread of the turn
\* is on its way, and nobody pushes before the timers are armed.
TurnInv ==
  /\ main = "create" => \A t \in SupplierId : IF t < i THEN at[t] \in Settled
                                              ELSE at[t] = "none"
  /\ main = "sleep" =>
       \A t \in SupplierId : /\ t < i => at[t] \in Settled
                             /\ t > i => at[t] = "none"
                             /\ at[t] # "push"
  /\ main \in {"timers", "join", "returned"} =>
       \A t \in SupplierId : at[t] \in Settled \cup {"push"}
  /\ main = "join" => \A t \in SupplierId : t < i => at[t] = "ended"

\* A signal is pending only for a thread that may be signalled, and not before
\* there are timers.
HupInv ==
  /\ hup # {} => main \in {"timers", "join", "returned"}
  /\ \A t \in hup : at[t] \in {"pause", "push"}

\* A thread that is set up, or was, has installed the handler.
ThreadInv ==
  \A t \in SupplierId : at[t] \in {"setup", "pause", "push", "ended"} => handler

\* The process was ended only by a thread that is not there.
KilledInv == killed => \E t \in SupplierId : at[t] \in {"none", "ended"}

TimelyInv == TurnInv /\ HupInv /\ ThreadInv /\ KilledInv

AppInv == AppTypeOK /\ ArgumentInv /\ (~ rushed => TimelyInv)

-----------------------------------------------------------------------------
LEMMA AppInitHolds == AppInit => AppInv
<1> SUFFICES ASSUME AppInit PROVE AppInv
  OBVIOUS
<1> USE SuppliersAssumption DEF AppInit, SupplierId
<1>1. AppTypeOK
  <2>1. N \in Nat \ {0} /\ i \in SupplierId /\ pack \in 0 .. N /\ heard \in 0 .. N
    OBVIOUS
  <2>2. id \in [SupplierId -> 0 .. N]
    OBVIOUS
  <2>3. at \in [SupplierId -> {"none", "start", "sigaction", "setup", "pause",
                            "push", "ended"}]
    OBVIOUS
  <2> QED
    BY <2>1, <2>2, <2>3 DEF AppTypeOK
<1>2. ArgumentInv
  BY DEF ArgumentInv, OwnOrLater
<1>3. TimelyInv
  BY DEF TimelyInv, TurnInv, HupInv, ThreadInv, Settled, KilledInv
<1> QED
  BY <1>1, <1>2, <1>3 DEF AppInv

\* Every step keeps every variable in its type.
LEMMA AppTypeStep == AppTypeOK /\ [AppNext]_appVars => AppTypeOK'
<1> SUFFICES ASSUME AppTypeOK, [AppNext]_appVars PROVE AppTypeOK'
  OBVIOUS
<1> USE SuppliersAssumption DEF AppTypeOK, SupplierId
<1>1. CASE Service_main \/ Consumer_run \/ handle_sigint
  BY <1>1 DEF Service_main, Consumer_run, handle_sigint, mainVars, eventVars
<1>2. CASE CreateThread
  BY <1>2 DEF CreateThread, Argument, processVars, eventVars
<1>3. CASE WakeUp
  BY <1>3 DEF WakeUp, NextTurn, PastAll, processVars, eventVars
<1>4. CASE set_timer
  BY <1>4 DEF set_timer, NextTurn, PastAll, processVars, eventVars
<1>5. CASE JoinThread
  <2>1. CASE at[i] = "none"
    BY <1>5, <2>1 DEF JoinThread, processVars, eventVars
  <2>2. CASE at[i] # "none"
    BY <1>5, <2>2 DEF JoinThread, NextTurn, PastAll, processVars, eventVars
  <2> QED
    BY <2>1, <2>2
<1>6. ASSUME NEW s \in SupplierId, Consumer_push(s) PROVE AppTypeOK'
  BY <1>6 DEF Consumer_push, processVars, mainVars
<1>7. ASSUME NEW s \in SupplierId, handle_timeout(s) PROVE AppTypeOK'
  BY <1>7 DEF handle_timeout, SignalledThread, processVars, mainVars, eventVars
<1>8. ASSUME NEW t \in SupplierId, handle_sighup(t) PROVE AppTypeOK'
  BY <1>8 DEF handle_sighup, processVars, mainVars, eventVars
<1>9. ASSUME NEW t \in SupplierId, Thread(t) PROVE AppTypeOK'
  <2>1. CASE ReadPack(t)
    <3>1. PICK k \in Readable : /\ id' = [id EXCEPT ![t] = k]
                                /\ killed' \in IF k = N THEN BOOLEAN ELSE {FALSE}
      BY <2>1 DEF ReadPack
    <3>2. k \in 0 .. N
      BY <3>1 DEF Readable
    <3> QED
      BY <2>1, <3>1, <3>2 DEF ReadPack, processVars, mainVars, eventVars
  <2>2. CASE InstallHandler(t)
    BY <2>2 DEF InstallHandler, HandlerSet, processVars, mainVars, eventVars
  <2>3. CASE SetUp(t)
    BY <2>3 DEF SetUp, processVars, mainVars, eventVars
  <2>4. CASE Push(t)
    BY <2>4 DEF Push, mainVars
  <2> QED
    BY <1>9, <2>1, <2>2, <2>3, <2>4 DEF Thread
<1>10. CASE UNCHANGED appVars
  BY <1>10 DEF appVars, processVars, mainVars, eventVars
<1> QED
  BY <1>1, <1>2, <1>3, <1>4, <1>5, <1>6, <1>7, <1>8, <1>9, <1>10 DEF AppNext, Main

\* The ids the threads have read, and the argument they will read.
LEMMA ArgumentStep ==
  ASSUME AppTypeOK, ArgumentInv, [AppNext]_appVars PROVE ArgumentInv'
<1>0. N \in Nat \ {0}
  BY SuppliersAssumption
<1> USE <1>0 DEF AppTypeOK, ArgumentInv, OwnOrLater, SupplierId
<1>1. ASSUME UNCHANGED <<mainVars, id>>,
             \A t \in SupplierId : at'[t] # "none" => at[t] # "none"
      PROVE  ArgumentInv'
  BY <1>1 DEF mainVars
<1>2. CASE CreateThread
  <2>1. /\ main = "create" /\ main' = "sleep" /\ pack' = i /\ i' = i /\ id' = id
        /\ \A t \in SupplierId : t # i => at'[t] = at[t]
    BY <1>2 DEF CreateThread, Argument
  <2>2. \A t \in SupplierId : at'[t] # "none" => t <= i
    BY <2>1
  <2>3. OwnOrLater'
    BY <2>1
  <2> QED
    BY <2>1, <2>2, <2>3
<1>3. CASE WakeUp
  BY <1>3 DEF WakeUp, NextTurn, PastAll
<1>4. CASE set_timer
  BY <1>4 DEF set_timer, NextTurn, PastAll
<1>5. CASE JoinThread
  BY <1>5 DEF JoinThread, NextTurn, PastAll
<1>6. ASSUME NEW t \in SupplierId, ReadPack(t) PROVE ArgumentInv'
  <2>1. /\ at[t] = "start" /\ UNCHANGED <<main, i, pack>>
        /\ at' = [at EXCEPT ![t] = "sigaction"]
    BY <1>6 DEF ReadPack, mainVars
  <2>2. PICK k \in Readable : id' = [id EXCEPT ![t] = k]
    BY <1>6 DEF ReadPack
  <2>3. \A u \in SupplierId : at'[u] # "none" => at[u] # "none"
    BY <2>1
  <2>4. k # N => k = pack
    BY <2>2 DEF Readable
  <2>5. t <= pack /\ (main \in {"create", "sleep"} => pack <= i)
    BY <2>1
  <2>6. OwnOrLater'
    BY <2>1, <2>2, <2>4, <2>5
  <2> QED
    BY <2>1, <2>3, <2>6
<1>7. ASSUME NEW t \in SupplierId, ~ ReadPack(t), Thread(t) PROVE ArgumentInv'
  BY <1>1, <1>7 DEF Thread, InstallHandler, SetUp, Push
<1>8. ASSUME NEW t \in SupplierId, Consumer_push(t) \/ handle_timeout(t) \/ handle_sighup(t)
      PROVE  ArgumentInv'
  BY <1>1, <1>8 DEF Consumer_push, handle_timeout, handle_sighup
<1>9. CASE Service_main \/ Consumer_run \/ handle_sigint
  BY <1>1, <1>9 DEF Service_main, Consumer_run, handle_sigint
<1>10. CASE UNCHANGED appVars
  BY <1>1, <1>10 DEF appVars
<1> QED
  BY <1>2, <1>3, <1>4, <1>5, <1>6, <1>7, <1>8, <1>9, <1>10 DEF AppNext, Main

\* While main has not rushed: its steps, and those of the other processes.
LEMMA MainStep ==
  ASSUME ~ rushed', AppTypeOK, TimelyInv,
         Main \/ Service_main \/ Consumer_run \/ handle_sigint
  PROVE  TimelyInv'
<1>0. N \in Nat \ {0}
  BY SuppliersAssumption
<1> USE <1>0 DEF TimelyInv, AppTypeOK, TurnInv, HupInv, ThreadInv, KilledInv,
        SupplierId, Settled, Live, processVars, mainVars, eventVars
<1>1. CASE Service_main \/ Consumer_run \/ handle_sigint
  <2>1. UNCHANGED <<main, i, pack, at, id, handler, hup, killed>>
    BY <1>1 DEF Service_main, Consumer_run, handle_sigint
  <2> QED
    BY <2>1
<1>2. CASE CreateThread
  BY <1>2 DEF CreateThread
<1>3. CASE WakeUp
  <2>1. /\ main = "sleep" /\ UNCHANGED <<at, handler, hup, killed>>
        /\ i' = IF i + 1 = N THEN 0 ELSE i + 1
        /\ main' = IF i + 1 = N THEN "timers" ELSE "create"
    BY <1>3 DEF WakeUp, NextTurn, PastAll
  <2>2. at[i] \in Settled
    <3>1. at[i] \notin {"start", "sigaction", "setup"}
      BY <1>3 DEF WakeUp
    <3> QED
      BY <2>1, <3>1
  <2> QED
    BY <2>1, <2>2
<1>4. CASE set_timer
  BY <1>4 DEF set_timer, NextTurn, PastAll
<1>5. CASE JoinThread
  BY <1>5 DEF JoinThread, NextTurn, PastAll
<1> QED
  BY <1>1, <1>2, <1>3, <1>4, <1>5 DEF Main

\* The steps of one supplier: its timer, its signal, its thread, its events.
LEMMA SupplierStep ==
  ASSUME AppTypeOK, ArgumentInv, TimelyInv, NEW t \in SupplierId,
         Consumer_push(t) \/ handle_timeout(t) \/ handle_sighup(t) \/ Thread(t)
  PROVE  TimelyInv'
<1>0. N \in Nat \ {0}
  BY SuppliersAssumption
<1> USE <1>0 DEF TimelyInv, AppTypeOK, TurnInv, HupInv, ThreadInv, KilledInv,
        SupplierId, Settled, Live, processVars, mainVars, eventVars
<1>1. CASE Consumer_push(t)
  BY <1>1 DEF Consumer_push
<1>2. CASE handle_timeout(t)
  <2>1. UNCHANGED <<main, i, pack, at, id, handler>>
    BY <1>2 DEF handle_timeout
  <2>2. CASE at[t] = "none" \/ (main = "join" /\ t < i)
    <3>1. UNCHANGED hup
      BY <1>2, <2>2 DEF handle_timeout, SignalledThread
    <3>2. at[t] \in {"none", "ended"}
      BY <2>2
    <3> QED
      BY <2>1, <3>1, <3>2
  <2>3. CASE at[t] # "none" /\ ~ (main = "join" /\ t < i)
    <3>1. /\ UNCHANGED killed /\ main \in {"join", "timers"}
          /\ hup' = IF at[t] = "ended" THEN hup ELSE hup \cup {t}
      BY <1>2, <2>3 DEF handle_timeout, SignalledThread, Armed
    <3>2. at[t] \in {"pause", "push", "ended"}
      BY <2>3, <3>1
    <3> QED
      BY <2>1, <3>1, <3>2
  <2> QED
    BY <2>2, <2>3
<1>3. CASE handle_sighup(t)
  BY <1>3 DEF handle_sighup
<1>4. CASE ReadPack(t)
  <2>1. /\ at[t] = "start" /\ at' = [at EXCEPT ![t] = "sigaction"]
        /\ UNCHANGED <<main, i, handler, hup>>
    BY <1>4 DEF ReadPack
  <2>2. main = "sleep" /\ ~ killed
    BY <1>4 DEF ReadPack
  <2>3. ~ killed'
    <3>1. pack # N
      BY <2>2 DEF ArgumentInv
    <3> QED
      BY <1>4, <2>2, <3>1 DEF ReadPack, Readable
  <2> QED
    BY <2>1, <2>2, <2>3
<1>5. CASE InstallHandler(t)
  BY <1>5 DEF InstallHandler, HandlerSet
<1>6. CASE SetUp(t)
  BY <1>6 DEF SetUp
<1>7. CASE Push(t)
  BY <1>7 DEF Push
<1> QED
  BY <1>1, <1>2, <1>3, <1>4, <1>5, <1>6, <1>7 DEF Thread

\* What main has once rushed remains so.
LEMMA NeverUnrushed ==
  ASSUME AppTypeOK, [AppNext]_appVars PROVE rushed => rushed'
BY DEF AppTypeOK, AppNext, appVars, mainVars, Main, Thread, Service_main, Consumer_run,
  handle_sigint, Consumer_push, CreateThread, WakeUp, set_timer, JoinThread,
  handle_timeout, ReadPack, InstallHandler, SetUp, handle_sighup, Push

\* The conjunction is inductive.
LEMMA AppStepHolds == AppInv /\ [AppNext]_appVars => AppInv'
<1> SUFFICES ASSUME AppInv, [AppNext]_appVars PROVE AppInv'
  OBVIOUS
<1>1. AppTypeOK' /\ ArgumentInv'
  BY AppTypeStep, ArgumentStep DEF AppInv
<1>2. ASSUME ~ rushed' PROVE TimelyInv'
  <2>1. ~ rushed
    BY <1>2, NeverUnrushed DEF AppInv
  <2>0. TimelyInv
    BY <2>1 DEF AppInv
  <2>2. CASE AppNext
    BY <1>2, <2>0, <2>2, MainStep, SupplierStep DEF AppNext, AppInv
  <2>3. CASE UNCHANGED appVars
    BY <2>0, <2>3 DEF appVars, processVars, mainVars, eventVars, TimelyInv, TurnInv,
       HupInv, ThreadInv, KilledInv, Settled
  <2> QED
    BY <2>2, <2>3
<1> QED
  BY <1>1, <1>2 DEF AppInv

-----------------------------------------------------------------------------
LEMMA AppInvariance == AppSpec => []AppInv
BY AppInitHolds, AppStepHolds, PTL DEF AppSpec

\* However long the sleep of main (Supplier.cpp:146) is, a supplier thread that
\* reads the argument it shares (142) gets no id of an earlier turn, nor of one that
\* has not come.
THEOREM OwnIdOrLater == AppSpec => []StartInv
<1>1. AppInv => StartInv
  BY DEF AppInv, ArgumentInv, StartInv
<1> QED
  BY <1>1, AppInvariance, PTL

\* Unless the sleep was too short, SIGHUP never has its default action: the handler
\* is installed before any timer is armed.
THEOREM SignalsHandled == AppSpec => []KilledOnlyByBadThread
<1>1. AppInv => KilledOnlyByBadThread
  BY DEF AppInv, TimelyInv, KilledInv, KilledOnlyByBadThread
<1> QED
  BY <1>1, AppInvariance, PTL

===============================================================================
