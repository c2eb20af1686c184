--------------------------- MODULE EdfChannel_proofs ---------------------------
(***************************************************************************)
(* Proofs about the event service of homework 8, for every set of ORB      *)
(* threads, suppliers and events, and every assignment of sources and time *)
(* stamps.                                                                 *)
(***************************************************************************)
EXTENDS EdfChannel, TLAPS

-----------------------------------------------------------------------------
(* The inductive invariant.                                                *)

\* The critical section of mtx_workerObj.
CtorHeld == {"getInstance", "initMutex", "initCond", "unlockObj"}

\* The constructor of the singleton runs once, under mtx_workerObj, and no
\* proxy is handed out before it is over.
CtorInv ==
  /\ created \in {0, 1}
  /\ uniqueInstance = IF condReady THEN 1 ELSE 0
  /\ \A t \in OrbThread :
       /\ pc[t] \in CtorHeld <=> mtx_workerObj = t
       /\ pc[t] \in {"initMutex", "initCond"} => created = 1 /\ ~ condReady
       /\ pc[t] \in {"unlockObj"} \cup PushPC => condReady
  /\ \A s \in Supplier : workerObj[s] \in {0, uniqueInstance}
  /\ condReady => created = 1
  /\ created = 1 /\ ~ condReady =>
       \E t \in OrbThread : pc[t] \in {"initMutex", "initCond"}
  /\ created = 0 <=> wpc = "none"

\* The mutex of the EDF queue, as long as the worker has not used it raw.
LockInv ==
  /\ condReady => mtx_EDFQ # Raw
  /\ mtx_EDFQ = Raw => \A t \in OrbThread : pc[t] # "initCond"
  /\ \A t \in OrbThread : mtx_EDFQ = t => condReady
  /\ ~ raced =>
       /\ ~ condReady => wpc \in {"none", "lock"}
       /\ wpc = "block" => EDFQ = {}

\* Where each event is: no two threads push the same event, and a thread that
\* has enqueued its event has not yet let go of it.
PushInv ==
  /\ \A t, u \in OrbThread : pushing[t] \in Event /\ pushing[t] = pushing[u]
                               => t = u
  /\ \A t \in OrbThread : pc[t] \in {"lockEDFQ", "enqueue"} =>
       pushing[t] \notin unsent \cup EDFQ \cup Started
  /\ \A t \in OrbThread : pc[t] = "unlockEDFQ" =>
       pushing[t] \in EDFQ \cup Started

\* Only events of the sources push knows get into the queue.
KnownInv == \A e \in InPush \cup EDFQ \cup Started : Source[e] \in KnownSource

\* An event entered the queue before anything the worker took later.
HistInv ==
  /\ \A e \in EDFQ : arrived[e] \in 0 .. Len(started)
  /\ \A i \in DOMAIN started : arrived[started[i]] \in 0 .. (i - 1)
  /\ started = IF item = NoEvent THEN delivered ELSE Append(delivered, item)

IndInv ==
  /\ TypeOK /\ CtorInv /\ LockInv /\ EDFQExclusion /\ NoLostWakeup
  /\ PushInv /\ KnownInv /\ EventsConserved /\ HistInv /\ EarliestFirst

\* Initially every variable is in its type.
LEMMA InitType == Init => TypeOK
<1> SUFFICES ASSUME Init PROVE TypeOK
  OBVIOUS
<1> USE ThreadAssumption, EventAssumption DEF Init, SWInit, CtorPC, PushPC, WorkerPC
<1>1. /\ exited \in BOOLEAN /\ condReady \in BOOLEAN /\ raced \in BOOLEAN
      /\ uniqueInstance \in Nat /\ created \in Nat
  OBVIOUS
<1>2. workerObj \in [Supplier -> Nat] /\ arrived \in [Event -> Nat]
  OBVIOUS
<1>3. /\ mtx_workerObj \in OrbThread \cup {NoThread}
      /\ mtx_EDFQ \in OrbThread \cup {Worker, NoThread, Raw}
      /\ EDFQ \subseteq Event /\ unsent \subseteq Event
  OBVIOUS
<1>4. ThreadTypeOK /\ pc \in [OrbThread -> {"idle"} \cup CtorPC \cup PushPC]
  BY DEF ThreadTypeOK
<1>5. /\ wpc \in WorkerPC /\ item \in Event \cup {NoEvent}
      /\ wpc = "work" <=> item \in Event
      /\ started \in Seq(Event) /\ delivered \in Seq(Event)
  OBVIOUS
<1> QED BY <1>1, <1>2, <1>3, <1>4, <1>5 DEF TypeOK

\* Every action keeps every variable in its type.
LEMMA TypeStep == TypeOK /\ CtorInv /\ [Next]_vars => TypeOK'
<1> SUFFICES ASSUME TypeOK, CtorInv, [Next]_vars PROVE TypeOK'
  OBVIOUS
<1> USE ThreadAssumption, EventAssumption
    DEF TypeOK, ThreadTypeOK, CtorPC, PushPC, WorkerPC,
        ctorVars, workerVars, histVars, CtorInv, CtorHeld
<1>1. ASSUME NEW t \in OrbThread, LockWorkerObj(t), UNCHANGED delivered PROVE TypeOK'
  BY <1>1 DEF LockWorkerObj, AcquireWorkerObj
<1>2. ASSUME NEW t \in OrbThread, FindInstance(t), UNCHANGED delivered PROVE TypeOK'
  BY <1>2 DEF FindInstance
<1>3. ASSUME NEW t \in OrbThread, CreateWorker(t), UNCHANGED delivered PROVE TypeOK'
  BY <1>3 DEF CreateWorker
<1>4. ASSUME NEW t \in OrbThread, InitMutex(t), UNCHANGED delivered PROVE TypeOK'
  BY <1>4 DEF InitMutex
<1>5. ASSUME NEW t \in OrbThread, InitCond(t), UNCHANGED delivered PROVE TypeOK'
  BY <1>5 DEF InitCond
<1>6. ASSUME NEW t \in OrbThread, UnlockWorkerObj(t), UNCHANGED delivered PROVE TypeOK'
  BY <1>6 DEF UnlockWorkerObj
<1>7. ASSUME NEW t \in OrbThread, LockEDFQ(t), UNCHANGED delivered PROVE TypeOK'
  BY <1>7 DEF LockEDFQ, AcquireEDFQ
<1>8. ASSUME NEW t \in OrbThread, Enqueue(t), UNCHANGED delivered PROVE TypeOK'
  BY <1>8 DEF Enqueue
<1>9. ASSUME NEW t \in OrbThread, FinishPush(t), UNCHANGED delivered PROVE TypeOK'
  BY <1>9 DEF FinishPush, SignalAndUnlock, Signalled
<1>10. ASSUME NEW t \in OrbThread, NEW s \in Supplier, BeginConstruct(t, s), UNCHANGED delivered PROVE TypeOK'
  BY <1>10 DEF BeginConstruct
<1>11. ASSUME NEW t \in OrbThread, NEW e \in Event, BeginPush(t, e), UNCHANGED delivered PROVE TypeOK'
  BY <1>11 DEF BeginPush
<1>12. ASSUME NEW t \in OrbThread, NEW e \in Event, PushUnknown(t, e), UNCHANGED delivered PROVE TypeOK'
  BY <1>12 DEF PushUnknown
<1>13. ASSUME WorkerLock, UNCHANGED delivered PROVE TypeOK'
  BY <1>13 DEF WorkerLock
<1>14. ASSUME WorkerHang, UNCHANGED delivered PROVE TypeOK'
  BY <1>14 DEF WorkerHang
<1>15. ASSUME WorkerEmpty, UNCHANGED delivered PROVE TypeOK'
  BY <1>15 DEF WorkerEmpty
<1>16. ASSUME WorkerWait, UNCHANGED delivered PROVE TypeOK'
  BY <1>16 DEF WorkerWait
<1>17. ASSUME WorkerPop, UNCHANGED delivered PROVE TypeOK'
  BY <1>17 DEF WorkerPop, Popped, Top
<1>18. ASSUME Deliver PROVE TypeOK'
  BY <1>18 DEF Deliver, WorkerDone
<1>19. ASSUME SpuriousWakeup, UNCHANGED delivered PROVE TypeOK'
  BY <1>19 DEF SpuriousWakeup
<1>20. CASE UNCHANGED vars
  BY <1>20 DEF vars, swVars
<1> QED
  BY <1>1, <1>2, <1>3, <1>4, <1>5, <1>6, <1>7, <1>8, <1>9, <1>10,
     <1>11, <1>12, <1>13, <1>14, <1>15, <1>16, <1>17, <1>18, <1>19, <1>20
  DEF Next, Orb, Arrival, Construct, WorkerStep, WorkerFront, Spurious

\* No action breaks the invariant of the singleton's construction.
LEMMA CtorStep == TypeOK /\ CtorInv /\ [Next]_vars => CtorInv'
<1> SUFFICES ASSUME TypeOK, CtorInv, [Next]_vars PROVE CtorInv'
  OBVIOUS
<1> USE ThreadAssumption, EventAssumption
    DEF TypeOK, ThreadTypeOK, CtorPC, PushPC, WorkerPC,
        ctorVars, workerVars, histVars, CtorInv, CtorHeld
<1>1. ASSUME NEW t \in OrbThread, LockWorkerObj(t), UNCHANGED delivered PROVE CtorInv'
  BY <1>1 DEF LockWorkerObj, AcquireWorkerObj
<1>2. ASSUME NEW t \in OrbThread, FindInstance(t), UNCHANGED delivered PROVE CtorInv'
  BY <1>2 DEF FindInstance
<1>3. ASSUME NEW t \in OrbThread, CreateWorker(t), UNCHANGED delivered PROVE CtorInv'
  BY <1>3 DEF CreateWorker
<1>4. ASSUME NEW t \in OrbThread, InitMutex(t), UNCHANGED delivered PROVE CtorInv'
  BY <1>4 DEF InitMutex
<1>5. ASSUME NEW t \in OrbThread, InitCond(t), UNCHANGED delivered PROVE CtorInv'
  BY <1>5 DEF InitCond
<1>6. ASSUME NEW t \in OrbThread, UnlockWorkerObj(t), UNCHANGED delivered PROVE CtorInv'
  BY <1>6 DEF UnlockWorkerObj
<1>7. ASSUME NEW t \in OrbThread, LockEDFQ(t), UNCHANGED delivered PROVE CtorInv'
  BY <1>7 DEF LockEDFQ, AcquireEDFQ
<1>8. ASSUME NEW t \in OrbThread, Enqueue(t), UNCHANGED delivered PROVE CtorInv'
  BY <1>8 DEF Enqueue
<1>9. ASSUME NEW t \in OrbThread, FinishPush(t), UNCHANGED delivered PROVE CtorInv'
  BY <1>9 DEF FinishPush, SignalAndUnlock, Signalled
<1>10. ASSUME NEW t \in OrbThread, NEW s \in Supplier, BeginConstruct(t, s), UNCHANGED delivered PROVE CtorInv'
  BY <1>10 DEF BeginConstruct
<1>11. ASSUME NEW t \in OrbThread, NEW e \in Event, BeginPush(t, e), UNCHANGED delivered PROVE CtorInv'
  BY <1>11 DEF BeginPush
<1>12. ASSUME NEW t \in OrbThread, NEW e \in Event, PushUnknown(t, e), UNCHANGED delivered PROVE CtorInv'
  BY <1>12 DEF PushUnknown
<1>13. ASSUME WorkerLock, UNCHANGED delivered PROVE CtorInv'
  BY <1>13 DEF WorkerLock
<1>14. ASSUME WorkerHang, UNCHANGED delivered PROVE CtorInv'
  BY <1>14 DEF WorkerHang
<1>15. ASSUME WorkerEmpty, UNCHANGED delivered PROVE CtorInv'
  BY <1>15 DEF WorkerEmpty
<1>16. ASSUME WorkerWait, UNCHANGED delivered PROVE CtorInv'
  BY <1>16 DEF WorkerWait
<1>17. ASSUME WorkerPop, UNCHANGED delivered PROVE CtorInv'
  BY <1>17 DEF WorkerPop, Popped, Top
<1>18. ASSUME Deliver PROVE CtorInv'
  BY <1>18 DEF Deliver, WorkerDone
<1>19. ASSUME SpuriousWakeup, UNCHANGED delivered PROVE CtorInv'
  BY <1>19 DEF SpuriousWakeup
<1>20. CASE UNCHANGED vars
  BY <1>20 DEF vars, swVars
<1> QED
  BY <1>1, <1>2, <1>3, <1>4, <1>5, <1>6, <1>7, <1>8, <1>9, <1>10,
     <1>11, <1>12, <1>13, <1>14, <1>15, <1>16, <1>17, <1>18, <1>19, <1>20
  DEF Next, Orb, Arrival, Construct, WorkerStep, WorkerFront, Spurious

\* No action breaks the mutex of the EDF queue, nor loses a wakeup.
\* The part about the mutex itself.
LEMMA LockStep == TypeOK /\ CtorInv /\ LockInv /\ EDFQExclusion /\ [Next]_vars => (LockInv /\ EDFQExclusion)'
<1> SUFFICES ASSUME TypeOK, CtorInv, LockInv, EDFQExclusion, [Next]_vars PROVE (LockInv /\ EDFQExclusion)'
  OBVIOUS
<1> USE ThreadAssumption, EventAssumption
    DEF TypeOK, ThreadTypeOK, CtorPC, PushPC, WorkerPC,
        ctorVars, workerVars, histVars, CtorInv, CtorHeld, LockInv, EDFQExclusion
<1>1. ASSUME NEW t \in OrbThread, LockWorkerObj(t), UNCHANGED delivered PROVE (LockInv /\ EDFQExclusion)'
  BY <1>1 DEF LockWorkerObj, AcquireWorkerObj
<1>2. ASSUME NEW t \in OrbThread, FindInstance(t), UNCHANGED delivered PROVE (LockInv /\ EDFQExclusion)'
  BY <1>2 DEF FindInstance
<1>3. ASSUME NEW t \in OrbThread, CreateWorker(t), UNCHANGED delivered PROVE (LockInv /\ EDFQExclusion)'
  BY <1>3 DEF CreateWorker
<1>4. ASSUME NEW t \in OrbThread, InitMutex(t), UNCHANGED delivered PROVE (LockInv /\ EDFQExclusion)'
  BY <1>4 DEF InitMutex
<1>5. ASSUME NEW t \in OrbThread, InitCond(t), UNCHANGED delivered PROVE (LockInv /\ EDFQExclusion)'
  BY <1>5 DEF InitCond
<1>6. ASSUME NEW t \in OrbThread, UnlockWorkerObj(t), UNCHANGED delivered PROVE (LockInv /\ EDFQExclusion)'
  BY <1>6 DEF UnlockWorkerObj
<1>7. ASSUME NEW t \in OrbThread, LockEDFQ(t), UNCHANGED delivered PROVE (LockInv /\ EDFQExclusion)'
  BY <1>7 DEF LockEDFQ, AcquireEDFQ
<1>8. ASSUME NEW t \in OrbThread, Enqueue(t), UNCHANGED delivered PROVE (LockInv /\ EDFQExclusion)'
  BY <1>8 DEF Enqueue
<1>9. ASSUME NEW t \in OrbThread, FinishPush(t), UNCHANGED delivered PROVE (LockInv /\ EDFQExclusion)'
  BY <1>9 DEF FinishPush, SignalAndUnlock, Signalled
<1>10. ASSUME NEW t \in OrbThread, NEW s \in Supplier, BeginConstruct(t, s), UNCHANGED delivered PROVE (LockInv /\ EDFQExclusion)'
  BY <1>10 DEF BeginConstruct
<1>11. ASSUME NEW t \in OrbThread, NEW e \in Event, BeginPush(t, e), UNCHANGED delivered PROVE (LockInv /\ EDFQExclusion)'
  BY <1>11 DEF BeginPush
<1>12. ASSUME NEW t \in OrbThread, NEW e \in Event, PushUnknown(t, e), UNCHANGED delivered PROVE (LockInv /\ EDFQExclusion)'
  BY <1>12 DEF PushUnknown
<1>13. ASSUME WorkerLock, UNCHANGED delivered PROVE (LockInv /\ EDFQExclusion)'
  BY <1>13 DEF WorkerLock
<1>14. ASSUME WorkerHang, UNCHANGED delivered PROVE (LockInv /\ EDFQExclusion)'
  BY <1>14 DEF WorkerHang
<1>15. ASSUME WorkerEmpty, UNCHANGED delivered PROVE (LockInv /\ EDFQExclusion)'
  BY <1>15 DEF WorkerEmpty
<1>16. ASSUME WorkerWait, UNCHANGED delivered PROVE (LockInv /\ EDFQExclusion)'
  BY <1>16 DEF WorkerWait
<1>17. ASSUME WorkerPop, UNCHANGED delivered PROVE (LockInv /\ EDFQExclusion)'
  BY <1>17 DEF WorkerPop, Popped, Top
<1>18. ASSUME Deliver PROVE (LockInv /\ EDFQExclusion)'
  BY <1>18 DEF Deliver, WorkerDone
<1>19. ASSUME SpuriousWakeup, UNCHANGED delivered PROVE (LockInv /\ EDFQExclusion)'
  BY <1>19 DEF SpuriousWakeup
<1>20. CASE UNCHANGED vars
  BY <1>20 DEF vars, swVars
<1> QED
  BY <1>1, <1>2, <1>3, <1>4, <1>5, <1>6, <1>7, <1>8, <1>9, <1>10,
     <1>11, <1>12, <1>13, <1>14, <1>15, <1>16, <1>17, <1>18, <1>19, <1>20
  DEF Next, Orb, Arrival, Construct, WorkerStep, WorkerFront, Spurious

\* A waiting worker and a non-empty queue meet only before the signal.
LEMMA WakeupStep == TypeOK /\ LockInv /\ EDFQExclusion /\ NoLostWakeup /\ [Next]_vars => NoLostWakeup'
<1> SUFFICES ASSUME TypeOK, LockInv, EDFQExclusion, NoLostWakeup, [Next]_vars PROVE NoLostWakeup'
  OBVIOUS
<1> USE ThreadAssumption, EventAssumption
    DEF TypeOK, ThreadTypeOK, CtorPC, PushPC, WorkerPC,
        ctorVars, workerVars, histVars, LockInv, EDFQExclusion, NoLostWakeup
<1>1. ASSUME NEW t \in OrbThread, LockWorkerObj(t), UNCHANGED delivered PROVE NoLostWakeup'
  BY <1>1 DEF LockWorkerObj, AcquireWorkerObj
<1>2. ASSUME NEW t \in OrbThread, FindInstance(t), UNCHANGED delivered PROVE NoLostWakeup'
  BY <1>2 DEF FindInstance
<1>3. ASSUME NEW t \in OrbThread, CreateWorker(t), UNCHANGED delivered PROVE NoLostWakeup'
  BY <1>3 DEF CreateWorker
<1>4. ASSUME NEW t \in OrbThread, InitMutex(t), UNCHANGED delivered PROVE NoLostWakeup'
  BY <1>4 DEF InitMutex
<1>5. ASSUME NEW t \in OrbThread, InitCond(t), UNCHANGED delivered PROVE NoLostWakeup'
  BY <1>5 DEF InitCond
<1>6. ASSUME NEW t \in OrbThread, UnlockWorkerObj(t), UNCHANGED delivered PROVE NoLostWakeup'
  BY <1>6 DEF UnlockWorkerObj
<1>7. ASSUME NEW t \in OrbThread, LockEDFQ(t), UNCHANGED delivered PROVE NoLostWakeup'
  BY <1>7 DEF LockEDFQ, AcquireEDFQ
<1>8. ASSUME NEW t \in OrbThread, Enqueue(t), UNCHANGED delivered PROVE NoLostWakeup'
  BY <1>8 DEF Enqueue
<1>9. ASSUME NEW t \in OrbThread, FinishPush(t), UNCHANGED delivered PROVE NoLostWakeup'
  BY <1>9 DEF FinishPush, SignalAndUnlock, Signalled
<1>10. ASSUME NEW t \in OrbThread, NEW s \in Supplier, BeginConstruct(t, s), UNCHANGED delivered PROVE NoLostWakeup'
  BY <1>10 DEF BeginConstruct
<1>11. ASSUME NEW t \in OrbThread, NEW e \in Event, BeginPush(t, e), UNCHANGED delivered PROVE NoLostWakeup'
  BY <1>11 DEF BeginPush
<1>12. ASSUME NEW t \in OrbThread, NEW e \in Event, PushUnknown(t, e), UNCHANGED delivered PROVE NoLostWakeup'
  BY <1>12 DEF PushUnknown
<1>13. ASSUME WorkerLock, UNCHANGED delivered PROVE NoLostWakeup'
  BY <1>13 DEF WorkerLock
<1>14. ASSUME WorkerHang, UNCHANGED delivered PROVE NoLostWakeup'
  BY <1>14 DEF WorkerHang
<1>15. ASSUME WorkerEmpty, UNCHANGED delivered PROVE NoLostWakeup'
  BY <1>15 DEF WorkerEmpty
<1>16. ASSUME WorkerWait, UNCHANGED delivered PROVE NoLostWakeup'
  BY <1>16 DEF WorkerWait
<1>17. ASSUME WorkerPop, UNCHANGED delivered PROVE NoLostWakeup'
  BY <1>17 DEF WorkerPop, Popped, Top
<1>18. ASSUME Deliver PROVE NoLostWakeup'
  BY <1>18 DEF Deliver, WorkerDone
<1>19. ASSUME SpuriousWakeup, UNCHANGED delivered PROVE NoLostWakeup'
  BY <1>19 DEF SpuriousWakeup
<1>20. CASE UNCHANGED vars
  BY <1>20 DEF vars, swVars
<1> QED
  BY <1>1, <1>2, <1>3, <1>4, <1>5, <1>6, <1>7, <1>8, <1>9, <1>10,
     <1>11, <1>12, <1>13, <1>14, <1>15, <1>16, <1>17, <1>18, <1>19, <1>20
  DEF Next, Orb, Arrival, Construct, WorkerStep, WorkerFront, Spurious

\* Appending to the history adds one position and one event.
LEMMA AppendFacts ==
  ASSUME NEW S, NEW q \in Seq(S), NEW x \in S
  PROVE  /\ Append(q, x) \in Seq(S)
         /\ Len(Append(q, x)) = Len(q) + 1
         /\ DOMAIN q = 1 .. Len(q)
         /\ DOMAIN Append(q, x) = 1 .. (Len(q) + 1)
         /\ \A i \in DOMAIN q : Append(q, x)[i] = q[i] /\ q[i] \in S
         /\ Append(q, x)[Len(q) + 1] = x
OBVIOUS

\* What the worker does to the queue and the history when it takes an event.
LEMMA PopFacts ==
  ASSUME TypeOK, WorkerPop
  PROVE  \E e \in EDFQ :
           /\ EDFQ' = EDFQ \ {e} /\ item' = e
           /\ \A f \in EDFQ : ~ myComparison(e, f)
           /\ started' = Append(started, e) /\ Len(started') = Len(started) + 1
           /\ DOMAIN started = 1 .. Len(started) /\ Len(started) \in Nat
           /\ DOMAIN started' = 1 .. (Len(started) + 1)
           /\ \A i \in DOMAIN started : started'[i] = started[i] /\ started[i] \in Event
           /\ started'[Len(started) + 1] = e
           /\ Started' = Started \cup {e}
<1>1. PICK e \in EDFQ : /\ EDFQ' = EDFQ \ {e} /\ item' = e
                        /\ started' = Append(started, e)
                        /\ \A f \in EDFQ : ~ myComparison(e, f)
  BY DEF WorkerPop, Popped, Top
<1>2. e \in Event /\ started \in Seq(Event)
  BY DEF TypeOK
<1>3. /\ Len(started') = Len(started) + 1 /\ Len(started) \in Nat
      /\ DOMAIN started = 1 .. Len(started)
      /\ DOMAIN started' = 1 .. (Len(started) + 1)
      /\ \A i \in DOMAIN started : started'[i] = started[i] /\ started[i] \in Event
      /\ started'[Len(started) + 1] = e
  BY <1>1, <1>2, AppendFacts
<1>4. Started' = Started \cup {e}
  BY <1>3 DEF Started
<1> QED BY <1>1, <1>3, <1>4

\* A step that moves no event and takes no thread out of its push keeps each
\* event in its place.
LEMMA PushFrame ==
  ASSUME TypeOK, PushInv, EventsConserved,
         UNCHANGED <<unsent, EDFQ, started, pushing>>,
         \A t \in OrbThread :
           \/ pc'[t] = pc[t]
           \/ pc[t] = "lockEDFQ" /\ pc'[t] = "enqueue"
           \/ pc'[t] \notin PushPC
  PROVE  PushInv' /\ EventsConserved'
<1>1. InPush' = InPush /\ Started' = Started
  BY DEF InPush, Started
<1>2. PushInv'
  BY <1>1 DEF PushInv, PushPC
<1>3. EventsConserved'
  BY <1>1 DEF EventsConserved
<1> QED BY <1>2, <1>3

\* An event enters a push.
LEMMA PushBegin ==
  ASSUME TypeOK, PushInv, EventsConserved,
         NEW t \in OrbThread, NEW e \in Event, BeginPush(t, e)
  PROVE  PushInv' /\ EventsConserved'
<1>1. /\ e \in unsent /\ unsent' = unsent \ {e}
      /\ pushing' = [pushing EXCEPT ![t] = e]
      /\ pc[t] = "idle" /\ pc' = [pc EXCEPT ![t] = "lockEDFQ"]
      /\ UNCHANGED <<EDFQ, started>>
  BY DEF BeginPush, histVars
<1>2. /\ pushing \in [OrbThread -> Event \cup {NoEvent}]
      /\ pc \in [OrbThread -> {"idle"} \cup CtorPC \cup PushPC]
      /\ pushing[t] = NoEvent
  BY <1>1, EventAssumption DEF TypeOK, ThreadTypeOK, PushPC
<1>3. e \notin EDFQ \cup Started /\ e \notin InPush /\ e # NoEvent
  BY <1>1, EventAssumption DEF EventsConserved
<1>4. \A u \in OrbThread : u # t =>
        pushing'[u] = pushing[u] /\ pc'[u] = pc[u] /\ pushing[u] # e
  BY <1>1, <1>2, <1>3 DEF InPush
<1>5. pushing'[t] = e /\ pc'[t] = "lockEDFQ"
  BY <1>1, <1>2
<1>6. Started' = Started
  BY <1>1 DEF Started
<1>7. InPush' = InPush \cup {e}
  BY <1>1, <1>2, <1>3, <1>4, <1>5 DEF InPush
<1>8. PushInv'
  <2>1. \A u, v \in OrbThread :
          pushing'[u] \in Event /\ pushing'[u] = pushing'[v] => u = v
    BY <1>4, <1>5 DEF PushInv
  <2>2. \A u \in OrbThread : pc'[u] \in {"lockEDFQ", "enqueue"} =>
          pushing'[u] \notin unsent' \cup EDFQ' \cup Started'
    BY <1>1, <1>3, <1>4, <1>5, <1>6 DEF PushInv
  <2>3. \A u \in OrbThread : pc'[u] = "unlockEDFQ" =>
          pushing'[u] \in EDFQ' \cup Started'
    BY <1>1, <1>4, <1>5, <1>6 DEF PushInv
  <2> QED BY <2>1, <2>2, <2>3 DEF PushInv
<1>9. EventsConserved'
  BY <1>1, <1>3, <1>6, <1>7 DEF EventsConserved
<1> QED BY <1>8, <1>9

\* An event moves from the hands of a thread into the queue.
LEMMA PushEnqueue ==
  ASSUME TypeOK, PushInv, EventsConserved, NEW t \in OrbThread, Enqueue(t)
  PROVE  PushInv' /\ EventsConserved'
<1> DEFINE e == pushing[t]
<1>1. /\ pc[t] = "enqueue" /\ pc' = [pc EXCEPT ![t] = "unlockEDFQ"]
      /\ EDFQ' = EDFQ \cup {e}
      /\ UNCHANGED <<unsent, pushing, started>>
  BY DEF Enqueue
<1>2. /\ pc \in [OrbThread -> {"idle"} \cup CtorPC \cup PushPC]
      /\ e \in Event /\ e \notin unsent \cup EDFQ \cup Started
  BY <1>1 DEF TypeOK, ThreadTypeOK, PushPC, PushInv
<1>3. InPush' = InPush /\ Started' = Started
  BY <1>1 DEF InPush, Started
<1>4. /\ pc'[t] = "unlockEDFQ"
      /\ \A u \in OrbThread : u # t => pc'[u] = pc[u] /\ pushing[u] # e
  BY <1>1, <1>2 DEF PushInv
<1> HIDE DEF e
<1>5. PushInv'
  <2>1. \A u, v \in OrbThread :
          pushing'[u] \in Event /\ pushing'[u] = pushing'[v] => u = v
    BY <1>1 DEF PushInv
  <2>2. \A u \in OrbThread : pc'[u] \in {"lockEDFQ", "enqueue"} =>
          pushing'[u] \notin unsent' \cup EDFQ' \cup Started'
    BY <1>1, <1>3, <1>4 DEF PushInv
  <2>3. \A u \in OrbThread : pc'[u] = "unlockEDFQ" =>
          pushing'[u] \in EDFQ' \cup Started'
    BY <1>1, <1>3, <1>4 DEF PushInv, e
  <2> QED BY <2>1, <2>2, <2>3 DEF PushInv
<1>6. EventsConserved'
  BY <1>1, <1>2, <1>3 DEF EventsConserved
<1> QED BY <1>5, <1>6

\* A thread lets go of an event that is queued, or taken already.
LEMMA PushFinish ==
  ASSUME TypeOK, PushInv, EventsConserved, NEW t \in OrbThread, FinishPush(t)
  PROVE  PushInv' /\ EventsConserved'
<1>1. /\ pc[t] = "unlockEDFQ" /\ pc' = [pc EXCEPT ![t] = "idle"]
      /\ pushing' = [pushing EXCEPT ![t] = NoEvent]
      /\ UNCHANGED <<unsent, EDFQ, started>>
  BY DEF FinishPush, SignalAndUnlock, histVars
<1>2. /\ pc \in [OrbThread -> {"idle"} \cup CtorPC \cup PushPC]
      /\ pushing \in [OrbThread -> Event \cup {NoEvent}]
      /\ pushing[t] \in EDFQ \cup Started /\ pushing[t] \in Event
  BY <1>1 DEF TypeOK, ThreadTypeOK, PushPC, PushInv
<1>3. Started' = Started
  BY <1>1 DEF Started
<1>4. /\ pc'[t] = "idle" /\ pushing'[t] = NoEvent /\ NoEvent \notin Event
      /\ \A u \in OrbThread : u # t => pc'[u] = pc[u] /\ pushing'[u] = pushing[u]
  BY <1>1, <1>2, EventAssumption
<1>5. InPush' = InPush \ {pushing[t]}
  <2>1. \A u \in OrbThread : u # t => pushing[u] # pushing[t]
    BY <1>2 DEF PushInv
  <2> QED BY <1>2, <1>4, <2>1 DEF InPush
<1>6. PushInv'
  BY <1>1, <1>3, <1>4 DEF PushInv
<1>7. EventsConserved'
  BY <1>1, <1>2, <1>3, <1>5 DEF EventsConserved
<1> QED BY <1>6, <1>7

\* An event moves from the queue to the worker.
LEMMA PushPop ==
  ASSUME TypeOK, PushInv, EventsConserved, WorkerPop
  PROVE  PushInv' /\ EventsConserved'
<1>1. PICK e \in EDFQ :
        /\ EDFQ' = EDFQ \ {e} /\ Started' = Started \cup {e}
        /\ DOMAIN started = 1 .. Len(started) /\ Len(started) \in Nat
        /\ DOMAIN started' = 1 .. (Len(started) + 1)
        /\ \A i \in DOMAIN started : started'[i] = started[i]
        /\ started'[Len(started) + 1] = e
  BY PopFacts
<1>2. UNCHANGED <<unsent, pc, pushing>>
  BY DEF WorkerPop
<1>3. e \notin Started /\ \A i \in DOMAIN started : started[i] \in Started
  BY DEF EventsConserved, Started
<1>4. \A i, j \in DOMAIN started' : started'[i] = started'[j] => i = j
  <2> SUFFICES ASSUME NEW i \in DOMAIN started', NEW j \in DOMAIN started',
                      started'[i] = started'[j]
               PROVE  i = j
    OBVIOUS
  <2>1. CASE i \in DOMAIN started /\ j \in DOMAIN started
    BY <2>1, <1>1 DEF EventsConserved
  <2>2. CASE i \in DOMAIN started /\ j \notin DOMAIN started
    BY <2>2, <1>1, <1>3
  <2>3. CASE i \notin DOMAIN started /\ j \in DOMAIN started
    BY <2>3, <1>1, <1>3
  <2>4. CASE i \notin DOMAIN started /\ j \notin DOMAIN started
    BY <2>4, <1>1
  <2> QED BY <2>1, <2>2, <2>3, <2>4
<1>5. EDFQ' \cup Started' = EDFQ \cup Started /\ InPush' = InPush
  BY <1>1, <1>2 DEF InPush
<1>6. PushInv'
  BY <1>2, <1>5 DEF PushInv
<1>7. /\ (Event = unsent \cup {f \in InPush : f \notin EDFQ} \cup EDFQ \cup Started)'
      /\ (unsent \cap (InPush \cup EDFQ \cup Started) = {})'
      /\ (EDFQ \cap Started = {})'
  BY <1>1, <1>2, <1>3, <1>5 DEF EventsConserved
<1> QED BY <1>4, <1>6, <1>7 DEF EventsConserved

\* Each event stays in one place, and moves from place to place once.
LEMMA PushStep ==
  TypeOK /\ PushInv /\ EventsConserved /\ [Next]_vars => PushInv' /\ EventsConserved'
<1> SUFFICES ASSUME TypeOK, PushInv, EventsConserved, [Next]_vars
             PROVE  PushInv' /\ EventsConserved'
  OBVIOUS
<1> DEFINE Frame ==
      /\ UNCHANGED <<unsent, EDFQ, started, pushing>>
      /\ \A t \in OrbThread :
           \/ pc'[t] = pc[t]
           \/ pc[t] = "lockEDFQ" /\ pc'[t] = "enqueue"
           \/ pc'[t] \notin PushPC
<1>1. Frame => PushInv' /\ EventsConserved'
  BY PushFrame
<1>2. pc \in [OrbThread -> {"idle"} \cup CtorPC \cup PushPC]
  BY DEF TypeOK
<1>3. ASSUME NEW t \in OrbThread,
             \/ LockWorkerObj(t) \/ FindInstance(t) \/ CreateWorker(t)
             \/ InitMutex(t) \/ InitCond(t) \/ UnlockWorkerObj(t)
             \/ \E s \in Supplier : BeginConstruct(t, s)
      PROVE  Frame
  BY <1>2, <1>3
  DEF LockWorkerObj, FindInstance, CreateWorker, InitMutex, InitCond,
      UnlockWorkerObj, BeginConstruct, histVars, PushPC
<1>4. ASSUME NEW t \in OrbThread, LockEDFQ(t) PROVE Frame
  BY <1>2, <1>4 DEF LockEDFQ, histVars
<1>5. ASSUME NEW t \in OrbThread, NEW e \in Event, PushUnknown(t, e) PROVE Frame
  BY <1>5 DEF PushUnknown, histVars
<1>6. ASSUME WorkerLock \/ WorkerHang \/ WorkerEmpty \/ WorkerWait
               \/ Deliver \/ SpuriousWakeup
      PROVE  Frame
  BY <1>6 DEF WorkerLock, WorkerHang, WorkerEmpty, WorkerWait, Deliver,
              WorkerDone, SpuriousWakeup, histVars
<1>7. CASE UNCHANGED vars
  <2>1. Frame
    BY <1>7 DEF vars, swVars, histVars
  <2> QED BY <1>1, <2>1
<1> HIDE DEF Frame
<1>8. CASE \E t \in OrbThread : Orb(t) \/ Arrival(t)
  BY <1>1, <1>3, <1>4, <1>5, <1>8, PushBegin, PushEnqueue, PushFinish
  DEF Orb, Arrival, Construct
<1>9. CASE WorkerStep \/ Spurious
  BY <1>1, <1>6, <1>9, PushPop DEF WorkerStep, WorkerFront, Spurious
<1> QED BY <1>7, <1>8, <1>9 DEF Next

\* Only events of known sources get past the test in push.
LEMMA KnownStep == TypeOK /\ KnownInv /\ [Next]_vars => KnownInv'
<1> SUFFICES ASSUME TypeOK, KnownInv, [Next]_vars PROVE KnownInv'
  OBVIOUS
<1> DEFINE Frame == UNCHANGED <<EDFQ, started, pushing>>
<1>1. Frame => KnownInv'
  BY DEF KnownInv, InPush, Started
<1>2. ASSUME NEW t \in OrbThread, NEW e \in Event, BeginPush(t, e) PROVE KnownInv'
  <2>1. Source[e] \in KnownSource /\ pushing' = [pushing EXCEPT ![t] = e]
        /\ UNCHANGED <<EDFQ, started>>
    BY <1>2 DEF BeginPush, histVars
  <2>2. InPush' \subseteq InPush \cup {e} /\ Started' = Started
    BY <2>1 DEF InPush, Started, TypeOK, ThreadTypeOK
  <2> QED BY <2>1, <2>2 DEF KnownInv
<1>3. ASSUME NEW t \in OrbThread, Enqueue(t) PROVE KnownInv'
  <2>1. pushing[t] \in InPush
    BY <1>3, EventAssumption DEF Enqueue, TypeOK, ThreadTypeOK, PushPC, InPush
  <2>2. EDFQ' = EDFQ \cup {pushing[t]} /\ InPush' = InPush /\ Started' = Started
    BY <1>3 DEF Enqueue, InPush, Started
  <2> QED BY <2>1, <2>2 DEF KnownInv
<1>4. ASSUME NEW t \in OrbThread, FinishPush(t) PROVE KnownInv'
  <2>1. pushing' = [pushing EXCEPT ![t] = NoEvent] /\ UNCHANGED <<EDFQ, started>>
    BY <1>4 DEF FinishPush, SignalAndUnlock, histVars
  <2>2. InPush' \subseteq InPush /\ Started' = Started
    BY <2>1 DEF InPush, Started, TypeOK, ThreadTypeOK
  <2> QED BY <2>1, <2>2 DEF KnownInv
<1>5. ASSUME WorkerPop PROVE KnownInv'
  <2>1. PICK e \in EDFQ : EDFQ' = EDFQ \ {e} /\ Started' = Started \cup {e}
    BY <1>5, PopFacts
  <2>2. InPush' = InPush
    BY <1>5 DEF WorkerPop, InPush
  <2> QED BY <2>1, <2>2 DEF KnownInv
<1>6. ASSUME NEW t \in OrbThread,
             \/ Construct(t) \/ LockEDFQ(t)
             \/ \E s \in Supplier : BeginConstruct(t, s)
             \/ \E e \in Event : PushUnknown(t, e)
      PROVE  Frame
  BY <1>6 DEF Construct, LockWorkerObj, FindInstance, CreateWorker, InitMutex,
              InitCond, UnlockWorkerObj, BeginConstruct, LockEDFQ, PushUnknown,
              histVars
<1>7. ASSUME WorkerLock \/ WorkerHang \/ WorkerEmpty \/ WorkerWait
               \/ Deliver \/ SpuriousWakeup
      PROVE  Frame
  BY <1>7 DEF WorkerLock, WorkerHang, WorkerEmpty, WorkerWait, Deliver,
              WorkerDone, SpuriousWakeup, histVars
<1>8. CASE UNCHANGED vars
  BY <1>1, <1>8 DEF vars, swVars, histVars
<1> HIDE DEF Frame
<1>9. CASE \E t \in OrbThread : Orb(t) \/ Arrival(t)
  BY <1>1, <1>2, <1>3, <1>4, <1>6, <1>9 DEF Orb, Arrival
<1>10. CASE WorkerStep \/ Spurious
  BY <1>1, <1>5, <1>7, <1>10 DEF WorkerStep, WorkerFront, Spurious
<1> QED BY <1>8, <1>9, <1>10 DEF Next

\* The deadline of an event of a known source is an integer.
LEMMA DeadlineType ==
  ASSUME NEW e \in Event, Source[e] \in KnownSource PROVE Deadline(e) \in Int
<1>1. Interval(Source[e]) \in Int
  BY DEF Interval, KnownSource
<1> QED BY <1>1, EventAssumption DEF Deadline

\* Queueing an event leaves the histories in order: it arrives after all that
\* was started.
LEMMA HistEnqueue ==
  ASSUME TypeOK, PushInv, HistInv, EarliestFirst,
         NEW t \in OrbThread, Enqueue(t), UNCHANGED delivered
  PROVE  HistInv' /\ EarliestFirst'
<1> DEFINE e == pushing[t]
<1>1. /\ e \in Event /\ e \notin EDFQ \cup Started
      /\ EDFQ' = EDFQ \cup {e}
      /\ arrived' = [arrived EXCEPT ![e] = Len(started)]
      /\ UNCHANGED <<started, item, delivered>>
  BY DEF Enqueue, workerVars, TypeOK, ThreadTypeOK, PushPC, PushInv
<1>2. /\ arrived \in [Event -> Nat] /\ started \in Seq(Event)
      /\ EDFQ \subseteq Event
  BY DEF TypeOK
<1>3. DOMAIN started = 1 .. Len(started) /\ Len(started) \in Nat
  BY <1>2
<1> HIDE DEF e
<1>4. \A i \in DOMAIN started : arrived'[started[i]] = arrived[started[i]]
  BY <1>1, <1>2 DEF Started
<1>5. \A f \in EDFQ : arrived'[f] = arrived[f]
  BY <1>1, <1>2
<1>6. arrived'[e] = Len(started)
  BY <1>1, <1>2
<1>7. HistInv'
  <2>1. (\A f \in EDFQ : arrived[f] \in 0 .. Len(started))'
    BY <1>1, <1>3, <1>5, <1>6 DEF HistInv
  <2>2. (\A i \in DOMAIN started : arrived[started[i]] \in 0 .. (i - 1))'
    BY <1>1, <1>4 DEF HistInv
  <2>3. (started = IF item = NoEvent THEN delivered ELSE Append(delivered, item))'
    BY <1>1 DEF HistInv
  <2> QED BY <2>1, <2>2, <2>3 DEF HistInv
<1>8. EarliestFirst'
  <2>1. (\A i, j \in DOMAIN started :
           i < j /\ i > arrived[started[j]] =>
             Deadline(started[i]) <= Deadline(started[j]))'
    BY <1>1, <1>4 DEF EarliestFirst
  <2>2. (\A f \in EDFQ : \A i \in DOMAIN started :
           i > arrived[f] => Deadline(started[i]) <= Deadline(f))'
    BY <1>1, <1>3, <1>5, <1>6 DEF EarliestFirst
  <2> QED BY <2>1, <2>2 DEF EarliestFirst
<1> QED BY <1>7, <1>8

\* Taking the top of the queue leaves the histories in order: nothing queued is
\* due before what is taken.
LEMMA HistPop ==
  ASSUME TypeOK, KnownInv, EventsConserved, HistInv, EarliestFirst,
         WorkerPop, UNCHANGED delivered
  PROVE  HistInv' /\ EarliestFirst'
<1>1. PICK e \in EDFQ :
        /\ EDFQ' = EDFQ \ {e} /\ item' = e
        /\ \A f \in EDFQ : ~ myComparison(e, f)
        /\ started' = Append(started, e) /\ Len(started') = Len(started) + 1
        /\ DOMAIN started = 1 .. Len(started) /\ Len(started) \in Nat
        /\ DOMAIN started' = 1 .. (Len(started) + 1)
        /\ \A i \in DOMAIN started : started'[i] = started[i] /\ started[i] \in Event
        /\ started'[Len(started) + 1] = e
  BY PopFacts
<1>2. /\ UNCHANGED <<arrived, delivered>> /\ item = NoEvent /\ e # NoEvent
      /\ EDFQ \subseteq Event /\ arrived \in [Event -> Nat]
  BY EventAssumption DEF WorkerPop, TypeOK
<1>3. \A f \in EDFQ : Deadline(f) \in Int
  BY <1>2, DeadlineType DEF KnownInv
<1>4. \A f \in EDFQ : Deadline(e) <= Deadline(f)
  BY <1>1, <1>3 DEF myComparison
<1>5. HistInv'
  <2>1. (\A f \in EDFQ : arrived[f] \in 0 .. Len(started))'
    BY <1>1, <1>2 DEF HistInv
  <2>2. \A i \in DOMAIN started' : arrived'[started'[i]] \in 0 .. (i - 1)
    <3> SUFFICES ASSUME NEW i \in DOMAIN started'
                 PROVE  arrived'[started'[i]] \in 0 .. (i - 1)
      OBVIOUS
    <3>1. CASE i \in DOMAIN started
      BY <3>1, <1>1, <1>2 DEF HistInv
    <3>2. CASE i = Len(started) + 1
      BY <3>2, <1>1, <1>2 DEF HistInv
    <3> QED BY <3>1, <3>2, <1>1
  <2>3. (started = IF item = NoEvent THEN delivered ELSE Append(delivered, item))'
    BY <1>1, <1>2 DEF HistInv
  <2> QED BY <2>1, <2>2, <2>3 DEF HistInv
<1>6. \A f \in EDFQ' : \A i \in DOMAIN started' :
        i > arrived'[f] => Deadline(started'[i]) <= Deadline(f)
  <2> SUFFICES ASSUME NEW f \in EDFQ', NEW i \in DOMAIN started', i > arrived'[f]
               PROVE  Deadline(started'[i]) <= Deadline(f)
    OBVIOUS
  <2>1. CASE i \in DOMAIN started
    BY <2>1, <1>1, <1>2 DEF EarliestFirst
  <2>2. CASE i = Len(started) + 1
    BY <2>2, <1>1, <1>4
  <2> QED BY <2>1, <2>2, <1>1
<1>7. \A i, j \in DOMAIN started' :
        i < j /\ i > arrived'[started'[j]] =>
          Deadline(started'[i]) <= Deadline(started'[j])
  <2> SUFFICES ASSUME NEW i \in DOMAIN started', NEW j \in DOMAIN started',
                      i < j, i > arrived'[started'[j]]
               PROVE  Deadline(started'[i]) <= Deadline(started'[j])
    OBVIOUS
  <2>1. i \in DOMAIN started /\ (j \in DOMAIN started \/ j = Len(started) + 1)
    BY <1>1
  <2>2. CASE j \in DOMAIN started
    BY <2>1, <2>2, <1>1, <1>2 DEF EarliestFirst
  <2>3. CASE j = Len(started) + 1
    BY <2>1, <2>3, <1>1, <1>2 DEF EarliestFirst
  <2> QED BY <2>1, <2>2, <2>3
<1>8. EarliestFirst'
  BY <1>6, <1>7 DEF EarliestFirst
<1> QED BY <1>5, <1>8

\* The histories describe the order of arrivals and starts.
LEMMA HistStep ==
  TypeOK /\ PushInv /\ KnownInv /\ EventsConserved /\ HistInv /\ EarliestFirst
    /\ [Next]_vars => HistInv' /\ EarliestFirst'
<1> SUFFICES ASSUME TypeOK, PushInv, KnownInv, EventsConserved, HistInv,
                    EarliestFirst, [Next]_vars
             PROVE  HistInv' /\ EarliestFirst'
  OBVIOUS
<1> DEFINE Frame == UNCHANGED <<EDFQ, started, arrived>>
<1>1. ASSUME Frame, UNCHANGED <<item, delivered>> PROVE HistInv' /\ EarliestFirst'
  BY <1>1 DEF HistInv, EarliestFirst
<1>2. ASSUME Deliver PROVE HistInv' /\ EarliestFirst'
  <2>1. /\ item # NoEvent /\ item' = NoEvent
        /\ delivered' = Append(delivered, item) /\ Frame
    BY <1>2, EventAssumption DEF Deliver, WorkerDone, TypeOK, histVars
  <2> QED BY <2>1 DEF HistInv, EarliestFirst
<1>3. ASSUME NEW t \in OrbThread,
             \/ Construct(t) \/ LockEDFQ(t) \/ FinishPush(t)
             \/ \E s \in Supplier : BeginConstruct(t, s)
             \/ \E e \in Event : BeginPush(t, e) \/ PushUnknown(t, e)
      PROVE  Frame /\ item' = item
  BY <1>3 DEF Construct, LockWorkerObj, FindInstance, CreateWorker, InitMutex,
              InitCond, UnlockWorkerObj, BeginConstruct, LockEDFQ, BeginPush,
              PushUnknown, FinishPush, SignalAndUnlock, workerVars, histVars
<1>4. ASSUME WorkerLock \/ WorkerHang \/ WorkerEmpty \/ WorkerWait
               \/ SpuriousWakeup
      PROVE  Frame /\ item' = item
  BY <1>4 DEF WorkerLock, WorkerHang, WorkerEmpty, WorkerWait, SpuriousWakeup,
              histVars
<1>5. CASE UNCHANGED vars
  BY <1>1, <1>5 DEF vars, swVars, workerVars, histVars
<1> HIDE DEF Frame
<1>6. CASE \E t \in OrbThread : Orb(t) \/ Arrival(t)
  BY <1>1, <1>3, <1>6, HistEnqueue DEF Orb, Arrival
<1>7. CASE WorkerStep \/ Spurious
  BY <1>1, <1>2, <1>4, <1>7, HistPop DEF WorkerStep, WorkerFront, Spurious
<1> QED BY <1>5, <1>6, <1>7 DEF Next

\* The inductive invariant holds initially.
LEMMA InitInd == Init => IndInv
<1> SUFFICES ASSUME Init PROVE IndInv
  OBVIOUS
<1>1. TypeOK
  BY InitType
<1> USE ThreadAssumption, EventAssumption DEF Init, SWInit
<1>2. CtorInv
  BY DEF CtorInv, CtorHeld, PushPC
<1>3. LockInv /\ EDFQExclusion /\ NoLostWakeup
  BY DEF LockInv, EDFQExclusion, NoLostWakeup
<1>4. InPush = {} /\ Started = {} /\ DOMAIN started = {}
  BY DEF InPush, Started
<1>5. PushInv /\ KnownInv /\ EventsConserved
  BY <1>4 DEF PushInv, KnownInv, EventsConserved
<1>6. HistInv /\ EarliestFirst
  BY <1>4 DEF HistInv, EarliestFirst
<1> QED BY <1>1, <1>2, <1>3, <1>5, <1>6 DEF IndInv

\* The inductive invariant holds in every reachable state.
THEOREM Invariance == Spec => []IndInv
<1>1. Init => IndInv
  BY InitInd
<1>2. IndInv /\ [Next]_vars => IndInv'
  BY TypeStep, CtorStep, LockStep, WakeupStep, PushStep, KnownStep, HistStep
  DEF IndInv
<1>3. QED BY <1>1, <1>2, PTL DEF Spec

-----------------------------------------------------------------------------
(* What follows from it.                                                   *)

\* Every variable has its type, the worker holds an event exactly while it
\* works, and an ORB thread holds one exactly while it pushes.
THEOREM TypeCorrect == Spec => []TypeOK
BY Invariance, PTL DEF IndInv

\* Unless the worker got to the mutex before the constructor initialised it,
\* push and the worker exclude each other from the EDF queue.
THEOREM MutexExcludes == Spec => []EDFQExclusion
BY Invariance, PTL DEF IndInv

\* However many suppliers ask for a proxy at once, there is one worker thread
\* and all proxies share it.
THEOREM OneWorkerCreated == Spec => []OneWorker
<1>1. IndInv => OneWorker
  BY DEF IndInv, CtorInv, OneWorker
<1>2. QED BY <1>1, Invariance, PTL

\* No event is lost or taken twice between push and the worker.
THEOREM Conservation == Spec => []EventsConserved
BY Invariance, PTL DEF IndInv

\* The worker never takes from an empty queue, and the signal of push never gets
\* lost between its test of the queue and its wait.
THEOREM WakeupNotLost == Spec => []WorkerInv
<1>1. IndInv => WorkerInv
  BY DEF IndInv, WorkerInv
<1>2. QED BY <1>1, Invariance, PTL

\* The worker starts queued events in the order of their deadlines.
THEOREM DeadlineOrder == Spec => []EarliestFirst
BY Invariance, PTL DEF IndInv

-----------------------------------------------------------------------------
(* The service implements EdfService.                                      *)

\* The initial states map to the initial state of the abstract service.
LEMMA RefineInit == Init => Edf!Init
<1> SUFFICES ASSUME Init PROVE Edf!Init
  OBVIOUS
<1>1. EDFQ = {} /\ item = NoEvent /\ delivered = <<>> /\ DOMAIN started = {}
  BY DEF Init, SWInit
<1>2. Started = {}
  BY <1>1 DEF Started
<1> QED BY <1>1, <1>2 DEF Edf!Init

\* Every step maps to a step of the abstract service or to a stutter.
LEMMA RefineStep == IndInv /\ [Next]_vars => [Edf!Next]_Edf!edfVars
<1> SUFFICES ASSUME IndInv, [Next]_vars PROVE [Edf!Next]_Edf!edfVars
  OBVIOUS
<1> DEFINE Key == [e \in Event |-> Deadline(e)]
<1>1. TypeOK /\ PushInv /\ KnownInv /\ EventsConserved
  BY DEF IndInv
<1>2. ASSUME UNCHANGED <<EDFQ, started, item, delivered>>
      PROVE  UNCHANGED Edf!edfVars
  BY <1>2 DEF Edf!edfVars, Started
<1>3. ASSUME NEW t \in OrbThread, Enqueue(t), UNCHANGED delivered
      PROVE  Edf!Next
  <2>1. pushing[t] \in Event /\ pushing[t] \notin EDFQ \cup Started
    BY <1>1, <1>3 DEF Enqueue, TypeOK, ThreadTypeOK, PushPC, PushInv
  <2>2. EDFQ' = EDFQ \cup {pushing[t]} /\ UNCHANGED <<started, item, delivered>>
    BY <1>3 DEF Enqueue, workerVars
  <2>3. Started' = Started
    BY <2>2 DEF Started
  <2>4. Edf!Accept(pushing[t])
    BY <2>1, <2>2, <2>3 DEF Edf!Accept
  <2> QED BY <2>1, <2>4 DEF Edf!Next
<1>4. ASSUME WorkerPop, UNCHANGED delivered
      PROVE  Edf!Next
  <2>1. PICK e \in EDFQ :
          /\ EDFQ' = EDFQ \ {e} /\ item' = e
          /\ \A f \in EDFQ : ~ myComparison(e, f)
          /\ Started' = Started \cup {e}
    BY <1>1, <1>4, PopFacts
  <2>2. item = NoEvent /\ EDFQ \subseteq Event
    BY <1>1, <1>4 DEF WorkerPop, TypeOK
  <2>3. \A f \in EDFQ : Deadline(f) \in Int
    BY <1>1, <2>2, DeadlineType DEF KnownInv
  <2>4. \A f \in EDFQ : Key[e] <= Key[f]
    BY <2>1, <2>2, <2>3 DEF myComparison
  <2>5. Event \ (EDFQ' \cup Started') = Event \ (EDFQ \cup Started)
    BY <2>1
  <2>6. Edf!Start(e)
    BY <1>4, <2>1, <2>2, <2>4, <2>5 DEF Edf!Start
  <2> QED BY <2>2, <2>6 DEF Edf!Next
<1>5. ASSUME Deliver
      PROVE  Edf!Next
  <2>1. item # NoEvent /\ item' = NoEvent /\ delivered' = Append(delivered, item)
        /\ UNCHANGED <<EDFQ, started>>
    BY <1>1, <1>5, EventAssumption DEF Deliver, WorkerDone, TypeOK, histVars
  <2>2. Started' = Started
    BY <2>1 DEF Started
  <2> QED BY <2>1, <2>2 DEF Edf!Next, Edf!Finish
<1>6. ASSUME NEW t \in OrbThread, UNCHANGED delivered,
             \/ Construct(t) \/ LockEDFQ(t) \/ FinishPush(t)
             \/ \E s \in Supplier : BeginConstruct(t, s)
             \/ \E e \in Event : BeginPush(t, e) \/ PushUnknown(t, e)
      PROVE  UNCHANGED <<EDFQ, started, item, delivered>>
  BY <1>6 DEF Construct, LockWorkerObj, FindInstance, CreateWorker, InitMutex,
              InitCond, UnlockWorkerObj, LockEDFQ, FinishPush,
              SignalAndUnlock, BeginConstruct, BeginPush, PushUnknown,
              ctorVars, workerVars, histVars
<1>7. ASSUME UNCHANGED delivered,
             \/ WorkerLock \/ WorkerHang \/ WorkerEmpty \/ WorkerWait
             \/ SpuriousWakeup
      PROVE  UNCHANGED <<EDFQ, started, item, delivered>>
  BY <1>7 DEF WorkerLock, WorkerHang, WorkerEmpty, WorkerWait,
              SpuriousWakeup, histVars
<1>8. CASE UNCHANGED vars
  BY <1>2, <1>8 DEF vars, swVars, workerVars, histVars
<1>9. CASE \E t \in OrbThread : Orb(t) \/ Arrival(t)
  BY <1>2, <1>3, <1>6, <1>9 DEF Orb, Arrival
<1>10. CASE WorkerStep \/ Spurious
  BY <1>2, <1>4, <1>5, <1>7, <1>10 DEF WorkerStep, WorkerFront, Spurious
<1> QED BY <1>8, <1>9, <1>10 DEF Next

\* The homework 8 service implements the abstract EDF service: whatever the
\* threads do, consumers see what a non-preemptive EDF server would deliver.
THEOREM Refinement == Spec => ImplementsEdf
<1>1. Init => Edf!Init
  BY RefineInit
<1>2. IndInv /\ [Next]_vars => [Edf!Next]_Edf!edfVars
  BY RefineStep
<1>3. QED BY <1>1, <1>2, Invariance, PTL DEF Spec, ImplementsEdf, Edf!Spec

================================================================================
