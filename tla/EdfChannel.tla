------------------------------ MODULE EdfChannel ------------------------------
(***************************************************************************)
(* The event service of homework 8: the worker thread itself delivers an   *)
(* event to the consumers once it has worked on it.                        *)
(* Line numbers are those of hw8_solution/EC_Default_ProxyConsumer.cpp.    *)
(***************************************************************************)
EXTENDS SingletonWorker

VARIABLE delivered   \* history: what for_each_consumer was called with

vars == <<swVars, delivered>>

Init == SWInit /\ delivered = <<>>

-----------------------------------------------------------------------------
\* push returns to the ORB after line 197.
FinishPush(t) == SignalAndUnlock(t, "idle")

\* The 30 ms workload and the delivery (40-52).
Deliver ==
  /\ WorkerDone("work")
  /\ delivered' = Append(delivered, item)

Orb(t) ==
  /\ ~ exited
  /\ \/ Construct(t) \/ LockEDFQ(t) \/ Enqueue(t) \/ FinishPush(t)
  /\ UNCHANGED delivered

Arrival(t) ==
  /\ ~ exited
  /\ \/ \E s \in Supplier : BeginConstruct(t, s)
     \/ \E e \in Event : BeginPush(t, e) \/ PushUnknown(t, e)
  /\ UNCHANGED delivered

WorkerStep ==
  /\ ~ exited
  /\ \/ WorkerFront /\ UNCHANGED delivered
     \/ Deliver

Spurious == ~ exited /\ SpuriousWakeup /\ UNCHANGED delivered

Next ==
  \/ \E t \in OrbThread : Orb(t) \/ Arrival(t)
  \/ WorkerStep
  \/ Spurious

Spec == Init /\ [][Next]_vars

\* The operating system schedules the ORB threads in the middle of an upcall
\* and the worker thread.  Nothing makes a supplier send, nor a wait return
\* without a signal.
Fairness ==
  /\ \A t \in OrbThread : WF_vars(Orb(t))
  /\ WF_vars(WorkerStep)

FairSpec == Spec /\ Fairness

-----------------------------------------------------------------------------
TypeOK ==
  /\ exited \in BOOLEAN
  /\ uniqueInstance \in Nat /\ created \in Nat
  /\ workerObj \in [Supplier -> Nat]
  /\ mtx_workerObj \in OrbThread \cup {NoThread}
  /\ mtx_EDFQ \in OrbThread \cup {Worker, NoThread, Raw}
  /\ condReady \in BOOLEAN /\ raced \in BOOLEAN
  /\ EDFQ \subseteq Event /\ unsent \subseteq Event
  /\ pc \in [OrbThread -> {"idle"} \cup CtorPC \cup PushPC]
  /\ ThreadTypeOK
  /\ wpc \in WorkerPC
  /\ item \in Event \cup {NoEvent}
  /\ wpc = "work" <=> item \in Event
  /\ started \in Seq(Event)
  /\ arrived \in [Event -> Nat]
  /\ delivered \in Seq(Event)

\* The worker tests the queue and waits under mtx_EDFQ, and so does push queue and
\* signal (29-31 against 194-197): top() is never that of an empty queue, after a
\* spurious wakeup either (TypeOK would find NoEvent), and no signal is lost.
WorkerInv == TypeOK /\ NoLostWakeup

\* The promise of the service: pending is the EDF queue together with what is
\* on its way into it.
Edf == INSTANCE EdfService WITH
         Key <- [e \in Event |-> Deadline(e)],
         fresh <- Event \ (EDFQ \cup Started),
         pending <- EDFQ,
         inService <- item,
         done <- delivered

ImplementsEdf == Edf!Spec

\* An event in the queue is delivered in the end, unless the worker used the
\* mutex or the condition variable before the constructor initialised them.
QueuedIsDelivered ==
  \A e \in Event :
    e \in EDFQ ~> (raced \/ exited \/ \E i \in DOMAIN delivered : delivered[i] = e)

\* The purpose of the worker as ThreadEntryFunction states it (22-24): what
\* is in the EDF queue is processed.
WorkerProcessesQueue ==
  \A e \in Event :
    e \in EDFQ ~> (exited \/ \E i \in DOMAIN delivered : delivered[i] = e)

===============================================================================
