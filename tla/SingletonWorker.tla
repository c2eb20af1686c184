--------------------------- MODULE SingletonWorker ---------------------------
(***************************************************************************)
(* What the event services of homework 7 and homework 8 have in common:    *)
(* the singleton OurSingletonWorker, built by the constructor of the first *)
(* proxy push consumer, the EDF queue it owns, the threads of the ORB that *)
(* push events into that queue, and the worker thread up to the moment it  *)
(* holds an event.  What the worker then does with the event is the        *)
(* subject of the modules that extend this one, EdfChannel (homework 8)    *)
(* and EdfFifoChannel (homework 7).                                        *)
(*                                                                         *)
(* Line numbers are those of hw8_solution/EC_Default_ProxyConsumer.cpp.    *)
(* Times are microseconds, the unit in which myComparison compares two     *)
(* deadlines.                                                              *)
(***************************************************************************)
EXTENDS Integers, Sequences, FiniteSets

CONSTANTS
  OrbThread,   \* the threads that run the upcalls of the event service
  Worker,      \* the one worker thread of the singleton
  NoThread,    \* a free mutex
  Raw,         \* a mutex whose memory has not been initialised yet
  Supplier,    \* event sources; each has a proxy push consumer of its own
  NoSupplier,
  Event,       \* the events the suppliers push
  NoEvent,
  Source,      \* Source[e]: event[0].header.source
  StartTime    \* StartTime[e]: the time stamp the supplier put in the payload

ASSUME ThreadAssumption ==
  /\ Worker \notin OrbThread
  /\ {NoThread, Raw} \cap (OrbThread \cup {Worker}) = {}
  /\ NoThread # Raw

ASSUME EventAssumption ==
  /\ Supplier \subseteq Int
  /\ NoSupplier \notin Supplier
  /\ NoEvent \notin Event
  /\ Source \in [Event -> Supplier]
  /\ StartTime \in [Event -> Int]

VARIABLES
  exited,         \* push has called exit(1)
  uniqueInstance, \* OurSingletonWorker::uniqueInstance, 0 for NULL
  created,        \* how many times the constructor has run pthread_create
  workerObj,      \* workerObj of each supplier's proxy, 0 before it is built
  mtx_workerObj,  \* holder of the mutex that guards getInstance
  mtx_EDFQ,       \* holder of the mutex of the EDF queue
  condReady,      \* cond_EDFQ has been initialised
  raced,          \* the worker used the mutex before line 64 had run
  EDFQ,           \* the events in the priority queue
  unsent,         \* the events not yet received by the service
  pc,             \* where each ORB thread is
  making,         \* the supplier whose proxy an ORB thread is building
  pushing,        \* the event an ORB thread is pushing
  wpc,            \* where the worker is
  item,           \* the event the worker holds
  started,        \* history: the events the worker took, in order
  arrived         \* history: Len(started) when an event entered the queue

ctorVars   == <<uniqueInstance, created, workerObj, mtx_workerObj, making>>
workerVars == <<wpc, item, raced>>
histVars   == <<started, arrived>>
swVars     == <<exited, ctorVars, mtx_EDFQ, condReady, EDFQ, unsent, pc,
                pushing, workerVars, histVars>>

CtorPC   == {"lockObj", "getInstance", "initMutex", "initCond", "unlockObj"}
PushPC   == {"lockEDFQ", "enqueue", "unlockEDFQ"}
WorkerPC ==
  {"none", "lock", "test", "block", "wait", "stranded", "hung", "work"}

-----------------------------------------------------------------------------
(* The deadline of an event.                                               *)

\* The sources push knows, and the relative deadline of each (157-182).
KnownSource == 0 .. 4
Interval(s) == 1000 * <<100, 50, 200, 150, 70>>[s + 1]

\* currentTime + (interval - (currentTime - startTime)): the time at which
\* the event is served cancels out.
Deadline(e) == StartTime[e] + Interval(Source[e])

\* Mutant: the operands swapped, so that the latest deadline comes first.
SwappedComparison(lhs, rhs) == Deadline(rhs) - Deadline(lhs) > 0

\* myComparison on two events: lhs has the lower priority.
myComparison(lhs, rhs) == Deadline(lhs) - Deadline(rhs) > 0

\* Mutant: top() is taken without testing empty().
UntestedTop(q) ==
  IF q = {} THEN {NoEvent} ELSE {e \in q : \A f \in q : ~ myComparison(e, f)}

\* What top() may return: the queue is a heap, which does not order ties.
Top(q) == {e \in q : \A f \in q : ~ myComparison(e, f)}

Popped(q, e) == q \ {e}

-----------------------------------------------------------------------------
SWInit ==
  /\ exited = FALSE
  /\ uniqueInstance = 0
  /\ created = 0
  /\ workerObj = [s \in Supplier |-> 0]
  /\ mtx_workerObj = NoThread
  /\ mtx_EDFQ = Raw
  /\ condReady = FALSE
  /\ raced = FALSE
  /\ EDFQ = {}
  /\ unsent = Event
  /\ pc = [t \in OrbThread |-> "idle"]
  /\ making = [t \in OrbThread |-> NoSupplier]
  /\ pushing = [t \in OrbThread |-> NoEvent]
  /\ wpc = "none"
  /\ item = NoEvent
  /\ started = <<>>
  /\ arrived = [e \in Event |-> 0]

-----------------------------------------------------------------------------
(* The constructor of a proxy, run when a supplier asks for one.           *)

\* A supplier without a proxy asks for one; no other thread builds it.
BeginConstruct(t, s) ==
  /\ pc[t] = "idle"
  /\ workerObj[s] = 0
  /\ \A u \in OrbThread : making[u] # s
  /\ pc' = [pc EXCEPT ![t] = "lockObj"]
  /\ making' = [making EXCEPT ![t] = s]
  /\ UNCHANGED <<exited, uniqueInstance, created, workerObj, mtx_workerObj,
                 mtx_EDFQ, condReady, EDFQ, unsent, pushing, workerVars,
                 histVars>>

\* Mutant: the constructor does not take the mutex.
UnguardedGetInstance(t) == mtx_workerObj' = t

AcquireWorkerObj(t) == mtx_workerObj = NoThread /\ mtx_workerObj' = t

\* Line 77.
LockWorkerObj(t) ==
  /\ pc[t] = "lockObj"
  /\ AcquireWorkerObj(t)
  /\ pc' = [pc EXCEPT ![t] = "getInstance"]
  /\ UNCHANGED <<exited, uniqueInstance, created, workerObj, making, mtx_EDFQ,
                 condReady, EDFQ, unsent, pushing, workerVars, histVars>>

\* getInstance finds the singleton (header, 59 and 62).
FindInstance(t) ==
  /\ pc[t] = "getInstance"
  /\ uniqueInstance # 0
  /\ pc' = [pc EXCEPT ![t] = "unlockObj"]
  /\ UNCHANGED <<exited, ctorVars, mtx_EDFQ, condReady, EDFQ, unsent, pushing,
                 workerVars, histVars>>

\* getInstance finds NULL and runs the constructor, whose first statement
\* starts the worker thread (61), before the mutex and the condition variable
\* the thread uses are initialised.
CreateWorker(t) ==
  /\ pc[t] = "getInstance"
  /\ uniqueInstance = 0
  /\ created' = created + 1
  /\ wpc' = "lock"
  /\ pc' = [pc EXCEPT ![t] = "initMutex"]
  /\ UNCHANGED <<exited, uniqueInstance, workerObj, mtx_workerObj, making,
                 mtx_EDFQ, condReady, EDFQ, unsent, pushing, item, raced,
                 histVars>>

\* Line 63: whoever held the mutex no longer does.
InitMutex(t) ==
  /\ pc[t] = "initMutex"
  /\ mtx_EDFQ' = NoThread
  /\ pc' = [pc EXCEPT ![t] = "initCond"]
  /\ UNCHANGED <<exited, ctorVars, condReady, EDFQ, unsent, pushing,
                 workerVars, histVars>>

\* Line 64, and the assignment of uniqueInstance in getInstance (header, 60).
\* A worker that already waits is forgotten: the count of waiters is reset.
InitCond(t) ==
  /\ pc[t] = "initCond"
  /\ condReady' = TRUE
  /\ wpc' = IF wpc = "wait" THEN "stranded" ELSE wpc
  /\ uniqueInstance' = created
  /\ pc' = [pc EXCEPT ![t] = "unlockObj"]
  /\ UNCHANGED <<exited, created, workerObj, mtx_workerObj, making, mtx_EDFQ,
                 EDFQ, unsent, pushing, item, raced, histVars>>

\* workerObj is assigned (78) and the mutex released (79).
UnlockWorkerObj(t) ==
  /\ pc[t] = "unlockObj"
  /\ workerObj' = [workerObj EXCEPT ![making[t]] = uniqueInstance]
  /\ mtx_workerObj' = NoThread
  /\ making' = [making EXCEPT ![t] = NoSupplier]
  /\ pc' = [pc EXCEPT ![t] = "idle"]
  /\ UNCHANGED <<exited, uniqueInstance, created, mtx_EDFQ, condReady, EDFQ,
                 unsent, pushing, workerVars, histVars>>

Construct(t) ==
  \/ LockWorkerObj(t) \/ FindInstance(t) \/ CreateWorker(t) \/ InitMutex(t)
  \/ InitCond(t) \/ UnlockWorkerObj(t)

-----------------------------------------------------------------------------
(* push, up to line 197.                                                   *)

\* An event of a supplier that has its proxy arrives.
BeginPush(t, e) ==
  /\ pc[t] = "idle"
  /\ e \in unsent
  /\ workerObj[Source[e]] # 0
  /\ Source[e] \in KnownSource
  /\ unsent' = unsent \ {e}
  /\ pushing' = [pushing EXCEPT ![t] = e]
  /\ pc' = [pc EXCEPT ![t] = "lockEDFQ"]
  /\ UNCHANGED <<exited, ctorVars, mtx_EDFQ, condReady, EDFQ, workerVars,
                 histVars>>

\* An event whose source is unknown ends the process (178-182).
PushUnknown(t, e) ==
  /\ pc[t] = "idle"
  /\ e \in unsent
  /\ workerObj[Source[e]] # 0
  /\ Source[e] \notin KnownSource
  /\ exited' = TRUE
  /\ UNCHANGED <<ctorVars, mtx_EDFQ, condReady, EDFQ, unsent, pc, pushing,
                 workerVars, histVars>>

AcquireEDFQ(t) == mtx_EDFQ = NoThread /\ mtx_EDFQ' = t

\* Line 194.
LockEDFQ(t) ==
  /\ pc[t] = "lockEDFQ"
  /\ AcquireEDFQ(t)
  /\ pc' = [pc EXCEPT ![t] = "enqueue"]
  /\ UNCHANGED <<exited, ctorVars, condReady, EDFQ, unsent, pushing,
                 workerVars, histVars>>

\* Line 195.
Enqueue(t) ==
  /\ pc[t] = "enqueue"
  /\ EDFQ' = EDFQ \cup {pushing[t]}
  /\ arrived' = [arrived EXCEPT ![pushing[t]] = Len(started)]
  /\ pc' = [pc EXCEPT ![t] = "unlockEDFQ"]
  /\ UNCHANGED <<exited, ctorVars, mtx_EDFQ, condReady, unsent, pushing,
                 workerVars, started>>

\* Mutant: push does not signal.
NotSignalled(w) == w

\* pthread_cond_signal: the worker, if it waits, has to take the mutex again.
Signalled(w) == IF w = "wait" THEN "lock" ELSE w

\* Lines 196 and 197.  What push does next depends on the service.
SignalAndUnlock(t, next) ==
  /\ pc[t] = "unlockEDFQ"
  /\ wpc' = Signalled(wpc)
  /\ mtx_EDFQ' = NoThread
  /\ pushing' = [pushing EXCEPT ![t] = NoEvent]
  /\ pc' = [pc EXCEPT ![t] = next]
  /\ UNCHANGED <<exited, ctorVars, condReady, EDFQ, unsent, item, raced,
                 histVars>>

-----------------------------------------------------------------------------
(* The worker, lines 28 to 35.                                             *)

\* Line 28, and the return of pthread_cond_wait (31).  The memory of a raw
\* mutex may happen to read as a free one.
WorkerLock ==
  /\ wpc = "lock"
  /\ mtx_EDFQ \in {NoThread, Raw}
  /\ mtx_EDFQ' = Worker
  /\ raced' = (raced \/ ~ condReady)
  /\ wpc' = "test"
  /\ UNCHANGED <<exited, ctorVars, condReady, EDFQ, unsent, pc, pushing, item,
                 histVars>>

\* Line 28 on a raw mutex whose memory reads as a locked one: nobody will
\* ever unlock it, and the initialiser wakes nobody.
WorkerHang ==
  /\ wpc = "lock"
  /\ mtx_EDFQ = Raw
  /\ wpc' = "hung"
  /\ raced' = TRUE
  /\ UNCHANGED <<exited, ctorVars, mtx_EDFQ, condReady, EDFQ, unsent, pc,
                 pushing, item, histVars>>

\* The queue is empty (29).
WorkerEmpty ==
  /\ wpc = "test"
  /\ EDFQ = {}
  /\ wpc' = "block"
  /\ UNCHANGED <<exited, ctorVars, mtx_EDFQ, condReady, EDFQ, unsent, pc,
                 pushing, item, raced, histVars>>

\* pthread_cond_wait starts to wait and releases the mutex, in one step (31).
WorkerWait ==
  /\ wpc = "block"
  /\ wpc' = "wait"
  /\ mtx_EDFQ' = NoThread
  /\ UNCHANGED <<exited, ctorVars, condReady, EDFQ, unsent, pc, pushing, item,
                 raced, histVars>>

\* Take the top of the queue and release the mutex (33-35).
WorkerPop ==
  /\ wpc = "test"
  /\ \E e \in Top(EDFQ) :
       /\ item' = e
       /\ EDFQ' = Popped(EDFQ, e)
       /\ started' = Append(started, e)
  /\ wpc' = "work"
  /\ mtx_EDFQ' = NoThread
  /\ UNCHANGED <<exited, ctorVars, condReady, unsent, pc, pushing, raced,
                 arrived>>

\* pthread_cond_wait may return without a signal.
SpuriousWakeup ==
  /\ wpc \in {"wait", "stranded"}
  /\ wpc' = "lock"
  /\ UNCHANGED <<exited, ctorVars, mtx_EDFQ, condReady, EDFQ, unsent, pc,
                 pushing, item, raced, histVars>>

\* The event has been handed on: back to line 28.
WorkerDone(from) ==
  /\ wpc = from
  /\ wpc' = "lock"
  /\ item' = NoEvent
  /\ UNCHANGED <<exited, ctorVars, mtx_EDFQ, condReady, EDFQ, unsent, pc,
                 pushing, raced, histVars>>

WorkerFront ==
  WorkerLock \/ WorkerHang \/ WorkerEmpty \/ WorkerWait \/ WorkerPop

-----------------------------------------------------------------------------
(* Properties of the common part.                                          *)

\* The events in the hands of ORB threads, and the event the worker holds.
InPush == {pushing[t] : t \in OrbThread} \ {NoEvent}
InWork == {item} \ {NoEvent}
Started == {started[i] : i \in DOMAIN started}

\* Each ORB thread is where its arguments say it is.
ThreadTypeOK ==
  /\ making \in [OrbThread -> Supplier \cup {NoSupplier}]
  /\ pushing \in [OrbThread -> Event \cup {NoEvent}]
  /\ \A t \in OrbThread :
       /\ pc[t] \in CtorPC <=> making[t] \in Supplier
       /\ pc[t] \in PushPC <=> pushing[t] \in Event

\* The mutex of the EDF queue excludes: unless the worker used it before it
\* was initialised, its holder is the one thread between lock and unlock.
EDFQExclusion ==
  ~ raced =>
    /\ \A t \in OrbThread : pc[t] \in {"enqueue", "unlockEDFQ"}
                               <=> mtx_EDFQ = t
    /\ wpc \in {"test", "block"} <=> mtx_EDFQ = Worker

\* The singleton: one worker thread is ever created, and all proxies share it
\* (getInstance under mtx_workerObj, 77-79).
OneWorker ==
  /\ created <= 1
  /\ \A s \in Supplier : workerObj[s] \in {0, uniqueInstance}

\* No event is lost or taken twice between push and the worker: each is in
\* exactly one place, and the worker takes it at most once.
EventsConserved ==
  /\ Event = unsent \cup {e \in InPush : e \notin EDFQ} \cup EDFQ \cup Started
  /\ unsent \cap (InPush \cup EDFQ \cup Started) = {}
  /\ EDFQ \cap Started = {}
  /\ \A i, j \in DOMAIN started : started[i] = started[j] => i = j

\* A worker that waits while an event is queued is about to be signalled: the
\* thread that queued it still holds the mutex (194-197 against 29-31).
NoLostWakeup ==
  ~ raced /\ wpc = "wait" /\ EDFQ # {} =>
    \E t \in OrbThread : pc[t] = "unlockEDFQ"

\* Earliest deadline first: once an event is queued, the worker starts no
\* event with a later deadline before it.
EarliestFirst ==
  /\ \A i, j \in DOMAIN started :
       i < j /\ i > arrived[started[j]] =>
         Deadline(started[i]) <= Deadline(started[j])
  /\ \A e \in EDFQ : \A i \in DOMAIN started :
       i > arrived[e] => Deadline(started[i]) <= Deadline(e)

=============================================================================
