---------------------------- MODULE EdfFifoChannel ----------------------------
(***************************************************************************)
(* The event service of homework 7: the worker thread puts each event it   *)
(* has worked on into a second queue, FIFOQ, and the ORB thread that       *)
(* pushes the next event delivers what it finds there.                     *)
(*                                                                         *)
(* Line numbers are those of hw7_solution/service/EC_Default_ProxyConsumer *)
(* .cpp, whose constructor, push (up to line 209) and worker (up to line   *)
(* 35) are those of SingletonWorker.  Every use of FIFOQ and               *)
(* FIFOQ_nonempty is inside one critical section of mtx_FIFOQ that waits   *)
(* for nothing, and after the constructor is over: each is one action, and *)
(* the mutex is not a variable.                                            *)
(***************************************************************************)
EXTENDS SingletonWorker

VARIABLES
  FIFOQ,           \* the results not yet delivered
  FIFOQ_nonempty,  \* what nonEmptyFIFOQ returns
  ready_event,     \* the result an ORB thread took out of FIFOQ
  delivered        \* history: what for_each_consumer was called with

fifoVars == <<FIFOQ, FIFOQ_nonempty, ready_event, delivered>>
vars == <<swVars, fifoVars>>

DrainPC == {"checkFIFOQ", "popFIFOQ", "deliver"}

Init ==
  /\ SWInit
  /\ FIFOQ = <<>>
  /\ FIFOQ_nonempty = FALSE
  /\ ready_event = [t \in OrbThread |-> NoEvent]
  /\ delivered = <<>>

-----------------------------------------------------------------------------
(* The worker.                                                             *)

\* Mutant: the results form a stack.
Stacked(q, e) == <<e>> \o q

Queued(q, e) == Append(q, e)

\* The workload, and the result put into FIFOQ (39-53).
Finish ==
  /\ WorkerDone("work")
  /\ FIFOQ' = Queued(FIFOQ, item)
  /\ FIFOQ_nonempty' = TRUE
  /\ UNCHANGED <<ready_event, delivered>>

-----------------------------------------------------------------------------
(* The rest of push, lines 212 to 227.                                     *)

\* push does not return after line 209: it looks at FIFOQ.
FinishEnqueue(t) == SignalAndUnlock(t, "checkFIFOQ") /\ UNCHANGED fifoVars

\* What of the state of SingletonWorker the loop leaves alone.
DrainFrame ==
  UNCHANGED <<exited, ctorVars, mtx_EDFQ, condReady, EDFQ, unsent, pushing,
              workerVars, histVars>>

\* The test of the loop (213), and the return of push.
CheckFIFOQ(t) ==
  /\ pc[t] = "checkFIFOQ"
  /\ pc' = [pc EXCEPT ![t] = IF FIFOQ_nonempty THEN "popFIFOQ" ELSE "idle"]
  /\ UNCHANGED fifoVars
  /\ DrainFrame

\* Mutants: the flag is never reset; it is reset whatever is left.
NeverReset(flag, rest) == flag
AlwaysReset(flag, rest) == FALSE

FlagAfterPop(flag, rest) == IF rest = <<>> THEN FALSE ELSE flag

\* The critical section of the loop (215-222).  front() of an empty queue is
\* undefined; NoUnderflow says that it does not happen.
PopFIFOQ(t) ==
  /\ pc[t] = "popFIFOQ"
  /\ FIFOQ # <<>>
  /\ ready_event' = [ready_event EXCEPT ![t] = Head(FIFOQ)]
  /\ FIFOQ' = Tail(FIFOQ)
  /\ FIFOQ_nonempty' = FlagAfterPop(FIFOQ_nonempty, Tail(FIFOQ))
  /\ pc' = [pc EXCEPT ![t] = "deliver"]
  /\ UNCHANGED delivered
  /\ DrainFrame

\* The delivery (225-226).
Deliver(t) ==
  /\ pc[t] = "deliver"
  /\ delivered' = Append(delivered, ready_event[t])
  /\ ready_event' = [ready_event EXCEPT ![t] = NoEvent]
  /\ pc' = [pc EXCEPT ![t] = "checkFIFOQ"]
  /\ UNCHANGED <<FIFOQ, FIFOQ_nonempty>>
  /\ DrainFrame

-----------------------------------------------------------------------------
Drain(t) == CheckFIFOQ(t) \/ PopFIFOQ(t) \/ Deliver(t)

Orb(t) ==
  /\ ~ exited
  /\ \/ (Construct(t) \/ LockEDFQ(t) \/ Enqueue(t)) /\ UNCHANGED fifoVars
     \/ FinishEnqueue(t)
     \/ Drain(t)

Arrival(t) ==
  /\ ~ exited
  /\ \/ \E s \in Supplier : BeginConstruct(t, s)
     \/ \E e \in Event : BeginPush(t, e) \/ PushUnknown(t, e)
  /\ UNCHANGED fifoVars

WorkerStep ==
  /\ ~ exited
  /\ \/ WorkerFront /\ UNCHANGED fifoVars
     \/ Finish

Spurious == ~ exited /\ SpuriousWakeup /\ UNCHANGED fifoVars

Next ==
  \/ \E t \in OrbThread : Orb(t) \/ Arrival(t)
  \/ WorkerStep
  \/ Spurious

Spec == Init /\ [][Next]_vars

\* As in EdfChannel: upcalls in progress and the worker run, nothing else has
\* to.
Fairness ==
  /\ \A t \in OrbThread : WF_vars(Orb(t))
  /\ WF_vars(WorkerStep)

FairSpec == Spec /\ Fairness

-----------------------------------------------------------------------------
TypeOK ==
  /\ exited \in BOOLEAN
  /\ uniqueInstance \in Nat /\ created \in Nat
  /\ workerObj \in [Supplier -> Nat]
  /\ mtx_workerObj \in OrbThread \cup {NoThread}
  /\ mtx_EDFQ \in OrbThread \cup {Worker, NoThread, Raw}
  /\ condReady \in BOOLEAN /\ raced \in BOOLEAN
  /\ EDFQ \subseteq Event /\ unsent \subseteq Event
  /\ pc \in [OrbThread -> {"idle"} \cup CtorPC \cup PushPC \cup DrainPC]
  /\ ThreadTypeOK
  /\ wpc \in WorkerPC
  /\ item \in Event \cup {NoEvent}
  /\ wpc = "work" <=> item \in Event
  /\ started \in Seq(Event)
  /\ arrived \in [Event -> Nat]
  /\ FIFOQ \in Seq(Event) /\ FIFOQ_nonempty \in BOOLEAN
  /\ ready_event \in [OrbThread -> Event \cup {NoEvent}]
  /\ \A t \in OrbThread : pc[t] = "deliver" <=> ready_event[t] \in Event
  /\ delivered \in Seq(Event)

\* The drain loop tests and pops in two critical sections, with the mutex
\* released in between (213 against 215-217).  It never takes the front of an
\* empty queue: with one ORB thread nobody else pops.
NoUnderflow ==
  \A t \in OrbThread : pc[t] = "popFIFOQ" => FIFOQ # <<>>

\* The drain loop of push (212-227) is safe: the threads are where their
\* variables say, and none of them is about to take from an empty FIFOQ.
DrainInv == TypeOK /\ NoUnderflow

-----------------------------------------------------------------------------
(* What the service promises, when one ORB thread runs all its upcalls (as *)
(* Service.cpp does): the abstract EDF service, whose results are those    *)
(* delivered, the one in the hands of the ORB thread and those in FIFOQ.   *)

OneOrbThread == \E t \in OrbThread : OrbThread = {t}

OneThread == CHOOSE t \in OrbThread : TRUE

AsSequence(e) == IF e = NoEvent THEN <<>> ELSE <<e>>

Edf == INSTANCE EdfService WITH
         Key <- [e \in Event |-> Deadline(e)],
         fresh <- Event \ (EDFQ \cup Started),
         pending <- EDFQ,
         inService <- item,
         done <- delivered \o AsSequence(ready_event[OneThread]) \o FIFOQ

ImplementsEdf == Edf!Spec

Delivered(e) == \E i \in DOMAIN delivered : delivered[i] = e
Parked(e) == \E i \in DOMAIN FIFOQ : FIFOQ[i] = e

\* A parked result waits for the next event only: once another push has the
\* mutex of the EDF queue, the result is delivered (README.txt of homework 7,
\* on the response times).  Before that, the worker may keep push from the
\* mutex by waking up without a signal over and over.
ParkedUntilNextPush ==
  \A e \in Event :
    Parked(e) /\ (\E t \in OrbThread : pc[t] \in {"enqueue", "unlockEDFQ"}) ~>
      (exited \/ Delivered(e))

===============================================================================
