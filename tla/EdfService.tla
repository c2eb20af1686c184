------------------------------ MODULE EdfService ------------------------------
(***************************************************************************)
(* What the event services of homework 7 and homework 8 promise, whatever  *)
(* threads, mutexes and queues they do it with: events are accepted into a *)
(* pending set, one at a time is worked on, always one whose deadline is   *)
(* the earliest pending, and results leave in the order the work was done. *)
(* analysis.txt of homework 8 measures the response times of this service. *)
(***************************************************************************)
EXTENDS Integers, Sequences

CONSTANTS Event, NoEvent, Key   \* Key[e]: the deadline of the event

VARIABLES
  fresh,      \* events not yet accepted
  pending,    \* events accepted and not started
  inService,  \* the event worked on, or NoEvent
  done        \* the events worked on, in the order of completion

edfVars == <<fresh, pending, inService, done>>

Init ==
  /\ fresh = Event
  /\ pending = {}
  /\ inService = NoEvent
  /\ done = <<>>

Accept(e) ==
  /\ e \in fresh
  /\ fresh' = fresh \ {e}
  /\ pending' = pending \cup {e}
  /\ UNCHANGED <<inService, done>>

Start(e) ==
  /\ inService = NoEvent
  /\ e \in pending
  /\ \A f \in pending : Key[e] <= Key[f]
  /\ inService' = e
  /\ pending' = pending \ {e}
  /\ UNCHANGED <<fresh, done>>

Finish ==
  /\ inService # NoEvent
  /\ done' = Append(done, inService)
  /\ inService' = NoEvent
  /\ UNCHANGED <<fresh, pending>>

Next == (\E e \in Event : Accept(e) \/ Start(e)) \/ Finish

Spec == Init /\ [][Next]_edfVars

===============================================================================
