------------------------------- MODULE Suppliers -------------------------------
(***************************************************************************)
(* The application of homework 7, hw7_solution/application: Supplier.cpp   *)
(* starts one thread per supplier, each given the address of a variable of *)
(* its turn of the loop (142), and then one timer per supplier; the        *)
(* handler of a timer signals the thread, which pauses between two pushes. *)
(* Service.cpp and Consumer.cpp are processes of their own.                *)
(*                                                                         *)
(* Of the service only what the suppliers see of it is kept: a push        *)
(* returns once the event is queued, and the consumer gets it some time    *)
(* later (module EdfFifoChannel); events of one source are not told apart. *)
(***************************************************************************)
EXTENDS Naturals

CONSTANTS
  N,         \* the number of suppliers, five in the source
  Failures   \* subset of {"create", "setup", "push", "sigint"}: what may fail

ASSUME SuppliersAssumption ==
  /\ N \in Nat \ {0}
  /\ Failures \subseteq {"create", "setup", "push", "sigint"}

SupplierId == 0 .. N - 1

VARIABLES
  service,    \* "off", "bound" in the naming service, or "exited"
  consumer,   \* "off", "connected" or "exited"
  main,       \* "create", "sleep", "timers", "join" or "returned"
  i,          \* the variable of the loop main is in
  pack,       \* the id in the variable all threads point to
  at,         \* at[t]: where thread t is, "none" if it was not created
  id,         \* id[t]: the id thread t has read, N if that is none
  handler,    \* SIGHUP has a handler, whichever thread installed it
  hup,        \* the threads with a SIGHUP pending
  queued,     \* the sources with events in the service
  heard,      \* the source of the last event of the consumer, or N
  killed,     \* the process was ended by a signal or a bad thread id
  rushed      \* history: main went on before a thread had set up

processVars == <<service, consumer>>
mainVars == <<main, i, pack, rushed>>
eventVars == <<queued, heard>>
appVars == <<processVars, mainVars, at, id, handler, hup, eventVars, killed>>

AppInit ==
  /\ service = "off" /\ consumer = "off"
  /\ main = "create" /\ i = 0 /\ pack = N
  /\ at = [t \in SupplierId |-> "none"] /\ id = [t \in SupplierId |-> N]
  /\ handler = FALSE /\ hup = {}
  /\ queued = {} /\ heard = N /\ killed = FALSE
  /\ rushed = FALSE

\* The process of the suppliers lives.
Live == main # "returned" /\ ~ killed

-----------------------------------------------------------------------------
(* The service and the consumer.                                           *)

Service_main ==
  /\ service = "off"
  /\ service' = "bound"
  /\ UNCHANGED <<consumer, mainVars, at, id, handler, hup, eventVars, killed>>

\* Without the service its name is not resolved, and the consumer ends.
Consumer_run ==
  /\ consumer = "off"
  /\ consumer' = IF service = "bound" THEN "connected" ELSE "exited"
  /\ UNCHANGED <<service, mainVars, at, id, handler, hup, eventVars, killed>>

\* SIGINT, if somebody ends the experiment.
handle_sigint ==
  /\ "sigint" \in Failures
  /\ consumer = "connected"
  /\ consumer' = "exited"
  /\ UNCHANGED <<service, mainVars, at, id, handler, hup, eventVars, killed>>

\* The service has dispatched an event: to nobody, without a consumer.
Consumer_push(s) ==
  /\ service = "bound" /\ s \in queued
  /\ queued' = queued \ {s}
  /\ heard' = IF consumer = "connected" THEN s ELSE heard
  /\ UNCHANGED <<processVars, mainVars, at, id, handler, hup, killed>>

-----------------------------------------------------------------------------
(* main.                                                                   *)

PastAll(k) == k = N

NextTurn(from, to) ==
  /\ i' = IF PastAll(i + 1) THEN 0 ELSE i + 1
  /\ main' = IF PastAll(i + 1) THEN to ELSE from

\* Mutant: the argument is made once, before the loop.
ArgumentOfFirst(k) == 0

Argument(k) == k

\* pthread_create, whose failure is reported and nothing more.
CreateThread ==
  /\ Live /\ main = "create"
  /\ pack' = Argument(i)
  /\ \/ at' = [at EXCEPT ![i] = "start"]
     \/ "create" \in Failures /\ UNCHANGED at
  /\ main' = "sleep"
  /\ UNCHANGED <<processVars, i, rushed, id, handler, hup, eventVars, killed>>

\* usleep(300000) ends after 300 ms, whatever the thread has done by then.
WakeUp ==
  /\ Live /\ main = "sleep"
  /\ rushed' = (rushed \/ at[i] \in {"start", "sigaction", "setup"})
  /\ NextTurn("create", "timers")
  /\ UNCHANGED <<processVars, pack, at, id, handler, hup, eventVars, killed>>

\* A timer is armed when main has passed its turn.
Armed(s) == main = "join" \/ (main = "timers" /\ s < i)

set_timer ==
  /\ Live /\ main = "timers"
  /\ NextTurn("timers", "join")
  /\ UNCHANGED <<processVars, pack, rushed, at, id, handler, hup, eventVars, killed>>

\* pthread_join of a thread that was never created has nothing to join.
JoinThread ==
  /\ Live /\ main = "join"
  /\ IF at[i] = "none"
       THEN killed' = TRUE /\ UNCHANGED <<main, i>>
       ELSE at[i] = "ended" /\ NextTurn("join", "returned") /\ UNCHANGED killed
  /\ UNCHANGED <<processVars, pack, rushed, at, id, handler, hup, eventVars>>

\* Mutant: the handler always signals the first thread.
FirstThread(s) == 0

SignalledThread(s) == s

\* Threads that were never created or already joined must not be signalled:
\* the process may crash.
handle_timeout(s) ==
  LET t == SignalledThread(s)
      gone == at[t] = "none" \/ (main = "join" /\ t < i)
  IN
  /\ Live /\ Armed(s)
  /\ IF gone
       THEN killed' \in BOOLEAN /\ UNCHANGED hup
       ELSE /\ hup' = IF at[t] = "ended" THEN hup ELSE hup \cup {t}
            /\ UNCHANGED killed
  /\ UNCHANGED <<processVars, mainVars, at, id, handler, eventVars>>

-----------------------------------------------------------------------------
(* The thread of a supplier.                                               *)

\* The variable is one of each turn of the loop (142), each time in the same
\* place; after the loop the place may hold anything, N for what is no id.
Readable == IF main \in {"create", "sleep"} THEN {pack} ELSE {pack, N}

\* work reads its argument.  If that is garbage, so may the other parts of it
\* be, of which the process may die.
ReadPack(t) ==
  /\ Live /\ at[t] = "start"
  /\ \E k \in Readable :
       /\ id' = [id EXCEPT ![t] = k]
       /\ killed' \in IF k = N THEN BOOLEAN ELSE {FALSE}
  /\ at' = [at EXCEPT ![t] = "sigaction"]
  /\ UNCHANGED <<processVars, mainVars, handler, hup, eventVars>>

\* Mutant: SIGHUP keeps its default action.
DefaultAction == handler

HandlerSet == TRUE

InstallHandler(t) ==
  /\ Live /\ at[t] = "sigaction"
  /\ handler' = HandlerSet
  /\ at' = [at EXCEPT ![t] = "setup"]
  /\ UNCHANGED <<processVars, mainVars, id, hup, eventVars, killed>>

\* Supplier::run up to its loop: the ORB is initialised and the supplier
\* connects, or an exception ends the thread.
SetUp(t) ==
  /\ Live /\ at[t] = "setup"
  /\ \/ service = "bound" /\ at' = [at EXCEPT ![t] = "pause"]
     \/ /\ service # "bound" \/ "setup" \in Failures
        /\ at' = [at EXCEPT ![t] = "ended"]
  /\ hup' = IF at'[t] = "ended" THEN hup \ {t} ELSE hup
  /\ UNCHANGED <<processVars, mainVars, id, handler, eventVars, killed>>

\* A pending SIGHUP is handled, or has its default action.  It ends pause; at
\* any other point it leaves no trace.
handle_sighup(t) ==
  /\ Live /\ t \in hup
  /\ hup' = hup \ {t}
  /\ IF handler
       THEN /\ at' = [at EXCEPT ![t] = IF @ = "pause" THEN "push" ELSE @]
            /\ UNCHANGED killed
       ELSE killed' = TRUE /\ UNCHANGED at
  /\ UNCHANGED <<processVars, mainVars, id, handler, eventVars>>

\* The body of the loop after pause.  Without an answer of the service, which an
\* unknown source ends, the thread ends with an exception.
Push(t) ==
  /\ Live /\ at[t] = "push"
  /\ \/ /\ service = "bound" /\ id[t] \in SupplierId
        /\ queued' = queued \cup {id[t]}
        /\ at' = [at EXCEPT ![t] = "pause"]
        /\ UNCHANGED <<service, hup>>
     \/ /\ service # "bound" \/ id[t] = N \/ "push" \in Failures
        /\ at' = [at EXCEPT ![t] = "ended"]
        /\ hup' = hup \ {t}
        /\ service' = IF service = "bound" /\ id[t] = N THEN "exited" ELSE service
        /\ UNCHANGED queued
  /\ UNCHANGED <<consumer, mainVars, id, handler, heard, killed>>

Thread(t) == ReadPack(t) \/ InstallHandler(t) \/ SetUp(t) \/ Push(t)

Main == CreateThread \/ WakeUp \/ set_timer \/ JoinThread

AppNext ==
  \/ Service_main \/ Consumer_run \/ handle_sigint \/ Main
  \/ \E s \in SupplierId :
       Consumer_push(s) \/ handle_timeout(s) \/ handle_sighup(s) \/ Thread(s)

AppSpec == AppInit /\ [][AppNext]_appVars

\* The scheduler runs every thread, whose handler of SIGHUP does not keep it
\* from its work for ever, and every timer fires over and over.
AppFairSpec ==
  /\ AppSpec
  /\ WF_appVars(Main)
  /\ \A t \in SupplierId :
       /\ WF_appVars(Thread(t)) /\ WF_appVars(handle_sighup(t))
       /\ WF_appVars(handle_timeout(t)) /\ WF_appVars(Consumer_push(t))

-----------------------------------------------------------------------------
AppTypeOK ==
  /\ service \in {"off", "bound", "exited"}
  /\ consumer \in {"off", "connected", "exited"}
  /\ main \in {"create", "sleep", "timers", "join", "returned"}
  /\ i \in SupplierId /\ pack \in 0 .. N
  /\ at \in [SupplierId ->
       {"none", "start", "sigaction", "setup", "pause", "push", "ended"}]
  /\ id \in [SupplierId -> 0 .. N]
  /\ handler \in BOOLEAN /\ hup \subseteq SupplierId
  /\ queued \subseteq SupplierId /\ heard \in 0 .. N
  /\ {killed, rushed} \subseteq BOOLEAN

\* However late a thread reads the argument it shares with the others (142), it
\* gets its own id or that of a supplier started after it, or garbage: never
\* the id of an earlier one, nor of one whose turn has not come.
OwnOrLater ==
  \A t \in SupplierId :
    id[t] # N => id[t] >= t /\ (main \in {"create", "sleep"} => id[t] <= i)

\* The ids of the supplier threads, however long the sleep of main (146) is.
StartInv == AppTypeOK /\ OwnOrLater

\* The default action of SIGHUP, which ends the process, is never taken unless the
\* sleep of main was too short: no timer is armed before a handler is installed
\* (54-58, 152).  The process crashes only when main joins or a timer signals a
\* thread that is not there.
KilledOnlyByBadThread ==
  killed /\ ~ rushed => \E t \in SupplierId : at[t] \in {"none", "ended"}

\* Every supplier goes on to be heard, however its releases fall between its
\* pauses and its pushes, unless a process or its thread has ended, or it has got
\* the id of another.
HeardAgain ==
  \A t \in SupplierId :
    []<>(heard = t \/ id[t] # t \/ at[t] \in {"none", "ended"} \/ ~ Live
         \/ service # "bound" \/ consumer # "connected")

===============================================================================
