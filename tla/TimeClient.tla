------------------------------ MODULE TimeClient ------------------------------
(***************************************************************************)
(* The time client of homework 5, hw5_solution/csc9006hw5/client.cpp and   *)
(* Time_Client_i.cpp: two threads share the singleton Time_Client_i, each  *)
(* waits in pause() for the SIGHUP that the handler of its timer sends it, *)
(* asks the server for the time, and after its last round gives up its     *)
(* reference; the last one tells the server to shut down (the client was   *)
(* started with -x).                                                       *)
(*                                                                         *)
(* ref_count and initialized are only touched with mutex_client held, so a *)
(* critical section is one step.  The kernel hands the process's signals   *)
(* to the main thread, which waits in pthread_join.  The server            *)
(* (Time_i.cpp) runs one thread: a call of it is one step.                 *)
(***************************************************************************)
EXTENDS Integers, FiniteSets

CONSTANTS
  NumThreads,   \* 2 in the code
  Rounds,       \* 15 in the code
  MayFail       \* a call of the server may throw CORBA::Exception

ASSUME TimeClientAssumption ==
  /\ NumThreads \in Nat \ {0} /\ Rounds \in Nat
  /\ MayFail \in BOOLEAN

Thread == 1 .. NumThreads

VARIABLES
  mpc,            \* the main thread: how many of its steps are done
  pc,             \* where each thread of the client is
  uniqueInstance, \* the singleton, 0 for NULL
  made,           \* instances made so far
  client,         \* client[t]: what getInstance returned to t
  ref_count,      \* ref_count[c] of instance c
  initialized,    \* the instances whose client_ is initialised
  leftLocked,     \* mutex_client was held when an exception left run
  round,          \* round[t]: rounds done
  hup,            \* hup[t]: SIGHUP is pending for thread t
  handler,        \* the SIGHUP handler, one for the process, is installed
  killed,         \* SIGHUP came before: its default action ended the process
  serverDown,     \* Time_i::shutdown was called
  failed,         \* threads that left run by an exception
  foundNone,      \* history: the threads that found no instance
  overtaken,      \* history: a thread counted itself after another gave up
  stray           \* history: pthread_kill for a thread already joined

instVars  == <<uniqueInstance, made, client, foundNone>>
countVars == <<ref_count, initialized, leftLocked, overtaken>>
sigVars   == <<hup, handler, killed, stray>>
vars == <<mpc, pc, instVars, countVars, round, sigVars, serverDown, failed>>

Init ==
  /\ mpc = 0
  /\ pc = [t \in Thread |-> "none"]
  /\ uniqueInstance = 0 /\ made = 0
  /\ client = [t \in Thread |-> 0] /\ foundNone = {}
  /\ ref_count = [c \in Thread |-> 0] /\ initialized = {} /\ leftLocked = FALSE
  /\ round = [t \in Thread |-> 0]
  /\ hup = [t \in Thread |-> FALSE]
  /\ handler = FALSE /\ killed = FALSE /\ stray = FALSE
  /\ serverDown = FALSE
  /\ failed = {} /\ overtaken = FALSE

-----------------------------------------------------------------------------
(* The main thread creates the threads, arms the timers (97, 98), and      *)
(* joins the threads in order.                                             *)

Armed == mpc > NumThreads
Joined(t) == mpc > NumThreads + t
Ended(t) == pc[t] = "end"

\* usleep(20000) ends (client.cpp:90), whether or not the thread created last has
\* its client.
Create ==
  /\ mpc < NumThreads
  /\ pc' = [pc EXCEPT ![mpc + 1] = "test"]
  /\ mpc' = mpc + 1

SetTimers == mpc = NumThreads /\ mpc' = mpc + 1 /\ UNCHANGED pc

Join ==
  /\ mpc \in NumThreads + 1 .. 2 * NumThreads
  /\ Ended(mpc - NumThreads)
  /\ mpc' = mpc + 1
  /\ UNCHANGED pc

Main ==
  /\ ~ killed
  /\ Create \/ SetTimers \/ Join
  /\ UNCHANGED <<instVars, countVars, round, sigVars, serverDown, failed>>

\* A timer expires and its handler sends SIGHUP to the thread it belongs to.
\* The timers run until main returns.
Timeout(t) ==
  /\ ~ killed
  /\ Armed /\ mpc <= 2 * NumThreads
  /\ hup' = [hup EXCEPT ![t] = @ \/ ~ Ended(t)]
  /\ stray' = (stray \/ Joined(t))
  /\ UNCHANGED <<mpc, pc, instVars, countVars, round, handler, killed,
                 serverDown, failed>>

-----------------------------------------------------------------------------
(* getInstance (Time_Client_i.h).                                          *)

\* Mutant: the instance is made without looking for one.
Always(i) == TRUE

IsNull(i) == i = 0

TestInstance(t) ==
  /\ pc[t] = "test"
  /\ pc' = [pc EXCEPT ![t] = IF IsNull(uniqueInstance) THEN "new" ELSE "return"]
  /\ foundNone' = IF uniqueInstance = 0 THEN foundNone \cup {t} ELSE foundNone
  /\ UNCHANGED <<uniqueInstance, made, client>>

NewInstance(t) ==
  /\ pc[t] = "new"
  /\ made' = made + 1
  /\ uniqueInstance' = made + 1
  /\ pc' = [pc EXCEPT ![t] = "return"]
  /\ UNCHANGED <<client, foundNone>>

ReturnInstance(t) ==
  /\ pc[t] = "return"
  /\ client' = [client EXCEPT ![t] = uniqueInstance]
  /\ pc' = [pc EXCEPT ![t] = "enter"]
  /\ UNCHANGED <<uniqueInstance, made, foundNone>>

GetInstance(t) ==
  /\ TestInstance(t) \/ NewInstance(t) \/ ReturnInstance(t)
  /\ UNCHANGED <<mpc, countVars, round, sigVars, serverDown, failed>>

-----------------------------------------------------------------------------
(* run (Time_Client_i.cpp).                                                *)

\* The first critical section: initialise the client once, and count.  A
\* failure of the initialisation ends the thread.
Enter(t) ==
  /\ pc[t] = "enter" /\ ~ leftLocked
  /\ \/ /\ ref_count' = [ref_count EXCEPT ![client[t]] = @ + 1]
        /\ initialized' = initialized \cup {client[t]}
        /\ overtaken' = (overtaken \/ \E u \in Thread : Ended(u))
        /\ pc' = [pc EXCEPT ![t] = "install"]
        /\ UNCHANGED <<leftLocked, failed>>
     \/ /\ MayFail /\ client[t] \notin initialized
        /\ pc' = [pc EXCEPT ![t] = "end"]
        /\ failed' = failed \cup {t}
        /\ UNCHANGED countVars
  /\ UNCHANGED <<mpc, instVars, round, sigVars, serverDown>>

InstallHandler(t) ==
  /\ pc[t] = "install"
  /\ handler' = TRUE
  /\ pc' = [pc EXCEPT ![t] = "loop"]
  /\ UNCHANGED <<mpc, instVars, countVars, round, hup, killed, stray,
                 serverDown, failed>>

HasRounds(n) == n < Rounds

\* The thread enters pause(), or has done its rounds.
Loop(t) ==
  /\ pc[t] = "loop"
  /\ pc' = [pc EXCEPT ![t] = IF HasRounds(round[t]) THEN "pause" ELSE "leave"]
  /\ UNCHANGED <<mpc, instVars, countVars, round, sigVars, serverDown, failed>>

\* Mutant: pause() is not ended.
NotCaught(at) == at

Caught(at) == IF at = "pause" THEN "call" ELSE at

\* SIGHUP is delivered: it ends pause(), or does nothing, or kills.
Deliver(t) ==
  /\ hup[t] /\ ~ Ended(t)
  /\ hup' = [hup EXCEPT ![t] = FALSE]
  /\ killed' = ~ handler
  /\ pc' = [pc EXCEPT ![t] = IF handler THEN Caught(@) ELSE @]
  /\ UNCHANGED <<mpc, instVars, countVars, round, handler, stray, serverDown,
                 failed>>

\* current_time and count_requests.  An exception ends run.
Call(t) ==
  /\ pc[t] = "call"
  /\ \/ /\ ~ serverDown
        /\ round' = [round EXCEPT ![t] = @ + 1]
        /\ pc' = [pc EXCEPT ![t] = "loop"]
        /\ UNCHANGED failed
     \/ /\ serverDown \/ MayFail
        /\ pc' = [pc EXCEPT ![t] = "end"]
        /\ failed' = failed \cup {t}
        /\ UNCHANGED round
  /\ UNCHANGED <<mpc, instVars, countVars, sigVars, serverDown>>

\* Mutants: every thread shuts the server down; none does.
AnyReference(n) == TRUE
NoReference(n) == FALSE

LastReference(n) == n = 0

\* The second critical section.  An exception of shutdown leaves it, and run,
\* with the mutex locked.
Leave(t) ==
  /\ pc[t] = "leave" /\ ~ leftLocked
  /\ ref_count' = [ref_count EXCEPT ![client[t]] = @ - 1]
  /\ pc' = [pc EXCEPT ![t] = "end"]
  /\ LET last == LastReference(ref_count[client[t]] - 1) IN
     \/ /\ serverDown' = (serverDown \/ last)
        /\ UNCHANGED <<leftLocked, failed>>
     \/ /\ last /\ (serverDown \/ MayFail)
        /\ leftLocked' = TRUE
        /\ failed' = failed \cup {t}
        /\ UNCHANGED serverDown
  /\ UNCHANGED <<mpc, instVars, initialized, overtaken, round, sigVars>>

Run(t) ==
  Enter(t) \/ InstallHandler(t) \/ Loop(t) \/ Call(t) \/ Leave(t)

Step(t) == ~ killed /\ (GetInstance(t) \/ Run(t))

SigHup(t) == ~ killed /\ Deliver(t)

\* The process has ended.
Terminated ==
  /\ killed \/ mpc = 2 * NumThreads + 1
  /\ UNCHANGED vars

Next == Main \/ Terminated \/ \E t \in Thread : Timeout(t) \/ Step(t) \/ SigHup(t)

Spec == Init /\ [][Next]_vars

\* Threads run, timers go on expiring, and a pending signal is delivered.
Fairness ==
  /\ WF_vars(Main)
  /\ \A t \in Thread : WF_vars(Step(t)) /\ WF_vars(SigHup(t)) /\ WF_vars(Timeout(t))

FairSpec == Spec /\ Fairness

-----------------------------------------------------------------------------
TypeOK ==
  /\ mpc \in 0 .. 2 * NumThreads + 1
  /\ pc \in [Thread -> {"none", "test", "new", "return", "enter", "install",
                        "loop", "pause", "call", "leave", "end"}]
  /\ uniqueInstance \in 0 .. NumThreads /\ made \in 0 .. NumThreads
  /\ client \in [Thread -> 0 .. NumThreads]
  /\ ref_count \in [Thread -> 0 .. NumThreads]
  /\ round \in [Thread -> 0 .. Rounds]
  /\ hup \in [Thread -> BOOLEAN]
  /\ {handler, killed, serverDown, leftLocked, overtaken, stray} \subseteq BOOLEAN
  /\ failed \subseteq Thread /\ foundNone \subseteq Thread /\ initialized \subseteq Thread

\* The threads share one client object (design_explained.txt:1, "we will only
\* create one single object").
OneInstance ==
  \A t, u \in Thread : client[t] # 0 /\ client[u] # 0 => client[t] = client[u]

\* However the threads meet in getInstance, they share one object unless two of
\* them found none there (heisenbug_singleton.txt:17-31), which only the sleep of
\* client.cpp:90 keeps from happening.
SharedUnlessRaced == Cardinality(foundNone) <= 1 => OneInstance

\* The threads are where their variables say, and what they share.
ClientInv == TypeOK /\ SharedUnlessRaced

\* "Make sure we will never shutdown an object while others are still working
\* with it" (design_explained.txt:23): once the server is down, no thread that
\* was counted has rounds to do, unless one came when another had left, or was
\* counted in another object.
Working == {"install", "loop", "pause", "call"}

NeverShutDownWhileUsed ==
  serverDown /\ ~ overtaken /\ OneInstance => \A t \in Thread : pc[t] \notin Working

\* If all goes well, the server is shut down in the end.
ServerShutDownIfWell ==
  \A t \in Thread : pc[t] = "leave" ~> serverDown \/ failed # {} \/ killed

\* Every thread does all its rounds, however its signals fall between its calls
\* and its pauses.
RoundsDone ==
  <>(killed \/ overtaken \/ failed # {} \/ \A t \in Thread : round[t] = Rounds)

\* The handler sends SIGHUP to a thread that exists ("send a signal to that
\* pthread", client.cpp:33).
KillsLiveThread == ~ stray

===============================================================================
