------------------------------ MODULE TopicTasks ------------------------------
(***************************************************************************)
(* The event service of lab 2,                                             *)
(* prev/spring2020/lab2/exampleAnswers/sec4-7/es_server.cc: one task per   *)
(* priority level, each with a slot for one message, a flag, a mutex, a    *)
(* condition variable and a writer.  The three tasks of the source differ  *)
(* in name, priority and workload only; here they are one set of actions   *)
(* with the topic as parameter.                                            *)
(*                                                                         *)
(* The constructor starts the tasks before it assigns the flags, mutexes   *)
(* and condition variables.  These are globals, zero when the program      *)
(* starts, and zero is what the initialisers assign: a task that comes     *)
(* first finds them usable, and what it did with them is then overwritten. *)
(***************************************************************************)
EXTENDS Integers, Sequences

CONSTANTS
  TaskOrder,        \* the topics, in the order of the constructor
  Publisher,        \* threads of the RPC library that run Publish
  NoThread,         \* a free mutex
  Msg, NoMsg,
  Stream,           \* Stream[p]: what publisher p sends, in order
  TopicOf,          \* TopicOf[m]; it need not be a topic of the service
  Subscriber,       \* calls of Subscribe
  NULL

Topic == {TaskOrder[k] : k \in DOMAIN TaskOrder}

ASSUME TopicTasksAssumption ==
  /\ TaskOrder \in Seq(Topic)
  /\ \A j, k \in DOMAIN TaskOrder : TaskOrder[j] = TaskOrder[k] => j = k
  /\ Publisher \cap Topic = {} /\ NoThread \notin Publisher \cup Topic
  /\ NoMsg \notin Msg /\ NULL \notin Subscriber
  /\ Stream \in [Publisher -> Seq(Msg)]
  /\ TaskOrder # <<>>

\* Msg names the messages, not their contents: each is read once, out of one
\* stream.
ASSUME StreamAssumption ==
  \A p, q \in Publisher : \A j \in DOMAIN Stream[p], k \in DOMAIN Stream[q] :
    Stream[p][j] = Stream[q][k] => p = q /\ j = k

VARIABLES
  ctor,       \* the assignments of the constructor that are done
  td, hasData, mutex, writer,   \* the globals of each topic
  tpc,        \* tpc[t]: where the task of the topic is
  raced,      \* history: the constructor overwrote what the task was using
  ppc, sent,  \* where Publish is, and how much of its stream it has read
  spc,        \* spc[s]: writers assigned by a call of Subscribe
  stored,     \* history: the messages put into the slot of each topic
  handled,    \* history: the messages each task was done with
  got         \* history: what was written to each subscriber

slotVars == <<td, hasData, stored>>
taskVars == <<tpc, raced>>
pubVars  == <<ppc, sent>>
subVars  == <<writer, spc>>
outVars  == <<handled, got>>
vars == <<ctor, slotVars, mutex, taskVars, pubVars, subVars, outVars>>

N == Len(TaskOrder)
Returned == N + 1

Init ==
  /\ ctor = 0
  /\ td = [t \in Topic |-> NoMsg] /\ hasData = [t \in Topic |-> FALSE]
  /\ mutex = [t \in Topic |-> NoThread]
  /\ writer = [t \in Topic |-> NULL]
  /\ tpc = [t \in Topic |-> "none"] /\ raced = [t \in Topic |-> FALSE]
  /\ ppc = [p \in Publisher |-> "read"] /\ sent = [p \in Publisher |-> 0]
  /\ spc = [s \in Subscriber |-> 0]
  /\ stored = [t \in Topic |-> <<>>] /\ handled = [t \in Topic |-> <<>>]
  /\ got = [s \in Subscriber |-> <<>>]

-----------------------------------------------------------------------------
(* The constructor: N threads, N flags, N mutexes, N condition variables.  *)

Phase == ctor \div N
Current == TaskOrder[(ctor % N) + 1]

CreateTask ==
  /\ Phase = 0
  /\ tpc' = [tpc EXCEPT ![Current] = "lock"]
  /\ UNCHANGED <<hasData, mutex, raced>>

InitFlag ==
  /\ Phase = 1
  /\ hasData' = [hasData EXCEPT ![Current] = FALSE]
  /\ UNCHANGED <<mutex, tpc, raced>>

\* A mutex that a task holds is free again.
InitMutex ==
  /\ Phase = 2
  /\ mutex' = [mutex EXCEPT ![Current] = NoThread]
  /\ raced' = [raced EXCEPT ![Current] = @ \/ mutex[Current] # NoThread]
  /\ UNCHANGED <<hasData, tpc>>

\* A condition variable forgets the task that waits on it.
InitCond ==
  /\ Phase = 3
  /\ tpc' = [tpc EXCEPT ![Current] = IF @ = "wait" THEN "stranded" ELSE @]
  /\ raced' = [raced EXCEPT ![Current] = @ \/ tpc[Current] = "wait"]
  /\ UNCHANGED <<hasData, mutex>>

Construct ==
  /\ ctor' = ctor + 1
  /\ CreateTask \/ InitFlag \/ InitMutex \/ InitCond
  /\ UNCHANGED <<td, stored, pubVars, subVars, outVars>>

\* RunServer builds the service before it starts the server (240, 251).
Running == ctor = 4 * N

-----------------------------------------------------------------------------
(* Publish.                                                                *)

Data(p) == Stream[p][sent[p]]

\* A message of an unidentified topic is dropped (225).
Read(p) ==
  /\ Running
  /\ ppc[p] = "read"
  /\ sent[p] < Len(Stream[p])
  /\ sent' = [sent EXCEPT ![p] = @ + 1]
  /\ ppc' = [ppc EXCEPT ![p] =
               IF TopicOf[Stream[p][sent[p] + 1]] \in Topic THEN "lock" ELSE @]
  /\ UNCHANGED <<ctor, slotVars, mutex, taskVars, subVars, outVars>>

\* Mutant: Publish does not wait for the mutex.
UnguardedSlot(p, t) == mutex' = [mutex EXCEPT ![t] = p]

AcquireSlot(p, t) ==
  mutex[t] = NoThread /\ mutex' = [mutex EXCEPT ![t] = p]

LockSlot(p) ==
  /\ ppc[p] = "lock"
  /\ AcquireSlot(p, TopicOf[Data(p)])
  /\ ppc' = [ppc EXCEPT ![p] = "store"]
  /\ UNCHANGED <<ctor, slotVars, taskVars, sent, subVars, outVars>>

Store(p) ==
  LET t == TopicOf[Data(p)] IN
  /\ ppc[p] = "store"
  /\ td' = [td EXCEPT ![t] = Data(p)]
  /\ hasData' = [hasData EXCEPT ![t] = TRUE]
  /\ stored' = [stored EXCEPT ![t] = Append(@, Data(p))]
  /\ ppc' = [ppc EXCEPT ![p] = "broadcast"]
  /\ UNCHANGED <<ctor, mutex, taskVars, sent, subVars, outVars>>

\* Mutant: no broadcast.
NotWoken(w) == w

Woken(w) == IF w = "wait" THEN "relock" ELSE w

\* The broadcast, and the unlock after it.
Broadcast(p) ==
  LET t == TopicOf[Data(p)] IN
  /\ ppc[p] = "broadcast"
  /\ tpc' = [tpc EXCEPT ![t] = Woken(@)]
  /\ mutex' = [mutex EXCEPT ![t] = NoThread]
  /\ ppc' = [ppc EXCEPT ![p] = "read"]
  /\ UNCHANGED <<ctor, slotVars, raced, sent, subVars, outVars>>

Publish(p) == Read(p) \/ LockSlot(p) \/ Store(p) \/ Broadcast(p)

-----------------------------------------------------------------------------
(* The task of a topic.                                                    *)

AfterWait == "test"

\* Take the mutex, at the start of a turn or when pthread_cond_wait returns.
TaskLock(t) ==
  /\ tpc[t] \in {"lock", "relock"}
  /\ mutex[t] = NoThread
  /\ mutex' = [mutex EXCEPT ![t] = t]
  /\ tpc' = [tpc EXCEPT ![t] = IF @ = "lock" THEN "test" ELSE AfterWait]
  /\ UNCHANGED <<ctor, slotVars, raced, pubVars, subVars, outVars>>

TaskTest(t) ==
  /\ tpc[t] = "test"
  /\ tpc' = [tpc EXCEPT ![t] = IF hasData[t] THEN "serve" ELSE "block"]
  /\ UNCHANGED <<ctor, slotVars, mutex, raced, pubVars, subVars, outVars>>

TaskWait(t) ==
  /\ tpc[t] = "block"
  /\ tpc' = [tpc EXCEPT ![t] = "wait"]
  /\ mutex' = [mutex EXCEPT ![t] = NoThread]
  /\ UNCHANGED <<ctor, slotVars, raced, pubVars, subVars, outVars>>

\* The data is discarded for want of a subscriber (113); otherwise the
\* workload runs.
TaskServe(t) ==
  /\ tpc[t] = "serve"
  /\ IF writer[t] = NULL
       THEN /\ tpc' = [tpc EXCEPT ![t] = "reset"]
            /\ handled' = [handled EXCEPT ![t] = Append(@, td[t])]
       ELSE tpc' = [tpc EXCEPT ![t] = "write"] /\ UNCHANGED handled
  /\ UNCHANGED <<ctor, slotVars, mutex, raced, pubVars, subVars, got>>

\* The writer is read again, after the workload.
TaskWrite(t) ==
  /\ tpc[t] = "write"
  /\ tpc' = [tpc EXCEPT ![t] = "reset"]
  /\ handled' = [handled EXCEPT ![t] = Append(@, td[t])]
  /\ got' = [got EXCEPT ![writer[t]] = Append(@, td[t])]
  /\ UNCHANGED <<ctor, slotVars, mutex, raced, pubVars, subVars>>

\* Mutant: the flag is left set.
FlagKept(flag) == flag

FlagAfterServe(flag) == FALSE

TaskReset(t) ==
  /\ tpc[t] = "reset"
  /\ hasData' = [hasData EXCEPT ![t] = FlagAfterServe(@)]
  /\ mutex' = [mutex EXCEPT ![t] = NoThread]
  /\ tpc' = [tpc EXCEPT ![t] = "lock"]
  /\ UNCHANGED <<ctor, td, stored, raced, pubVars, subVars, outVars>>

Task(t) ==
  \/ TaskLock(t) \/ TaskTest(t) \/ TaskWait(t)
  \/ TaskServe(t) \/ TaskWrite(t) \/ TaskReset(t)

\* pthread_cond_wait may return without a broadcast.
SpuriousWakeup(t) ==
  /\ tpc[t] = "wait"
  /\ tpc' = [tpc EXCEPT ![t] = "relock"]
  /\ UNCHANGED <<ctor, slotVars, mutex, raced, pubVars, subVars, outVars>>

-----------------------------------------------------------------------------
(* Subscribe: three assignments without a lock, and an hour of sleep.      *)

StoreWriter(s) ==
  /\ Running
  /\ spc[s] < N
  /\ spc' = [spc EXCEPT ![s] = @ + 1]
  /\ writer' = [writer EXCEPT ![TaskOrder[spc[s] + 1]] = s]
  /\ UNCHANGED <<ctor, slotVars, mutex, taskVars, pubVars, outVars>>

\* Mutant: the call takes its writer back.
TakenBack(s) == [t \in Topic |-> IF writer[t] = s THEN NULL ELSE writer[t]]

LeftBehind(s) == writer

SubscribeReturns(s) ==
  /\ spc[s] = N
  /\ spc' = [spc EXCEPT ![s] = Returned]
  /\ writer' = LeftBehind(s)
  /\ UNCHANGED <<ctor, slotVars, mutex, taskVars, pubVars, outVars>>

Subscribe(s) == StoreWriter(s) \/ SubscribeReturns(s)

-----------------------------------------------------------------------------
Next ==
  \/ Construct
  \/ \E p \in Publisher : Publish(p)
  \/ \E t \in Topic : Task(t) \/ SpuriousWakeup(t)
  \/ \E s \in Subscriber : Subscribe(s)

Spec == Init /\ [][Next]_vars

\* The constructor, handlers that have a message, and the tasks are scheduled.
Fairness ==
  /\ WF_vars(Construct)
  /\ \A p \in Publisher : WF_vars(Publish(p))
  /\ \A t \in Topic : WF_vars(Task(t))

FairSpec == Spec /\ Fairness

\* The behaviours in which the constructor overwrites nothing in use.
CalmSpec == Init /\ [][Next /\ raced' = raced]_vars

CalmFairSpec == CalmSpec /\ Fairness

-----------------------------------------------------------------------------
TaskType ==
  /\ td \in [Topic -> Msg \cup {NoMsg}] /\ hasData \in [Topic -> BOOLEAN]
  /\ mutex \in [Topic -> Topic \cup Publisher \cup {NoThread}]
  /\ tpc \in [Topic -> {"none", "lock", "test", "block", "wait", "relock",
                        "stranded", "serve", "write", "reset"}]
  /\ raced \in [Topic -> BOOLEAN]
  /\ stored \in [Topic -> Seq(Msg)]

PublisherType ==
  /\ ppc \in [Publisher -> {"read", "lock", "store", "broadcast"}]
  /\ sent \in [Publisher -> Nat]
  /\ \A p \in Publisher : sent[p] <= Len(Stream[p])

SubscriberType ==
  /\ writer \in [Topic -> Subscriber \cup {NULL}]
  /\ spc \in [Subscriber -> 0 .. Returned]

TypeOK ==
  /\ ctor \in 0 .. 4 * N
  /\ TaskType /\ PublisherType /\ SubscriberType
  /\ handled \in [Topic -> Seq(Msg)]
  /\ got \in [Subscriber -> Seq(Msg)]

\* From its test of the flag to its reset, a task works on one message: no
\* Publish replaces it in between (103-116).
SlotStable ==
  [][\A t \in Topic : tpc[t] \in {"serve", "write", "reset"} => td'[t] = td[t]]_vars

\* A task that waits while its slot is full is about to be woken.
NoLostWakeup ==
  \A t \in Topic : tpc[t] = "wait" /\ hasData[t] =>
    \E p \in Publisher : ppc[p] = "broadcast" /\ TopicOf[Data(p)] = t

\* Each task handles messages of its topic, each at most once and in the order
\* they were stored; one that is never handled was replaced by a later one.
Mail == INSTANCE LatestValue WITH
  fresh   <- Msg \ UNION {{stored[t][k] : k \in DOMAIN stored[t]} : t \in Topic},
  mailbox <- [t \in Topic |->
                IF hasData[t] /\ tpc[t] # "reset" THEN td[t] ELSE NoMsg]

ImplementsLatestValue == Mail!Spec

\* The last message stored for a topic is handled in the end, whatever came
\* before it: a publisher that stops leaves nothing in the slot.
NewestHandled ==
  \A t \in Topic : <>[](stored[t] = <<>> \/
    /\ handled[t] # <<>>
    /\ handled[t][Len(handled[t])] = stored[t][Len(stored[t])])

\* Between the test of its writer and its use (107, 110; the workload is in
\* between) a task keeps one to write to: calls of Subscribe that begin and
\* return meanwhile replace the writer, but never take it away.
WritesToSomebody == \A t \in Topic : tpc[t] = "write" => writer[t] # NULL

\* What a task relies on whenever it runs: a wakeup that is not lost, and a
\* writer to write to.
TaskInv == TypeOK /\ NoLostWakeup /\ WritesToSomebody

===============================================================================
