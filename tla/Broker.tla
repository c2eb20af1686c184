-------------------------------- MODULE Broker --------------------------------
(***************************************************************************)
(* The message broker of lab 3, prev/spring2020/lab3/example_answer/       *)
(* es_server.cc: handler threads of the RPC library run Publish and        *)
(* Subscribe, one dispatching thread takes messages out of the priority    *)
(* queue PQ, ordered by what getVal computes for the scheduling strategy,  *)
(* and writes each to the subscribers of its topic.                        *)
(*                                                                         *)
(* The dispatcher is created by the constructor before the mutex and the   *)
(* condition variable are set, but cannot run before: it inherits the real *)
(* time priority and the one processor of its creator (114-132).  The      *)
(* model starts when the constructor is over.                              *)
(***************************************************************************)
EXTENDS Integers, Sequences, FiniteSets

CONSTANTS
  Setups,           \* records: strategy, an argument of the program; stream,
                    \* stream[p] being the messages p sends, in order; calls,
                    \* the calls of Subscribe that come
  Publisher,        \* handler threads that run Publish, one stream each
  Dispatcher,       \* the dispatching thread
  NoThread,
  Msg, NoMsg,       \* the messages
  TopicOf,          \* TopicOf[m]
  Timestamp,        \* Timestamp[m]: when it was created, in microseconds
  Period,           \* Period[topic], from the configuration file
  Subscriber,       \* calls of Subscribe
  NoSubscriber,
  Wants,            \* Wants[s]: request->topic()
  NoTopic,          \* the topic of a slot never assigned
  MAX_SUBSCRIBERS,  \* 3 in the code
  MaxClock          \* bound of the clock of the model

ASSUME BrokerAssumption ==
  /\ Setups \subseteq [strategy : {"EDF", "RM", "FIFO"},
                       stream : [Publisher -> Seq(Msg)],
                       calls : SUBSET Subscriber]
  /\ Dispatcher \notin Publisher /\ NoThread \notin Publisher \cup {Dispatcher}
  /\ NoMsg \notin Msg /\ NoSubscriber \notin Subscriber
  /\ Timestamp \in [Msg -> Int]
  /\ \A m \in Msg : Period[TopicOf[m]] \in Int
  /\ MAX_SUBSCRIBERS \in Nat \ {0}

\* Msg names the messages, not their contents: each is read once, out of one
\* stream.
ASSUME StreamAssumption ==
  \A su \in Setups : \A p, q \in Publisher :
    \A j \in DOMAIN su.stream[p], k \in DOMAIN su.stream[q] :
      su.stream[p][j] = su.stream[q][k] => p = q /\ j = k

VARIABLES
  setup,            \* how the program is started and used
  PQ, nonEmptyPQ,   \* the priority queue and its flag
  mutex_PQ,         \* holder of the mutex of both
  val,              \* val[m]: the key of m in PQ
  ppc, sent,        \* where Publish is, and how much of its stream it has read
  dpc, td, i,       \* the dispatcher: place, message, index of its loop
  subscribers_, topics_, subscriber_index,
  spc,              \* where each call of Subscribe is
  overlapped,       \* history: two calls of addSubscriber overlapped
  outOfBounds,      \* history: addSubscriber wrote past the arrays
  clock,            \* the system clock, relative to baseTime
  enqueued,         \* history: the messages in the order of PQ.push
  dispatched,       \* history: the messages in the order of PQ.pop
  registeredAt,     \* history: subscriber_index at PQ.pop
  written           \* history: what each subscriber was written

pqVars   == <<PQ, nonEmptyPQ, val, enqueued>>
pubVars  == <<ppc, sent>>
dispVars == <<dpc, td, i, dispatched, registeredAt, written>>
subVars  == <<subscribers_, topics_, subscriber_index, spc, overlapped,
              outOfBounds>>
envVars  == <<setup, clock>>
vars == <<pqVars, mutex_PQ, pubVars, dispVars, subVars, envVars>>

strategy == setup.strategy
Stream == setup.stream

Slot == 0 .. MAX_SUBSCRIBERS - 1
Topic == {TopicOf[m] : m \in Msg} \cup {Wants[s] : s \in Subscriber}

Init ==
  /\ setup \in Setups
  /\ PQ = {} /\ nonEmptyPQ = FALSE /\ mutex_PQ = NoThread
  /\ val = [m \in Msg |-> 0]
  /\ ppc = [p \in Publisher |-> "read"] /\ sent = [p \in Publisher |-> 0]
  /\ dpc = "lock" /\ td = NoMsg /\ i = 0
  /\ subscribers_ = [k \in Slot |-> NoSubscriber]
  /\ topics_ = [k \in Slot |-> NoTopic]
  /\ subscriber_index = 0
  /\ spc = [s \in Subscriber |-> "idle"]
  /\ overlapped = FALSE /\ outOfBounds = FALSE
  /\ clock = 0
  /\ enqueued = <<>> /\ dispatched = <<>>
  /\ registeredAt = [m \in Msg |-> 0]
  /\ written = [s \in Subscriber |-> <<>>]

-----------------------------------------------------------------------------
(* The key of a message.                                                   *)

\* Mutants: the creation time for FIFO, as for EDF; the period alone for EDF.
CreationTime(m) == Timestamp[m]
PeriodOnly(m) == Period[TopicOf[m]]

EnqueueTime(m) == clock
AbsoluteDeadline(m) == Period[TopicOf[m]] + Timestamp[m]

getVal(m) ==
  CASE strategy = "EDF"  -> AbsoluteDeadline(m)
    [] strategy = "RM"   -> Period[TopicOf[m]]
    [] strategy = "FIFO" -> EnqueueTime(m)

\* The auxiliary class myComparison: m has the lower priority.
myComparison(m, n) == val[m] > val[n]

\* What top() may return; of an empty queue it is undefined, here NoMsg.
Top(q) == IF q = {} THEN {NoMsg}
          ELSE {m \in q : \A n \in q : ~ myComparison(m, n)}

\* Mutant: top() without pop().
NotPopped(q, m) == q

Popped(q, m) == q \ {m}

-----------------------------------------------------------------------------
(* Publish.                                                                *)

Read(p) ==
  /\ ppc[p] = "read"
  /\ sent[p] < Len(Stream[p])
  /\ sent' = [sent EXCEPT ![p] = @ + 1]
  /\ ppc' = [ppc EXCEPT ![p] = "lock"]
  /\ UNCHANGED <<pqVars, mutex_PQ, dispVars, subVars, envVars>>

AcquirePQ(p) == mutex_PQ = NoThread /\ mutex_PQ' = p

LockPQ(p) ==
  /\ ppc[p] = "lock"
  /\ AcquirePQ(p)
  /\ ppc' = [ppc EXCEPT ![p] = "push"]
  /\ UNCHANGED <<pqVars, sent, dispVars, subVars, envVars>>

Push(p) ==
  LET m == Stream[p][sent[p]] IN
  /\ ppc[p] = "push"
  /\ val' = [val EXCEPT ![m] = getVal(m)]
  /\ PQ' = PQ \cup {m}
  /\ nonEmptyPQ' = TRUE
  /\ enqueued' = Append(enqueued, m)
  /\ ppc' = [ppc EXCEPT ![p] = "broadcast"]
  /\ UNCHANGED <<mutex_PQ, sent, dispVars, subVars, envVars>>

\* Mutant: no broadcast.
NotWoken(w) == w

Woken(w) == IF w = "wait" THEN "lock" ELSE w

Broadcast(p) ==
  /\ ppc[p] = "broadcast"
  /\ dpc' = Woken(dpc)
  /\ mutex_PQ' = NoThread
  /\ ppc' = [ppc EXCEPT ![p] = "read"]
  /\ UNCHANGED <<pqVars, sent, td, i, dispatched, registeredAt, written, subVars, envVars>>

Publish(p) == Read(p) \/ LockPQ(p) \/ Push(p) \/ Broadcast(p)

-----------------------------------------------------------------------------
(* The dispatching thread.                                                 *)

DispatchLock ==
  /\ dpc = "lock"
  /\ mutex_PQ = NoThread
  /\ mutex_PQ' = Dispatcher
  /\ dpc' = "test"
  /\ UNCHANGED <<pqVars, pubVars, td, i, dispatched, registeredAt, written, subVars, envVars>>

DispatchEmpty ==
  /\ dpc = "test"
  /\ ~ nonEmptyPQ
  /\ dpc' = "block"
  /\ UNCHANGED <<pqVars, mutex_PQ, pubVars, td, i, dispatched, registeredAt,
                 written, subVars, envVars>>

DispatchWait ==
  /\ dpc = "block"
  /\ dpc' = "wait"
  /\ mutex_PQ' = NoThread
  /\ UNCHANGED <<pqVars, pubVars, td, i, dispatched, registeredAt, written, subVars, envVars>>

\* Mutant: the flag is reset whatever is left ("as an exercise, comment out the
\* above condition", 195).
FlagReset(flag, rest) == FALSE

FlagAfterPop(flag, rest) == flag /\ rest # {}

\* Take the top of the queue, reset the flag if it was the last, and release
\* the mutex.
DispatchPop ==
  /\ dpc = "test"
  /\ nonEmptyPQ
  /\ \E m \in Top(PQ) :
       /\ td' = m
       /\ PQ' = Popped(PQ, m)
       /\ nonEmptyPQ' = FlagAfterPop(nonEmptyPQ, Popped(PQ, m))
       /\ dispatched' = Append(dispatched, m)
       /\ registeredAt' = [n \in Msg |-> IF n = m THEN subscriber_index
                                       ELSE registeredAt[n]]
  /\ mutex_PQ' = NoThread
  /\ dpc' = "write"
  /\ UNCHANGED <<val, enqueued, pubVars, i, written, subVars,
                 envVars>>

\* Mutant: the loop writes to every subscriber.
AnyTopic(k, m) == TRUE

SameTopic(k, m) == topics_[k] = TopicOf[m]

\* One iteration of the loop of writeToSubscribers.  Nothing tells whether the
\* call of Subscribe that a writer belongs to still sleeps.
WriteNext ==
  /\ dpc = "write"
  /\ i < subscriber_index
  /\ i' = i + 1
  /\ IF i \in Slot /\ SameTopic(i, td)
       THEN LET s == subscribers_[i] IN
            written' = IF s = NoSubscriber THEN written
                       ELSE [written EXCEPT ![s] = Append(@, td)]
       ELSE UNCHANGED written
  /\ UNCHANGED <<pqVars, mutex_PQ, pubVars, dpc, td, dispatched, registeredAt,
                 subVars, envVars>>

WriteEnd ==
  /\ dpc = "write"
  /\ i >= subscriber_index
  /\ dpc' = "lock"
  /\ td' = NoMsg
  /\ i' = 0
  /\ UNCHANGED <<pqVars, mutex_PQ, pubVars, dispatched, registeredAt,
                 written, subVars, envVars>>

Dispatch ==
  \/ DispatchLock \/ DispatchEmpty \/ DispatchWait \/ DispatchPop
  \/ WriteNext \/ WriteEnd

\* pthread_cond_wait may return without a broadcast.
SpuriousWakeup ==
  /\ dpc = "wait"
  /\ dpc' = "lock"
  /\ UNCHANGED <<pqVars, mutex_PQ, pubVars, td, i, dispatched, registeredAt,
                 written, subVars, envVars>>

-----------------------------------------------------------------------------
(* Subscribe.  addSubscriber takes no mutex: its accesses to               *)
(* subscriber_index are steps of their own.                                *)

SubPC == {"storeWriter", "storeTopic", "increment"}
InAddSubscriber == {s \in Subscriber : spc[s] \in SubPC}

HasRoom(k) == k < MAX_SUBSCRIBERS

\* The test of 208, or the refusal of 143-146.
BeginSubscribe(s) ==
  /\ s \in setup.calls
  /\ spc[s] = "idle"
  /\ spc' = [spc EXCEPT ![s] = IF HasRoom(subscriber_index)
                               THEN "storeWriter" ELSE "refused"]
  /\ overlapped' = (overlapped \/ InAddSubscriber # {})
  /\ UNCHANGED <<pqVars, mutex_PQ, pubVars, dispVars, subscribers_, topics_,
                 subscriber_index, outOfBounds, envVars>>

StoreWriter(s) ==
  /\ spc[s] = "storeWriter"
  /\ IF subscriber_index \in Slot
       THEN /\ subscribers_' = [subscribers_ EXCEPT ![subscriber_index] = s]
            /\ UNCHANGED outOfBounds
       ELSE outOfBounds' = TRUE /\ UNCHANGED subscribers_
  /\ spc' = [spc EXCEPT ![s] = "storeTopic"]
  /\ UNCHANGED <<pqVars, mutex_PQ, pubVars, dispVars, topics_,
                 subscriber_index, overlapped, envVars>>

StoreTopic(s) ==
  /\ spc[s] = "storeTopic"
  /\ IF subscriber_index \in Slot
       THEN /\ topics_' = [topics_ EXCEPT ![subscriber_index] = Wants[s]]
            /\ UNCHANGED outOfBounds
       ELSE outOfBounds' = TRUE /\ UNCHANGED topics_
  /\ spc' = [spc EXCEPT ![s] = "increment"]
  /\ UNCHANGED <<pqVars, mutex_PQ, pubVars, dispVars, subscribers_,
                 subscriber_index, overlapped, envVars>>

IncrementIndex(s) ==
  /\ spc[s] = "increment"
  /\ subscriber_index' = subscriber_index + 1
  /\ spc' = [spc EXCEPT ![s] = "sleep"]
  /\ UNCHANGED <<pqVars, mutex_PQ, pubVars, dispVars, subscribers_, topics_,
                 overlapped, outOfBounds, envVars>>

\* The ten hours of sleep(36000) are over: the call returns, and the RPC
\* library destroys its writer.
SubscribeReturns(s) ==
  /\ spc[s] = "sleep"
  /\ spc' = [spc EXCEPT ![s] = "returned"]
  /\ UNCHANGED <<pqVars, mutex_PQ, pubVars, dispVars, subscribers_, topics_,
                 subscriber_index, overlapped, outOfBounds, envVars>>

AddSubscriber(s) == StoreWriter(s) \/ StoreTopic(s) \/ IncrementIndex(s)

-----------------------------------------------------------------------------
\* The clock only matters to the FIFO strategy.
Tick ==
  /\ strategy = "FIFO"
  /\ clock < MaxClock
  /\ clock' = clock + 1
  /\ UNCHANGED <<setup, pqVars, mutex_PQ, pubVars, dispVars, subVars>>

Next ==
  \/ \E p \in Publisher : Publish(p)
  \/ Dispatch
  \/ SpuriousWakeup
  \/ \E s \in Subscriber :
       BeginSubscribe(s) \/ AddSubscriber(s) \/ SubscribeReturns(s)
  \/ Tick

Spec == Init /\ [][Next]_vars

\* Handlers that have read a message and the dispatcher are scheduled.
Fairness ==
  /\ \A p \in Publisher : WF_vars(Publish(p))
  /\ WF_vars(Dispatch)

FairSpec == Spec /\ Fairness

-----------------------------------------------------------------------------
QueueType ==
  /\ PQ \subseteq Msg /\ nonEmptyPQ \in BOOLEAN
  /\ mutex_PQ \in Publisher \cup {Dispatcher, NoThread}
  /\ val \in [Msg -> Int]
  /\ enqueued \in Seq(Msg)

PublisherType ==
  /\ ppc \in [Publisher -> {"read", "lock", "push", "broadcast"}]
  /\ sent \in [Publisher -> Nat]
  /\ \A p \in Publisher :
       sent[p] <= Len(Stream[p]) /\ (ppc[p] # "read" => sent[p] > 0)

DispatcherType ==
  /\ dpc \in {"lock", "test", "block", "wait", "write"}
  /\ td \in Msg \cup {NoMsg} /\ (dpc = "write" <=> td \in Msg)
  /\ i \in Nat
  /\ dispatched \in Seq(Msg)
  /\ registeredAt \in [Msg -> Nat]
  /\ written \in [Subscriber -> Seq(Msg)]

TableType ==
  /\ subscriber_index \in Nat
  /\ subscribers_ \in [Slot -> Subscriber \cup {NoSubscriber}]
  /\ topics_ \in [Slot -> Topic \cup {NoTopic}]
  /\ spc \in [Subscriber -> {"idle", "refused", "sleep", "returned"} \cup SubPC]
  /\ overlapped \in BOOLEAN /\ outOfBounds \in BOOLEAN

TypeOK ==
  /\ setup \in Setups /\ clock \in Nat
  /\ QueueType /\ PublisherType /\ DispatcherType /\ TableType

Members(q) == {q[k] : k \in DOMAIN q}

\* Publish and the dispatcher exclude each other from PQ (167-173, 185-198).
PQExclusion ==
  /\ \A p \in Publisher : ppc[p] \in {"push", "broadcast"} <=> mutex_PQ = p
  /\ dpc \in {"test", "block"} <=> mutex_PQ = Dispatcher

\* The flag that the dispatcher tests in place of PQ.empty() never lies, so
\* that it takes the top of a queue that has one, and waits only for a queue
\* that has none.
FlagTellsQueue == nonEmptyPQ <=> PQ # {}

\* A dispatcher that waits while a message is queued is about to be woken.
NoLostWakeup ==
  dpc = "wait" /\ PQ # {} => \E p \in Publisher : ppc[p] = "broadcast"

\* The monitor around PQ: Publish and the dispatcher exclude each other, the flag
\* agrees with the queue, and no wakeup is lost.
DispatchInv == TypeOK /\ PQExclusion /\ FlagTellsQueue /\ NoLostWakeup

\* A message a handler has read is in its hands, queued, or dispatched once.
HandedOver(p) == IF ppc[p] \in {"lock", "push"} THEN sent[p] - 1 ELSE sent[p]

MessagesConserved ==
  /\ PQ \cup Members(dispatched) =
       UNION {{Stream[p][k] : k \in 1 .. HandedOver(p)} : p \in Publisher}
  /\ PQ \cap Members(dispatched) = {}
  /\ \A j, k \in DOMAIN dispatched : dispatched[j] = dispatched[k] => j = k

\* For FIFO, messages are dispatched in the order of PQ.push, up to those
\* queued within the same microsecond.
FifoOrder ==
  strategy = "FIFO" =>
    \A j, k \in DOMAIN enqueued :
      j < k /\ val[enqueued[j]] # val[enqueued[k]]
            /\ enqueued[k] \in Members(dispatched) =>
        \E a, b \in DOMAIN dispatched :
          a < b /\ dispatched[a] = enqueued[j] /\ dispatched[b] = enqueued[k]

\* The table of subscribers: each registered slot holds one accepted call, with
\* the topic it asked for, and each accepted call has one slot.
TableMatches ==
  LET used == {k \in Slot : k < subscriber_index} IN
  /\ \A k \in used : /\ subscribers_[k] # NoSubscriber
                     /\ topics_[k] = Wants[subscribers_[k]]
  /\ \A s \in Subscriber : spc[s] \in {"sleep", "returned"} =>
       Cardinality({k \in used : subscribers_[k] = s}) = 1

\* A dispatched message has been written once to every subscriber of its topic
\* that was registered when it was taken from PQ, and to nobody who asked for
\* another topic, even while subscribers register.
DispatchReaches ==
  /\ \A m \in Members(dispatched) \ {td} : \A k \in Slot :
       k < registeredAt[m] /\ topics_[k] = TopicOf[m] =>
         Cardinality({n \in DOMAIN written[subscribers_[k]] :
                        written[subscribers_[k]][n] = m}) = 1
  /\ \A s \in Subscriber : \A n \in DOMAIN written[s] :
       TopicOf[written[s][n]] = Wants[s]

\* The table is right, and messages reach whom it names, as long as calls of
\* Subscribe come one after another: they take no lock.
SubscribersServed ==
  overlapped \/ (TableMatches /\ ~ outOfBounds /\ DispatchReaches)

\* A queued message is dispatched, and written to the end of the table.
QueuedIsDispatched ==
  \A m \in Msg : m \in PQ ~> (m \in Members(dispatched) /\ td # m)

-----------------------------------------------------------------------------
\* With the EDF and RM strategies, whose keys do not depend on when a message
\* is queued, the broker, too, is the abstract EDF service.
StaticKey(s, m) == IF s = "EDF" THEN Timestamp[m] + Period[TopicOf[m]]
                   ELSE Period[TopicOf[m]]

Edf(s) == INSTANCE EdfService WITH
            Event <- Msg,
            NoEvent <- NoMsg,
            Key <- [m \in Msg |-> StaticKey(s, m)],
            fresh <- Msg \ (PQ \cup Members(dispatched)),
            pending <- PQ,
            inService <- td,
            done <- IF td = NoMsg THEN dispatched
                    ELSE SubSeq(dispatched, 1, Len(dispatched) - 1)

ImplementsEdf ==
  /\ \A s \in {"EDF", "RM"} : strategy = s => Edf(s)!Init
  /\ [][\A s \in {"EDF", "RM"} : strategy = s => Edf(s)!Next]_<<PQ, td, dispatched>>

===============================================================================
