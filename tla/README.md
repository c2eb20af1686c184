# Verification of the real-time programs of csc9006

This directory holds TLA+ models of the concurrent programs of the repository
(a course on real-time systems: event services, message brokers, and the small
real-time programs of its homework), the TLC configurations that check them on
small instances, and TLAPS proofs about them for every instance.

Paths are relative to `src/`. Line numbers are those of the files named.

## 1. Inventory

The repository is a collection of programs, not one. Those with logic of their
own, most important first:

| Component | Source | State | Operations |
|---|---|---|---|
| Event service, homework 8 | `hw8_solution/EC_Default_ProxyConsumer.{cpp,h}` | the singleton `OurSingletonWorker` (EDF queue, mutex, condition variable, worker thread), one proxy per supplier | build a proxy, `connect_push_supplier`, `push`, `disconnect_push_consumer`; the worker loop |
| Event service, homework 7 | `hw7_solution/service/EC_Default_ProxyConsumer.{cpp,h}` | the same, and a second queue `FIFOQ` with a flag and a mutex | the same; `push` also drains `FIFOQ` |
| Event service, homework 6 | `hw6_solution/EC_Default_ProxyConsumer.cpp` | proxies only | `push` delivers at once |
| Broker, lab 3 | `prev/spring2020/lab3/example_answer/es_server.cc` | priority queue, flag, mutex, condition variable, table of subscribers | RPCs `Subscribe` and `Publish`, dispatching thread |
| Publisher and subscriber, lab 3 | `prev/spring2020/lab3/example_answer/es_pub.cc`, `es_sub.cc` | a stream each; one publisher per thread | publish periodically; read and print |
| Event service, lab 2 | `prev/spring2020/lab2/exampleAnswers/sec4-7/es_server.cc` | per priority level a one-message slot, a flag, a mutex, a condition variable, a writer | RPCs, three tasks |
| Its first versions, with clients | `prev/spring2020/lab2/exampleAnswers/sec4-4` to `sec4-6` | at most one writer | RPCs `Subscribe` and `Publish`; `es_pub.cc`, `es_sub.cc` |
| Time client and server, homework 5 | `hw5_solution/csc9006hw5/Time_Client_i.cpp`, `client.cpp`, `Time_i.cpp` | singleton client object with its mutex and reference count, one thread per timer | `run`, signal handlers |
| Application of homework 7 | `hw7_solution/application/{Supplier,Consumer,Service}.cpp` | five supplier threads, timers, signals | release of periodic tasks by `SIGHUP` |
| Priority inversion | `hw3_solution/priority_inversion.cpp`, `homework 3 resources/starting_point.cpp`, `prev/spring2020/lab2/exampleAnswers/cs3*.cpp` | three tasks, one mutex with or without a protocol | critical sections on one processor |
| Elevator control | `hw1_solution/control1.cpp`, `hw2_solution/control1.cpp`, `drive.c` | `pressed`, `startTime`, `count`, timer, pending signals | two signal handlers and a main loop |
| Periodic tasks, homework 2 | `hw2_solution/t1.cpp`, `t2.cpp` | per process a timer | a handler that works |
| Condition variable demonstration | `prev/spring2020/lectures/0423-rtes/cvsimple*.c` | a counter, a mutex, a condition variable | a waiter, incrementers |
| Periodic tasks, lab 1 | `prev/spring2020/lab1/` | per process counters of misses | a loop that works and sleeps; SIGINT |

The hard behaviours are those of concurrent programs: threads that share queues
and flags, condition variables and the wakeups they can miss, objects used
before they are initialised, signals that are lost or merged.

How the components interact, and what makes each right:

- **Homework 8.** Suppliers call `push` of their proxy through the ORB, on any
  number of its threads; the worker thread takes events out of the shared EDF
  queue and calls every consumer. Shared state: `workerObj->EDFQ` under
  `mtx_EDFQ`, the singleton under `mtx_workerObj`. Right means: one worker, no
  event lost or delivered twice, earliest deadline first, no missed wakeup, every
  queued event delivered.
- **Homework 7.** The same, but the worker parks results in `FIFOQ` and the ORB
  thread that pushes next delivers them. Right means besides: the drain loop never
  takes from an empty queue and leaves nothing behind, and results leave in the
  order of the work.
- **Lab 3 broker.** RPC threads run `Publish` and `Subscribe` next to one
  dispatching thread. Shared state: `PQ` and its flag under a mutex, the table of
  subscribers under none. Right means: the order of the strategy, nothing lost,
  each message to exactly the subscribers of its topic.
- **Lab 2 service.** One task per priority level, each with a slot for one
  message. Right means: a task works on one message at a time, each slot keeps the
  latest message, the last one is handled.
- **Priority inversion.** Tasks on one processor share a mutex. Right means: the
  high task waits for what the protocol allows and for nothing else.
- **Time client.** Two threads, two timers, one client object and one server.
  Right means: the server is shut down once, after the last round and not before.
  That there is one object rests on a sleep.
- **Proxy connections (homework 6, 7, 8).** ORB threads connect a supplier to one
  proxy and disconnect it, under `lock_`, which a reconnection gives up half way
  through; the channel and the supplier are called without it. Right means: one
  supplier at a time, members that agree whenever the lock is free, each supplier
  called back at most once, the channel told what is the case.
- **Supplier threads (homework 7).** One process with a thread per supplier, which
  share one argument; timers whose handler signals the threads. Right means: no
  thread gets the id of an earlier supplier, nobody dies of a signal, every supplier
  goes on to be heard. That a thread gets its own id and sets up alone rests on a
  sleep, and so is an assumption of the program and not a property of it.
- **First event services (lab 2).** A publisher, a subscriber and a server with a
  call for each. Right means: what a publisher is told is done was heard, nobody
  waits for ever.
- **Elevator (homework 1, 2).** Two handlers that may interrupt each other in any
  place share `pressed` and `startTime`. Right means: no command without a press, one
  after every press noted while no other is being prepared, and a response time that
  is one.
- **Periodic tasks (lab 1, homework 2).** Processes with nothing in common but the
  processor. Right means: the task of the highest priority of lab 1 meets its
  deadline always, and none falls behind.

## 2. Modules

| Module | What it is |
|---|---|
| `EdfService` | abstract: a set of pending events, served earliest deadline first |
| `SingletonWorker` | what homework 7 and 8 share: proxy construction, the singleton, `push` up to its unlock, the worker up to its pop |
| `EdfChannel` | homework 8, on top of `SingletonWorker`; implements `EdfService` |
| `EdfFifoChannel` | homework 7, on top of `SingletonWorker`; implements `EdfService` |
| `EdfChannel_proofs` | theorems about `EdfChannel` |
| `Broker` | lab 3; implements `EdfService` with the EDF and RM strategies |
| `Broker_proofs` | theorems about `Broker` |
| `LatestValue` | abstract: per topic a mailbox that keeps the latest message |
| `TopicTasks` | lab 2 (section 4.7); implements `LatestValue` |
| `TopicTasks_proofs` | theorems about `TopicTasks` |
| `Streams` | lab 2 (sections 4.4 to 4.6): servers, publishers, subscribers and their streams |
| `SupplierSlot` | abstract: one place for suppliers, each called back at most once |
| `ProxyConnection` | connect and disconnect of a proxy of homework 6, 7 and 8; implements `SupplierSlot` |
| `ProxyConnection_proofs` | theorems about `ProxyConnection` |
| `Suppliers` | the supplier threads of homework 7, their timers and signals |
| `Homework7_proofs` | theorems about `EdfFifoChannel` and `Suppliers` |
| `Elevator` | the elevator control of homework 1 and 2 and its driver |
| `Elevator_proofs` | theorems about `Elevator` |
| `PriorityInversion` | tasks, processor and mutex; `PriorityTasks` holds the programs of homework 2 and 3 and of labs 1 and 2 |
| `PriorityInversion_proofs` | theorems about `PriorityInversion` |
| `TimeClient` | the client of homework 5 with its signals and its server |
| `ClientServer_proofs` | theorems about `Streams` and `TimeClient` |
| `MC*` | small instances for TLC |

Definitions carry the names of the source where it has one (`getVal`,
`myComparison`, `writeToSubscribers` as `WriteNext`/`WriteEnd`, `nonEmptyFIFOQ` as
`CheckFIFOQ`); `map` in `PROJECT.json` gives the lines of each. Variables called
*history* in the modules are not in the code; no action reads them. Two modules about
which one module of proofs speaks have different names for their specifications:
`AppSpec` is that of `Suppliers`, `StreamSpec` that of `Streams`.

### SingletonWorker, EdfChannel, EdfFifoChannel

- A thread's place (`pc`, `wpc`) is the lock, queue or condition variable
  operation it does next. What lies between two of them touches no shared state
  and is part of the earlier step. `pthread_cond_wait` releases the mutex and
  starts to wait in one step; returning is `WorkerLock`; it may return without a
  signal (`SpuriousWakeup`).
- The constructor runs `pthread_create` (61) and only then assigns the
  initialisers of the mutex (63) and the condition variable (64). Until then the
  memory comes from `new`: the mutex is `Raw`, and a worker that locks it either
  gets it or hangs (`WorkerHang`). A worker that waits when the condition variable
  is assigned is `stranded`. `raced` remembers that the worker came first; the
  properties about the mutex are about the executions in which it did not, and
  `WorkerProcessesQueue`, which makes no such exception, is refuted.
- A deadline is `startTime + interval`: in the code `currentTime` is added and
  subtracted (184-191). `myComparison` compares whole microseconds, and the
  deadlines of the model are whole microseconds. Below that the comparison of the
  code is not transitive; what a heap does with it is not modelled.
- `Top` is any minimum: `std::priority_queue` orders ties as it likes. `top()` of
  an empty queue would be `NoEvent`, which `TypeOK` rules out.
- `push` of an unknown source calls `exit(1)`: every action is then disabled.
- In `EdfFifoChannel` the critical sections of `mtx_FIFOQ`, which wait for
  nothing, are single actions. Homework 7 runs one ORB thread (`Service.cpp`), and
  so do its runs; `NoUnderflow` is wrong for two. The theorems have it as a
  hypothesis (`OneOrbThread`).

### Broker

- `Publish` is four steps (read a message from its stream, lock, push and set the
  flag, broadcast and unlock); the dispatcher's loop and `writeToSubscribers`
  have one action per turn; `addSubscriber`, which takes no mutex, one per access
  to `subscriber_index`.
- The dispatcher is created before its mutex is initialised, as in homework 8, but
  it cannot run: it inherits priority 98 and the processor of its creator
  (114-132). The model starts after the constructor.
- `strategy` is an argument of the program, chosen in `Init`. With FIFO the key is
  the clock at enqueuing, read under the mutex; `clock` may stand still between
  two pushes, so that keys tie.
- `StaticKey` states the key a message should have; it does not use `getVal`, so
  that `ImplementsEdf` checks `getVal`.

### TopicTasks

- The three tasks of the source are equal up to names, priorities and workloads: one
  set of actions with the topic as parameter.
- Mutexes and condition variables are globals, zero from the start, and zero is
  what their initialisers assign. A task that comes before the constructor has
  assigned them works; what it did is then overwritten (`InitMutex`, `InitCond`).
  `CalmSpec` are the behaviours in which nothing in use is overwritten.
- A writer is set by any `Subscribe` for all topics, without a lock; each of the
  three assignments is a step. A returning `Subscribe` leaves the writers as they
  are, so that, once somebody subscribed, no task writes to nobody
  (`WritesToSomebody`). That a second subscriber takes the writers of the first is
  in the model, and no property forbids it.

### Streams

- gRPC is modelled by what its users see: a call runs on a thread of the server, its
  stream is a sequence, `Write` is false only when the call is over, `Read` waits
  and is false when the stream is closed and read, `Finish` waits for the end of the
  call. Where a call meets a server that is not there or gone, both outcomes of a
  `Write` and the loss of what was under way are behaviours.
- The clients are the same in the three sections, and one set of actions. A section
  is chosen in `Init`; section 4.4 does not override `Publish`, so that a publisher
  is told that it is not implemented. Its file does not compile as it stands
  (`request.topic()` of a pointer, 48); the model has what was meant.
- `writer_` of section 4.6 outlives the call it belongs to. A `Write` through it
  then is undefined: it goes nowhere or ends the server (`stale`, `crashed`). A
  `Write` before anybody subscribed ends the server.

### ProxyConnection

- One action per step between two accesses to the connection; the scope of the
  guard is `Acquire` to `Released`, and the reverse lock of a reconnection (45-54)
  gives the lock up between `BeginReconnect` and the second `Enter`.
- Each supplier stands for the reference passed to one call, so that an old one
  can be told from a new one. The filter is identified with the supplier whose
  `qos` it was built from.
- `is_connected_i` and `cleanup_i` come from TAO's base class; the channel is
  reduced to whether it lists the proxy. It is told outside the lock: with a
  connect and a disconnect that overlap it may end up wrong, which `ChannelKnows`
  excuses (`mixed`) and a program must not rely on.
- `push` of homework 7 and 8 does not look at the connection, and `push` of
  homework 6 changes nothing: the module and `EdfChannel` share no state.

### Suppliers

- `pack` is one variable for all turns of the loop: each turn's has the same place
  on the stack. A thread that reads it late reads the id of a later supplier, or
  after the loop whatever is left there (`Readable`): garbage, of which the process
  may die, or which the service does not know and ends of.
- `usleep(300000)` ends after 300 ms whatever the thread has done, and `WakeUp` may
  come at any time. That the thread has set up by then, so that set-ups run alone, is
  what the program assumes (185-197) and the model does not. `rushed` is the history of
  it: `StartInv` and `HeardAgain` hold rushed or not (a thread that has got the id of
  another is excused), `KilledOnlyByBadThread` speaks of behaviours without, since a
  timer armed before a handler is installed does end the process.
- A handler is the process's: the first thread that calls `sigaction` installs it
  for all. A `SIGHUP` pending for a thread ends its `pause()`, and leaves no trace
  elsewhere; several pending ones are one.
- `pthread_kill` and `pthread_join` of a thread that was never created, or has been
  joined, are undefined: `killed` or nothing. A thread that has ended and was not
  joined is still there to be signalled.
- Failures (of `pthread_create`, of the set-up, of a push, and SIGINT for the
  consumer) are taken at any time.

### Elevator

- A stack of handlers: a handler may be interrupted by the other signal's, at any
  step, but not by its own, of which one more may be pending. Signals of one number
  merge (`uncounted`). Before `sigaction` the default action ends the process.
- Time advances in ticks of 10 ms, only while the higher task runs, the workload
  runs, or the process waits with nothing to deliver: the instructions of the
  handlers take no time, but the instants at which the timer expires are between
  any two of them. `age` is the time since `startTime`.
- The workload of 50 ms varies with the clock of the processor: each run of it is
  chosen between the program's `workload` and its `slowest`. `MCElevator` reads the
  range off the response times recorded beside the programs (177 ms and 561 ms at
  most in homework 1, where the clock is not fixed, and 218 ms in homework 2).
- The bounds of `MeasuredBounded` and `ShortOnlyIfPressedAgain` are what the
  workload takes alone, or with the task of 30 ms in every 70 ms above it, and
  a period of the timer besides. `late` and `restamped` are the two windows in which
  the handlers meet and the time reported is not one of a press answered.

### PriorityInversion

- Time is counted in calls of the workload (10 ms in homework 3, 0.5 ms in lab 2);
  every job takes its worst case. The scheduler is `SCHED_FIFO` on one processor:
  the ready task of the highest effective priority runs, and among equals the one
  that ran last keeps the processor.
- A release comes one period after the last at the earliest, and as late as it
  likes: this covers every phasing of the timers, and more. Homework 3's timers
  start a thread whether or not the last job is over (`backlog`); lab 2's tasks are
  loops.
- A program is a record: its tasks' work, priorities and periods, its protocol,
  what is claimed of its response times (`Bound`). All programs are states of one
  specification, chosen in `Init`.
- The tasks of lab 1 and of homework 2 share no mutex. Those of lab 1 are loops that
  sleep for the rest of their period; SIGINT, which asks them for their counters,
  ends `usleep`, so that the next job comes early (`WokenEarly`).
- Lab 2 has eight tasks of the middle priority, seven of 7 ms and one of 50 ms; two
  of 7 ms, released again as soon as they like, stand for them. The claims about
  the high task depend on there being several, not on their length.
- Response times are counted from the release. The program measures from the
  first instruction of the job (80), which is later when a higher task runs.
- The overhead of the system (2255 us for two workloads of 1 ms in
  `responseTime_t1rm.out`), the variation of the workload and the throttling of
  real-time tasks are outside the model. What is claimed of a task (`Bound`) therefore
  has room for what was recorded: homework 3 took at most 49, 42 and 118 ms of the 50
  and 120 claimed, and of the first task of lab 1 it is its deadline that is claimed,
  which `cmp.txt` says it always meets. The records of homework 2 have single jobs of
  68 and 309 ms, longer than all the work there is, and tasks of lab 1 miss their
  deadlines: nothing is claimed of the response times of these.

### TimeClient

- The critical sections of `mutex_client` wait for the server only and are single
  steps. An exception of `shutdown` leaves the mutex locked (`leftLocked`).
- Timers signal the process; the main thread, in `pthread_join`, runs the handler,
  which sends `SIGHUP` to a thread. `SIGHUP` ends `pause()`, does nothing outside
  it, and before `sigaction` its default action ends the process (`killed`).
- The 20 ms of client.cpp:90 end wherever the first thread is, so that the threads may
  meet in `getInstance` at every step, as in `heisenbug_singleton.txt`.
  `SharedUnlessRaced` says that they share one object unless two of them found none
  (`foundNone`), which can happen; what is said of the shutdown is said of threads
  with one object, and of two objects only that all rounds are done unless a call
  fails.
- The server's counter is returned, printed and not modelled.

## 3. Runs

`tlc -config X.cfg M` for each. Every property of a passing run is violated when
a definition of the model is replaced by one with a plausible bug in it (`mutants`
in `PROJECT.json`; the mutated operators stand next to the originals).

A run checks at most one invariant about a component's bookkeeping, a conjunction of
named parts with the type invariant:

| Run | Invariant | Parts besides `TypeOK` |
|---|---|---|
| `hw8_service` | `WorkerInv` | `NoLostWakeup` |
| `hw7_service` | `DrainInv` | `NoUnderflow` |
| `broker_dispatch` | `DispatchInv` | `PQExclusion`, `FlagTellsQueue`, `NoLostWakeup` |
| `lab2_tasks` | `TaskInv` | `NoLostWakeup`, `WritesToSomebody` |
| `priority_inversion` | `MutexInv` | `SectionExclusion`, `NeverBlocked` |
| `client_shutdown` | `ClientInv` | `SharedUnlessRaced` |
| `elevator` | `ElevatorInv` | `NoGhostCommand` |
| `hw7_suppliers` | `StartInv` | `OwnOrLater` |
| `streams` | `StreamInv` | `SequenceSeen`, `ForwardedOnce` |

`SubscribersServed` (`broker_dispatch`) joins `TableMatches` and `DispatchReaches`;
`MeasuredInBounds` (`elevator`) joins `MeasuredBounded` and `ShortOnlyIfPressedAgain`.
Five invariants of homework 8 and of the proxies are proved for every instance
(section 5) and have no run: `EDFQExclusion`, `EventsConserved` and `EarliestFirst`;
`LockCovers` and `CalledBackOnce`.

| Run | Config | Shows |
|---|---|---|
| `hw8_service` | `MCEdfChannel.cfg` | two ORB threads, three suppliers, four events (a tie, a late and an early deadline, an unknown source): one worker, no missed wakeup, refinement of `EdfService` (order, nothing lost, nothing twice); every queued event is delivered |
| `hw8_startup` | `MCEdfChannelStart.cfg` | **violation**: the worker waits on a condition variable that the constructor then initialises, and the queue is never processed |
| `hw7_service` | `MCEdfFifoChannel.cfg` | the same four events with one ORB thread: no underflow, refinement of `EdfService`, what is parked leaves with the next push |
| `broker_dispatch` | `MCBroker.cfg` | two publishers and the three strategies, with three messages of two topics and one subscriber, with two messages and two subscribers, and with one message and three calls of `Subscribe` for two slots: nothing lost, no missed wakeup, the order of the strategy, refinement of `EdfService`, the table and whom a message reaches |
| `lab2_tasks` | `MCTopicTasks.cfg` | two tasks, two publishers, two subscribers, three messages and one of an unknown topic: a stable slot, no write to nobody once somebody subscribed, no missed wakeup, refinement of `LatestValue`, the last message is handled |
| `priority_inversion` | `MCPriorityInversion.cfg` | homework 3 and its starting point with no protocol, inheritance and protection, lab 2 with the last two and its first version with none, the pairs of tasks of lab 1 and those of homework 2, in every phasing: a high task that is protected is late by one critical section, bounds on the response time of homework 3's high task without a protocol and of lab 1's first, nobody but the owner of the mutex delays a higher task, protection never blocks |
| `streams` | `MCStreams.cfg` | two publishers and two subscribers with each of the three sections: who is told `Finished.` was heard, nothing reaches two subscribers, a sequence is seen in order and whole, programs that publish end, what was forwarded is received |
| `proxy_connection` | `MCProxyConnection.cfg` | three threads, three suppliers, any number of disconnects, with and without reconnection and callbacks: members that agree, a channel that knows, refinement of `SupplierSlot` (one supplier at a time, each called back at most once), every call returns |
| `hw7_suppliers` | `MCSuppliers.cfg` | two suppliers with every failure and a sleep that may end at any time: nobody reads the id of an earlier supplier, no death by a signal but to a thread that is not there (unless main rushed), every supplier with its own id is heard again |
| `elevator` | `MCElevator.cfg` | homework 1 with both its periods and homework 2 with the task above it, a workload of varying length, three presses at any time: no command without a press, bounds on the time reported, an answer to every press noted while no command is prepared, the end after the last press |
| `client_shutdown` | `MCTimeClient.cfg` | two threads, three rounds, calls that may throw, a sleep that may end at any time: one client unless two threads found none, no shutdown under a working thread that shares it; if nothing throws, all rounds are done and the server is shut down; that an exception of one thread leaves the server running is in the model, and excused |
| `client_stray` | `MCTimeClientStray.cfg` | **violation**: a timer goes on after its thread was joined, and its handler signals it |

The violations are the `findings` of `PROJECT.json`, each with the sentence of the
repository it contradicts.

### Bounds, and why they are enough

- *Events and messages* are named once and pushed at most once. Four (three)
  reach every relation a deadline can have to those queued: earlier, later, tied,
  and queued during the work. Two ORB threads (publishers) contend for each
  mutex; a third would find the same states of mutex and queue. The theorems of
  section 5 need no such argument: they hold for any number.
- *`MaxClock` = 2*: three instants for three messages, so that keys may be equal,
  increasing, or mixed.
- *Table*: two slots and three calls: one call is refused. Calls and messages are
  many in different set-ups of one run: two messages with two calls, one with three.
  `Served` (section 5) is about any number of both.
- *Lab 2*: one topic gets two publishers and two messages, the other one message.
- *Streams*: one piece of data per publisher; the second one would find the call in
  the state in which the first did. `Count` = 2 instead of ten. Two subscribers: the
  second replaces the first.
- *Proxy*: three threads, so that two may act while a third is in the middle of a
  reconnection; three suppliers, so that two can be replaced. The theorems hold for
  any number.
- *Suppliers*: two instead of five: one whose argument another turn overwrites, and the
  last, whose argument is gone after the loop. Each has its own timer, signals and
  thread; with three the properties hold as well, in minutes. `OwnIdOrLater` and
  `SignalsHandled` hold for any number.
- *Elevator*: `MaxPresses` = 3 instead of 200: one answered, one during its handling,
  one pending; more differ in `count` only.
- *Rounds* = 3 (2) instead of 15: the first, the last and one between; the loop
  has no other state than its counter. *NumThreads* = 2 is the code's.
- *Priority inversion* has the code's numbers, rounded to ticks, and no bound but
  `since`, which is counted up to `MinGap` and carries no more information beyond.

`CHECK_DEADLOCK FALSE` stands where the system really comes to rest: the worker,
the dispatcher and the lab 2 tasks wait for ever once the finite set of events is
used up, the streams are read and the supplier process may have ended. The other
modules are checked for deadlock; where a program ends (`TimeClient`, `Elevator`) its end is an
explicit stuttering step (`Terminated`).

## 4. Fairness

Weak fairness of what the operating system schedules, and of nothing that comes
from outside:

- ORB and RPC threads in the middle of an upcall, the worker, the dispatcher, the
  tasks, the constructor: these are threads that can run. A supplier or publisher
  need not send, `pthread_cond_wait` need not return without a signal.
- Mutexes are not fair. A worker that wakes up spuriously over and over may keep
  a push from the mutex; this is why `ParkedUntilNextPush` starts from a push that
  has it and `QueuedIsDelivered` from an event in the queue.
- `TimeClient`: threads run, timers keep expiring (they are periodic), a pending
  signal is delivered.
- `ProxyConnection`: strong fairness of a thread inside a call. Its lock is not
  fair either; but while a thread waits for it, others hold it for a few lines
  again and again, and a scheduler lets everybody have a turn in the end.
- `Suppliers`: main and the threads run, timers expire over and over, a pending
  `SIGHUP` is handled, the service delivers what is queued. A failure need not
  happen, nor need the service or the consumer be started.
- `Streams`: clients and calls that have begun run on; when a client or the server
  starts, and whether the sleep of an hour ends, is left open.
- `Elevator`: the process runs when the higher task lets it, time passes, the driver
  sends all its presses.
- Properties excuse what ends the program or is outside the promise: `exited` (a
  push of an unknown source), `raced` (section 2), `killed`, `failed`, `overtaken` and `rushed`,
  overlapping calls (`overlapped`, `mixed`), merged signals (`uncounted`), and the
  writer of a call that is over (`stale`, `crashed`). The behaviours are in the models;
  no property catches what goes wrong in them, and the hazards of `PROJECT.json` that
  come down to them have a note instead. The runs of the findings check a promise
  without the excuse that the finding is about.

## 5. Proofs

`EdfChannel_proofs.tla` proves, by `tlapm`, for every set of ORB threads, suppliers
and events, every assignment of sources and every integer time stamp:

| Theorem | Says |
|---|---|
| `TypeCorrect` | `Spec => []TypeOK` |
| `MutexExcludes` | `Spec => []EDFQExclusion` |
| `OneWorkerCreated` | `Spec => []OneWorker` |
| `Conservation` | `Spec => []EventsConserved` |
| `WakeupNotLost` | `Spec => []WorkerInv` |
| `DeadlineOrder` | `Spec => []EarliestFirst` |
| `Refinement` | `Spec => ImplementsEdf`, that is `Spec => Edf!Spec` |

Assumptions: `ThreadAssumption` (the worker is not an ORB thread, a free and a raw
mutex are neither) and `EventAssumption` (suppliers are integers, every event has a
source and a time stamp). TLC evaluates both in every run of homework 7 and 8.

None of the six invariants is inductive. `IndInv` strengthens their conjunction by

- `CtorInv`: who is inside the constructor, and that `uniqueInstance`, `created`
  and `condReady` agree with it; without it two threads could both find no
  singleton. `OneWorker` follows.
- `LockInv`: when the mutex is still raw and what the worker can have done by
  then; without it the initialisation could take the mutex from a holder.
- `PushInv`: the event a thread pushes is pushed by it alone and is, depending on
  the place of the thread, not yet or already in the queue; needed for
  `EventsConserved`.
- `KnownInv`: only events of known sources are queued, so that their deadline is
  defined and an integer.
- `HistInv`: how `arrived`, `started` and `delivered` relate; needed for
  `EarliestFirst` and for the refinement.

Each conjunct has a lemma about one step (`TypeStep`, `CtorStep`, `LockStep`,
`WakeupStep`, `PushStep`, `KnownStep`, `HistStep`), with the actions that disturb
it in lemmas of their own. The refinement maps the queue to `pending`, the
worker's event to `inService` and `delivered` to `done`; `Enqueue` is `Accept`,
`WorkerPop` is `Start` (a top of the heap is an earliest deadline), `Deliver` is
`Finish`, and every other step stutters.

`ProxyConnection_proofs.tla` proves, for any sets of threads and suppliers:

| Theorem | Says |
|---|---|
| `ConnectionInvariant` | `Spec => [](ConnInv /\ ListedInv)` |
| `TypeCorrect` | `Spec => []TypeOK` |
| `LockCoversAlways` | `Spec => []LockCovers` |
| `MembersAlwaysAgree` | `Spec => []MembersAgree` |
| `CalledBackAtMostOnce` | `Spec => []CalledBackOnce` |
| `ChannelAlwaysKnows` | `Spec => []ChannelKnows` |
| `ImplementsSlotAlways` | `Spec => ImplementsSlot`, that is `Spec => Slot!Spec` |

The only assumption is `ConnectionAssumption` (`Nil` is neither a thread nor a
supplier). `MembersAgree` speaks of the states in which the lock is free; `ConnInv`
says what the members are at each place inside the lock as well, and where each
supplier that was passed to a call may be (an argument, the member, on its way to
its callback, or gone), which `CalledBackOnce` and the refinement need. `ListedInv`
says what the channel has been told while only connects, or only disconnects, run.
The refinement maps `supplier` to the place of `SupplierSlot` and the arguments of
disconnects past the lock to `ended`; it is the lemma on the steps of `ConnInv` once
more, action by action.

`PriorityInversion_proofs.tla` proves, for any programs whose priorities are at most
the ceiling (`ProgramAssumption`):

| Theorem | Says |
|---|---|
| `MutexCorrect` | `Spec => []MutexInv` |
| `OwnerDelays` | `Spec => OnlyOwnerDelays` |
| `HighestAlwaysInTime` | `BoundsFollow /\ Spec => []HighestInTime` |

`HolderRuns` is what `MutexInv` lacks to be inductive: with protection the holder of
the mutex is the task that ran last, so that it keeps the processor even from a task
whose own priority is the ceiling, as lab 2's high task; nobody can then come to a
locked mutex. For inheritance, `LargestExists` gives the holder a largest priority
to inherit, from the library's theorem that `<` is well founded on the naturals.

`HighestAlwaysInTime` is what the protocols of homework 3 are for: a task above all
others is late by one critical section of another task at most, however many tasks
there are in between and whatever they compute. `BoundsFollow` is the hypothesis that
the response time claimed of such a task is at least its own work and the longest
critical section of another; it says nothing of an execution, and `MCPriorityInversion`
has TLC evaluate it for the programs of the repository (`MCBounds`). The work of a job is
a sum over its segments; it is stated as a function `Rest` that `IsRest` relates from
one segment to the next, so that no recursion is needed. The invariant (`TimeInv`) is
that the time since the release, what the job has still to compute (`Todo`), and what
another task that holds the mutex has left of its critical section (`Blocking`) are
together within the bound. A tick shortens the second or the third
(`OnlyTheHolder`, from the lemma of `OwnerDelays`), and no lower task
enters a critical section while the job is pending.

`Homework7_proofs.tla` proves, of `EdfFifoChannel`, for every set of suppliers and
events, every assignment of sources and every integer time stamp, and for one ORB
thread:

| Theorem | Says |
|---|---|
| `DrainSafe` | `OneOrbThread /\ Spec => []DrainInv` |
| `Refinement` | `OneOrbThread /\ Spec => ImplementsEdf`, that is `Edf!Spec` |

`OneOrbThread` is a hypothesis and no assumption of the module, since the class
does not enforce it: it is the program, `Service.cpp`, that calls `orb->run()` in
one thread. With two the loop's test of `FIFOQ` and its `pop`, which are two critical
sections, can come apart, and the results two threads have in their hands can be
sent in either order. `NoUnderflow` says that a thread about to pop finds something;
it is inductive only with `FlagInv`, that the flag read in the loop's test tells
whether `FIFOQ` is empty, and with the thread alone in taking things out of it. The
refinement needs no conservation invariant: `done` is the concatenation of what was
delivered, what the thread holds and `FIFOQ`, and only `Finish`, the worker parking
a result, changes it; `DonePop` and `DoneDeliver` show that parts move within the
concatenation. `PushInv` says that an event is queued once and is not yet started.

It also proves, of `Suppliers`, for any number of suppliers and any set of failures
(`SuppliersAssumption`):

| Theorem | Says |
|---|---|
| `OwnIdOrLater` | `AppSpec => []StartInv` |
| `SignalsHandled` | `AppSpec => []KilledOnlyByBadThread` |

Both follow from `AppInv`. `ArgumentInv` holds however long the sleep is: `pack` is the
id of the turn or of the one before it, and a thread exists only once its turn has
come. The rest (`TimelyInv`) is claimed until main has `rushed`. `TurnInv` ties the threads
to the place of main: only the thread of the turn is on its way while main sleeps, and
nobody pushes before the timers are armed. `HupInv` says that a signal is pending only
for a thread in its loop; `ThreadInv` that such a thread has installed the handler.

`Broker_proofs.tla` proves, for any publishers, messages and streams, any calls of
`Subscribe`, any size of the table and each strategy:

| Theorem | Says |
|---|---|
| `Monitor` | `Spec => []DispatchInv` |
| `Conservation` | `Spec => []MessagesConserved` |
| `FirstInFirstOut` | `Spec => []FifoOrder` |
| `Refinement` | `Spec => ImplementsEdf` |
| `Served` | `Spec => []SubscribersServed` |

Assumptions: `BrokerAssumption` (types, and names that differ) and
`StreamAssumption`: the messages are named so that each is sent once; it says
nothing of their contents, which may be equal. The clock has no bound in the proofs
but the parameter `MaxClock`, which may be any value.

The five follow from three invariants, each on top of the one before:

- `MonitorInv` is `DispatchInv` with `BlockEmpty`: while the dispatcher is between
  its test of the flag and its wait, the queue is empty. Without it `NoLostWakeup`
  does not survive the wait.
- `FlowInv` adds `MessagesConserved`, `EnqueuedInv` (the keys in the queue are
  those of the strategy; with FIFO they never decrease in the order of the pushes and
  never exceed the clock) and `LastTaken`. `FifoOrder` follows step by step:
  a message taken has the least key, so nothing pushed in an earlier microsecond is
  left behind it.
- `ServedInv` adds `TableInv` (one call of `addSubscriber` at a time has the slot
  after the last one counted; the slots counted hold different calls) and `ReachInv`,
  which says of the message in the dispatcher's hands that it has been written to the
  matching slots below the loop's counter, and of those before it that they reached
  all slots that were counted at the time. Both are claimed until two calls of
  `addSubscriber` overlap (`overlapped`), which the code allows.

The refinement maps `PQ` to `pending`, the message in hand to `inService`. It is
claimed for EDF and RM, whose keys are a function of the message; `EnqueuedInv`
carries the equality of `getVal`, computed when a message is pushed, and
`StaticKey`.

`TopicTasks_proofs.tla` proves, for any number of tasks, publishers and calls of
`Subscribe` and any streams:

| Theorem | Says |
|---|---|
| `TasksSafe` | `CalmSpec => []TaskInv` |
| `SlotIsStable` | `CalmSpec => SlotStable` |
| `Refinement` | `CalmSpec => ImplementsLatestValue`, that is `Mail!Spec` |

Assumptions: `TopicTasksAssumption` (there is a task; tasks, publishers and the free
mutex have different names) and `StreamAssumption`, as for the broker. `CalmSpec`
rather than `Spec`: a constructor that overwrites a mutex in use refutes all three.

`IndInv` strengthens `TaskInv` by `CtorInv` (how far the constructor is decides which
tasks exist, and until the last one does no publisher is served), `HandInv` (a handler
past its first line holds a message of a known topic), `SlotExclusion` (the holder of a
topic's mutex is its task or one handler) and `FlagInv` (what the flag says at each
place of the task). `SlotStable` is an action property: it follows from
`SlotExclusion` alone, since the task keeps the mutex while it works. The refinement
also needs `StoredInv`: what was ever stored comes from a position of a stream that
its handler has read, so that, each message being sent once, a store is of a fresh one.

`Elevator_proofs.tla` proves, for any set-up (period, workload, the higher task) and
any number of presses:

| Theorem | Says |
|---|---|
| `NoCommandUnpressed` | `Spec => []ElevatorInv` |
| `MeasurementsInBounds` | `BoundsFollow /\ Spec => []MeasuredInBounds` |

`IndInv` strengthens `ElevatorInv` by `SignalInv` (the timer runs once both handlers
are installed, and no signal of it comes before), `CountInv` (no press is noted or
counted that the driver has not sent, wherever the handler of the press is) and
`GhostInv`: while `pressed` is set and not about to be reset, or the timer's handler
works for it, a press is unanswered. `BoundsFollow` says that the bounds of a set-up
are what its slowest and its fastest workload, the task above it and one period of the
timer add up to;
`MCElevator` has TLC evaluate it (`MCBounds`). The upper bound needs `LateInv`: the
signal of the timer comes within a period of a press that it will find, and from then
on `age` and the time until the workload is done (`ToGo`, with the releases of the
higher task that fall into it, `Stops`) are within the bound; the lower one needs
`ShortInv`: since `startTime` was set there was time for the ticks done and for the
higher task, unless it was not released (`Enough`). Both excuse what the properties
excuse (`late`, `restamped`).

`ClientServer_proofs.tla` proves, of `Streams`, for any number of publishers and of
subscribers and any length of the sequence:

| Theorem | Says |
|---|---|
| `StreamsSafe` | `StreamSpec => []StreamInv` |
| `FinishedIsHeard` | `StreamSpec => []FinishedMeansHeard` |

The only assumption is `StreamsAssumption` (types, and that `Nobody` is no subscriber).
`StreamInd` joins `PubOK` (for each publisher, its place, its stream, its call and
whether its data is printed: the call can only end well when the stream is closed, and
so with the data read), `HeardOK` (what the server of section 4.6 has printed is, but for the
data it is about to forward, at a subscriber; and data that is there was
printed and is not about to be forwarded, so that it is not sent twice), `OnceInv`
(`ForwardedOnce` by streams and what was printed of them), `SubOK` (a subscriber whose
call runs is reading or gone) and `SequenceInv` (the stream of section 4.4 goes on with
the number after the last one printed, and is complete when the call has returned).
`AtTheEnd`, `AtTheHead` and `Concatenated` say what sequences hold, and that they hold
it once.

It also proves, of `TimeClient`, for any number of threads and of rounds, with and
without calls that fail:

| Theorem | Says |
|---|---|
| `ClientShared` | `Spec => []ClientInv` |
| `ShutDownByLast` | `Spec => []NeverShutDownWhileUsed` |

Neither needs the sleep of client.cpp:90. `InstanceInv` says that there are as many
objects as threads that found none and have made one (`Makers`), so that one such
thread makes one object. `CountInv` says, of each object, that its reference count is
at least the number of threads that have counted themselves in it and not given up
their reference, and at most that and the number of those that have left: a thread
that leaves `run` by an exception may keep its reference (`failed`), so that equality
is not invariant. `DownInv` says that after the shutdown there is an object that a
thread has left and in which nobody is counted unless somebody came after it
(`overtaken`, which `NeverShutDownWhileUsed` excuses). The lemmas
`OneMore`, `OneLess`, `MoveIn` and `MoveOut` do the counting, from the library's
theorems about cardinalities.

Only model-checked:

- `ResponseBounded`, the response times of tasks that are not above all others, or
  share a mutex without a protocol: they depend on the numbers of each program, on
  how often each higher task is released meanwhile, and not on an argument about all;
- everything that must eventually happen: fairness and `ENABLED` are out of the
  prover's reach, and so are `QueuedIsDelivered`, `WorkerProcessesQueue`,
  `ParkedUntilNextPush`, `QueuedIsDispatched`, `NewestHandled`,
  `ServerShutDownIfWell`, `RoundsDone`, `PressAnswered`, `AllCountedEnds`,
  `CallsReturn`, `HeardAgain`, `PublishersEnd` and `ForwardedIsReceived`;
- `KillsLiveThread`, which is refuted.

## 6. What is not modelled

- The TAO event channel itself, the ORB, gRPC: external code, present only as who
  calls the methods of the repository.
- Configuration files, argument parsing, output, the CPU-bound workloads (a step).
- The effect of memory corrupted by a race once it has happened: the models say
  that it can, and stop there.
- Topics and sources outside the arrays that the broker and homework 7's suppliers
  index with them: clients of the repository do not send them, except for the
  unknown source of `push`, which is modelled.
- The measurements of homework 2 and 3 and of lab 1 (start times, buffers of
  results, counters of misses) and the end of a program after a number of releases.
- `myComparison` of homework 7 and 8 below a microsecond (section 2).
- The condition variable demonstration, an example of the operating system's
  documentation kept with a lecture: what it shows, threads that wait for a flag and
  one that broadcasts, is part of `TopicTasks`.
- Of lab 3's clients, the arguments of the publisher threads (the address of a
  variable of the loop, as in homework 7, but with the same values in every turn, so
  that a late read does no harm) and the periods.
- The stubs that protoc and the IDL compiler generate (`es.pb.cc`, `TimeC.cpp`,
  `TimeS.cpp`): no logic of the course's own.

## 7. Plan

Every safety property, action property and refinement that a run checks is proved for
every instance (section 5), but for `ResponseBounded`. What is left, most important first:

1. `EDFQExclusion` and `OneWorker` for homework 7 and two ORB threads or more, which
   hold without `OneOrbThread`, with the lemmas about `SingletonWorker` that both
   services need moved to one module.
2. A response time analysis for `ResponseBounded`: for tasks of one mutex-free process
   each, a bound that follows from the periods and the work of those above.
