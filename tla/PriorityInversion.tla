--------------------------- MODULE PriorityInversion ---------------------------
(***************************************************************************)
(* The experiments with real-time tasks on one processor: the priority     *)
(* inversion of hw3_solution/priority_inversion.cpp and its forerunners    *)
(* cs3.cpp, cs3PIP.cpp and cs3PCP.cpp in prev/spring2020/lab2, where two   *)
(* tasks share the mutex mutex_section1, with no protocol, with priority   *)
(* inheritance and with priority protection; and the independent tasks of  *)
(* prev/spring2020/lab1 and hw2_solution.                                  *)
(*                                                                         *)
(* A program (module PriorityTasks) defines the tasks, what each computes  *)
(* in and out of its critical section, their priorities and periods, and   *)
(* the protocol of the mutex.  The processor, preemptive and by priority,  *)
(* is the SCHED_FIFO of Linux.  Time advances in ticks of one call of the  *)
(* workload; every job uses its worst case.  Releases may come later than  *)
(* the timer says, so that every phasing of the timers is a behaviour.     *)
(***************************************************************************)
EXTENDS Integers, Sequences

CONSTANTS
  NoTask,
  Ceiling,   \* sched_get_priority_max(SCHED_FIFO)
  Program    \* the programs, and for each what is claimed of it

IsProgram(p) ==
  LET T == DOMAIN p.priority IN
  /\ NoTask \notin T
  /\ p.protocol \in {"none", "pip", "pcp"}
  /\ {p.timer, p.sigint} \subseteq BOOLEAN
  /\ p.priority \in [T -> 1 .. Ceiling]
  /\ p.work \in [T -> Seq([ticks : Nat \ {0}, locked : BOOLEAN])]
  /\ \A t \in T : Len(p.work[t]) > 0
  /\ p.minGap \in [T -> Nat \ {0}]
  /\ \A t \in DOMAIN p.bound : t \in T /\ p.bound[t] \in 0 .. p.minGap[t] - 1

ASSUME ProgramAssumption == Ceiling \in Nat /\ \A p \in Program : IsProgram(p)

VARIABLES
  prog,     \* the program, with its protocol, that runs
  at,       \* at[t]: "idle", "enter" a segment, "run" it, or "blocked"
  seg,      \* seg[t]: the segment of the job, 0 if there is none
  left,     \* left[t]: ticks left in it
  backlog,  \* backlog[t]: jobs released before the last one was over
  since,    \* since[t]: ticks since the last release, counted up to MinGap
  owner,    \* the holder of mutex_section1
  cpu       \* the task that ran last

jobVars == <<at, seg, left, backlog>>
vars == <<prog, jobVars, since, owner, cpu>>

Protocol == prog.protocol  \* the first argument of homework 3's program
Priority == prog.priority  \* Priority[t], set by setSchedulingPolicy
Task     == DOMAIN Priority
Work     == prog.work      \* Work[t]: segments of a job, each with its ticks
                           \* and whether it is a critical section
MinGap   == prog.minGap    \* MinGap[t]: ticks between two releases, at least
Timer    == prog.timer     \* released by a timer, or by its own loop
SigInt   == prog.sigint    \* SIGINT is sent to the tasks, and caught
Bound    == prog.bound     \* the response times claimed of some of the tasks

Init ==
  /\ prog \in Program
  /\ at = [t \in Task |-> "idle"]
  /\ seg = [t \in Task |-> 0] /\ left = [t \in Task |-> 0]
  /\ backlog = [t \in Task |-> 0]
  /\ since = MinGap
  /\ owner = NoTask /\ cpu = NoTask

-----------------------------------------------------------------------------
(* The processor.                                                          *)

Largest(S) == CHOOSE x \in S : \A y \in S : y <= x

Blocked == {t \in Task : at[t] = "blocked"}

\* Mutant: the attribute of the mutex is set and then not used.
DefaultMutex(t) == Priority[t]

\* The priority of the owner of the mutex (188, 190-199, 203-213).
OwnerPriority(t) ==
  CASE Protocol = "none" -> Priority[t]
    [] Protocol = "pip"  -> Largest({Priority[u] : u \in Blocked \cup {t}})
    [] Protocol = "pcp"  -> Ceiling

Effective(t) == IF t = owner THEN OwnerPriority(t) ELSE Priority[t]

Ready == {t \in Task : at[t] \in {"enter", "run"}}

\* Mutant: no call of setSchedulingPolicy.
AnyReady == Ready

Highest == {t \in Ready : \A u \in Ready : Effective(u) <= Effective(t)}

\* Among equals the task that runs keeps the processor.
Runs(t) == t \in Highest /\ (cpu \in Highest => t = cpu)

TimePasses ==
  since' = [t \in Task |-> IF since[t] < MinGap[t] THEN since[t] + 1
                           ELSE since[t]]

-----------------------------------------------------------------------------
(* Jobs.                                                                   *)

Locked(t) == Work[t][seg[t]].locked

Due(t) == since[t] = MinGap[t]

\* A signal handler that returns ends usleep: the next job comes early.
WokenEarly(t) == SigInt /\ at[t] = "idle"

\* A timer starts a thread for each release, whether or not the last is
\* over (149-175); a loop sleeps for what is left of its period.
Release(t) ==
  /\ Due(t) \/ WokenEarly(t)
  /\ Timer \/ at[t] = "idle"
  /\ since' = [since EXCEPT ![t] = 0]
  /\ IF at[t] = "idle"
       THEN /\ at' = [at EXCEPT ![t] = "enter"]
            /\ seg' = [seg EXCEPT ![t] = 1]
            /\ UNCHANGED backlog
       ELSE backlog' = [backlog EXCEPT ![t] = @ + 1] /\ UNCHANGED <<at, seg>>
  /\ UNCHANGED <<prog, left, owner, cpu>>

\* Mutant: the critical section is entered without the mutex.
Unlocked(t) == TRUE

MutexFree(t) == owner = NoTask

Begin(t) ==
  /\ at' = [at EXCEPT ![t] = "run"]
  /\ left' = [left EXCEPT ![t] = Work[t][seg[t]].ticks]
  /\ cpu' = t

EnterPlain(t) ==
  /\ at[t] = "enter" /\ Runs(t) /\ ~ Locked(t)
  /\ Begin(t)
  /\ UNCHANGED <<prog, seg, backlog, since, owner>>

\* pthread_mutex_lock (&mutex_section1) returns.
EnterLocked(t) ==
  /\ at[t] = "enter" /\ Runs(t) /\ Locked(t) /\ MutexFree(t)
  /\ Begin(t)
  /\ owner' = t
  /\ UNCHANGED <<prog, seg, backlog, since>>

\* pthread_mutex_lock (&mutex_section1) blocks.
Block(t) ==
  /\ at[t] = "enter" /\ Runs(t) /\ Locked(t) /\ ~ MutexFree(t)
  /\ at' = [at EXCEPT ![t] = "blocked"]
  /\ UNCHANGED <<prog, seg, left, backlog, since, owner, cpu>>

\* One tick of the workload.
Compute(t) ==
  /\ at[t] = "run" /\ left[t] > 0 /\ Runs(t)
  /\ left' = [left EXCEPT ![t] = @ - 1]
  /\ cpu' = t
  /\ TimePasses
  /\ UNCHANGED <<prog, at, seg, backlog, owner>>

InLast(t) == seg[t] = Len(Work[t])

\* The end of a segment: the mutex is unlocked, those blocked on it try again,
\* and the job goes on, or is over and the next released one starts.
Leave(t) ==
  LET over == InLast(t) /\ backlog[t] = 0 IN
  /\ at[t] = "run" /\ left[t] = 0 /\ Runs(t)
  /\ owner' = IF Locked(t) THEN NoTask ELSE owner
  /\ at' = [u \in Task |->
              IF u = t THEN IF over THEN "idle" ELSE "enter"
              ELSE IF Locked(t) /\ at[u] = "blocked" THEN "enter" ELSE at[u]]
  /\ seg' = [seg EXCEPT ![t] = IF over THEN 0
                               ELSE IF InLast(t) THEN 1 ELSE @ + 1]
  /\ backlog' = [backlog EXCEPT ![t] = IF InLast(t) /\ @ > 0 THEN @ - 1 ELSE @]
  /\ UNCHANGED <<prog, left, since, cpu>>

Job(t) == EnterPlain(t) \/ EnterLocked(t) \/ Block(t) \/ Compute(t) \/ Leave(t)

Idle ==
  /\ Ready = {}
  /\ cpu' = NoTask
  /\ TimePasses
  /\ UNCHANGED <<prog, jobVars, owner>>

Next == (\E t \in Task : Release(t) \/ Job(t)) \/ Idle

Spec == Init /\ [][Next]_vars

-----------------------------------------------------------------------------
TypeOK ==
  /\ prog \in Program
  /\ at \in [Task -> {"idle", "enter", "run", "blocked"}]
  /\ \A t \in Task : /\ seg[t] \in 0 .. Len(Work[t])
                     /\ seg[t] = 0 <=> at[t] = "idle"
                     /\ since[t] \in 0 .. MinGap[t]
  /\ {seg, left, backlog, since} \subseteq [Task -> Nat]
  /\ owner \in Task \cup {NoTask} /\ cpu \in Task \cup {NoTask}

\* One task at a time is in its critical section, and whoever is blocked is
\* blocked by it (85-87, 126-131).
SectionExclusion ==
  \A t \in Task :
    /\ at[t] = "run" /\ Locked(t) <=> t = owner
    /\ at[t] = "blocked" => owner # NoTask

\* With priority protection no task ever has to wait in pthread_mutex_lock.
NeverBlocked == Protocol = "pcp" => Blocked = {}

\* The mutex keeps the sections apart, and with protection nobody waits for it.
MutexInv == TypeOK /\ SectionExclusion /\ NeverBlocked

\* The tasks that are above all others and share no mutex, or one with a
\* protocol.
Protected(p) ==
  {t \in DOMAIN p.bound :
     /\ \A u \in DOMAIN p.priority \ {t} : p.priority[u] < p.priority[t]
     /\ p.protocol = "none" =>
          \A u \in DOMAIN p.priority : \A k \in 1 .. Len(p.work[u]) :
            ~ p.work[u][k].locked}

\* Rest[k]: what a job of t has to compute from its segment k on.
IsRest(p, t, Rest) ==
  /\ Rest[Len(p.work[t]) + 1] = 0
  /\ \A k \in 1 .. Len(p.work[t]) : Rest[k] = p.work[t][k].ticks + Rest[k + 1]

\* What is claimed of the protected tasks leaves room for a job of the task and
\* for one critical section of another.
BoundsFollow ==
  \A p \in Program : \A t \in Protected(p) :
    \E Rest \in [1 .. Len(p.work[t]) + 1 -> 0 .. p.bound[t]] :
      /\ IsRest(p, t, Rest)
      /\ \A u \in DOMAIN p.priority \ {t} : \A k \in 1 .. Len(p.work[u]) :
           p.work[u][k].locked => Rest[1] + p.work[u][k].ticks <= p.bound[t]

\* The response time of a protected task, from its release to its end, is within
\* its own work and one critical section of another task, however many tasks
\* there are between the two; no two of its jobs overlap, which share startTime
\* and result (80, 92).
HighestInTime ==
  \A t \in Protected(prog) :
    at[t] # "idle" => since[t] <= Bound[t] /\ backlog[t] = 0

\* The response time of the other tasks of which one is claimed: the high task
\* of homework 3, which without a protocol waits for a job of the middle task
\* besides.  The rest, as the low task there, may be late for their next
\* release, but by one job.
ResponseBounded ==
  /\ \A t \in DOMAIN Bound \ Protected(prog) :
       at[t] # "idle" => since[t] <= Bound[t] /\ backlog[t] = 0
  /\ \A t \in Task : backlog[t] <= 1

\* What the protocols are for: while a job of a higher task is pending, a lower
\* task computes only if it owns the mutex, and then only to let a task that is
\* as high get it (inheritance) or at the ceiling (protection).
OnlyOwnerDelays ==
  [][\A t, u \in Task :
       Compute(t) /\ at[u] # "idle" /\ Priority[t] < Priority[u]
                  /\ Protocol # "none" =>
         /\ t = owner
         /\ Protocol = "pip" =>
              \E w \in Blocked : Priority[u] <= Priority[w]]_vars

===============================================================================
