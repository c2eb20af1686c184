----------------------------- MODULE PriorityTasks -----------------------------
(***************************************************************************)
(* The programs of the experiments with real-time tasks: what each task    *)
(* computes in and out of its critical section, its priority, the least    *)
(* time between two of its releases, and the response times claimed.       *)
(***************************************************************************)
EXTENDS Naturals

Plain(n)   == [ticks |-> n, locked |-> FALSE]
Section(n) == [ticks |-> n, locked |-> TRUE]

-----------------------------------------------------------------------------
(* Homework 3, in ticks of one workload_10ms: tau1, the lowest task tau2,  *)
(* and tau3 between them.                                                  *)

tau1_Work == <<Plain(1), Section(1), Plain(1)>>
tau2_Work == <<Plain(3), Section(2), Plain(5)>>
tau3_Work == <<Plain(7)>>

Hw3Priority == [tau1 |-> 98, tau2 |-> 96, tau3 |-> 97]
Hw3Work     == [tau1 |-> tau1_Work, tau2 |-> tau2_Work, tau3 |-> tau3_Work]

\* Periods of 139, 257 and 211 ms.
Hw3MinGap   == [tau1 |-> 13, tau2 |-> 25, tau3 |-> 21]

Hw3Program(protocol, bound) ==
  [protocol |-> protocol, timer |-> TRUE, sigint |-> FALSE,
   priority |-> Hw3Priority, work |-> Hw3Work, minGap |-> Hw3MinGap,
   bound |-> [tau1 |-> bound]]

\* What the students start from: tau3 computes nothing and has no timer.
taskTau_1_start == <<Plain(1), Section(1), Plain(1)>>
taskTau_2_start == <<Plain(3), Section(2), Plain(5)>>

StartingPoint(protocol, bound) ==
  [protocol |-> protocol, timer |-> TRUE, sigint |-> FALSE,
   priority |-> [tau1 |-> 98, tau2 |-> 96],
   work |-> [tau1 |-> taskTau_1_start, tau2 |-> taskTau_2_start],
   minGap |-> [tau1 |-> 13, tau2 |-> 25], bound |-> [tau1 |-> bound]]

-----------------------------------------------------------------------------
(* Lab 2, in ticks of one workload_500us: taskTau_1, the lowest task       *)
(* taskTau_3, and tasks of one priority between them.  taskTau_2 and the   *)
(* seven copies of taskTau_mid differ in their length only: two copies of  *)
(* taskTau_mid stand for the eight.                                        *)

taskTau_1   == <<Section(1), Plain(2)>>
taskTau_3   == <<Section(6), Plain(20)>>
taskTau_mid == <<Plain(14)>>

Lab2Priority == [tau_1 |-> 99, tau_3 |-> 97, mid1 |-> 98, mid2 |-> 98]
Lab2Work     == [tau_1 |-> taskTau_1, tau_3 |-> taskTau_3,
                 mid1 |-> taskTau_mid, mid2 |-> taskTau_mid]

\* Far below the periods of 50, 167 and 87 ms: the claims need no more.
Lab2MinGap   == [tau_1 |-> 10, tau_3 |-> 1, mid1 |-> 1, mid2 |-> 1]

Lab2Program(protocol, bound) ==
  [protocol |-> protocol, timer |-> FALSE, sigint |-> FALSE,
   priority |-> Lab2Priority, work |-> Lab2Work, minGap |-> Lab2MinGap,
   bound |-> bound]

\* The first version, with the default mutex and one copy of taskTau_mid; no
\* response time can be claimed of it.
cs3_taskTau_1   == <<Section(1), Plain(2)>>
cs3_taskTau_3   == <<Section(6), Plain(20)>>
cs3_taskTau_mid == <<Plain(14)>>

cs3 ==
  [protocol |-> "none", timer |-> FALSE, sigint |-> FALSE,
   priority |-> [tau_1 |-> 99, tau_3 |-> 97, mid |-> 98],
   work |-> [tau_1 |-> cs3_taskTau_1, tau_3 |-> cs3_taskTau_3,
             mid |-> cs3_taskTau_mid],
   minGap |-> [tau_1 |-> 10, tau_3 |-> 1, mid |-> 1], bound |-> <<>>]

-----------------------------------------------------------------------------
(* Programs of tasks that share nothing, each a process of its own: lab 1, *)
(* in ticks of one workload_1ms, and homework 2, in ticks of 10 ms.        *)

Process(ticks, priority, period) ==
  [ticks |-> ticks, priority |-> priority, period |-> period]

t1 == Process(2, 99, 5)
t2 == Process(2, 99, 7)
t3 == Process(4, 99, 7)

t1rm == Process(2, 99, 5)
t2rm == Process(2, 98, 7)
t3rm == Process(4, 98, 7)

t1rmi == Process(2, 98, 5)
t2rmi == Process(2, 99, 7)
t3rmi == Process(4, 99, 7)

\* t1rm with a table of its response times.
response_t1rm == Process(2, 99, 5)

hw2_t1 == Process(5, 99, 10)
hw2_t2 == Process(8, 98, 50)

Together(tasks, timer, sigint, bound) ==
  [protocol |-> "none", timer |-> timer, sigint |-> sigint,
   priority |-> [t \in DOMAIN tasks |-> tasks[t].priority],
   work |-> [t \in DOMAIN tasks |-> <<Plain(tasks[t].ticks)>>],
   minGap |-> [t \in DOMAIN tasks |-> tasks[t].period], bound |-> bound]

===============================================================================
