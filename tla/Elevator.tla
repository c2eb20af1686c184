------------------------------- MODULE Elevator -------------------------------
(***************************************************************************)
(* The elevator control of homework 1 and 2: hw1_solution/control1.cpp,    *)
(* hw2_solution/control1.cpp and the drive.c that presses the button.      *)
(*                                                                         *)
(* One thread, two signals.  SIGUSR1 is a press: its handler notes the     *)
(* time and sets pressed.  SIGUSR2 comes from a periodic timer: its handler *)
(* runs the workload if pressed is set, reports the time since the press,  *)
(* and resets pressed.  A handler masks its own signal only, so each may   *)
(* interrupt the other; of each signal at most one is pending.             *)
(*                                                                         *)
(* Time is counted in ticks of 10 ms.  In homework 2 a task of a higher    *)
(* priority (high_prio_t of run_elevator.sh, not in the repository) has    *)
(* the same processor for the first hogWork ticks of each hogPeriod.       *)
(* The workload is a loop of a fixed count (42, 43), calibrated to 50 ms:  *)
(* each run takes between workload and slowest ticks of the processor.     *)
(***************************************************************************)
EXTENDS Integers, Sequences

CONSTANTS
  Program,     \* the set-ups of the two homeworks
  MaxPresses   \* 200 in the code

IsProgram(p) ==
  /\ {p.period, p.workload, p.slowest, p.hogPeriod} \subseteq Nat \ {0}
  /\ p.workload <= p.slowest
  /\ {p.hogWork, p.best, p.worst} \subseteq Nat
  /\ p.hogWork < p.hogPeriod

ASSUME ElevatorAssumption ==
  /\ \A p \in Program : IsProgram(p)
  /\ MaxPresses \in Nat \ {0}

VARIABLES
  prog,     \* the set-up
  main,     \* what main does next
  pending,  \* the signals pending for the process
  stack,    \* the handlers that run, the one on top first
  at,       \* at[h]: what handler h does next
  left,     \* ticks left of the workload
  pressed, count,
  age,      \* ticks since startTime, counted up to MaxAge
  ended,    \* "no", "exit", or "killed" by the default action of a signal
  timer,    \* ticks to the next expiration, 0 while the timer is not armed
  hog,      \* ticks since the last release of the higher task
  driven,   \* presses sent by drive
  answered, \* history: the presses noted (pressed set) by the last command
  noted,    \* history: presses noted
  late,     \* history: the last press was noted (startTime, pressed) too late
            \* for a timeout delivered meanwhile, or before the timer was armed
  restamped,\* history: startTime was set again while a command was prepared
  uncounted \* history: a press merged with one pending, or its count was reset

procVars == <<main, stack, at, left, pressed, count, ended>>
histVars == <<answered, noted, late, restamped, uncounted>>
vars == <<prog, procVars, pending, age, timer, hog, driven, histVars>>

Signal == {"press", "timeout"}
MaxAge == prog.worst + 2 * prog.period

Init ==
  /\ prog \in Program
  /\ main = "handle_press"
  /\ pending = {} /\ stack = <<>>
  /\ at = [h \in Signal |-> "off"]
  /\ left = 0 /\ pressed = FALSE /\ count = 0
  /\ age = MaxAge
  /\ ended = "no"
  /\ timer = 0 /\ hog \in 0 .. prog.hogPeriod - 1
  /\ driven = 0
  /\ answered = 0 /\ noted = 0
  /\ late = FALSE /\ restamped = FALSE /\ uncounted = FALSE

-----------------------------------------------------------------------------
(* The process runs unless it has ended or the higher task has the         *)
(* processor.  In the instant in which that task is released the process   *)
(* may be in the middle of anything.                                       *)

HogRuns == hog < prog.hogWork
Runs == ended = "no" /\ (~ HogRuns \/ hog = 0)

OnStack(h) == \E k \in DOMAIN stack : stack[k] = h
OnTop(h) == stack # <<>> /\ Head(stack) = h

\* What main has installed when a signal is delivered.
Installed(s) ==
  IF s = "press" THEN main # "handle_press"
  ELSE main \notin {"handle_press", "handle_timeout"}

\* sa_mask is empty: a handler masks its own signal.
Unmasked(s) == ~ OnStack(s)

Deliver(s) ==
  /\ Runs /\ s \in pending /\ Unmasked(s)
  /\ pending' = pending \ {s}
  /\ IF Installed(s)
       THEN /\ stack' = <<s>> \o stack
            /\ at' = [at EXCEPT ![s] = IF s = "press" THEN "stamp" ELSE "test"]
            /\ ended' = ended
       ELSE /\ ended' = "killed"
            /\ UNCHANGED <<stack, at>>
  /\ late' = (late \/ (s = "timeout" /\ at["press"] = "set"))
  /\ UNCHANGED <<prog, main, left, pressed, count, age, timer, hog, driven,
                 answered, noted, restamped, uncounted>>

-----------------------------------------------------------------------------
(* main: install the handlers, arm the timer, reset count, pause for ever. *)

MainStep(from, to) == Runs /\ stack = <<>> /\ main = from /\ main' = to

Install ==
  /\ \/ MainStep("handle_press", "handle_timeout")
     \/ MainStep("handle_timeout", "settime")
  /\ UNCHANGED <<timer, count, uncounted>>

SetTimer ==
  /\ MainStep("settime", "count")
  /\ timer' = prog.period
  /\ UNCHANGED <<count, uncounted>>

\* A press handled before is forgotten.
ResetCount ==
  /\ MainStep("count", "pause")
  /\ count' = 0
  /\ uncounted' = (uncounted \/ count > 0)
  /\ UNCHANGED timer

Main ==
  /\ Install \/ SetTimer \/ ResetCount
  /\ UNCHANGED <<prog, pending, stack, at, left, pressed, age, ended, hog,
                 driven, answered, noted, late, restamped>>

-----------------------------------------------------------------------------
(* handle_press.                                                           *)

Go(h, from, to) ==
  /\ Runs /\ OnTop(h) /\ at[h] = from
  /\ at' = [at EXCEPT ![h] = to]
  /\ stack' = IF to = "off" THEN Tail(stack) ELSE stack

Stamp ==
  /\ Go("press", "stamp", "set")
  /\ age' = 0
  /\ late' = (timer = 0)
  /\ restamped' = (restamped \/ at["timeout"] = "work")
  /\ UNCHANGED <<pressed, count, ended, noted>>

SetPressed ==
  /\ Go("press", "set", "count")
  /\ pressed' = TRUE
  /\ noted' = noted + 1
  /\ UNCHANGED <<count, ended, age, restamped, late>>

\* Mutant: one press more than drive sends.
BeyondAll(n) == n > MaxPresses

AllCounted(n) == n = MaxPresses

CountPress ==
  /\ Go("press", "count", "off")
  /\ count' = count + 1
  /\ ended' = IF AllCounted(count + 1) THEN "exit" ELSE ended
  /\ UNCHANGED <<pressed, noted, age, restamped, late>>

HandlePress ==
  /\ Stamp \/ SetPressed \/ CountPress
  /\ UNCHANGED <<prog, main, pending, left, timer, hog, driven, answered,
                 uncounted>>

-----------------------------------------------------------------------------
(* handle_timeout.                                                         *)

Test ==
  /\ Go("timeout", "test", IF pressed THEN "work" ELSE "off")
  /\ left' \in IF pressed THEN prog.workload .. prog.slowest ELSE {left}
  /\ restamped' = FALSE
  /\ UNCHANGED <<pressed, answered>>

WorkDone == left = 0

\* The workload is done and age is the time reported.
AboutToSend == OnTop("timeout") /\ at["timeout"] = "work" /\ WorkDone

Send ==
  /\ WorkDone
  /\ Go("timeout", "work", "reset")
  /\ answered' = noted
  /\ UNCHANGED <<left, pressed, restamped>>

\* Mutant: pressed is not reset.
StillPressed == pressed

NotPressed == FALSE

Reset ==
  /\ Go("timeout", "reset", "off")
  /\ pressed' = NotPressed
  /\ UNCHANGED <<left, answered, restamped>>

HandleTimeout ==
  /\ Test \/ Send \/ Reset
  /\ UNCHANGED <<prog, main, pending, count, age, ended, timer, hog, driven,
                 noted, late, uncounted>>

-----------------------------------------------------------------------------
(* drive.c presses the button whenever it likes: its sleeps are random.    *)

Drive ==
  /\ ended = "no" /\ driven < MaxPresses
  /\ driven' = driven + 1
  /\ uncounted' = (uncounted \/ "press" \in pending)
  /\ pending' = pending \cup {"press"}
  /\ UNCHANGED <<prog, procVars, age, timer, hog, answered, noted, late,
                 restamped>>

(* Time passes when the higher task has the processor, or when the process *)
(* waits in pause() or works.                                              *)

Working == OnTop("timeout") /\ at["timeout"] = "work" /\ left > 0
Waiting == stack = <<>> /\ main = "pause"
Undisturbed == \A s \in pending : ~ Unmasked(s)

Expires == timer = 1

\* Mutants: it_interval is not set, to zero or to what its happens to hold.
OneShot == 0
OtherInterval == 2 * prog.period

Interval == prog.period

Tick ==
  /\ ended = "no"
  /\ HogRuns \/ (Undisturbed /\ (Working \/ Waiting))
  /\ left' = IF ~ HogRuns /\ Working THEN left - 1 ELSE left
  /\ age' = IF age < MaxAge THEN age + 1 ELSE age
  /\ hog' = (hog + 1) % prog.hogPeriod
  /\ timer' = CASE Expires -> Interval
                [] ~ Expires /\ timer > 1 -> timer - 1
                [] OTHER -> timer
  /\ pending' = IF Expires THEN pending \cup {"timeout"} ELSE pending
  /\ UNCHANGED <<prog, main, stack, at, pressed, count, ended, driven, histVars>>

Terminated == ended # "no" /\ UNCHANGED vars

Process == Main \/ HandlePress \/ HandleTimeout \/ \E s \in Signal : Deliver(s)

Next == Process \/ Drive \/ Tick \/ Terminated

Spec == Init /\ [][Next]_vars

\* The process runs when it can, time passes, and drive sends all its presses.
Fairness == WF_vars(Process) /\ WF_vars(Tick) /\ WF_vars(Drive)

FairSpec == Spec /\ Fairness

-----------------------------------------------------------------------------
TypeOK ==
  /\ prog \in Program
  /\ main \in {"handle_press", "handle_timeout", "settime", "count", "pause"}
  /\ pending \subseteq Signal
  /\ stack \in {<<>>, <<"press">>, <<"timeout">>, <<"press", "timeout">>,
                <<"timeout", "press">>}
  /\ at \in [Signal -> {"off", "stamp", "set", "count", "test", "work", "reset"}]
  /\ at["press"] \in {"off", "stamp", "set", "count"}
  /\ at["timeout"] \in {"off", "test", "work", "reset"}
  /\ \A h \in Signal : OnStack(h) <=> at[h] # "off"
  /\ left \in 0 .. prog.slowest /\ pressed \in BOOLEAN
  /\ count \in 0 .. MaxPresses /\ driven \in 0 .. MaxPresses
  /\ age \in 0 .. MaxAge /\ timer \in 0 .. prog.period
  /\ hog \in 0 .. prog.hogPeriod - 1
  /\ ended \in {"no", "exit", "killed"}
  /\ {late, restamped, uncounted} \subseteq BOOLEAN
  /\ {answered, noted} \subseteq 0 .. MaxPresses

\* The response time reported is at most a period of the timer and the time the
\* higher task makes of the slowest workload (hw2_solution/elevator_analysis.txt:23
\* and hw1_solution/analysis.txt:7, where the workload takes 50 ms), unless the
\* timer's handler came between the two assignments of handle_press (38, 39).
MeasuredBounded == AboutToSend /\ ~ late => age <= prog.worst

\* It is below what the fastest workload takes under the higher task only if
\* another press was caught meanwhile (hw1_solution/analysis.txt:10).
ShortOnlyIfPressedAgain == AboutToSend /\ ~ restamped => age >= prog.best

\* Every time reported is one of a press that was answered: the two assignments of
\* handle_press and the two uses of handle_timeout may fall in any order.
MeasuredInBounds == MeasuredBounded /\ ShortOnlyIfPressedAgain

\* The time from the expiration of the timer to the end of the slowest workload, if
\* the higher task has just been released and runs again after every Gap ticks.
Gap(p) == p.hogPeriod - p.hogWork
Response(p) == p.slowest + p.hogWork * (1 + p.slowest \div Gap(p))

\* The bounds are what the set-ups say.
BoundsFollow ==
  \A p \in Program :
    /\ p.worst >= p.period + Response(p)
    /\ p.best <= p.workload + (IF p.workload > Gap(p) THEN p.hogWork ELSE 0)

\* No command without a press: each is for presses noted since the last one,
\* though pressed is written by both handlers (39, 68).
NoGhostCommand == AboutToSend => answered < noted

\* The handlers are where their variables say, and send no ghost command.
ElevatorInv == TypeOK /\ NoGhostCommand

\* A press noted while no command is being prepared is answered.
PressAnswered ==
  pressed /\ at["timeout"] = "off" ~> at["timeout"] = "reset" \/ ended # "no"

\* Once drive has sent all presses the control terminates (42), unless presses
\* merged or came before count was reset.
AllCountedEnds == <>(ended # "no" \/ uncounted)

===============================================================================
