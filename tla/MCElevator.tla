------------------------------ MODULE MCElevator ------------------------------
(***************************************************************************)
(* Elevator with the set-ups of homework 1 (timer of 500 ms, and of 100 ms *)
(* as in resp.out.100) and of homework 2 (100 ms, and a task of 30 ms in   *)
(* every 70 ms above it), in ticks of 10 ms.  How long a workload of 50 ms *)
(* takes is read off the response times recorded beside the programs: up   *)
(* to 177 ms with the timer of 100 ms and up to 561 ms with that of 500 ms *)
(* in homework 1 (cpufreq-nofix), up to 218 ms in homework 2.              *)
(***************************************************************************)
EXTENDS Elevator

\* The clock of the processor is not fixed: from 40 to 80 ms.
Alone(period) ==
  [period |-> period, workload |-> 4, slowest |-> 8, hogPeriod |-> 1, hogWork |-> 0,
   best |-> 4, worst |-> period + 8]

\* The clock is fixed (setCPUFreq.sh): from 50 to 60 ms.
hw2_control1 ==
  [period |-> 10, workload |-> 5, slowest |-> 6, hogPeriod |-> 7, hogWork |-> 3,
   best |-> 8, worst |-> 10 + 12]

MCProgram == {Alone(50), Alone(10), hw2_control1}

\* The bounds of every set-up follow from its timer, its workload and the task above
\* it: what the proof about the measured times assumes of a set-up.
ASSUME MCBounds == BoundsFollow

===============================================================================
