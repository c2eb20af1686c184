------------------------- MODULE MCPriorityInversion -------------------------
(***************************************************************************)
(* PriorityInversion with the programs of the experiments, and the         *)
(* response times claimed: in homework 3 the work of tau1 and the critical *)
(* section of tau2, without a protocol a job of tau3 besides (50 and 120   *)
(* ms; at most 49, 42 and 118 in pip.out, pcp.out and                      *)
(* priority_inversion.out); in lab 2 the work of tau_1 and the critical    *)
(* section of tau_3 (4.5 ms).  In lab 1 the task of the highest priority   *)
(* meets its deadline, the next release, always (cmp.txt).  Its other      *)
(* tasks may miss theirs, and in homework 2 single jobs took longer than   *)
(* the work there is (68 and 309 ms in resp_t1.out and resp_t2.out):       *)
(* nothing is claimed of these.                                            *)
(***************************************************************************)
EXTENDS PriorityInversion, PriorityTasks

Hw3 ==
  {Hw3Program("none", 3 + 2 + 7), Hw3Program("pip", 3 + 2),
   Hw3Program("pcp", 3 + 2)}
  \cup {StartingPoint(p, 3 + 2) : p \in {"none", "pip", "pcp"}}

Lab2 ==
  {Lab2Program("pip", [tau_1 |-> 3 + 6]), Lab2Program("pcp", [tau_1 |-> 3 + 6]),
   cs3}

\* The pairs of tasks while nobody asks for the counters with SIGINT ...
Lab1 ==
  {Together([t1 |-> t1, t2 |-> t2], FALSE, FALSE, <<>>),
   Together([t2 |-> t2, t3 |-> t3], FALSE, FALSE, <<>>),
   Together([t1rm |-> t1rm, t3rm |-> t3rm], FALSE, FALSE, [t1rm |-> 4]),
   Together([t1rm |-> response_t1rm, t2rm |-> t2rm], FALSE, FALSE,
            [t1rm |-> 4]),
   Together([t1rmi |-> t1rmi, t2rmi |-> t2rmi], FALSE, FALSE, [t2rmi |-> 6])}

\* ... and while somebody does, as testRM.sh and testRMI.sh.
Lab1Asked ==
  {Together([t1rm |-> t1rm, t3rm |-> t3rm], FALSE, TRUE, [t1rm |-> 4]),
   Together([t1rmi |-> t1rmi, t3rmi |-> t3rmi], FALSE, TRUE, [t3rmi |-> 6])}

Hw2 == {Together([t1 |-> hw2_t1, t2 |-> hw2_t2], TRUE, FALSE, <<>>)}

MCProgram == Hw3 \cup Lab2 \cup Lab1 \cup Lab1Asked \cup Hw2

\* The hypothesis of the theorem about the protected tasks.
ASSUME MCBounds == BoundsFollow

===============================================================================
