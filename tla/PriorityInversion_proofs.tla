----------------------- MODULE PriorityInversion_proofs -----------------------
(***************************************************************************)
(* Proofs about the tasks on one processor, for every set of programs.     *)
(***************************************************************************)
EXTENDS PriorityInversion, WellFoundedInduction, TLAPS

-----------------------------------------------------------------------------
(* The inductive invariant.                                                *)

\* With protection the holder of the mutex is at the ceiling and, once it runs,
\* keeps the processor, also from a task whose own priority is the ceiling.
HolderRuns == Protocol = "pcp" /\ owner # NoTask => cpu = owner

IndInv == MutexInv /\ HolderRuns

\* What the assumption says of the program that runs.
LEMMA ProgFacts ==
  ASSUME prog \in Program
  PROVE  /\ NoTask \notin Task
         /\ Protocol \in {"none", "pip", "pcp"}
         /\ Priority \in [Task -> 1 .. Ceiling]
         /\ Work \in [Task -> Seq([ticks : Nat \ {0}, locked : BOOLEAN])]
         /\ \A t \in Task : Len(Work[t]) \in Nat \ {0}
         /\ MinGap \in [Task -> Nat \ {0}]
<1>1. IsProgram(prog)
  BY ProgramAssumption
<1>2. Work \in [Task -> Seq([ticks : Nat \ {0}, locked : BOOLEAN])]
  BY <1>1 DEF IsProgram, Work, Task, Priority
<1>3. \A t \in Task : Len(Work[t]) \in Nat \ {0}
  BY <1>1, <1>2 DEF IsProgram, Work, Task, Priority
<1> QED
  BY <1>1, <1>2, <1>3 DEF IsProgram, Task, Protocol, Priority, Work, MinGap

\* A segment of a job that has one.
LEMMA Segment ==
  ASSUME prog \in Program, NEW t \in Task, NEW k \in 1 .. Len(Work[t])
  PROVE  Work[t][k].ticks \in Nat /\ Work[t][k].locked \in BOOLEAN
<1> DEFINE Segments == [ticks : Nat \ {0}, locked : BOOLEAN]
<1>1. Work[t] \in Seq(Segments)
  BY ProgFacts
<1>2. Work[t][k] \in Segments
  <2> HIDE DEF Segments
  <2> QED
    BY <1>1
<1> QED
  BY <1>2

-----------------------------------------------------------------------------
LEMMA InitHolds == Init => IndInv
<1> SUFFICES ASSUME Init PROVE IndInv
  OBVIOUS
<1>1. prog \in Program
  BY DEF Init
<1>2. MinGap \in [Task -> Nat \ {0}]
  BY <1>1, ProgFacts
<1>3. TypeOK
  <2>1. {seg, left, backlog, since} \subseteq [Task -> Nat]
    BY <1>2 DEF Init
  <2>2. \A t \in Task : /\ seg[t] \in 0 .. Len(Work[t])
                        /\ seg[t] = 0 <=> at[t] = "idle"
                        /\ since[t] \in 0 .. MinGap[t]
    BY <1>1, <1>2, ProgFacts DEF Init
  <2> QED
    BY <1>1, <2>1, <2>2 DEF Init, TypeOK
<1>4. SectionExclusion
  BY <1>1, ProgFacts DEF Init, SectionExclusion
<1> QED
  BY <1>3, <1>4 DEF Init, IndInv, MutexInv, NeverBlocked, HolderRuns, Blocked

\* The step changes nothing of the program.
LEMMA ProgStays ==
  ASSUME IndInv, [Next]_vars
  PROVE  /\ prog' = prog /\ Task' = Task /\ Work' = Work /\ MinGap' = MinGap
         /\ Protocol' = Protocol /\ Priority' = Priority
<1>1. prog' = prog
  BY DEF Next, Job, Release, EnterPlain, EnterLocked, Block, Compute, Leave,
     Idle, vars
<1> QED
  BY <1>1 DEF Task, Work, MinGap, Protocol, Priority

-----------------------------------------------------------------------------
(* One step.                                                               *)

\* The clock stays within the gaps.
LEMMA TimeStep ==
  ASSUME TypeOK, TimePasses, prog' = prog
  PROVE  /\ since' \in [Task -> Nat]
         /\ \A t \in Task : since'[t] \in 0 .. MinGap[t]
<1>1. MinGap \in [Task -> Nat \ {0}] /\ since \in [Task -> Nat]
  BY ProgFacts DEF TypeOK
<1> QED
  BY <1>1 DEF TypeOK, TimePasses

LEMMA TypeStep ==
  ASSUME IndInv, [Next]_vars
  PROVE  TypeOK'
<1> USE DEF IndInv, MutexInv
<1>1. /\ prog \in Program /\ prog' = prog /\ Task' = Task /\ Work' = Work
      /\ MinGap' = MinGap
  BY ProgStays DEF TypeOK
<1>2. /\ Work \in [Task -> Seq([ticks : Nat \ {0}, locked : BOOLEAN])]
      /\ \A t \in Task : Len(Work[t]) \in Nat \ {0}
      /\ MinGap \in [Task -> Nat \ {0}]
  BY <1>1, ProgFacts
<1>3. ASSUME NEW t \in Task, Release(t) PROVE TypeOK'
  <2>1. /\ UNCHANGED <<left, owner, cpu>>
        /\ since' = [since EXCEPT ![t] = 0]
    BY <1>3 DEF Release
  <2>2. /\ since' \in [Task -> Nat]
        /\ \A u \in Task : since'[u] \in 0 .. MinGap[u]
    <3>1. /\ since \in [Task -> Nat]
          /\ \A u \in Task : since[u] \in 0 .. MinGap[u]
      BY DEF TypeOK
    <3> QED
      BY <1>2, <2>1, <3>1
  <2>3. CASE at[t] = "idle"
    <3>1. /\ at' = [at EXCEPT ![t] = "enter"] /\ seg' = [seg EXCEPT ![t] = 1]
          /\ backlog' = backlog
      BY <1>3, <2>3 DEF Release
    <3>2. \A u \in Task : /\ seg'[u] \in 0 .. Len(Work[u])
                          /\ seg'[u] = 0 <=> at'[u] = "idle"
      BY <1>2, <3>1 DEF TypeOK
    <3> QED
      BY <1>1, <2>1, <2>2, <3>1, <3>2 DEF TypeOK
  <2>4. CASE at[t] # "idle"
    <3>1. /\ backlog' = [backlog EXCEPT ![t] = @ + 1] /\ UNCHANGED <<at, seg>>
      BY <1>3, <2>4 DEF Release
    <3> QED
      BY <1>1, <2>1, <2>2, <3>1 DEF TypeOK
  <2> QED
    BY <2>3, <2>4
<1>4. ASSUME NEW t \in Task, EnterPlain(t) \/ EnterLocked(t) PROVE TypeOK'
  <2>1. seg[t] \in 1 .. Len(Work[t])
    BY <1>1, <1>2, <1>4 DEF TypeOK, EnterPlain, EnterLocked
  <2>2. Work[t][seg[t]].ticks \in Nat
    BY <1>1, <2>1, Segment
  <2>3. UNCHANGED <<seg, backlog, since>> /\ owner' \in {owner, t} /\ Begin(t)
        /\ at[t] = "enter"
    BY <1>4 DEF EnterPlain, EnterLocked
  <2> QED
    BY <1>1, <2>2, <2>3 DEF TypeOK, Begin
<1>5. ASSUME NEW t \in Task, Block(t) PROVE TypeOK'
  BY <1>1, <1>5 DEF TypeOK, Block
<1>6. ASSUME NEW t \in Task, Compute(t) PROVE TypeOK'
  <2>1. TimePasses /\ UNCHANGED <<at, seg, backlog, owner>> /\ cpu' = t
        /\ left' = [left EXCEPT ![t] = @ - 1] /\ left[t] > 0
    BY <1>6 DEF Compute
  <2>2. /\ since' \in [Task -> Nat]
        /\ \A u \in Task : since'[u] \in 0 .. MinGap[u]
    BY <1>1, <2>1, TimeStep
  <2>3. left' \in [Task -> Nat]
    BY <2>1 DEF TypeOK
  <2> QED
    BY <1>1, <2>1, <2>2, <2>3 DEF TypeOK
<1>7. ASSUME NEW t \in Task, Leave(t) PROVE TypeOK'
  <2>1. seg[t] \in 1 .. Len(Work[t])
    BY <1>1, <1>2, <1>7 DEF TypeOK, Leave
  <2>2. at' \in [Task -> {"idle", "enter", "run", "blocked"}]
    BY <1>7 DEF TypeOK, Leave
  <2>3. seg' \in [Task -> Nat] /\ backlog' \in [Task -> Nat]
    BY <1>7 DEF TypeOK, Leave
  <2>4. \A u \in Task : /\ seg'[u] \in 0 .. Len(Work[u])
                        /\ seg'[u] = 0 <=> at'[u] = "idle"
    <3>1. /\ seg'[t] \in 0 .. Len(Work[t])
          /\ seg'[t] = 0 <=> at'[t] = "idle"
      <4>1. /\ seg[t] \in Nat \ {0} /\ Len(Work[t]) \in Nat \ {0}
            /\ seg[t] <= Len(Work[t])
        BY <1>2, <2>1
      <4>2. CASE InLast(t) /\ backlog[t] = 0
        <5>1. seg'[t] = 0 /\ at'[t] = "idle"
          BY <1>7, <4>2 DEF TypeOK, Leave
        <5> QED
          BY <4>1, <5>1
      <4>3. CASE ~ (InLast(t) /\ backlog[t] = 0)
        <5>1. /\ seg'[t] = IF InLast(t) THEN 1 ELSE seg[t] + 1
              /\ at'[t] = "enter"
          BY <1>7, <4>3 DEF TypeOK, Leave
        <5>2. ~ InLast(t) => seg[t] < Len(Work[t])
          BY <4>1 DEF InLast
        <5> QED
          BY <4>1, <5>1, <5>2
      <4> QED
        BY <4>2, <4>3
    <3>2. \A u \in Task \ {t} : seg'[u] = seg[u]
                               /\ (at'[u] = "idle" <=> at[u] = "idle")
      BY <1>7 DEF TypeOK, Leave
    <3> QED
      BY <3>1, <3>2 DEF TypeOK
  <2> QED
    BY <1>1, <1>7, <2>2, <2>3, <2>4 DEF TypeOK, Leave
<1>8. CASE Idle
  BY <1>1, <1>8, TimeStep DEF TypeOK, Idle, jobVars
<1>9. CASE UNCHANGED vars
  BY <1>1, <1>9 DEF TypeOK, vars, jobVars
<1> QED
  BY <1>3, <1>4, <1>5, <1>6, <1>7, <1>8, <1>9 DEF Next, Job

\* One task at a time is in its critical section: each action changes the place
\* of one task, but for Leave, which lets those that wait try again.
LEMMA SectionStep ==
  ASSUME IndInv, [Next]_vars
  PROVE  SectionExclusion'
<1> USE DEF IndInv, MutexInv
<1>1. /\ prog \in Program /\ prog' = prog /\ Task' = Task /\ Work' = Work
      /\ NoTask \notin Task
  BY ProgStays, ProgFacts DEF TypeOK
<1>2. ASSUME NEW t \in Task, Release(t) PROVE SectionExclusion'
  BY <1>1, <1>2 DEF TypeOK, Release, SectionExclusion, Locked
<1>3. ASSUME NEW t \in Task, EnterPlain(t) PROVE SectionExclusion'
  BY <1>1, <1>3 DEF TypeOK, EnterPlain, Begin, SectionExclusion, Locked
<1>4. ASSUME NEW t \in Task, EnterLocked(t) PROVE SectionExclusion'
  BY <1>1, <1>4
     DEF TypeOK, EnterLocked, MutexFree, Begin, SectionExclusion, Locked
<1>5. ASSUME NEW t \in Task, Block(t) PROVE SectionExclusion'
  BY <1>1, <1>5 DEF TypeOK, Block, MutexFree, SectionExclusion, Locked
<1>6. ASSUME NEW t \in Task, Compute(t) PROVE SectionExclusion'
  BY <1>1, <1>6 DEF Compute, SectionExclusion, Locked
<1>7. ASSUME NEW t \in Task, Leave(t) PROVE SectionExclusion'
  <2>1. \A u \in Task \ {t} : seg'[u] = seg[u]
    BY <1>7 DEF TypeOK, Leave
  <2>2. at'[t] \in {"idle", "enter"}
    BY <1>7 DEF TypeOK, Leave
  <2>3. CASE Locked(t)
    <3>1. t = owner /\ owner' = NoTask
      BY <1>7, <2>3 DEF Leave, SectionExclusion
    <3>2. \A u \in Task \ {t} :
            at'[u] = IF at[u] = "blocked" THEN "enter" ELSE at[u]
      BY <1>7, <2>3 DEF TypeOK, Leave
    <3> QED
      BY <1>1, <2>1, <2>2, <3>1, <3>2 DEF SectionExclusion, Locked
  <2>4. CASE ~ Locked(t)
    <3>1. t # owner /\ owner' = owner
      BY <1>7, <2>4 DEF Leave, SectionExclusion
    <3>2. \A u \in Task \ {t} : at'[u] = at[u]
      BY <1>7, <2>4 DEF TypeOK, Leave
    <3> QED
      BY <1>1, <2>1, <2>2, <3>1, <3>2 DEF SectionExclusion, Locked
  <2> QED
    BY <2>3, <2>4
<1>8. CASE Idle \/ UNCHANGED vars
  BY <1>1, <1>8 DEF Idle, vars, jobVars, SectionExclusion, Locked
<1> QED
  BY <1>2, <1>3, <1>4, <1>5, <1>6, <1>7, <1>8 DEF Next, Job

\* With protection nobody but the holder of the mutex runs.
LEMMA HolderAlone ==
  ASSUME IndInv, Protocol = "pcp", owner # NoTask
  PROVE  /\ owner \in Ready /\ at[owner] = "run"
         /\ \A t \in Task : Runs(t) => t = owner
<1> USE DEF IndInv, MutexInv
<1>1. owner \in Task /\ at[owner] = "run"
  BY DEF TypeOK, SectionExclusion
<1>2. Priority \in [Task -> 1 .. Ceiling]
  BY ProgFacts DEF TypeOK
<1>3. Effective(owner) = Ceiling
  BY DEF Effective, OwnerPriority
<1>4. \A u \in Ready : Effective(u) <= Ceiling
  <2> TAKE u \in Ready
  <2>1. CASE u = owner
    BY <1>3, <2>1, ProgramAssumption
  <2>2. CASE u # owner
    BY <1>2, <2>2 DEF Effective, Ready
  <2> QED
    BY <2>1, <2>2
<1>5. owner \in Highest
  BY <1>1, <1>3, <1>4 DEF Highest, Ready
<1> QED
  BY <1>1, <1>5 DEF Runs, HolderRuns, Ready

LEMMA HolderStep ==
  ASSUME IndInv, [Next]_vars
  PROVE  NeverBlocked' /\ HolderRuns'
<1> USE DEF IndInv, MutexInv
<1>1. /\ prog' = prog /\ Task' = Task /\ Protocol' = Protocol
  BY ProgStays
<1> SUFFICES ASSUME Protocol = "pcp"
             PROVE  Blocked' = {} /\ (owner' # NoTask => cpu' = owner')
  BY <1>1 DEF NeverBlocked, HolderRuns
<1>2. Blocked = {} /\ (owner # NoTask => cpu = owner)
  BY DEF NeverBlocked, HolderRuns
<1>3. \A t \in Task : owner # NoTask /\ Runs(t) => t = owner /\ at[t] = "run"
  BY HolderAlone
<1>4. ASSUME NEW t \in Task, Release(t)
      PROVE  Blocked' = {} /\ (owner' # NoTask => cpu' = owner')
  BY <1>1, <1>2, <1>4 DEF TypeOK, Release, Blocked
<1>5. ASSUME NEW t \in Task, EnterPlain(t) \/ EnterLocked(t)
      PROVE  Blocked' = {} /\ (owner' # NoTask => cpu' = owner')
  BY <1>1, <1>2, <1>3, <1>5
     DEF TypeOK, EnterPlain, EnterLocked, Begin, Blocked
<1>6. ASSUME NEW t \in Task, Block(t)
      PROVE  Blocked' = {} /\ (owner' # NoTask => cpu' = owner')
  BY <1>3, <1>6 DEF Block, MutexFree
<1>7. ASSUME NEW t \in Task, Compute(t)
      PROVE  Blocked' = {} /\ (owner' # NoTask => cpu' = owner')
  BY <1>1, <1>2, <1>3, <1>7 DEF Compute, Blocked
<1>8. ASSUME NEW t \in Task, Leave(t)
      PROVE  Blocked' = {} /\ (owner' # NoTask => cpu' = owner')
  <2>1. cpu' = cpu /\ owner' \in {owner, NoTask}
    BY <1>8 DEF Leave
  <2>2. \A u \in Task : at'[u] = "blocked" => at[u] = "blocked"
    BY <1>8 DEF TypeOK, Leave
  <2> QED
    BY <1>1, <1>2, <2>1, <2>2 DEF Blocked
<1>9. CASE Idle
  <2>1. owner = NoTask
    BY <1>9, HolderAlone DEF Idle
  <2> QED
    BY <1>1, <1>2, <1>9, <2>1 DEF Idle, jobVars, Blocked
<1>10. CASE UNCHANGED vars
  BY <1>1, <1>2, <1>10 DEF vars, jobVars, Blocked
<1> QED
  BY <1>4, <1>5, <1>6, <1>7, <1>8, <1>9, <1>10 DEF Next, Job

-----------------------------------------------------------------------------
LEMMA Inductive == Spec => []IndInv
<1>1. IndInv /\ [Next]_vars => IndInv'
  BY TypeStep, SectionStep, HolderStep DEF IndInv, MutexInv
<1> QED
  BY InitHolds, <1>1, PTL DEF Spec

\* Whatever the tasks, their work and their priorities: one task at a time is in
\* its critical section, and with priority protection no task ever waits in
\* pthread_mutex_lock (hw3_solution/priority_inversion.cpp:85).
THEOREM MutexCorrect == Spec => []MutexInv
<1>1. IndInv => MutexInv
  BY DEF IndInv
<1> QED
  BY <1>1, Inductive, PTL

-----------------------------------------------------------------------------
(* Priority inheritance.                                                   *)

\* A set of priorities has a largest one: the distances to the ceiling have a
\* smallest one.
LEMMA LargestExists ==
  ASSUME NEW S, S \subseteq 1 .. Ceiling, S # {}
  PROVE  Largest(S) \in S /\ \A y \in S : y <= Largest(S)
<1> DEFINE D == {Ceiling - x : x \in S}
           LessThan == OpToRel(<, Nat)
<1>1. Ceiling \in Nat
  BY ProgramAssumption
<1>2. D \subseteq Nat /\ D # {}
  <2>1. \A x \in S : x \in Int /\ x <= Ceiling /\ Ceiling - x \in Nat
    BY <1>1
  <2>2. D # {}
    OBVIOUS
  <2> QED
    BY <2>1, <2>2
<1>3. \E d \in D : \A e \in D : ~ (<<e, d>> \in LessThan)
  <2> HIDE DEF D, LessThan
  <2>1. IsWellFoundedOn(LessThan, Nat)
    BY NatLessThanWellFounded DEF LessThan
  <2> QED
    BY <1>2, <2>1, WFMin
<1>4. \A d, e \in Nat : <<e, d>> \in LessThan <=> e < d
  BY DEF OpToRel
<1>5. PICK d \in D : \A e \in D : d <= e
  <2>1. PICK d \in D : \A e \in D : ~ (<<e, d>> \in LessThan)
    BY <1>3
  <2>2. \A e \in D : d <= e
    <3> SUFFICES ASSUME NEW e \in D PROVE d <= e
      OBVIOUS
    <3>1. d \in Nat /\ e \in Nat
      BY <1>2
    <3>2. ~ (e < d)
      BY <1>4, <2>1, <3>1
    <3> QED
      BY <3>1, <3>2
  <2> QED
    BY <2>2
<1>6. PICK x \in S : d = Ceiling - x
  BY <1>5
<1>7. \A y \in S : Ceiling - x <= Ceiling - y
  BY <1>5, <1>6
<1>8. \A y \in S : y <= x
  BY <1>1, <1>7
<1> QED
  BY <1>6, <1>8 DEF Largest

\* With inheritance the holder of the mutex runs at the priority of a task: its
\* own, or that of one that waits for the mutex; and at that of each of them.
LEMMA Inherited ==
  ASSUME IndInv, Protocol = "pip", owner # NoTask
  PROVE  /\ \E w \in Blocked \cup {owner} : Effective(owner) = Priority[w]
         /\ \A w \in Blocked \cup {owner} : Priority[w] <= Effective(owner)
<1> DEFINE S == {Priority[u] : u \in Blocked \cup {owner}}
<1>1. owner \in Task
  BY DEF IndInv, MutexInv, TypeOK
<1>2. Priority \in [Task -> 1 .. Ceiling]
  BY ProgFacts DEF IndInv, MutexInv, TypeOK
<1>3. S \subseteq 1 .. Ceiling /\ S # {}
  BY <1>1, <1>2 DEF Blocked
<1>4. Effective(owner) = Largest(S)
  BY DEF Effective, OwnerPriority
<1>5. Effective(owner) \in S /\ \A y \in S : y <= Effective(owner)
  BY <1>3, <1>4, LargestExists
<1> QED
  BY <1>5

\* A lower task that computes while a higher one is pending owns the mutex.
LEMMA ComputesOwning ==
  ASSUME IndInv, NEW t \in Task, NEW u \in Task, Compute(t), at[u] # "idle",
         Priority[t] < Priority[u], Protocol # "none"
  PROVE  /\ t = owner
         /\ Protocol = "pip" => \E w \in Blocked : Priority[u] <= Priority[w]
<1>1. Priority \in [Task -> 1 .. Ceiling] /\ Protocol \in {"pip", "pcp"}
      /\ NoTask \notin Task /\ Ceiling \in Nat
  BY ProgFacts, ProgramAssumption DEF IndInv, MutexInv, TypeOK
<1>2. t \in Highest /\ t \in Ready
  BY DEF Compute, Runs, Highest
<1>3. u \in Ready \/ u \in Blocked
  BY DEF IndInv, MutexInv, TypeOK, Ready, Blocked
<1>4. CASE Protocol = "pcp"
  <2>1. u \in Ready
    BY <1>3, <1>4 DEF IndInv, MutexInv, NeverBlocked
  <2>2. Effective(u) <= Effective(t)
    BY <1>2, <2>1 DEF Highest
  <2>3. Effective(u) \in {Priority[u], Ceiling}
    BY <1>4 DEF Effective, OwnerPriority
  <2>4. t # owner => Effective(t) = Priority[t]
    BY DEF Effective
  <2>5. t = owner
    BY <1>1, <2>2, <2>3, <2>4
  <2> QED
    BY <1>4, <2>5
<1>5. CASE Protocol = "pip"
  <2>1. u \in Blocked => owner \in Ready
    BY DEF IndInv, MutexInv, TypeOK, SectionExclusion, Blocked, Ready
  <2>2. \E v \in Ready : Priority[u] <= Effective(v)
    <3>1. CASE u \in Blocked
      <4>1. owner # NoTask
        BY <3>1, <2>1, <1>1 DEF Ready
      <4> QED
        BY <1>5, <2>1, <3>1, <4>1, Inherited
    <3>2. CASE u \in Ready /\ u = owner
      BY <1>1, <1>5, <3>2, Inherited
    <3>3. CASE u \in Ready /\ u # owner
      BY <1>1, <3>3 DEF Effective
    <3> QED
      BY <1>3, <3>1, <3>2, <3>3
  <2>3. PICK v \in Ready : Priority[u] <= Effective(v)
    BY <2>2
  <2>4. Effective(v) <= Effective(t)
    BY <1>2, <2>3 DEF Highest
  <2>5. \A w \in Ready : \E x \in Task : Effective(w) = Priority[x]
    <3> TAKE w \in Ready
    <3>1. CASE w = owner
      <4>1. owner # NoTask /\ Blocked \cup {owner} \subseteq Task
        BY <1>1, <3>1 DEF Ready, Blocked
      <4> QED
        BY <1>5, <3>1, <4>1, Inherited
    <3>2. CASE w # owner
      BY <3>2 DEF Effective, Ready
    <3> QED
      BY <3>1, <3>2
  <2>6. Priority[u] <= Effective(t)
    <3>1. Effective(v) \in Int /\ Effective(t) \in Int
      BY <1>1, <1>2, <2>3, <2>5
    <3> QED
      BY <1>1, <2>3, <2>4, <3>1
  <2>7. t = owner
    <3>1. t # owner => Effective(t) = Priority[t]
      BY DEF Effective
    <3> QED
      BY <1>1, <2>6, <3>1
  <2>8. PICK w \in Blocked \cup {owner} : Effective(owner) = Priority[w]
    BY <1>1, <1>5, <2>7, Inherited
  <2>9. w \in Blocked /\ Priority[u] <= Priority[w]
    BY <1>1, <2>6, <2>7, <2>8
  <2> QED
    BY <2>7, <2>9
<1> QED
  BY <1>1, <1>4, <1>5

\* With either protocol, whatever the tasks: a lower task delays a higher one only
\* while it owns the mutex, and with inheritance only for a task as high that
\* waits for it (hw3_solution/priority_inversion.cpp:85).
THEOREM OwnerDelays == Spec => OnlyOwnerDelays
<1> DEFINE Delays == \A t, u \in Task :
             Compute(t) /\ at[u] # "idle" /\ Priority[t] < Priority[u]
                        /\ Protocol # "none" =>
               /\ t = owner
               /\ Protocol = "pip" =>
                    \E w \in Blocked : Priority[u] <= Priority[w]
<1>1. IndInv /\ [Next]_vars => [Delays]_vars
  BY ComputesOwning
<1>2. [][Delays]_vars => OnlyOwnerDelays
  BY DEF OnlyOwnerDelays
<1> HIDE DEF Delays
<1> QED
  BY <1>1, <1>2, Inductive, PTL DEF Spec

-----------------------------------------------------------------------------
(* The response time of the tasks above all others.                        *)

\* What a job of t has to compute, by segment, with room for one critical
\* section of another task.
RestOf(t) ==
  CHOOSE Rest \in [1 .. Len(Work[t]) + 1 -> 0 .. Bound[t]] :
    /\ IsRest(prog, t, Rest)
    /\ \A u \in Task \ {t} : \A k \in 1 .. Len(Work[u]) :
         Work[u][k].locked => Rest[1] + Work[u][k].ticks <= Bound[t]

\* What the job of t has still to compute ...
Todo(t) == IF at[t] = "run" THEN left[t] + RestOf(t)[seg[t] + 1] ELSE RestOf(t)[seg[t]]

\* ... and what the task that holds the mutex has of its critical section.
Blocking(t) == IF owner \in {NoTask, t} THEN 0 ELSE left[owner]

LeftInv == \A t \in Task : at[t] = "run" => left[t] <= Work[t][seg[t]].ticks

TimeOK(t) ==
  /\ backlog[t] = 0
  /\ at[t] # "idle" => since[t] + Todo(t) + Blocking(t) <= Bound[t]

TimeInv == LeftInv /\ \A t \in Protected(prog) : TimeOK(t)

\* What BoundsFollow says of a protected task.
LEMMA ProtectedFacts ==
  ASSUME BoundsFollow, prog \in Program, NEW h \in Protected(prog)
  PROVE  /\ h \in Task /\ Bound[h] \in 0 .. MinGap[h] - 1 /\ Bound[h] \in Nat
         /\ \A u \in Task \ {h} : Priority[u] < Priority[h]
         /\ Protocol = "none" => \A u \in Task : \A k \in 1 .. Len(Work[u]) : ~ Work[u][k].locked
         /\ \A k \in 1 .. Len(Work[h]) + 1 : RestOf(h)[k] \in 0 .. Bound[h]
         /\ RestOf(h)[Len(Work[h]) + 1] = 0
         /\ \A k \in 1 .. Len(Work[h]) :
              RestOf(h)[k] = Work[h][k].ticks + RestOf(h)[k + 1]
         /\ \A u \in Task \ {h} : \A k \in 1 .. Len(Work[u]) :
              Work[u][k].locked => RestOf(h)[1] + Work[u][k].ticks <= Bound[h]
<1>1. IsProgram(prog)
  BY ProgramAssumption
<1>2. /\ h \in DOMAIN prog.bound
      /\ \A u \in Task \ {h} : Priority[u] < Priority[h]
      /\ Protocol = "none" => \A u \in Task : \A k \in 1 .. Len(Work[u]) : ~ Work[u][k].locked
  BY DEF Protected, Task, Priority, Protocol, Work
<1>3. h \in Task /\ Bound[h] \in 0 .. MinGap[h] - 1 /\ MinGap \in [Task -> Nat \ {0}]
  BY <1>1, <1>2 DEF IsProgram, Task, Priority, Bound, MinGap
<1>4. Bound[h] \in Nat
  BY <1>3
<1>5. \E Rest \in [1 .. Len(Work[h]) + 1 -> 0 .. Bound[h]] :
        /\ IsRest(prog, h, Rest)
        /\ \A u \in Task \ {h} : \A k \in 1 .. Len(Work[u]) :
             Work[u][k].locked => Rest[1] + Work[u][k].ticks <= Bound[h]
  BY DEF BoundsFollow, Work, Bound, Task, Priority
<1>6. /\ RestOf(h) \in [1 .. Len(Work[h]) + 1 -> 0 .. Bound[h]]
      /\ IsRest(prog, h, RestOf(h))
      /\ \A u \in Task \ {h} : \A k \in 1 .. Len(Work[u]) :
           Work[u][k].locked => RestOf(h)[1] + Work[u][k].ticks <= Bound[h]
  BY <1>5 DEF RestOf
<1> HIDE DEF RestOf
<1>7. /\ RestOf(h)[Len(Work[h]) + 1] = 0
      /\ \A k \in 1 .. Len(Work[h]) :
           RestOf(h)[k] = Work[h][k].ticks + RestOf(h)[k + 1]
  BY <1>6 DEF IsRest, Work
<1>8. \A k \in 1 .. Len(Work[h]) + 1 : RestOf(h)[k] \in 0 .. Bound[h]
  BY <1>6
<1> QED BY <1>2, <1>3, <1>4, <1>6, <1>7, <1>8

\* No task has more left of a segment than the segment is long.
LEMMA LeftStep ==
  ASSUME IndInv, LeftInv, [Next]_vars
  PROVE  LeftInv'
<1>1. /\ prog \in Program /\ prog' = prog /\ Task' = Task /\ Work' = Work /\ TypeOK
  BY ProgStays DEF IndInv, MutexInv, TypeOK
<1> SUFFICES ASSUME NEW u \in Task, at'[u] = "run"
             PROVE  left'[u] <= Work[u][seg'[u]].ticks
  BY <1>1 DEF LeftInv
<1>2. at[u] = "run" => left[u] <= Work[u][seg[u]].ticks
  BY DEF LeftInv
<1>3. ASSUME NEW t \in Task, Release(t) PROVE left'[u] <= Work[u][seg'[u]].ticks
  BY <1>1, <1>2, <1>3 DEF Release, TypeOK
<1>4. ASSUME NEW t \in Task, EnterPlain(t) \/ EnterLocked(t)
      PROVE  left'[u] <= Work[u][seg'[u]].ticks
  <2>1. Begin(t) /\ seg' = seg /\ at[t] = "enter"
    BY <1>4 DEF EnterPlain, EnterLocked
  <2>2. CASE u = t
    <3>1. left'[u] = Work[u][seg[u]].ticks
      BY <1>1, <2>1, <2>2 DEF Begin, TypeOK
    <3>2. seg[u] \in 1 .. Len(Work[u])
      BY <1>1, <2>1, <2>2, ProgFacts DEF TypeOK
    <3>3. Work[u][seg[u]].ticks \in Nat
      BY <1>1, <3>2, Segment
    <3> QED BY <2>1, <3>1, <3>3
  <2>3. CASE u # t
    BY <1>1, <1>2, <2>1, <2>3 DEF Begin, TypeOK
  <2> QED BY <2>2, <2>3
<1>5. ASSUME NEW t \in Task, Block(t) PROVE left'[u] <= Work[u][seg'[u]].ticks
  BY <1>1, <1>2, <1>5 DEF Block, TypeOK
<1>6. ASSUME NEW t \in Task, Compute(t) PROVE left'[u] <= Work[u][seg'[u]].ticks
  <2>1. at[u] = "run" /\ seg'[u] = seg[u] /\ left[u] \in Nat
        /\ left'[u] \in {left[u], left[u] - 1}
    BY <1>1, <1>6 DEF Compute, TypeOK
  <2>2. seg[u] \in 1 .. Len(Work[u])
    BY <1>1, <2>1, ProgFacts DEF TypeOK
  <2>3. Work[u][seg[u]].ticks \in Nat
    BY <1>1, <2>2, Segment
  <2> QED BY <1>2, <2>1, <2>3
<1>7. ASSUME NEW t \in Task, Leave(t) PROVE left'[u] <= Work[u][seg'[u]].ticks
  BY <1>1, <1>2, <1>7 DEF Leave, TypeOK
<1>8. CASE Idle \/ UNCHANGED vars
  BY <1>1, <1>2, <1>8 DEF Idle, vars, jobVars
<1> QED BY <1>3, <1>4, <1>5, <1>6, <1>7, <1>8 DEF Next, Job

\* A task with a job is in one of its segments.
LEMMA SegmentOf ==
  ASSUME TypeOK, NEW t \in Task, at[t] # "idle"
  PROVE  seg[t] \in 1 .. Len(Work[t])
<1>1. Len(Work[t]) \in Nat \ {0}
  BY ProgFacts DEF TypeOK
<1>2. seg[t] \in 0 .. Len(Work[t]) /\ seg[t] # 0
  BY DEF TypeOK
<1> QED BY <1>1, <1>2

LEMMA OneLess == \A now, then \in Int : (now - 1) + then = (now + then) - 1
OBVIOUS

\* A tick passes, and there is one less to compute, of the job or of the section.
LEMMA TickAndWork ==
  \A past, todo, block, bound \in Int :
    past + todo + block <= bound =>
      /\ (past + 1) + (todo - 1) + block <= bound
      /\ (past + 1) + todo + (block - 1) <= bound
OBVIOUS

\* What is left, of a job that is pending, and of the section that delays it.
LEMMA Amounts ==
  ASSUME BoundsFollow, IndInv, NEW h \in Protected(prog)
  PROVE  /\ since[h] \in Nat /\ Blocking(h) \in Nat
         /\ at[h] # "idle" =>
              /\ seg[h] \in 1 .. Len(Work[h]) /\ Todo(h) \in Nat
              /\ RestOf(h)[seg[h]] = Work[h][seg[h]].ticks + RestOf(h)[seg[h] + 1]
              /\ RestOf(h)[seg[h] + 1] \in Nat /\ RestOf(h)[seg[h]] \in Nat
<1>1. TypeOK /\ prog \in Program /\ h \in Task
  BY ProtectedFacts DEF IndInv, MutexInv, TypeOK
<1>2. since[h] \in Nat /\ Blocking(h) \in Nat
  BY <1>1 DEF TypeOK, Blocking
<1>3. ASSUME at[h] # "idle"
      PROVE  /\ seg[h] \in 1 .. Len(Work[h]) /\ Todo(h) \in Nat
             /\ RestOf(h)[seg[h]] = Work[h][seg[h]].ticks + RestOf(h)[seg[h] + 1]
             /\ RestOf(h)[seg[h] + 1] \in Nat /\ RestOf(h)[seg[h]] \in Nat
  <2>1. Len(Work[h]) \in Nat \ {0} /\ Bound[h] \in Nat
    BY <1>1, ProgFacts, ProtectedFacts
  <2>2. seg[h] \in 1 .. Len(Work[h])
    BY <1>1, <1>3, <2>1 DEF TypeOK
  <2>3. seg[h] \in 1 .. Len(Work[h]) + 1 /\ seg[h] + 1 \in 1 .. Len(Work[h]) + 1
    BY <2>1, <2>2
  <2>4. RestOf(h)[seg[h] + 1] \in Nat /\ RestOf(h)[seg[h]] \in Nat
    <3>1. /\ RestOf(h)[seg[h] + 1] \in 0 .. Bound[h]
          /\ RestOf(h)[seg[h]] \in 0 .. Bound[h]
      BY <1>1, <2>3, ProtectedFacts
    <3> QED BY <2>1, <3>1
  <2>5. Todo(h) \in Nat
    BY <1>1, <2>4 DEF Todo, TypeOK
  <2> QED BY <1>1, <2>2, <2>4, <2>5, ProtectedFacts
<1> QED BY <1>2, <1>3

\* While a protected task has a job pending, another one computes only in the
\* critical section that it holds, and no other enters one.
LEMMA OnlyTheHolder ==
  ASSUME BoundsFollow, IndInv, NEW h \in Protected(prog), at[h] # "idle",
         NEW t \in Task \ {h}
  PROVE  /\ Compute(t) => t = owner
         /\ ~ EnterLocked(t)
         /\ ~ Idle
<1>1. /\ TypeOK /\ SectionExclusion /\ prog \in Program /\ h \in Task /\ NoTask \notin Task
      /\ Priority[t] < Priority[h] /\ Priority[t] \in Int /\ Priority[h] \in Int
  <2>1. TypeOK /\ SectionExclusion /\ prog \in Program
    BY DEF IndInv, MutexInv, TypeOK
  <2>2. h \in Task /\ Priority[t] < Priority[h]
    BY <2>1, ProtectedFacts
  <2>3. Priority \in [Task -> 1 .. Ceiling] /\ NoTask \notin Task /\ Ceiling \in Nat
    BY <2>1, ProgFacts, ProgramAssumption
  <2>4. Priority[t] \in 1 .. Ceiling /\ Priority[h] \in 1 .. Ceiling
    BY <2>2, <2>3
  <2> QED BY <2>1, <2>2, <2>3, <2>4
<1>2. h \in Ready \/ h \in Blocked
  BY <1>1 DEF TypeOK, Ready, Blocked
<1>3. h \in Blocked => owner \in Ready
  BY <1>1 DEF TypeOK, SectionExclusion, Blocked, Ready
<1>4. owner = NoTask => ~ (Runs(t) /\ at[t] \in {"enter", "run"})
  <2> SUFFICES ASSUME owner = NoTask, Runs(t) PROVE FALSE
    OBVIOUS
  <2>1. h \in Ready /\ t \in Ready /\ Effective(h) <= Effective(t)
    BY <1>1, <1>2, <1>3 DEF Runs, Highest, Ready
  <2>2. Effective(h) = Priority[h] /\ Effective(t) = Priority[t]
    BY <1>1 DEF Effective
  <2> QED BY <1>1, <2>1, <2>2
<1>5. Compute(t) => t = owner
  <2>1. CASE Protocol = "none"
    <3>1. owner = NoTask
      <4> SUFFICES ASSUME owner # NoTask PROVE FALSE
        OBVIOUS
      <4>1. owner \in Task /\ at[owner] = "run" /\ Locked(owner)
        BY <1>1 DEF TypeOK, SectionExclusion
      <4>2. seg[owner] \in 1 .. Len(Work[owner])
        BY <1>1, <4>1, SegmentOf
      <4> QED BY <1>1, <2>1, <4>1, <4>2, ProtectedFacts DEF Locked
    <3> QED BY <1>4, <3>1 DEF Compute
  <2>2. CASE Protocol # "none"
    BY <1>1, <2>2, ComputesOwning
  <2> QED BY <2>1, <2>2
<1>6. ~ EnterLocked(t)
  BY <1>4 DEF EnterLocked, MutexFree
<1>7. ~ Idle
  BY <1>2, <1>3 DEF Idle
<1> QED BY <1>5, <1>6, <1>7

\* A protected task stays within its bound: time passes only while its job, or
\* the section that delays it, gets shorter.
LEMMA InTimeStep ==
  ASSUME BoundsFollow, IndInv, TimeInv, NEW h \in Protected(prog), [Next]_vars
  PROVE  TimeOK(h)'
<1>1. /\ TypeOK /\ SectionExclusion /\ prog \in Program /\ h \in Task /\ NoTask \notin Task
      /\ prog' = prog /\ Work' = Work /\ Task' = Task /\ Bound' = Bound
      /\ Bound[h] \in Nat /\ MinGap[h] \in Nat /\ Bound[h] < MinGap[h]
  <2>1. prog \in Program
    BY DEF IndInv, MutexInv, TypeOK
  <2>2. Bound[h] \in 0 .. MinGap[h] - 1 /\ h \in Task /\ MinGap[h] \in Nat
    BY <2>1, ProgFacts, ProtectedFacts
  <2>3. Bound[h] \in Nat /\ Bound[h] < MinGap[h]
    BY <2>2
  <2> QED BY <2>1, <2>2, <2>3, ProgFacts, ProgStays DEF IndInv, MutexInv, TypeOK, Bound
<1>2. RestOf(h)' = RestOf(h)
  BY <1>1 DEF RestOf
<1>3. backlog[h] = 0 /\ TimeOK(h) /\ LeftInv
  BY DEF TimeInv, TimeOK
<1>4. /\ since[h] \in Nat /\ Blocking(h) \in Nat
      /\ at[h] # "idle" =>
           /\ seg[h] \in 1 .. Len(Work[h]) /\ Todo(h) \in Nat
           /\ RestOf(h)[seg[h]] = Work[h][seg[h]].ticks + RestOf(h)[seg[h] + 1]
           /\ RestOf(h)[seg[h] + 1] \in Nat /\ RestOf(h)[seg[h]] \in Nat
           /\ since[h] + Todo(h) + Blocking(h) <= Bound[h]
  BY <1>3, Amounts DEF TimeOK
<1> DEFINE Same == at'[h] = at[h] /\ seg'[h] = seg[h] /\ left'[h] = left[h]
<1>5. Same => Todo(h)' = Todo(h)
  BY <1>2 DEF Todo
<1>6. owner \in Task => at[owner] = "run" /\ left[owner] \in Nat
  BY <1>1 DEF TypeOK, SectionExclusion
<1> HIDE DEF Same
<1>7. ASSUME NEW t \in Task, Release(t) PROVE TimeOK(h)'
  <2>1. UNCHANGED <<left, owner>>
    BY <1>7 DEF Release
  <2>2. Blocking(h)' = Blocking(h)
    BY <1>1, <2>1 DEF Blocking
  <2>3. CASE t # h
    <3>1. Same /\ since'[h] = since[h] /\ backlog'[h] = backlog[h]
      BY <1>1, <1>7, <2>3 DEF Release, TypeOK, Same
    <3>2. at'[h] = at[h]
      BY <3>1 DEF Same
    <3> QED BY <1>1, <1>3, <1>5, <2>2, <3>1, <3>2 DEF TimeOK
  <2>4. CASE t = h /\ at[h] # "idle"
    <3>1. since[h] = MinGap[h]
      BY <1>7, <2>4 DEF Release, Due, WokenEarly
    <3>2. since[h] <= Bound[h]
      BY <1>1, <1>4, <2>4
    <3> QED BY <1>1, <3>1, <3>2
  <2>5. CASE t = h /\ at[h] = "idle"
    <3>1. since'[h] = 0 /\ at'[h] = "enter" /\ seg'[h] = 1 /\ backlog'[h] = backlog[h]
      BY <1>1, <1>7, <2>5 DEF Release, TypeOK
    <3>2. Todo(h)' = RestOf(h)[1]
      BY <1>2, <3>1 DEF Todo
    <3>3. RestOf(h)[1] \in Nat /\ RestOf(h)[1] + Blocking(h) <= Bound[h]
      <4>1. 1 \in 1 .. Len(Work[h]) + 1
        BY <1>1, ProgFacts
      <4>2. RestOf(h)[1] \in 0 .. Bound[h]
        BY <1>1, <4>1, ProtectedFacts
      <4>3. CASE owner \in {NoTask, h}
        BY <1>1, <4>2, <4>3 DEF Blocking
      <4>4. CASE owner \notin {NoTask, h}
        <5>1. owner \in Task \ {h} /\ Locked(owner) /\ at[owner] = "run"
          BY <1>1, <4>4 DEF TypeOK, SectionExclusion
        <5>2. seg[owner] \in 1 .. Len(Work[owner])
          BY <1>1, <5>1, SegmentOf
        <5>3. RestOf(h)[1] + Work[owner][seg[owner]].ticks <= Bound[h]
          BY <1>1, <5>1, <5>2, ProtectedFacts DEF Locked
        <5>4. Work[owner][seg[owner]].ticks \in Nat
          BY <1>1, <5>1, <5>2, Segment
        <5>5. Blocking(h) <= Work[owner][seg[owner]].ticks
          BY <1>3, <4>4, <5>1 DEF Blocking, LeftInv
        <5> QED BY <1>1, <1>4, <4>2, <5>3, <5>4, <5>5
      <4> QED BY <4>3, <4>4
    <3>4. 0 + RestOf(h)[1] + Blocking(h) <= Bound[h]
      BY <1>4, <3>3
    <3> QED BY <1>1, <1>3, <2>2, <3>1, <3>2, <3>4 DEF TimeOK
  <2> QED BY <2>3, <2>4, <2>5
<1>8. ASSUME NEW t \in Task, EnterPlain(t) \/ EnterLocked(t) PROVE TimeOK(h)'
  <2>1. /\ Begin(t) /\ at[t] = "enter" /\ UNCHANGED <<seg, backlog, since>>
        /\ \/ owner' = owner
           \/ owner = NoTask /\ owner' = t /\ EnterLocked(t)
    BY <1>8 DEF EnterPlain, EnterLocked, MutexFree
  <2>2. CASE at[h] = "idle"
    <3>1. at'[h] = "idle"
      BY <1>1, <2>1, <2>2 DEF Begin, TypeOK
    <3> QED BY <1>3, <2>1, <3>1 DEF TimeOK
  <2>3. CASE at[h] # "idle" /\ t # h
    <3>1. Same /\ at'[h] = at[h]
      BY <1>1, <2>1, <2>3 DEF Begin, TypeOK, Same
    <3>2. owner' = owner
      BY <2>1, <2>3, OnlyTheHolder
    <3>3. Blocking(h)' = Blocking(h)
      BY <1>1, <1>6, <2>1, <3>2 DEF Begin, TypeOK, Blocking
    <3> QED BY <1>1, <1>3, <1>5, <2>1, <3>1, <3>3 DEF TimeOK
  <2>4. CASE t = h
    <3>1. at'[h] = "run" /\ left'[h] = Work[h][seg[h]].ticks /\ at[h] # "idle"
      BY <1>1, <2>1, <2>4 DEF Begin, TypeOK
    <3>2. Todo(h)' = Work[h][seg[h]].ticks + RestOf(h)[seg[h] + 1]
      BY <1>2, <2>1, <3>1 DEF Todo
    <3>3. Todo(h) = RestOf(h)[seg[h]]
      BY <2>1, <2>4 DEF Todo
    <3>4. Todo(h)' = Todo(h)
      BY <1>4, <3>1, <3>2, <3>3
    <3>5. Blocking(h)' = Blocking(h)
      BY <1>1, <1>6, <2>1, <2>4 DEF Begin, TypeOK, Blocking
    <3> QED BY <1>1, <1>3, <2>1, <3>1, <3>4, <3>5 DEF TimeOK
  <2> QED BY <2>2, <2>3, <2>4
<1>9. ASSUME NEW t \in Task, Block(t) PROVE TimeOK(h)'
  <2>1. /\ at[t] = "enter" /\ at' = [at EXCEPT ![t] = "blocked"]
        /\ UNCHANGED <<seg, left, backlog, since, owner>>
    BY <1>9 DEF Block
  <2>2. (at'[h] = "idle" <=> at[h] = "idle") /\ (at'[h] = "run" <=> at[h] = "run")
    BY <1>1, <2>1 DEF TypeOK
  <2>3. Todo(h)' = Todo(h) /\ Blocking(h)' = Blocking(h)
    BY <1>1, <1>2, <2>1, <2>2 DEF Todo, Blocking
  <2> QED BY <1>1, <1>3, <2>1, <2>2, <2>3 DEF TimeOK
<1>10. ASSUME NEW t \in Task, Compute(t) PROVE TimeOK(h)'
  <2>1. /\ at[t] = "run" /\ left[t] \in Nat \ {0} /\ left' = [left EXCEPT ![t] = @ - 1]
        /\ UNCHANGED <<at, seg, backlog, owner>> /\ TimePasses
    BY <1>1, <1>10 DEF Compute, TypeOK
  <2> SUFFICES ASSUME at[h] # "idle"
               PROVE  since'[h] + Todo(h)' + Blocking(h)' <= Bound[h]
    BY <1>1, <1>3, <2>1 DEF TimeOK
  <2>2. since'[h] = since[h] + 1
    <3>1. since[h] < MinGap[h]
      BY <1>1, <1>4
    <3> QED BY <1>1, <2>1, <3>1 DEF TimePasses
  <2>5. /\ (since[h] + 1) + (Todo(h) - 1) + Blocking(h) <= Bound[h]
        /\ (since[h] + 1) + Todo(h) + (Blocking(h) - 1) <= Bound[h]
    <3>1. /\ since[h] \in Int /\ Todo(h) \in Int /\ Blocking(h) \in Int /\ Bound[h] \in Int
          /\ since[h] + Todo(h) + Blocking(h) <= Bound[h]
      BY <1>1, <1>4
    <3> QED BY <3>1, TickAndWork
  <2>3. CASE t = h
    <3>1. Todo(h)' = (left[h] - 1) + RestOf(h)[seg[h] + 1]
          /\ Todo(h) = left[h] + RestOf(h)[seg[h] + 1]
      BY <1>1, <1>2, <2>1, <2>3 DEF Todo, TypeOK
    <3>2. Todo(h)' = Todo(h) - 1
      <4>1. RestOf(h)[seg[h] + 1] \in Nat /\ left[h] \in Nat
        BY <1>4, <2>1, <2>3
      <4> QED BY <3>1, <4>1, OneLess
    <3>3. Blocking(h)' = Blocking(h)
      BY <1>1, <2>1, <2>3 DEF Blocking, TypeOK
    <3> QED BY <2>2, <2>5, <3>2, <3>3
  <2>4. CASE t # h
    <3>1. t = owner
      BY <1>10, <2>4, OnlyTheHolder
    <3>2. Same
      BY <1>1, <2>1, <2>4 DEF Same, TypeOK
    <3>3. Blocking(h)' = Blocking(h) - 1
      BY <1>1, <2>1, <2>4, <3>1 DEF Blocking, TypeOK
    <3>4. Todo(h)' = Todo(h)
      BY <1>5, <3>2
    <3> QED BY <2>2, <2>5, <3>3, <3>4
  <2> QED BY <2>3, <2>4
<1>11. ASSUME NEW t \in Task, Leave(t) PROVE TimeOK(h)'
  <2>1. /\ at[t] = "run" /\ left[t] = 0 /\ UNCHANGED <<left, since>>
        /\ owner' \in {owner, NoTask}
    BY <1>11 DEF Leave
  <2>2. Blocking(h)' \in Nat /\ Blocking(h)' <= Blocking(h)
    BY <1>1, <1>4, <2>1 DEF Blocking, TypeOK
  <2>3. CASE t # h
    <3>1. /\ seg'[h] = seg[h] /\ backlog'[h] = backlog[h]
          /\ (at'[h] = "idle" <=> at[h] = "idle") /\ (at'[h] = "run" <=> at[h] = "run")
      BY <1>1, <1>11, <2>3 DEF Leave, TypeOK
    <3>2. Todo(h)' = Todo(h)
      BY <1>2, <2>1, <3>1 DEF Todo
    <3>3. at[h] # "idle" => since[h] + Todo(h) + Blocking(h)' <= Bound[h]
      BY <1>1, <1>4, <2>2
    <3> QED BY <1>1, <1>3, <2>1, <3>1, <3>2, <3>3 DEF TimeOK
  <2>4. CASE t = h /\ InLast(h)
    <3>1. at'[h] = "idle" /\ backlog'[h] = 0
      BY <1>1, <1>3, <1>11, <2>4 DEF Leave, TypeOK
    <3> QED BY <3>1 DEF TimeOK
  <2>5. CASE t = h /\ ~ InLast(h)
    <3>1. at'[h] = "enter" /\ seg'[h] = seg[h] + 1 /\ backlog'[h] = 0
      BY <1>1, <1>3, <1>11, <2>5 DEF Leave, TypeOK
    <3>2. Todo(h)' = RestOf(h)[seg[h] + 1]
      BY <1>2, <3>1 DEF Todo
    <3>3. Todo(h) = 0 + RestOf(h)[seg[h] + 1]
      BY <2>1, <2>5 DEF Todo
    <3>4. Todo(h)' = Todo(h) /\ at[h] # "idle"
      BY <1>4, <2>1, <2>5, <3>2, <3>3
    <3>5. since[h] + Todo(h) + Blocking(h)' <= Bound[h]
      BY <1>1, <1>4, <2>2, <3>4
    <3> QED BY <1>1, <2>1, <3>1, <3>4, <3>5 DEF TimeOK
  <2> QED BY <2>3, <2>4, <2>5
<1>12. CASE Idle
  <2>1. at[h] = "idle"
    <3> SUFFICES ASSUME at[h] # "idle" PROVE FALSE
      OBVIOUS
    <3>1. h \in Blocked
      BY <1>1, <1>12 DEF Idle, Ready, Blocked, TypeOK
    <3>2. owner \in Ready
      BY <1>1, <3>1 DEF TypeOK, SectionExclusion, Blocked, Ready
    <3> QED BY <1>12, <3>2 DEF Idle
  <2> QED BY <1>3, <1>12, <2>1 DEF Idle, jobVars, TimeOK
<1>13. CASE UNCHANGED vars
  <2>1. Same /\ UNCHANGED <<at, backlog, since, owner, left>>
    BY <1>13 DEF vars, jobVars, Same
  <2>2. Blocking(h)' = Blocking(h)
    BY <2>1 DEF Blocking
  <2> QED BY <1>1, <1>3, <1>5, <2>1, <2>2 DEF TimeOK
<1> QED BY <1>7, <1>8, <1>9, <1>10, <1>11, <1>12, <1>13 DEF Next, Job

\* Whatever the tasks: one that is above all others, and shares no mutex or one
\* with a protocol, is done within its own work and one critical section of
\* another task, and no two of its jobs overlap
\* (hw3_solution/priority_inversion.cpp:76-113, 185-219).
THEOREM HighestAlwaysInTime == BoundsFollow /\ Spec => []HighestInTime
<1>1. BoundsFollow /\ Init => TimeInv
  <2> SUFFICES ASSUME BoundsFollow, Init PROVE TimeInv
    OBVIOUS
  <2>1. prog \in Program
    BY DEF Init
  <2> QED BY <2>1, ProtectedFacts DEF Init, TimeInv, LeftInv, TimeOK
<1>2. BoundsFollow /\ IndInv /\ TimeInv /\ [Next]_vars => TimeInv'
  <2> SUFFICES ASSUME BoundsFollow, IndInv, TimeInv, [Next]_vars PROVE TimeInv'
    OBVIOUS
  <2>1. Protected(prog)' = Protected(prog)
    BY ProgStays DEF Protected
  <2> QED BY <2>1, LeftStep, InTimeStep DEF TimeInv
<1>3. BoundsFollow /\ IndInv /\ TimeInv => HighestInTime
  <2> SUFFICES ASSUME BoundsFollow, IndInv, TimeInv, NEW h \in Protected(prog), at[h] # "idle"
               PROVE  since[h] <= Bound[h] /\ backlog[h] = 0
    BY DEF HighestInTime
  <2>1. since[h] \in Nat /\ Todo(h) \in Nat /\ Blocking(h) \in Nat
    BY Amounts
  <2>2. since[h] + Todo(h) + Blocking(h) <= Bound[h] /\ backlog[h] = 0 /\ Bound[h] \in Nat
    BY ProtectedFacts DEF TimeInv, TimeOK, IndInv, MutexInv, TypeOK
  <2> QED BY <2>1, <2>2
<1> SUFFICES ASSUME BoundsFollow PROVE Spec => []HighestInTime
  OBVIOUS
<1> QED BY <1>1, <1>2, <1>3, Inductive, PTL DEF Spec

===============================================================================
