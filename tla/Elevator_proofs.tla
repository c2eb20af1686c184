--------------------------- MODULE Elevator_proofs ---------------------------
(***************************************************************************)
(* Proofs about the elevator control, for every set-up of the timer, the   *)
(* workload and the task above it, and any number of presses.              *)
(***************************************************************************)
EXTENDS Elevator, SequenceTheorems, TLAPS

-----------------------------------------------------------------------------
(* The stack of handlers.                                                  *)

Stacks == {<<>>, <<"press">>, <<"timeout">>, <<"press", "timeout">>,
           <<"timeout", "press">>}

\* Which handlers run, and which of them is interrupted.
LEMMA StackFacts ==
  ASSUME NEW s \in Stacks
  PROVE  /\ s # <<>> /\ Head(s) = "press" <=> s \in {<<"press">>, <<"press", "timeout">>}
         /\ s # <<>> /\ Head(s) = "timeout" <=> s \in {<<"timeout">>, <<"timeout", "press">>}
         /\ (\E k \in DOMAIN s : s[k] = "press") <=> s \notin {<<>>, <<"timeout">>}
         /\ (\E k \in DOMAIN s : s[k] = "timeout") <=> s \notin {<<>>, <<"press">>}
<1>1. CASE s = <<>>
  BY <1>1
<1>2. CASE s = <<"press">>
  BY <1>2
<1>3. CASE s = <<"timeout">>
  BY <1>3
<1>4. CASE s = <<"press", "timeout">>
  BY <1>4
<1>5. CASE s = <<"timeout", "press">>
  BY <1>5
<1> QED BY <1>1, <1>2, <1>3, <1>4, <1>5 DEF Stacks

LEMMA HandlerFacts ==
  ASSUME stack \in Stacks
  PROVE  /\ OnTop("press") <=> stack \in {<<"press">>, <<"press", "timeout">>}
         /\ OnTop("timeout") <=> stack \in {<<"timeout">>, <<"timeout", "press">>}
         /\ OnStack("press") <=> stack \notin {<<>>, <<"timeout">>}
         /\ OnStack("timeout") <=> stack \notin {<<>>, <<"press">>}
BY StackFacts DEF OnTop, OnStack

\* The handler on top is one that runs.
LEMMA TopOnStack ==
  ASSUME stack \in Stacks, NEW h \in Signal, OnTop(h)
  PROVE  OnStack(h)
<1>1. CASE h = "press"
  <2>1. OnStack("press")
    BY <1>1, HandlerFacts DEF OnStack
  <2> QED BY <1>1, <2>1
<1>2. CASE h = "timeout"
  <2>1. OnStack("timeout")
    BY <1>2, HandlerFacts DEF OnStack
  <2> QED BY <1>2, <2>1
<1> QED BY <1>1, <1>2 DEF Signal

\* One handler on top of another.
LEMMA PairConcat ==
  ASSUME NEW S, NEW a \in S, NEW b \in S
  PROVE  <<a>> \o <<b>> = <<a, b>>
<1> DEFINE x == <<a>> \o <<b>>  y == <<a, b>>
<1>1. <<a>> \in Seq(S) /\ <<b>> \in Seq(S) /\ y \in Seq(S)
  OBVIOUS
<1>2. /\ x \in Seq(S) /\ Len(x) = 2 /\ Len(y) = 2
      /\ x[1] = a /\ x[2] = b /\ y[1] = a /\ y[2] = b
  BY <1>1
<1> HIDE DEF x, y
<1>3. x = y
  BY <1>1, <1>2, SeqEqual
<1> QED BY <1>3 DEF x, y

\* A handler that returns uncovers the one it interrupted.
LEMMA StackPop ==
  ASSUME stack \in Stacks, NEW h \in Signal, OnTop(h), stack' = Tail(stack)
  PROVE  /\ stack = <<h>> => stack' = <<>>
         /\ stack = <<"press", "timeout">> => stack' = <<"timeout">>
         /\ stack = <<"timeout", "press">> => stack' = <<"press">>
         /\ stack' \in Stacks
<1>2. CASE stack = <<"press">>
  BY <1>2 DEF Stacks
<1>3. CASE stack = <<"timeout">>
  BY <1>3 DEF Stacks
<1>4. CASE stack = <<"press", "timeout">>
  BY <1>4 DEF Stacks
<1>5. CASE stack = <<"timeout", "press">>
  BY <1>5 DEF Stacks
<1> QED BY HandlerFacts, <1>2, <1>3, <1>4, <1>5 DEF Signal

\* One that is delivered covers the one that runs.
LEMMA StackPush ==
  ASSUME stack \in Stacks, NEW h \in Signal, Unmasked(h), stack' = <<h>> \o stack
  PROVE  /\ stack = <<>> => stack' = <<h>>
         /\ stack = <<"press">> => h = "timeout" /\ stack' = <<"timeout", "press">>
         /\ stack = <<"timeout">> => h = "press" /\ stack' = <<"press", "timeout">>
         /\ stack \in {<<>>, <<"press">>, <<"timeout">>}
         /\ stack' \in Stacks
<1>1. CASE stack = <<>>
  BY <1>1 DEF Stacks, Signal
<1>2. CASE stack = <<"press">>
  <2>1. h = "timeout"
    BY <1>2, HandlerFacts DEF Unmasked, Signal
  <2>2. stack' = <<"timeout", "press">>
    BY <2>1, <1>2, PairConcat DEF Signal
  <2> QED BY <1>2, <2>1, <2>2 DEF Stacks
<1>3. CASE stack = <<"timeout">>
  <2>1. h = "press"
    BY <1>3, HandlerFacts DEF Unmasked, Signal
  <2>2. stack' = <<"press", "timeout">>
    BY <2>1, <1>3, PairConcat DEF Signal
  <2> QED BY <1>3, <2>1, <2>2 DEF Stacks
<1> QED BY <1>1, <1>2, <1>3, HandlerFacts DEF Stacks, Signal, Unmasked

-----------------------------------------------------------------------------
(* The inductive invariant.                                                *)

\* The timer is armed once both handlers are installed; before that no press is
\* handled that is not the last thing to happen.
SignalInv ==
  /\ timer > 0 <=> main \in {"count", "pause"}
  /\ timer = 0 => "timeout" \notin pending /\ at["timeout"] = "off"

\* No press is noted or counted that drive has not sent.
CountInv ==
  /\ count + (IF at["press"] = "count" THEN 1 ELSE 0) <= noted
  /\ noted + (IF at["press"] \in {"stamp", "set"} THEN 1 ELSE 0)
           + (IF "press" \in pending THEN 1 ELSE 0) <= driven

\* pressed tells of a press that is not answered, until it is about to be reset.
GhostInv ==
  /\ answered <= noted
  /\ at["timeout"] = "work" => answered < noted
  /\ pressed /\ at["timeout"] # "reset" => answered < noted

IndInv == TypeOK /\ SignalInv /\ CountInv /\ GhostInv

\* The set-up is one of the program's.
LEMMA Setup ==
  ASSUME TypeOK
  PROVE  /\ prog.period \in Nat \ {0} /\ {prog.workload, prog.slowest} \subseteq Nat \ {0}
         /\ prog.workload <= prog.slowest
         /\ prog.hogPeriod \in Nat \ {0} /\ prog.hogWork \in Nat
         /\ prog.best \in Nat /\ prog.worst \in Nat
         /\ prog.hogWork < prog.hogPeriod
         /\ MaxAge \in Nat /\ MaxAge >= prog.worst + prog.period
         /\ MaxPresses \in Nat \ {0}
<1>1. prog \in Program /\ IsProgram(prog) /\ MaxPresses \in Nat \ {0}
  BY ElevatorAssumption DEF TypeOK
<1>2. /\ prog.period \in Nat \ {0} /\ {prog.workload, prog.slowest} \subseteq Nat \ {0}
      /\ prog.workload <= prog.slowest
      /\ prog.hogPeriod \in Nat \ {0} /\ prog.hogWork \in Nat
      /\ prog.best \in Nat /\ prog.worst \in Nat
      /\ prog.hogWork < prog.hogPeriod
  BY <1>1 DEF IsProgram
<1>3. MaxAge \in Nat /\ MaxAge >= prog.worst + prog.period
  BY <1>2 DEF MaxAge
<1> QED BY <1>1, <1>2, <1>3

LEMMA InitHolds == Init => IndInv
<1> SUFFICES ASSUME Init PROVE IndInv
  OBVIOUS
<1>1. /\ prog \in Program /\ IsProgram(prog)
      /\ prog.period \in Nat /\ prog.worst \in Nat /\ prog.slowest \in Nat
  BY ElevatorAssumption DEF Init, IsProgram
<1>2. \A h \in Signal : ~ OnStack(h)
  BY DEF Init, OnStack
<1>3. TypeOK
  <2>1. /\ MaxPresses \in Nat /\ 0 \in 0 .. MaxPresses
        /\ 0 \in 0 .. prog.slowest /\ 0 \in 0 .. prog.period
        /\ MaxAge \in Nat /\ age \in 0 .. MaxAge
    BY <1>1, ElevatorAssumption DEF Init, MaxAge
  <2>2. at = [h \in Signal |-> "off"] /\ \A h \in Signal : at[h] = "off"
    BY DEF Init
  <2> QED BY <1>1, <1>2, <2>1, <2>2 DEF Init, TypeOK, Signal
<1>4. SignalInv /\ CountInv /\ GhostInv
  BY DEF Init, SignalInv, CountInv, GhostInv, Signal
<1> QED BY <1>3, <1>4 DEF IndInv

\* A handler goes on, or returns.
LEMMA GoStep ==
  ASSUME TypeOK, NEW h \in Signal, NEW from, NEW to, Go(h, from, to)
  PROVE  /\ stack \in Stacks /\ stack' \in Stacks
         /\ at' = [at EXCEPT ![h] = to]
         /\ \A g \in Signal : OnStack(g)' <=> at'[g] # "off"
         /\ ended = "no" /\ at[h] = from /\ from # "off"
<1>1. /\ stack \in Stacks /\ OnTop(h) /\ at' = [at EXCEPT ![h] = to]
      /\ at = [g \in Signal |-> at[g]]
  BY DEF TypeOK, Go, Stacks
<1>2. /\ \A g \in Signal : OnStack(g) <=> at[g] # "off"
      /\ OnStack(h) /\ ended = "no" /\ at[h] = from
  <2>1. \A g \in Signal : OnStack(g) <=> at[g] # "off"
    BY DEF TypeOK
  <2>2. OnStack(h)
    BY <1>1, TopOnStack
  <2> QED BY <2>1, <2>2 DEF Go, Runs
<1>3. CASE to # "off"
  <2>1. stack' = stack
    BY <1>3 DEF Go
  <2>2. \A g \in Signal : OnStack(g)' <=> OnStack(g)
    BY <2>1 DEF OnStack
  <2> QED BY <2>1, <2>2, <1>1, <1>2, <1>3
<1>4. CASE to = "off"
  <2>1. stack' = Tail(stack)
    BY <1>4 DEF Go
  <2>2. stack' \in Stacks
    BY <2>1, <1>1, StackPop
  <2>3. /\ OnStack("press")' <=> stack' \notin {<<>>, <<"timeout">>}
        /\ OnStack("timeout")' <=> stack' \notin {<<>>, <<"press">>}
    BY <2>2, StackFacts DEF OnStack
  <2>4. \A g \in Signal : OnStack(g)' <=> OnStack(g) /\ g # h
    <3>1. CASE stack = <<h>>
      <4>1. stack' = <<>>
        BY <3>1, <2>1, <1>1, StackPop
      <4> QED BY <3>1, <4>1 DEF OnStack
    <3>2. CASE stack = <<"press", "timeout">>
      <4>1. stack' = <<"timeout">> /\ h = "press"
        BY <3>2, <2>1, <1>1, StackPop DEF OnTop
      <4> QED BY <3>2, <4>1 DEF OnStack, Signal
    <3>3. CASE stack = <<"timeout", "press">>
      <4>1. stack' = <<"press">> /\ h = "timeout"
        BY <3>3, <2>1, <1>1, StackPop DEF OnTop
      <4> QED BY <3>3, <4>1 DEF OnStack, Signal
    <3> QED BY <3>1, <3>2, <3>3, <1>1, HandlerFacts DEF Signal
  <2> QED BY <2>2, <2>4, <1>1, <1>2, <1>4
<1> QED BY <1>1, <1>3, <1>4

\* The type invariant without the handlers, and the handlers.
Scalars ==
  /\ prog \in Program
  /\ main \in {"handle_press", "handle_timeout", "settime", "count", "pause"}
  /\ pending \subseteq Signal
  /\ left \in 0 .. prog.slowest /\ pressed \in BOOLEAN
  /\ count \in 0 .. MaxPresses /\ driven \in 0 .. MaxPresses
  /\ age \in 0 .. MaxAge /\ timer \in 0 .. prog.period
  /\ hog \in 0 .. prog.hogPeriod - 1
  /\ ended \in {"no", "exit", "killed"}
  /\ late \in BOOLEAN /\ restamped \in BOOLEAN /\ uncounted \in BOOLEAN
  /\ answered \in 0 .. MaxPresses /\ noted \in 0 .. MaxPresses

Handlers ==
  /\ stack \in Stacks
  /\ at \in [Signal -> {"off", "stamp", "set", "count", "test", "work", "reset"}]
  /\ at["press"] \in {"off", "stamp", "set", "count"}
  /\ at["timeout"] \in {"off", "test", "work", "reset"}
  /\ \A h \in Signal : OnStack(h) <=> at[h] # "off"

LEMMA TypeParts == (TypeOK <=> Scalars /\ Handlers) /\ (TypeOK' <=> Scalars' /\ Handlers')
BY DEF TypeOK, Scalars, Handlers, Stacks

\* The steps of the handlers keep the type of the handlers.
LEMMA GoHandlers ==
  ASSUME TypeOK, NEW h \in Signal, NEW from, NEW to, Go(h, from, to),
         to \in IF h = "press" THEN {"off", "stamp", "set", "count"}
                ELSE {"off", "test", "work", "reset"}
  PROVE  Handlers'
<1>1. /\ stack' \in Stacks /\ at' = [at EXCEPT ![h] = to]
      /\ \A g \in Signal : OnStack(g)' <=> at'[g] # "off"
  BY GoStep
<1>2. Handlers /\ Signal = {"press", "timeout"}
  BY TypeParts DEF Signal
<1> QED BY <1>1, <1>2 DEF Handlers

\* main keeps the invariant.
LEMMA MainHolds == IndInv /\ Main => IndInv'
<1> SUFFICES ASSUME IndInv, Main PROVE IndInv'
  OBVIOUS
<1>1. Scalars /\ Handlers /\ SignalInv /\ CountInv /\ GhostInv
  BY TypeParts DEF IndInv
<1>2. /\ UNCHANGED <<prog, pending, stack, at, left, pressed, age, ended, hog,
                     driven, answered, noted, late, restamped>>
      /\ MaxPresses \in Nat /\ prog.period \in Nat \ {0} /\ MaxAge' = MaxAge
      /\ \/ main' \in {"handle_timeout", "settime"} /\ UNCHANGED <<timer, count, uncounted>>
            /\ main \in {"handle_press", "handle_timeout"}
         \/ main' = "count" /\ timer' = prog.period /\ UNCHANGED <<count, uncounted>>
         \/ main' = "pause" /\ count' = 0 /\ uncounted' \in BOOLEAN /\ timer' = timer
            /\ main = "count"
  BY Setup DEF IndInv, Main, Install, SetTimer, ResetCount, MainStep, MaxAge, Scalars, TypeOK
<1>3. Scalars'
  <2>1. /\ main' \in {"handle_timeout", "settime", "count", "pause"}
        /\ count' \in 0 .. MaxPresses /\ timer' \in 0 .. prog.period /\ uncounted' \in BOOLEAN
    BY <1>1, <1>2 DEF Scalars
  <2> QED BY <1>1, <1>2, <2>1 DEF Scalars
<1>4. Handlers'
  BY <1>1, <1>2 DEF Handlers, OnStack
<1>5. SignalInv'
  BY <1>1, <1>2 DEF SignalInv, Scalars
<1>6. CountInv' /\ GhostInv'
  BY <1>1, <1>2 DEF CountInv, GhostInv, Scalars
<1> QED BY <1>3, <1>4, <1>5, <1>6, TypeParts DEF IndInv

\* handle_press does.
LEMMA PressHolds == IndInv /\ HandlePress => IndInv'
<1> SUFFICES ASSUME IndInv, HandlePress PROVE IndInv'
  OBVIOUS
<1>1. Scalars /\ Handlers /\ SignalInv /\ CountInv /\ GhostInv /\ TypeOK
  BY TypeParts DEF IndInv
<1>2. /\ UNCHANGED <<prog, main, pending, left, timer, hog, driven, answered, uncounted>>
      /\ MaxPresses \in Nat /\ MaxAge \in Nat /\ MaxAge' = MaxAge
  BY Setup DEF IndInv, HandlePress, MaxAge
<1>3. CASE Stamp
  <2>1. Handlers' /\ at' = [at EXCEPT !["press"] = "set"] /\ at["press"] = "stamp"
    BY <1>1, <1>3, GoHandlers, GoStep DEF Stamp, Signal
  <2>2. /\ UNCHANGED <<pressed, count, ended, noted>> /\ age' = 0
        /\ late' \in BOOLEAN /\ restamped' \in BOOLEAN
    BY <1>1, <1>3 DEF Stamp, Scalars
  <2>3. Scalars'
    BY <1>1, <1>2, <2>2 DEF Scalars
  <2>4. SignalInv' /\ CountInv' /\ GhostInv'
    BY <1>1, <1>2, <2>1, <2>2 DEF SignalInv, CountInv, GhostInv, Handlers, Signal
  <2> QED BY <2>1, <2>3, <2>4, TypeParts DEF IndInv
<1>4. CASE SetPressed
  <2>1. Handlers' /\ at' = [at EXCEPT !["press"] = "count"] /\ at["press"] = "set"
    BY <1>1, <1>4, GoHandlers, GoStep DEF SetPressed, Signal
  <2>2. /\ UNCHANGED <<count, ended, age, restamped, late>>
        /\ pressed' = TRUE /\ noted' = noted + 1
    BY <1>4 DEF SetPressed
  <2>3. SignalInv' /\ CountInv' /\ GhostInv'
    BY <1>1, <1>2, <2>1, <2>2 DEF SignalInv, CountInv, GhostInv, Handlers, Scalars, Signal
  <2>4. noted' <= driven
    BY <1>1, <2>1, <2>2 DEF CountInv, Scalars
  <2>5. Scalars'
    BY <1>1, <1>2, <2>2, <2>4 DEF Scalars
  <2> QED BY <2>1, <2>3, <2>5, TypeParts DEF IndInv
<1>5. CASE CountPress
  <2>1. Handlers' /\ at' = [at EXCEPT !["press"] = "off"] /\ at["press"] = "count"
    BY <1>1, <1>5, GoHandlers, GoStep DEF CountPress, Signal
  <2>2. /\ UNCHANGED <<pressed, noted, age, restamped, late>>
        /\ count' = count + 1 /\ ended' \in {ended, "exit"}
    BY <1>5 DEF CountPress
  <2>3. SignalInv' /\ CountInv' /\ GhostInv'
    BY <1>1, <1>2, <2>1, <2>2 DEF SignalInv, CountInv, GhostInv, Handlers, Scalars, Signal
  <2>4. count' <= noted
    BY <1>1, <2>1, <2>2 DEF CountInv, Scalars
  <2>5. Scalars'
    BY <1>1, <1>2, <2>2, <2>4 DEF Scalars
  <2> QED BY <2>1, <2>3, <2>5, TypeParts DEF IndInv
<1> QED BY <1>3, <1>4, <1>5 DEF HandlePress

\* handle_timeout does.
LEMMA TimeoutHolds == IndInv /\ HandleTimeout => IndInv'
<1> SUFFICES ASSUME IndInv, HandleTimeout PROVE IndInv'
  OBVIOUS
<1>1. Scalars /\ Handlers /\ SignalInv /\ CountInv /\ GhostInv /\ TypeOK
  BY TypeParts DEF IndInv
<1>2. /\ UNCHANGED <<prog, main, pending, count, age, ended, timer, hog, driven, noted,
                     late, uncounted>>
      /\ prog.slowest \in Nat /\ MaxAge' = MaxAge
  BY Setup DEF IndInv, HandleTimeout, MaxAge
<1>3. CASE Test
  <2>1. PICK to \in {"work", "off"} : Go("timeout", "test", to) /\ (to = "work" <=> pressed)
    BY <1>1, <1>3 DEF Test, Scalars
  <2>2. Handlers' /\ at' = [at EXCEPT !["timeout"] = to] /\ at["timeout"] = "test"
    BY <1>1, <2>1, GoHandlers, GoStep DEF Signal
  <2>3. /\ UNCHANGED <<pressed, answered>> /\ restamped' = FALSE
        /\ left' \in 0 .. prog.slowest
    <3>1. prog.workload .. prog.slowest \subseteq 0 .. prog.slowest
      BY <1>1, Setup
    <3> QED BY <1>1, <1>2, <1>3, <3>1 DEF Test, Scalars
  <2>4. Scalars'
    BY <1>1, <1>2, <2>3 DEF Scalars
  <2>5. SignalInv' /\ CountInv' /\ GhostInv'
    BY <1>1, <1>2, <2>1, <2>2, <2>3 DEF SignalInv, CountInv, GhostInv, Handlers, Signal
  <2> QED BY <2>2, <2>4, <2>5, TypeParts DEF IndInv
<1>4. CASE Send
  <2>1. Handlers' /\ at' = [at EXCEPT !["timeout"] = "reset"] /\ at["timeout"] = "work"
    BY <1>1, <1>4, GoHandlers, GoStep DEF Send, Signal
  <2>2. UNCHANGED <<left, pressed, restamped>> /\ answered' = noted
    BY <1>4 DEF Send
  <2>3. Scalars'
    BY <1>1, <1>2, <2>2 DEF Scalars
  <2>4. SignalInv' /\ CountInv' /\ GhostInv'
    BY <1>1, <1>2, <2>1, <2>2 DEF SignalInv, CountInv, GhostInv, Handlers, Scalars, Signal
  <2> QED BY <2>1, <2>3, <2>4, TypeParts DEF IndInv
<1>5. CASE Reset
  <2>1. Handlers' /\ at' = [at EXCEPT !["timeout"] = "off"] /\ at["timeout"] = "reset"
    BY <1>1, <1>5, GoHandlers, GoStep DEF Reset, Signal
  <2>2. UNCHANGED <<left, answered, restamped>> /\ pressed' = FALSE
    BY <1>5 DEF Reset, NotPressed
  <2>3. Scalars'
    BY <1>1, <1>2, <2>2 DEF Scalars
  <2>4. SignalInv' /\ CountInv' /\ GhostInv'
    BY <1>1, <1>2, <2>1, <2>2 DEF SignalInv, CountInv, GhostInv, Handlers, Signal
  <2> QED BY <2>1, <2>3, <2>4, TypeParts DEF IndInv
<1> QED BY <1>3, <1>4, <1>5 DEF HandleTimeout

\* A signal that is delivered starts its handler, or ends the process.
LEMMA DeliverStep ==
  ASSUME IndInv, NEW s \in Signal, Deliver(s)
  PROVE  /\ UNCHANGED <<prog, main, left, pressed, count, age, timer, hog, driven,
                        answered, noted, restamped, uncounted>>
         /\ ended = "no" /\ s \in pending /\ pending' = pending \ {s}
         /\ late' = (late \/ (s = "timeout" /\ at["press"] = "set"))
         /\ at[s] = "off" /\ Handlers'
         /\ \/ /\ ended' = "killed" /\ UNCHANGED <<stack, at>> /\ ~ Installed(s)
            \/ /\ ended' = "no" /\ stack' = <<s>> \o stack /\ Installed(s)
               /\ at' = [at EXCEPT ![s] = IF s = "press" THEN "stamp" ELSE "test"]
<1>1. Handlers /\ Signal = {"press", "timeout"}
  BY TypeParts DEF IndInv, Signal
<1>2. /\ UNCHANGED <<prog, main, left, pressed, count, age, timer, hog, driven,
                     answered, noted, restamped, uncounted>>
      /\ ended = "no" /\ s \in pending /\ pending' = pending \ {s} /\ Unmasked(s)
      /\ late' = (late \/ (s = "timeout" /\ at["press"] = "set"))
      /\ \/ ended' = "killed" /\ UNCHANGED <<stack, at>> /\ ~ Installed(s)
         \/ /\ ended' = "no" /\ stack' = <<s>> \o stack /\ Installed(s)
            /\ at' = [at EXCEPT ![s] = IF s = "press" THEN "stamp" ELSE "test"]
  BY DEF Deliver, Runs
<1>3. at[s] = "off"
  BY <1>1, <1>2 DEF Unmasked, Handlers
<1>4. CASE UNCHANGED <<stack, at>>
  BY <1>1, <1>2, <1>3, <1>4 DEF Handlers, OnStack
<1>5. CASE /\ stack' = <<s>> \o stack
           /\ at' = [at EXCEPT ![s] = IF s = "press" THEN "stamp" ELSE "test"]
  <2>1. stack' \in Stacks
    BY <1>1, <1>2, <1>5, StackPush DEF Handlers
  <2>2. \A g \in Signal : OnStack(g)' <=> OnStack(g) \/ g = s
    <3>1. CASE stack = <<>>
      <4>1. stack' = <<s>>
        BY <3>1, <1>1, <1>2, <1>5, StackPush DEF Handlers
      <4> QED BY <3>1, <4>1 DEF OnStack
    <3>2. CASE stack = <<"press">>
      <4>1. stack' = <<"timeout", "press">> /\ s = "timeout"
        BY <3>2, <1>1, <1>2, <1>5, StackPush DEF Handlers
      <4> QED BY <3>2, <4>1, <1>1 DEF OnStack
    <3>3. CASE stack = <<"timeout">>
      <4>1. stack' = <<"press", "timeout">> /\ s = "press"
        BY <3>3, <1>1, <1>2, <1>5, StackPush DEF Handlers
      <4> QED BY <3>3, <4>1, <1>1 DEF OnStack
    <3> QED BY <3>1, <3>2, <3>3, <1>1, <1>2, <1>5, StackPush DEF Handlers
  <2> QED BY <1>1, <1>2, <1>3, <1>5, <2>1, <2>2 DEF Handlers
<1> QED BY <1>2, <1>3, <1>4, <1>5

LEMMA DeliverHolds == ASSUME IndInv, NEW s \in Signal, Deliver(s) PROVE IndInv'
<1>1. Scalars /\ Handlers /\ SignalInv /\ CountInv /\ GhostInv /\ MaxAge' = MaxAge
  BY TypeParts, DeliverStep DEF IndInv, MaxAge
<1>2. Scalars'
  <2>1. /\ UNCHANGED <<prog, main, left, pressed, count, age, timer, hog, driven,
                       answered, noted, restamped, uncounted>>
        /\ pending' \subseteq Signal /\ late' \in BOOLEAN
        /\ ended' \in {"no", "exit", "killed"}
    BY <1>1, DeliverStep DEF Scalars
  <2> QED BY <1>1, <2>1 DEF Scalars
<1>3. s = "timeout" => timer > 0
  <2>1. s \in pending
    BY DEF Deliver
  <2> QED BY <1>1, <2>1 DEF SignalInv, Scalars
<1>4. SignalInv' /\ CountInv' /\ GhostInv'
  BY <1>1, <1>3, DeliverStep DEF SignalInv, CountInv, GhostInv, Handlers, Scalars, Signal
<1> QED BY <1>2, <1>4, DeliverStep, TypeParts DEF IndInv

\* drive presses the button.
LEMMA DriveHolds == IndInv /\ Drive => IndInv'
<1> SUFFICES ASSUME IndInv, Drive PROVE IndInv'
  OBVIOUS
<1>1. Scalars /\ Handlers /\ SignalInv /\ CountInv /\ GhostInv /\ MaxPresses \in Nat
  BY TypeParts, Setup DEF IndInv
<1>2. /\ UNCHANGED <<prog, procVars, age, timer, hog, answered, noted, late, restamped>>
      /\ MaxAge' = MaxAge /\ driven < MaxPresses /\ driven' = driven + 1
      /\ pending' = pending \cup {"press"} /\ uncounted' \in BOOLEAN
  BY <1>1 DEF Drive, MaxAge, Scalars
<1>3. Scalars'
  BY <1>1, <1>2 DEF Scalars, procVars, Signal
<1>4. Handlers'
  BY <1>1, <1>2 DEF Handlers, procVars, OnStack
<1>5. SignalInv' /\ CountInv' /\ GhostInv'
  BY <1>1, <1>2 DEF SignalInv, CountInv, GhostInv, Scalars, procVars
<1> QED BY <1>3, <1>4, <1>5, TypeParts DEF IndInv

\* Time passes.
LEMMA TickHolds == IndInv /\ Tick => IndInv'
<1> SUFFICES ASSUME IndInv, Tick PROVE IndInv'
  OBVIOUS
<1>1. /\ Scalars /\ Handlers /\ SignalInv /\ CountInv /\ GhostInv
      /\ prog.period \in Nat \ {0} /\ prog.hogPeriod \in Nat \ {0} /\ MaxAge \in Nat
      /\ prog.slowest \in Nat
  BY TypeParts, Setup DEF IndInv
<1>2. /\ UNCHANGED <<prog, main, stack, at, pressed, count, ended, driven, histVars>>
      /\ MaxAge' = MaxAge
      /\ hog' = (hog + 1) % prog.hogPeriod
      /\ left' \in 0 .. prog.slowest /\ age' \in 0 .. MaxAge
      /\ timer' \in 0 .. prog.period /\ (timer' > 0 <=> timer > 0)
      /\ pending' \subseteq Signal
      /\ pending' \in {pending, pending \cup {"timeout"}}
      /\ timer = 0 => pending' = pending
  BY <1>1 DEF Tick, MaxAge, Scalars, Working, Expires, Interval, Signal
<1>3. hog' \in 0 .. prog.hogPeriod - 1
  BY <1>1, <1>2 DEF Scalars
<1>4. Scalars'
  BY <1>1, <1>2, <1>3 DEF Scalars, histVars
<1>5. Handlers'
  BY <1>1, <1>2 DEF Handlers, OnStack
<1>6. SignalInv' /\ CountInv' /\ GhostInv'
  BY <1>1, <1>2 DEF SignalInv, CountInv, GhostInv, Scalars, histVars
<1> QED BY <1>4, <1>5, <1>6, TypeParts DEF IndInv

\* The conjunction is inductive.
LEMMA Inductive == IndInv /\ [Next]_vars => IndInv'
<1> SUFFICES ASSUME IndInv, [Next]_vars PROVE IndInv'
  OBVIOUS
<1>1. CASE UNCHANGED vars
  BY <1>1 DEF vars, procVars, histVars, IndInv, TypeOK, SignalInv, CountInv, GhostInv,
     OnStack, MaxAge
<1> QED
  BY <1>1, MainHolds, PressHolds, TimeoutHolds, DeliverHolds, DriveHolds, TickHolds
  DEF Next, Process, Terminated

LEMMA Invariance == Spec => []IndInv
BY InitHolds, Inductive, PTL DEF Spec

\* For any set-up and any number of presses, no command is sent without a press,
\* wherever the two handlers interrupt each other.
THEOREM NoCommandUnpressed == Spec => []ElevatorInv
<1>1. IndInv => ElevatorInv
  BY DEF IndInv, GhostInv, ElevatorInv, NoGhostCommand, AboutToSend
<1> QED BY <1>1, Invariance, PTL

-----------------------------------------------------------------------------
(* The time the workload takes.                                            *)

\* The releases of the higher task that w ticks of the workload contain, if they
\* begin after one: w \div Gap(p) of them, each of hogWork ticks.
Stops(p, w) == p.hogWork * (w \div Gap(p))

\* The time until w more ticks of the workload are done, h ticks after the last
\* release of the higher task, and that task has the processor no more.
ToGo(p, w, h) ==
  IF h < p.hogWork THEN p.hogWork - h + w + Stops(p, w)
  ELSE IF w < p.hogPeriod - h THEN w
  ELSE w + p.hogWork + Stops(p, w - (p.hogPeriod - h))

\* Products and quotients, for the provers.
LEMMA Multiples ==
  ASSUME NEW n \in Nat, NEW q \in Nat, NEW r \in Nat
  PROVE  /\ n * q \in Nat /\ n * (1 + q) = n + n * q
         /\ q <= r => n * q <= n * r
<1>1. n * q \in Nat /\ n * (1 + q) = n + n * q
  OBVIOUS
<1>2. ASSUME q <= r PROVE n * q <= n * r
  <2>1. r - q \in Nat /\ r = q + (r - q)
    BY <1>2
  <2>2. n * (r - q) \in Nat
    BY <2>1
  <2>3. n * r = n * q + n * (r - q)
    BY <2>1
  <2> QED BY <1>1, <2>2, <2>3
<1> QED BY <1>1, <1>2

LEMMA Quotients ==
  ASSUME NEW g \in Nat \ {0}, NEW v \in Nat, NEW w \in Nat
  PROVE  /\ w \div g \in Nat
         /\ w < g => w \div g = 0
         /\ w >= g => w \div g = 1 + (w - g) \div g
         /\ v <= w => v \div g <= w \div g
<1>1. w \div g \in Nat /\ (w < g => w \div g = 0)
  OBVIOUS
<1>2. w >= g => w \div g = 1 + (w - g) \div g
  OBVIOUS
<1>3. v <= w => v \div g <= w \div g
  OBVIOUS
<1> QED BY <1>1, <1>2, <1>3

LEMMA StopsFacts ==
  ASSUME NEW p, IsProgram(p), NEW v \in Nat, NEW w \in Nat
  PROVE  /\ Gap(p) \in Nat \ {0}
         /\ Stops(p, w) \in Nat
         /\ w < Gap(p) => Stops(p, w) = 0
         /\ w >= Gap(p) => Stops(p, w) = p.hogWork + Stops(p, w - Gap(p))
         /\ v <= w => Stops(p, v) <= Stops(p, w)
<1> DEFINE g == Gap(p)  n == p.hogWork
<1>1. g \in Nat \ {0} /\ n \in Nat
  BY DEF IsProgram, Gap
<1> HIDE DEF g, n
<1>2. v \div g \in Nat /\ w \div g \in Nat
  BY <1>1, Quotients
<1>3. Stops(p, w) = n * (w \div g) /\ Stops(p, v) = n * (v \div g)
  BY DEF Stops, g, n
<1>4. Stops(p, w) \in Nat
  BY <1>1, <1>2, <1>3, Multiples
<1>5. ASSUME w < g PROVE Stops(p, w) = 0
  <2>1. w \div g = 0
    BY <1>1, <1>5, Quotients
  <2> QED BY <2>1, <1>1, <1>3
<1>6. ASSUME w >= g PROVE Stops(p, w) = n + Stops(p, w - g)
  <2>1. w - g \in Nat
    BY <1>1, <1>6
  <2>2. w \div g = 1 + (w - g) \div g /\ (w - g) \div g \in Nat
    BY <1>1, <1>6, <2>1, Quotients
  <2>3. Stops(p, w - g) = n * ((w - g) \div g)
    BY DEF Stops, g, n
  <2> QED BY <2>2, <2>3, <1>1, <1>3, Multiples
<1>7. ASSUME v <= w PROVE Stops(p, v) <= Stops(p, w)
  <2>1. v \div g <= w \div g
    BY <1>1, <1>7, Quotients
  <2> QED BY <2>1, <1>1, <1>2, <1>3, Multiples
<1> QED BY <1>1, <1>4, <1>5, <1>6, <1>7 DEF g, n

\* Every tick brings the end of the workload nearer by one: those of the higher
\* task, and those of the workload itself.
LEMMA ToGoTick ==
  ASSUME NEW p, IsProgram(p), NEW w \in Nat, NEW h \in 0 .. p.hogPeriod - 1,
         NEW k, k = (h + 1) % p.hogPeriod
  PROVE  /\ h < p.hogWork => ToGo(p, w, k) = ToGo(p, w, h) - 1
         /\ h >= p.hogWork /\ w > 0 => ToGo(p, w - 1, k) = ToGo(p, w, h) - 1
<1>1. /\ p.hogPeriod \in Nat \ {0} /\ p.hogWork \in Nat
      /\ p.hogWork < p.hogPeriod
      /\ Gap(p) = p.hogPeriod - p.hogWork /\ Gap(p) \in Nat \ {0}
  BY DEF IsProgram, Gap
<1>5. \A u \in Nat :
         /\ Stops(p, u) \in Nat
         /\ u < Gap(p) => Stops(p, u) = 0
         /\ u >= Gap(p) => Stops(p, u) = p.hogWork + Stops(p, u - Gap(p))
  BY StopsFacts
<1>2. k = IF h + 1 = p.hogPeriod THEN 0 ELSE h + 1
  BY <1>1
<1>3. ASSUME h < p.hogWork PROVE ToGo(p, w, k) = ToGo(p, w, h) - 1
  <2>1. k = h + 1
    BY <1>1, <1>2, <1>3
  <2>4. ToGo(p, w, h) = p.hogWork - h + w + Stops(p, w) /\ Stops(p, w) \in Nat
    BY <1>3, <1>5 DEF ToGo
  <2>2. CASE k < p.hogWork
    <3>1. ToGo(p, w, k) = p.hogWork - k + w + Stops(p, w)
      BY <2>2 DEF ToGo
    <3> QED BY <3>1, <2>1, <2>4, <1>1
  <2>3. CASE k = p.hogWork
    <3>1. ToGo(p, w, k) = IF w < Gap(p) THEN w
                       ELSE w + p.hogWork + Stops(p, w - Gap(p))
      BY <2>3, <1>1 DEF ToGo
    <3>2. CASE w < Gap(p)
      <4>1. Stops(p, w) = 0
        BY <3>2, <1>5
      <4> QED BY <3>1, <3>2, <4>1, <2>1, <2>3, <2>4, <1>1
    <3>3. CASE w >= Gap(p)
      <4>1. w - Gap(p) \in Nat
        BY <3>3, <1>1
      <4>2. Stops(p, w) = p.hogWork + Stops(p, w - Gap(p)) /\ Stops(p, w - Gap(p)) \in Nat
        BY <3>3, <4>1, <1>5
      <4>3. ToGo(p, w, k) = w + p.hogWork + Stops(p, w - Gap(p))
        BY <3>1, <3>3, <1>1
      <4> QED BY <4>2, <4>3, <2>1, <2>3, <2>4, <1>1
    <3> QED BY <3>2, <3>3, <1>1
  <2> QED BY <2>1, <2>2, <2>3, <1>1, <1>3
<1>4. ASSUME h >= p.hogWork, w > 0 PROVE ToGo(p, w - 1, k) = ToGo(p, w, h) - 1
  <2>1. w - 1 \in Nat
    BY <1>4
  <2>2. CASE k = h + 1 /\ k < p.hogPeriod
    <3>1. /\ ToGo(p, w, h) = IF w < p.hogPeriod - h THEN w
                          ELSE w + p.hogWork + Stops(p, w - (p.hogPeriod - h))
          /\ ToGo(p, w - 1, k) = IF w - 1 < p.hogPeriod - k THEN w - 1
                          ELSE w - 1 + p.hogWork + Stops(p, w - 1 - (p.hogPeriod - k))
      BY <2>2, <1>1, <1>4 DEF ToGo
    <3>2. w - 1 - (p.hogPeriod - k) = w - (p.hogPeriod - h)
      BY <2>2, <1>1
    <3>3. CASE w < p.hogPeriod - h
      BY <3>1, <3>3, <2>2, <1>1
    <3>4. CASE w >= p.hogPeriod - h
      <4>1. Stops(p, w - (p.hogPeriod - h)) \in Nat
        BY <3>4, <1>1, <1>5
      <4>2. /\ ToGo(p, w, h) = w + p.hogWork + Stops(p, w - (p.hogPeriod - h))
            /\ ToGo(p, w - 1, k) = w - 1 + p.hogWork + Stops(p, w - (p.hogPeriod - h))
        BY <3>1, <3>2, <3>4, <2>2, <1>1
      <4> QED BY <4>1, <4>2, <1>1
    <3> QED BY <3>3, <3>4, <1>1
  <2>3. CASE h + 1 = p.hogPeriod
    <3>1. k = 0 /\ ToGo(p, w, h) = w + p.hogWork + Stops(p, w - 1)
      BY <2>3, <1>1, <1>2, <1>4 DEF ToGo
    <3>2. CASE p.hogWork = 0
      <4>1. Stops(p, w - 1) = 0
        BY <3>2, <2>1, <1>1, Quotients DEF Stops
      <4>2. \A u \in Nat : Stops(p, u) = 0
        BY <3>2, <1>1, Quotients DEF Stops
      <4>3. ToGo(p, w, h) = w
        BY <3>1, <3>2, <4>1
      <4>4. ToGo(p, w - 1, 0) = IF w - 1 < p.hogPeriod THEN w - 1
                             ELSE w - 1 + p.hogWork + Stops(p, w - 1 - p.hogPeriod)
        BY <3>2, <1>1 DEF ToGo
      <4>5. w - 1 >= p.hogPeriod => Stops(p, w - 1 - p.hogPeriod) = 0
        BY <2>1, <4>2, <1>1
      <4>6. CASE w - 1 < p.hogPeriod
        BY <4>3, <4>4, <4>6, <3>1
      <4>7. CASE w - 1 >= p.hogPeriod
        <5>1. ToGo(p, w - 1, 0) = w - 1 + p.hogWork + Stops(p, w - 1 - p.hogPeriod)
          BY <4>4, <4>7, <1>1, <2>1
        <5> QED BY <5>1, <3>1, <3>2, <4>3, <4>5, <4>7, <2>1
      <4> QED BY <4>6, <4>7, <2>1, <1>1
    <3>3. CASE p.hogWork > 0
      BY <2>1, <3>1, <3>3, <1>1, StopsFacts DEF ToGo
    <3> QED BY <3>2, <3>3, <1>1
  <2> QED BY <2>2, <2>3, <1>1, <1>2
<1> QED BY <1>3, <1>4

\* At most a response of the slowest workload is to go.
LEMMA ToGoBounded ==
  ASSUME NEW p, IsProgram(p), NEW w \in 0 .. p.slowest, NEW h \in 0 .. p.hogPeriod - 1
  PROVE  ToGo(p, w, h) \in Nat /\ ToGo(p, w, h) <= Response(p)
<1>1. /\ p.hogPeriod \in Nat \ {0} /\ p.hogWork \in Nat /\ p.slowest \in Nat
      /\ p.hogWork < p.hogPeriod /\ w \in Nat
  BY DEF IsProgram
<1>2. Response(p) = p.slowest + p.hogWork + Stops(p, p.slowest)
  <2>1. p.slowest \div Gap(p) \in Nat
    <3>1. Gap(p) \in Nat \ {0}
      BY <1>1 DEF Gap
    <3> QED BY <3>1, <1>1, Quotients
  <2>2. p.hogWork * (1 + p.slowest \div Gap(p))
          = p.hogWork + p.hogWork * (p.slowest \div Gap(p))
    BY <2>1, <1>1, Multiples
  <2>3. p.hogWork * (p.slowest \div Gap(p)) \in Nat
    BY <2>1, <1>1, Multiples
  <2> QED BY <2>2, <2>3, <1>1 DEF Response, Stops
<1>3. Stops(p, w) \in Nat /\ Stops(p, p.slowest) \in Nat /\ Stops(p, w) <= Stops(p, p.slowest)
  BY <1>1, StopsFacts
<1>4. CASE h < p.hogWork
  BY <1>1, <1>2, <1>3, <1>4 DEF ToGo
<1>5. CASE h >= p.hogWork /\ w < p.hogPeriod - h
  BY <1>1, <1>2, <1>3, <1>5 DEF ToGo
<1>6. CASE h >= p.hogWork /\ w >= p.hogPeriod - h
  <2> DEFINE u == w - (p.hogPeriod - h)
  <2>1. u \in Nat /\ u <= w
    BY <1>1, <1>6
  <2>2. Stops(p, u) \in Nat /\ Stops(p, u) <= Stops(p, w)
    BY <2>1, <1>1, StopsFacts
  <2>3. ToGo(p, w, h) = w + p.hogWork + Stops(p, u)
    BY <1>1, <1>6 DEF ToGo
  <2> HIDE DEF u
  <2> QED BY <1>1, <1>2, <1>3, <2>2, <2>3
<1> QED BY <1>1, <1>4, <1>5, <1>6

\* Less of the workload is done no later.
LEMMA ToGoLess ==
  ASSUME NEW p, IsProgram(p), NEW w \in Nat, NEW v \in 0 .. w,
         NEW h \in 0 .. p.hogPeriod - 1
  PROVE  ToGo(p, v, h) <= ToGo(p, w, h)
<1>1. /\ p.hogPeriod \in Nat \ {0} /\ p.hogWork \in Nat
      /\ p.hogWork < p.hogPeriod /\ v \in Nat /\ v <= w
  BY DEF IsProgram
<1>2. CASE h < p.hogWork
  <2>1. Stops(p, v) \in Nat /\ Stops(p, w) \in Nat /\ Stops(p, v) <= Stops(p, w)
    BY <1>1, StopsFacts
  <2> QED BY <1>1, <1>2, <2>1 DEF ToGo
<1>3. CASE h >= p.hogWork /\ w < p.hogPeriod - h
  BY <1>1, <1>3 DEF ToGo
<1>4. CASE h >= p.hogWork /\ w >= p.hogPeriod - h
  <2> DEFINE g == p.hogPeriod - h
  <2>1. g \in Nat /\ w - g \in Nat
    BY <1>1, <1>4
  <2>2. ToGo(p, w, h) = w + p.hogWork + Stops(p, w - g) /\ Stops(p, w - g) \in Nat
    BY <1>1, <1>4, <2>1, StopsFacts DEF ToGo
  <2>3. CASE v < g
    BY <1>1, <1>4, <2>2, <2>3 DEF ToGo
  <2>4. CASE v >= g
    <3>1. v - g \in Nat /\ v - g <= w - g
      BY <1>1, <2>1, <2>4
    <3>2. Stops(p, v - g) \in Nat /\ Stops(p, v - g) <= Stops(p, w - g)
      BY <1>1, <2>1, <3>1, StopsFacts
    <3>3. ToGo(p, v, h) = v + p.hogWork + Stops(p, v - g)
      BY <1>1, <1>4, <2>4 DEF ToGo
    <3> HIDE DEF g
    <3> QED BY <1>1, <2>2, <3>2, <3>3
  <2> QED BY <1>1, <2>1, <2>3, <2>4
<1> QED BY <1>1, <1>2, <1>3, <1>4

-----------------------------------------------------------------------------
(* The times measured.                                                     *)

\* The ticks of the workload certainly done since startTime was set for it: the
\* fastest has no more than those left.
Done ==
  IF at["timeout"] = "work" /\ ~ restamped /\ left <= prog.workload
    THEN prog.workload - left ELSE 0

\* In a ticks, the last of them h ticks after a release of the higher task, there
\* was time for d ticks of the workload, and for the higher task unless it was
\* not released meanwhile.
Enough(p, d, a, h) ==
  \/ a >= p.best
  \/ a >= d + p.hogWork
  \/ h >= p.hogWork /\ d <= h - p.hogWork /\ a >= d
  \/ h < p.hogWork /\ d <= Gap(p) /\ a >= d + h

ShortInv == Enough(prog, Done, age, hog)

\* The next handler of the timer will find pressed set.
Armed == pressed \/ at["press"] = "set"

\* The workload will be done in time if w ticks of it are left.
InTime(w) == age + ToGo(prog, w, hog) <= prog.worst

\* A press is late if its two assignments have the timer's handler between them;
\* for every other the timer expires within a period, and then the workload has
\* its time.
LateInv ==
  /\ stack = <<"timeout", "press">> /\ at["press"] = "set" => late
  /\ ~ late =>
       /\ at["timeout"] = "work" => InTime(left)
       /\ at["timeout"] = "test" /\ Armed => InTime(prog.slowest)
       /\ at["timeout"] = "off" /\ Armed =>
            IF "timeout" \in pending THEN InTime(prog.slowest)
            ELSE timer > 0 /\ age + timer <= prog.period

\* The bounds of the set-up.
LEMMA Bounds ==
  ASSUME TypeOK, BoundsFollow
  PROVE  /\ IsProgram(prog)
         /\ Response(prog) \in Nat /\ prog.worst >= prog.period + Response(prog)
         /\ prog.best <= prog.workload + prog.hogWork
         /\ prog.workload <= Gap(prog) => prog.best <= prog.workload
         /\ Gap(prog) \in Nat \ {0} /\ Gap(prog) = prog.hogPeriod - prog.hogWork
         /\ prog.best <= MaxAge
<1>1. prog \in Program /\ IsProgram(prog)
  BY ElevatorAssumption DEF TypeOK
<1>2. /\ prog.worst >= prog.period + Response(prog)
      /\ prog.best <= prog.workload + (IF prog.workload > Gap(prog) THEN prog.hogWork ELSE 0)
  BY <1>1 DEF BoundsFollow
<1>3. Gap(prog) \in Nat \ {0} /\ Gap(prog) = prog.hogPeriod - prog.hogWork
  BY <1>1 DEF IsProgram, Gap
<1>4. Response(prog) \in Nat /\ Response(prog) >= prog.slowest + prog.hogWork
  <2> DEFINE q == prog.slowest \div Gap(prog)
  <2>1. q \in Nat
    BY <1>1, <1>3, Quotients DEF IsProgram
  <2>2. prog.hogWork * (1 + q) = prog.hogWork + prog.hogWork * q /\ prog.hogWork * q \in Nat
    BY <2>1, <1>1, Multiples DEF IsProgram
  <2>3. Response(prog) = prog.slowest + prog.hogWork * (1 + q)
    BY DEF Response
  <2> HIDE DEF q
  <2> QED BY <2>2, <2>3, <1>1 DEF IsProgram
<1> QED BY <1>1, <1>2, <1>3, <1>4 DEF IsProgram, MaxAge

\* A tick more suffices for a tick more of the workload.
LEMMA EnoughTick ==
  ASSUME NEW p, IsProgram(p), NEW d \in Nat, NEW a \in Nat, NEW h \in 0 .. p.hogPeriod - 1,
         NEW e \in Nat, e <= d + 1, h < p.hogWork => e <= d, Enough(p, d, a, h)
  PROVE  Enough(p, e, a + 1, IF h + 1 = p.hogPeriod THEN 0 ELSE h + 1)
<1> DEFINE k == IF h + 1 = p.hogPeriod THEN 0 ELSE h + 1
<1>1. /\ p.hogWork \in Nat /\ p.hogPeriod \in Nat /\ p.best \in Nat
      /\ p.hogWork < p.hogPeriod
      /\ Gap(p) = p.hogPeriod - p.hogWork
  BY DEF IsProgram, Gap
<1>2. CASE a >= p.best \/ a >= d + p.hogWork
  BY <1>1, <1>2 DEF Enough
<1>3. CASE h >= p.hogWork /\ d <= h - p.hogWork /\ a >= d
  <2>1. a + 1 >= e
    BY <1>3
  <2>2. CASE h + 1 = p.hogPeriod /\ p.hogWork = 0
    BY <2>1, <2>2, <1>1 DEF Enough
  <2>3. CASE h + 1 = p.hogPeriod /\ p.hogWork # 0
    <3>1. e <= Gap(p) /\ 0 < p.hogWork /\ a + 1 >= e + 0
      BY <2>1, <2>3, <1>1, <1>3
    <3> QED BY <3>1, <2>3 DEF Enough
  <2>4. CASE h + 1 # p.hogPeriod
    <3>1. h + 1 >= p.hogWork /\ e <= h + 1 - p.hogWork
      BY <1>1, <1>3
    <3> QED BY <2>1, <2>4, <3>1, <1>1 DEF Enough
  <2> QED BY <2>2, <2>3, <2>4
<1>4. CASE h < p.hogWork /\ d <= Gap(p) /\ a >= d + h
  <2>1. h + 1 # p.hogPeriod /\ e <= d
    BY <1>1, <1>4
  <2>2. CASE h + 1 < p.hogWork
    <3>1. e <= Gap(p) /\ a + 1 >= e + (h + 1)
      BY <1>1, <1>4, <2>1
    <3> QED BY <2>1, <2>2, <3>1 DEF Enough
  <2>3. CASE h + 1 >= p.hogWork
    <3>1. a + 1 >= e + p.hogWork
      BY <1>1, <1>4, <2>1, <2>3
    <3> QED BY <3>1 DEF Enough
  <2> QED BY <2>2, <2>3, <1>1
<1> QED BY <1>2, <1>3, <1>4 DEF Enough

\* What suffices for some of the workload suffices for less.
LEMMA EnoughLess ==
  ASSUME NEW p, IsProgram(p), NEW d \in Nat, NEW a \in Nat, NEW h \in Nat,
         NEW e \in Nat, e <= d, Enough(p, d, a, h)
  PROVE  Enough(p, e, a, h)
<1>1. p.hogWork \in Nat /\ p.best \in Nat /\ Gap(p) \in Nat
  BY DEF IsProgram, Gap
<1> QED BY <1>1 DEF Enough

LEMMA DoneFacts == TypeOK => Done \in 0 .. prog.workload /\ IsProgram(prog)
<1> SUFFICES ASSUME TypeOK PROVE Done \in 0 .. prog.workload /\ IsProgram(prog)
  OBVIOUS
<1>1. prog.workload \in Nat /\ left \in 0 .. prog.slowest
  BY Setup DEF TypeOK
<1> QED BY <1>1, ElevatorAssumption DEF Done, TypeOK

\* Stamp: the time measured begins.
LEMMA ShortStamp ==
  ASSUME IndInv, Stamp, UNCHANGED <<prog, left, hog>>
  PROVE  ShortInv'
<1>1. TypeOK /\ Handlers
  BY TypeParts DEF IndInv
<1>2. at' = [at EXCEPT !["press"] = "set"]
  BY <1>1, GoStep DEF Stamp, Signal
<1>3. Done' = 0
  BY <1>1, <1>2 DEF Done, Stamp, Handlers, Signal
<1>4. prog' = prog /\ hog' = hog /\ age' = 0 /\ (hog = 0 \/ hog >= prog.hogWork)
  BY <1>1, Setup DEF Stamp, Go, Runs, HogRuns, TypeOK
<1>5. Gap(prog) \in Nat /\ prog.hogWork \in Nat /\ hog \in Nat
  <2>1. /\ prog.hogPeriod \in Nat /\ prog.hogWork \in Nat
        /\ prog.hogWork < prog.hogPeriod /\ hog \in 0 .. prog.hogPeriod - 1
    BY <1>1, Setup DEF TypeOK
  <2> QED BY <2>1 DEF Gap
<1>6. Enough(prog, 0, 0, hog)
  <2>1. CASE hog >= prog.hogWork
    BY <2>1, <1>5 DEF Enough
  <2>2. CASE hog < prog.hogWork /\ hog = 0
    BY <2>2, <1>5 DEF Enough
  <2> QED BY <2>1, <2>2, <1>4, <1>5
<1> QED BY <1>3, <1>4, <1>6 DEF ShortInv

\* Tick: a tick of the workload is one of the time measured.
LEMMA ShortTick == ASSUME IndInv, BoundsFollow, ShortInv, Tick PROVE ShortInv'
<1>1. TypeOK /\ MaxAge \in Nat /\ prog.best \in Nat /\ prog.best <= MaxAge /\ IsProgram(prog)
  BY Bounds, Setup DEF IndInv
<1>2. /\ prog.hogPeriod \in Nat \ {0} /\ prog.workload \in Nat
      /\ hog \in 0 .. prog.hogPeriod - 1 /\ age \in Nat /\ left \in 0 .. prog.slowest
  BY <1>1, Setup DEF TypeOK
<1>3. /\ prog' = prog /\ at' = at /\ restamped' = restamped
      /\ age' = IF age < MaxAge THEN age + 1 ELSE age
      /\ hog' = IF hog + 1 = prog.hogPeriod THEN 0 ELSE hog + 1
      /\ left' = IF ~ HogRuns /\ Working THEN left - 1 ELSE left
  BY <1>2 DEF Tick, histVars
<1>4. /\ Done \in Nat /\ Done' \in Nat /\ Done' <= Done + 1
      /\ hog < prog.hogWork => Done' <= Done
  BY <1>2, <1>3 DEF Done, Working, HogRuns
<1>5. Enough(prog, Done', age + 1, hog')
  BY <1>1, <1>2, <1>3, <1>4, EnoughTick DEF ShortInv
<1>6. CASE age < MaxAge
  BY <1>3, <1>5, <1>6 DEF ShortInv
<1>7. CASE age >= MaxAge
  BY <1>1, <1>2, <1>3, <1>7 DEF ShortInv, Enough
<1> QED BY <1>1, <1>2, <1>6, <1>7

-----------------------------------------------------------------------------
(* Late presses, step by step.                                             *)

LEMMA InTimeFacts ==
  ASSUME TypeOK, BoundsFollow, NEW w \in 0 .. prog.slowest
  PROVE  /\ ToGo(prog, w, hog) \in Nat
         /\ prog.period + ToGo(prog, w, hog) <= prog.worst
         /\ age \in Nat /\ timer \in Nat /\ prog.period \in Nat
<1>1. /\ IsProgram(prog) /\ Response(prog) \in Nat
      /\ prog.worst >= prog.period + Response(prog)
  BY Bounds
<1>2. hog \in 0 .. prog.hogPeriod - 1 /\ age \in Nat /\ timer \in Nat
  BY <1>1 DEF TypeOK, IsProgram
<1>3. ToGo(prog, w, hog) \in Nat /\ ToGo(prog, w, hog) <= Response(prog)
  BY <1>1, <1>2, ToGoBounded
<1> QED BY <1>1, <1>2, <1>3 DEF IsProgram

\* main changes the timer only before the first press is awaited.
LEMMA LateMain == ASSUME IndInv, LateInv, Main PROVE LateInv'
<1>1. Handlers /\ Scalars /\ SignalInv /\ prog.period \in Nat \ {0}
  BY TypeParts, Setup DEF IndInv
<1>2. /\ UNCHANGED <<prog, pending, stack, at, left, pressed, age, hog, late>>
      /\ stack = <<>>
  BY DEF Main, Install, SetTimer, ResetCount, MainStep
<1>3. at["press"] = "off" /\ at["timeout"] = "off"
  BY <1>1, <1>2 DEF Handlers, OnStack, Signal
<1>4. CASE UNCHANGED timer
  BY <1>2, <1>4 DEF LateInv, Armed, InTime
<1>5. CASE SetTimer
  <2>1. timer = 0 /\ "timeout" \notin pending
    BY <1>1, <1>5 DEF SignalInv, SetTimer, MainStep, Scalars
  <2>2. late \/ ~ Armed
    BY <2>1, <1>3 DEF LateInv
  <2> QED BY <2>2, <1>2, <1>3 DEF LateInv, Armed
<1> QED BY <1>4, <1>5 DEF Main, Install, ResetCount

\* handle_press sets startTime, and then pressed.
LEMMA LatePress == ASSUME IndInv, BoundsFollow, LateInv, HandlePress PROVE LateInv'
<1>1. TypeOK /\ Handlers /\ Scalars /\ SignalInv
  BY TypeParts DEF IndInv
<1>2. UNCHANGED <<prog, pending, left, timer, hog>>
  BY DEF HandlePress
<1>3. CASE Stamp
  <2>1. /\ at' = [at EXCEPT !["press"] = "set"] /\ stack' = stack
        /\ stack # <<"timeout", "press">>
    BY <1>1, <1>3, GoStep, HandlerFacts DEF Stamp, Go, Handlers, Signal
  <2>2. age' = 0 /\ late' = (timer = 0)
    BY <1>3 DEF Stamp
  <2>3. /\ at'["timeout"] = at["timeout"] /\ prog.slowest \in Nat
        /\ left \in 0 .. prog.slowest /\ prog.slowest \in 0 .. prog.slowest
    BY <2>1, <1>1, Setup DEF Handlers, Signal, Scalars
  <2>4. InTime(left)' /\ InTime(prog.slowest)'
    <3>1. \A w \in 0 .. prog.slowest :
             prog.period \in Nat /\ ToGo(prog, w, hog) \in Nat
             /\ prog.period + ToGo(prog, w, hog) <= prog.worst
      BY <1>1, InTimeFacts
    <3>2. prog.worst \in Nat
      BY <1>1, Setup
    <3>3. /\ 0 + ToGo(prog, left, hog) <= prog.worst
          /\ 0 + ToGo(prog, prog.slowest, hog) <= prog.worst
      BY <2>3, <3>1, <3>2
    <3> QED BY <1>2, <2>2, <3>3 DEF InTime
  <2>5. timer' = timer /\ timer \in Nat /\ 0 + timer <= prog.period
    BY <1>1, <1>2, Setup DEF Scalars
  <2>6. ~ late' => timer' > 0 /\ age' + timer' <= prog'.period
    <3>1. ~ late' => timer # 0
      BY <2>2
    <3> QED BY <3>1, <1>2, <2>2, <2>5
  <2>7. stack' # <<"timeout", "press">>
    BY <2>1
  <2> QED BY <2>4, <2>6, <2>7 DEF LateInv
<1>4. CASE SetPressed
  <2>1. /\ at' = [at EXCEPT !["press"] = "count"] /\ stack' = stack /\ at["press"] = "set"
        /\ at'["timeout"] = at["timeout"] /\ at'["press"] = "count"
    BY <1>1, <1>4, GoStep DEF SetPressed, Go, Handlers, Signal
  <2>2. UNCHANGED <<age, late>> /\ Armed
    BY <1>4, <2>1 DEF SetPressed, Armed
  <2> QED BY <1>2, <2>1, <2>2 DEF LateInv, InTime
<1>5. CASE CountPress
  <2>1. /\ at' = [at EXCEPT !["press"] = "off"] /\ at["press"] = "count"
        /\ at'["timeout"] = at["timeout"] /\ at'["press"] = "off"
    BY <1>1, <1>5, GoStep DEF CountPress, Handlers, Signal
  <2>2. UNCHANGED <<age, late, pressed>>
    BY <1>5 DEF CountPress
  <2>3. Armed' => Armed
    BY <2>1, <2>2 DEF Armed
  <2> QED BY <1>2, <2>1, <2>2, <2>3 DEF LateInv, InTime
<1> QED BY <1>3, <1>4, <1>5 DEF HandlePress

\* A press that waits beneath handle_timeout is late already.
LEMMA BeneathIsLate ==
  ASSUME IndInv, LateInv, OnTop("timeout"), at["press"] = "set"
  PROVE  late
<1>1. Handlers
  BY TypeParts DEF IndInv
<1>2. OnStack("press")
  BY <1>1 DEF Handlers, Signal
<1>3. stack = <<"timeout", "press">>
  BY <1>1, <1>2, HandlerFacts DEF Handlers
<1> QED BY <1>3 DEF LateInv

\* handle_timeout starts the workload in time, and answers every press it finds.
LEMMA LateTimeout == ASSUME IndInv, LateInv, HandleTimeout PROVE LateInv'
<1>1. TypeOK /\ Handlers /\ Scalars
  BY TypeParts DEF IndInv
<1>2. UNCHANGED <<prog, pending, age, timer, hog, late>>
  BY DEF HandleTimeout
<1>3. OnTop("timeout")
  BY DEF HandleTimeout, Test, Send, Reset, Go
<1>4. at["press"] = "set" => late
  BY <1>3, BeneathIsLate
<1>5. CASE Test /\ pressed
  <2>1. /\ at' = [at EXCEPT !["timeout"] = "work"] /\ at["timeout"] = "test"
        /\ stack' = stack /\ left' \in prog.workload .. prog.slowest
    BY <1>5 DEF Test, Go
  <2>2. at'["timeout"] = "work" /\ at'["press"] = at["press"]
    BY <2>1, <1>1 DEF Handlers, Signal
  <2>3. InTime(prog.slowest) => InTime(left)'
    <3>1. /\ prog.slowest \in Nat /\ left' \in 0 .. prog.slowest /\ prog.worst \in Nat
          /\ age \in Nat /\ hog \in 0 .. prog.hogPeriod - 1 /\ IsProgram(prog)
      BY <1>1, <2>1, Setup, DoneFacts DEF Scalars
    <3>2. ToGo(prog, left', hog) <= ToGo(prog, prog.slowest, hog)
      BY <3>1, ToGoLess
    <3>3. ToGo(prog, left', hog) \in Nat /\ ToGo(prog, prog.slowest, hog) \in Nat
      BY <3>1, ToGoBounded
    <3> QED BY <1>2, <3>1, <3>2, <3>3 DEF InTime
  <2> QED BY <1>2, <1>5, <2>1, <2>2, <2>3 DEF LateInv, Armed
<1>6. CASE Send
  <2>1. at' = [at EXCEPT !["timeout"] = "reset"] /\ stack' = stack
    BY <1>6 DEF Send, Go
  <2>2. at'["timeout"] = "reset" /\ at'["press"] = at["press"]
    BY <2>1, <1>1 DEF Handlers, Signal
  <2> QED BY <1>2, <2>1, <2>2 DEF LateInv
<1>7. CASE Reset \/ (Test /\ ~ pressed)
  <2>1. /\ at' = [at EXCEPT !["timeout"] = "off"] /\ stack' = Tail(stack)
        /\ pressed' = FALSE
    BY <1>7, <1>1 DEF Reset, Test, Go, NotPressed, Scalars
  <2>2. stack' # <<"timeout", "press">>
    <3>1. stack \in {<<"timeout">>, <<"timeout", "press">>}
      BY <1>1, <1>3, HandlerFacts DEF Handlers
    <3>2. CASE stack = <<"timeout">>
      BY <3>2, <2>1
    <3>3. CASE stack = <<"timeout", "press">>
      BY <3>3, <2>1
    <3> QED BY <3>1, <3>2, <3>3
  <2>3. at'["timeout"] = "off" /\ at'["press"] = at["press"]
    BY <2>1, <1>1 DEF Handlers, Signal
  <2>4. late' \/ ~ Armed'
    BY <1>2, <1>4, <2>1, <2>3 DEF Armed
  <2> QED BY <2>2, <2>3, <2>4 DEF LateInv
<1> QED BY <1>1, <1>5, <1>6, <1>7 DEF HandleTimeout, Scalars

\* A signal of the timer between the two assignments makes the press late.
LEMMA LateDeliver ==
  ASSUME IndInv, LateInv, NEW s \in Signal, Deliver(s) PROVE LateInv'
<1>1. TypeOK /\ Handlers /\ Scalars /\ SignalInv
  BY TypeParts DEF IndInv
<1>2. /\ UNCHANGED <<prog, left, pressed, age, timer, hog>>
      /\ pending' = pending \ {s} /\ s \in pending /\ at[s] = "off"
      /\ late' = (late \/ (s = "timeout" /\ at["press"] = "set"))
  BY DeliverStep
<1>3. CASE s = "press"
  <2>1. "timeout" \in pending' <=> "timeout" \in pending
    BY <1>2, <1>3
  <2>2. late' = late
    BY <1>1, <1>2, <1>3 DEF Scalars
  <2>3. CASE UNCHANGED <<stack, at>>
    BY <1>2, <2>1, <2>2, <2>3 DEF LateInv, Armed, InTime
  <2>4. CASE at' = [at EXCEPT !["press"] = "stamp"]
    <3>1. at'["press"] = "stamp" /\ at'["timeout"] = at["timeout"]
      BY <2>4, <1>1 DEF Handlers, Signal
    <3>2. Armed' => Armed
      BY <3>1, <1>2 DEF Armed
    <3> QED BY <1>2, <2>1, <2>2, <3>1, <3>2 DEF LateInv, InTime
  <2> QED BY <1>3, <2>3, <2>4, DeliverStep
<1>4. CASE s = "timeout"
  <2>1. Installed(s)
    BY <1>1, <1>2, <1>4 DEF SignalInv, Installed, Scalars
  <2>2. at' = [at EXCEPT !["timeout"] = "test"]
    BY <1>4, <2>1, DeliverStep
  <2>3. at'["timeout"] = "test" /\ at'["press"] = at["press"] /\ at["timeout"] = "off"
    BY <2>2, <1>1, <1>2, <1>4 DEF Handlers, Signal
  <2>4. ~ late' => ~ late /\ at["press"] # "set"
    BY <1>2, <1>4
  <2> QED BY <1>2, <1>4, <2>3, <2>4 DEF LateInv, Armed, InTime
<1> QED BY <1>3, <1>4 DEF Signal

LEMMA LateDrive == ASSUME LateInv, Drive PROVE LateInv'
<1>1. /\ UNCHANGED <<prog, stack, at, left, pressed, age, timer, hog, late>>
      /\ "timeout" \in pending' <=> "timeout" \in pending
  BY DEF Drive, procVars
<1> QED BY <1>1 DEF LateInv, Armed, InTime

\* Time passes: towards the next signal of the timer, or towards the end of the
\* workload.
LEMMA LateTick == ASSUME IndInv, BoundsFollow, LateInv, Tick PROVE LateInv'
<1> DEFINE P == prog.hogPeriod
<1>1. TypeOK /\ Handlers /\ Scalars /\ IsProgram(prog)
  BY TypeParts, Bounds DEF IndInv
<1>2. /\ UNCHANGED <<prog, stack, at, pressed, late>>
      /\ hog' = (hog + 1) % P
      /\ left' = IF ~ HogRuns /\ Working THEN left - 1 ELSE left
      /\ timer' = CASE timer = 1 -> prog.period
                    [] timer # 1 /\ timer > 1 -> timer - 1
                    [] OTHER -> timer
      /\ pending' = IF timer = 1 THEN pending \cup {"timeout"} ELSE pending
      /\ HogRuns \/ (Undisturbed /\ (Working \/ Waiting))
  BY DEF Tick, histVars, Expires, Interval
<1>3. /\ hog \in 0 .. P - 1 /\ hog' \in 0 .. P - 1 /\ P \in Nat \ {0}
      /\ prog.worst \in Nat /\ prog.period \in Nat \ {0} /\ prog.slowest \in Nat \ {0}
      /\ left \in 0 .. prog.slowest /\ timer \in Nat
      /\ age \in Nat /\ age' \in Nat /\ age' <= age + 1
  BY <1>1, <1>2, Setup DEF Scalars, Tick
<1>4. ASSUME NEW w \in 0 .. prog.slowest, HogRuns, InTime(w)
      PROVE  age' + ToGo(prog, w, hog') <= prog.worst
  <2>1. ToGo(prog, w, hog') = ToGo(prog, w, hog) - 1
    BY <1>1, <1>2, <1>3, <1>4, ToGoTick DEF HogRuns
  <2>2. ToGo(prog, w, hog) \in Nat
    BY <1>1, InTimeFacts
  <2> QED BY <2>1, <2>2, <1>3, <1>4 DEF InTime
<1>5. Armed' = Armed /\ LateInv
  BY <1>2 DEF Armed
<1>6. stack' = <<"timeout", "press">> /\ at'["press"] = "set" => late'
  BY <1>2 DEF LateInv
<1>7. ASSUME ~ late, at["timeout"] = "work" PROVE InTime(left)'
  <2>1. InTime(left)
    BY <1>7 DEF LateInv
  <2>2. CASE HogRuns
    <3>1. left' = left
      BY <1>2, <2>2
    <3>2. age' + ToGo(prog, left, hog') <= prog.worst
      BY <2>1, <2>2, <1>3, <1>4
    <3> QED BY <3>1, <3>2, <1>2 DEF InTime
  <2>3. CASE ~ HogRuns
    <3>1. Working
      <4>1. OnStack("timeout")
        BY <1>1, <1>7 DEF Handlers, Signal
      <4>2. ~ Waiting
        BY <4>1 DEF Waiting, OnStack
      <4> QED BY <4>2, <1>2, <2>3
    <3>2. left' = left - 1 /\ left > 0 /\ left \in Nat
      BY <1>2, <1>3, <2>3, <3>1 DEF Working
    <3>3. ToGo(prog, left - 1, hog') = ToGo(prog, left, hog) - 1
      BY <1>1, <1>2, <1>3, <2>3, <3>2, ToGoTick, Setup DEF HogRuns
    <3>4. ToGo(prog, left, hog) \in Nat
      BY <1>1, <1>3, InTimeFacts
    <3>5. age' + ToGo(prog, left - 1, hog') <= prog.worst
      BY <2>1, <3>3, <3>4, <1>3 DEF InTime
    <3> QED BY <3>2, <3>5, <1>2 DEF InTime
  <2> QED BY <2>2, <2>3
<1>8. ASSUME ~ late, at["timeout"] = "test", Armed PROVE InTime(prog.slowest)'
  <2>1. InTime(prog.slowest) /\ prog.slowest \in 0 .. prog.slowest
    BY <1>3, <1>8 DEF LateInv
  <2>2. HogRuns
    <3>1. OnStack("timeout")
      BY <1>1, <1>8 DEF Handlers, Signal
    <3>2. ~ Waiting /\ ~ Working
      BY <3>1, <1>8 DEF Waiting, OnStack, Working
    <3> QED BY <3>2, <1>2
  <2>3. age' + ToGo(prog, prog.slowest, hog') <= prog.worst
    BY <2>1, <2>2, <1>4
  <2> QED BY <2>3, <1>2 DEF InTime
<1>9. ASSUME ~ late, at["timeout"] = "off", Armed
      PROVE  IF "timeout" \in pending' THEN InTime(prog.slowest)'
             ELSE timer' > 0 /\ age' + timer' <= prog'.period
  <2>1. prog.slowest \in 0 .. prog.slowest
    BY <1>3
  <2>2. CASE "timeout" \in pending
    <3>1. InTime(prog.slowest)
      BY <1>9, <2>2 DEF LateInv
    <3>2. HogRuns
      <4>1. ~ OnStack("timeout")
        BY <1>1, <1>9 DEF Handlers, Signal
      <4>2. ~ Undisturbed
        BY <4>1, <2>2 DEF Undisturbed, Unmasked
      <4> QED BY <4>2, <1>2
    <3>3. age' + ToGo(prog, prog.slowest, hog') <= prog.worst
      BY <2>1, <3>1, <3>2, <1>4
    <3>4. "timeout" \in pending'
      BY <2>2, <1>2
    <3> QED BY <3>3, <3>4, <1>2 DEF InTime
  <2>3. CASE "timeout" \notin pending
    <3>1. timer > 0 /\ age + timer <= prog.period
      BY <1>9, <2>3 DEF LateInv
    <3>2. CASE timer = 1
      <4>1. age' <= prog.period /\ "timeout" \in pending'
        BY <3>1, <3>2, <1>2, <1>3
      <4>2. ToGo(prog, prog.slowest, hog') \in Nat
            /\ ToGo(prog, prog.slowest, hog') <= Response(prog)
        BY <1>1, <1>3, <2>1, ToGoBounded
      <4>3. prog.worst >= prog.period + Response(prog) /\ Response(prog) \in Nat
        BY <1>1, Bounds
      <4>4. age' + ToGo(prog, prog.slowest, hog') <= prog.worst
        BY <4>1, <4>2, <4>3, <1>3
      <4> QED BY <4>1, <4>4, <1>2 DEF InTime
    <3>3. CASE timer # 1
      <4>1. /\ timer' = timer - 1 /\ timer' > 0 /\ pending' = pending
            /\ age' + timer' <= prog.period
        BY <3>1, <3>3, <1>2, <1>3
      <4> QED BY <4>1, <2>3, <1>2
    <3> QED BY <3>2, <3>3
  <2> QED BY <2>2, <2>3
<1> QED BY <1>2, <1>5, <1>6, <1>7, <1>8, <1>9 DEF LateInv

-----------------------------------------------------------------------------
\* The invariant of the times.
TimeInv == IndInv /\ ShortInv /\ LateInv

LEMMA TimeInit == BoundsFollow /\ Init => TimeInv
<1> SUFFICES ASSUME BoundsFollow, Init PROVE TimeInv
  OBVIOUS
<1>1. IndInv /\ TypeOK
  BY InitHolds DEF IndInv
<1>2. age >= prog.best
  BY <1>1, Bounds DEF Init
<1>3. LateInv
  BY DEF Init, LateInv, Armed, Signal
<1> QED BY <1>1, <1>2, <1>3 DEF TimeInv, ShortInv, Enough

\* A step that prepares no more of a command than before.
LEMMA ShortKept ==
  ASSUME TypeOK, TypeOK', ShortInv, UNCHANGED <<prog, age, hog>>, Done' <= Done
  PROVE  ShortInv'
<1>1. Done \in Nat /\ Done' \in Nat /\ IsProgram(prog)
  <2>1. Done \in 0 .. prog.workload /\ IsProgram(prog)
    BY DoneFacts
  <2>2. left' \in 0 .. prog.slowest
    BY TypeParts DEF Scalars
  <2>3. Done' \in Nat
    BY <2>1, <2>2 DEF Done, IsProgram
  <2> QED BY <2>1, <2>3 DEF IsProgram
<1>2. age \in Nat /\ hog \in Nat
  BY <1>1, Setup DEF TypeOK, IsProgram
<1> QED BY <1>1, <1>2, EnoughLess DEF ShortInv

LEMMA ShortProcess ==
  ASSUME IndInv, IndInv', ShortInv, Process
  PROVE  ShortInv'
<1>1. TypeOK /\ TypeOK' /\ Handlers /\ Scalars /\ IsProgram(prog)
  BY TypeParts, DoneFacts DEF IndInv
<1>2. left \in 0 .. prog.slowest /\ prog.workload \in Nat
  BY <1>1 DEF Scalars, IsProgram
<1>3. CASE Main
  <2>1. UNCHANGED <<prog, age, hog, at, left, restamped>>
    BY <1>3 DEF Main
  <2>2. Done' = Done /\ Done \in Nat
    BY <2>1, <1>2 DEF Done
  <2> QED BY <2>1, <2>2, <1>1, ShortKept
<1>4. CASE HandlePress /\ Stamp
  BY <1>4, ShortStamp DEF HandlePress
<1>5. CASE HandlePress /\ ~ Stamp
  <2>1. /\ UNCHANGED <<prog, age, hog, left, restamped>>
        /\ \E to : at' = [at EXCEPT !["press"] = to]
    BY <1>5 DEF HandlePress, SetPressed, CountPress, Go
  <2>2. at'["timeout"] = at["timeout"]
    BY <2>1, <1>1 DEF Handlers, Signal
  <2>3. Done' = Done /\ Done \in Nat
    BY <2>1, <2>2, <1>2 DEF Done
  <2> QED BY <2>1, <2>3, <1>1, ShortKept
<1>6. CASE HandleTimeout
  <2>1. UNCHANGED <<prog, age, hog>>
    BY <1>6 DEF HandleTimeout
  <2>2. Done' = 0
    <3>1. CASE Test
      <4>1. \/ /\ at' = [at EXCEPT !["timeout"] = "work"]
               /\ left' \in prog.workload .. prog.slowest
            \/ at' = [at EXCEPT !["timeout"] = "off"]
        BY <3>1 DEF Test, Go
      <4>2. \/ at'["timeout"] = "work" /\ left' \in prog.workload .. prog.slowest
            \/ at'["timeout"] = "off"
        BY <4>1, <1>1 DEF Handlers, Signal
      <4> QED BY <4>2, <2>1, <1>2 DEF Done
    <3>2. CASE Send \/ Reset
      <4>1. \E to \in {"off", "reset"} : at' = [at EXCEPT !["timeout"] = to]
        BY <3>2 DEF Send, Reset, Go
      <4>2. at'["timeout"] # "work"
        BY <4>1, <1>1 DEF Handlers, Signal
      <4> QED BY <4>2 DEF Done
    <3> QED BY <3>1, <3>2, <1>6 DEF HandleTimeout
  <2>3. Done \in Nat
    BY <1>2 DEF Done
  <2> QED BY <2>1, <2>2, <2>3, <1>1, ShortKept
<1>7. ASSUME NEW s \in Signal, Deliver(s) PROVE ShortInv'
  <2>1. /\ UNCHANGED <<prog, age, hog, left, restamped>> /\ at[s] = "off"
        /\ UNCHANGED at \/ at' = [at EXCEPT ![s] = IF s = "press" THEN "stamp" ELSE "test"]
    BY <1>7, DeliverStep
  <2>2. at'["timeout"] = "work" <=> at["timeout"] = "work"
    BY <2>1, <1>1 DEF Handlers, Signal
  <2>3. Done' = Done /\ Done \in Nat
    BY <2>1, <2>2, <1>2 DEF Done
  <2> QED BY <2>1, <2>3, <1>1, ShortKept
<1> QED BY <1>3, <1>4, <1>5, <1>6, <1>7 DEF Process

LEMMA TimeStep == BoundsFollow /\ TimeInv /\ [Next]_vars => TimeInv'
<1> SUFFICES ASSUME BoundsFollow, TimeInv, [Next]_vars PROVE TimeInv'
  OBVIOUS
<1>1. IndInv /\ IndInv' /\ ShortInv /\ LateInv
  BY Inductive DEF TimeInv
<1>2. CASE UNCHANGED vars
  BY <1>1, <1>2 DEF TimeInv, vars, procVars, histVars, ShortInv, Done, LateInv, Armed, InTime
<1>3. CASE Process
  <2>1. LateInv'
    BY <1>1, <1>3, LateMain, LatePress, LateTimeout, LateDeliver DEF Process
  <2> QED BY <2>1, <1>1, <1>3, ShortProcess DEF TimeInv
<1>4. CASE Drive
  <2>1. UNCHANGED <<prog, age, hog, at, left, restamped>>
    BY <1>4 DEF Drive, procVars
  <2>2. ShortInv'
    BY <2>1, <1>1 DEF ShortInv, Done
  <2> QED BY <2>2, <1>1, <1>4, LateDrive DEF TimeInv
<1>5. CASE Tick
  BY <1>1, <1>5, ShortTick, LateTick DEF TimeInv
<1> QED BY <1>2, <1>3, <1>4, <1>5 DEF Next, Terminated

\* For every set-up whose bounds follow from its timer, its workload and the task
\* above it, a command reports a time within them, wherever the handlers interrupt
\* each other: long only if the timer's signal came between the two assignments of
\* handle_press, short only if another press was noted meanwhile.
THEOREM MeasurementsInBounds == BoundsFollow /\ Spec => []MeasuredInBounds
<1> SUFFICES ASSUME BoundsFollow PROVE Spec => []MeasuredInBounds
  OBVIOUS
<1>1. TimeInv => MeasuredInBounds
  <2> SUFFICES ASSUME TimeInv PROVE MeasuredInBounds
    OBVIOUS
  <2>1. /\ TypeOK /\ ShortInv /\ LateInv /\ Handlers
        /\ IsProgram(prog) /\ prog.best <= prog.workload + prog.hogWork
        /\ prog.workload <= Gap(prog) => prog.best <= prog.workload
        /\ Gap(prog) = prog.hogPeriod - prog.hogWork
    BY Bounds, TypeParts DEF TimeInv, IndInv
  <2>2. /\ prog.workload \in Nat \ {0} /\ prog.best \in Nat /\ prog.hogWork \in Nat
        /\ prog.hogPeriod \in Nat /\ hog \in 0 .. prog.hogPeriod - 1
        /\ age \in Nat /\ left \in 0 .. prog.slowest /\ prog.worst \in Nat
    BY <2>1, Setup DEF TypeOK
  <2>3. ASSUME AboutToSend, ~ late PROVE age <= prog.worst
    <3>1. InTime(left) /\ left = 0
      BY <2>1, <2>3 DEF LateInv, AboutToSend, WorkDone
    <3>2. ToGo(prog, left, hog) \in Nat
      BY <2>1, <2>2, InTimeFacts
    <3> QED BY <3>1, <3>2, <2>2 DEF InTime
  <2>4. ASSUME AboutToSend, ~ restamped PROVE age >= prog.best
    <3>1. Done = prog.workload
      BY <2>2, <2>4 DEF Done, AboutToSend, WorkDone
    <3>2. Enough(prog, prog.workload, age, hog)
      BY <2>1, <3>1 DEF ShortInv
    <3> QED BY <3>2, <2>1, <2>2 DEF Enough
  <2> QED BY <2>3, <2>4 DEF MeasuredInBounds, MeasuredBounded, ShortOnlyIfPressedAgain
<1>2. Init => TimeInv
  BY TimeInit
<1>3. TimeInv /\ [Next]_vars => TimeInv'
  BY TimeStep
<1> QED BY <1>1, <1>2, <1>3, PTL DEF Spec

===============================================================================
