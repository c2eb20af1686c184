---------------------------- MODULE ProxyConnection ----------------------------
(***************************************************************************)
(* One consumer proxy of the event channel, TAO_EC_Default_ProxyPushConsumer *)
(* of homeworks 6, 7 and 8: threads of the ORB connect a supplier to it and *)
(* disconnect it, all at once.  The three files have the same text there;  *)
(* homework 8 is cited by whole functions, homework 6 step by step.        *)
(*                                                                         *)
(* Outside src/ (TAO): is_connected_i and cleanup_i of the base class, and  *)
(* the channel, which keeps the set of the proxies it has been told of.    *)
(* Each supplier stands for the reference given to one call.               *)
(***************************************************************************)
EXTENDS FiniteSets

CONSTANTS Thread, Supplier, Nil

ASSUME ConnectionAssumption == Nil \notin Thread \cup Supplier

VARIABLES
  options,    \* of the channel: supplier_reconnect, disconnect_callbacks
  lock,       \* the thread that has lock_, or Nil
  connected,  \* connected_
  supplier,   \* supplier_
  filter,     \* the supplier whose QoS filter_ was built from
  listed,     \* the channel has been told that the proxy is connected
  pc,
  arg,        \* arg[t]: the supplier given to the call of t, or taken by it
  was,        \* was[t]: connected of disconnect_push_consumer
  used,       \* history: the suppliers given to a call
  told,       \* history: the suppliers called back
  mixed       \* history: a connect and a disconnect overlapped

proxyVars == <<lock, connected, supplier, filter>>
vars == <<options, proxyVars, listed, pc, arg, was, used, told, mixed>>

Connecting == {"connect", "test", "reconnected", "relock", "retest", "set",
               "build", "connected"}
Disconnecting == {"disconnect", "take", "cleanup", "disconnected", "callback"}

Init ==
  /\ options \in [reconnect : BOOLEAN, callbacks : BOOLEAN]
  /\ lock = Nil /\ connected = FALSE /\ supplier = Nil /\ filter = Nil
  /\ listed = FALSE
  /\ pc = [t \in Thread |-> "idle"]
  /\ arg = [t \in Thread |-> Nil]
  /\ was = [t \in Thread |-> FALSE]
  /\ used = {} /\ told = {} /\ mixed = FALSE

Goto(t, to) == pc' = [pc EXCEPT ![t] = to]
Step(t, from, to) == pc[t] = from /\ Goto(t, to)

\* The call returns, and its arguments and local variables are gone.
Return(t, from) == Step(t, from, "idle") /\ arg' = [arg EXCEPT ![t] = Nil]

-----------------------------------------------------------------------------
(* lock_.                                                                  *)

Acquire(t) == lock = Nil /\ lock' = t

Released == lock' = Nil

-----------------------------------------------------------------------------
(* The calls come in.                                                      *)

CallConnect(t, s) ==
  /\ Step(t, "idle", "connect")
  /\ s \notin used
  /\ used' = used \cup {s}
  /\ arg' = [arg EXCEPT ![t] = s]
  /\ mixed' = (mixed \/ \E u \in Thread : pc[u] \in Disconnecting)
  /\ UNCHANGED <<options, proxyVars, listed, was, told>>

CallDisconnect(t) ==
  /\ Step(t, "idle", "disconnect")
  /\ mixed' = (mixed \/ \E u \in Thread : pc[u] \in Connecting)
  /\ UNCHANGED <<options, proxyVars, listed, arg, was, used, told>>

-----------------------------------------------------------------------------
(* connect_push_supplier.                                                  *)

Enter(t) ==
  /\ \/ Step(t, "connect", "test")
     \/ Step(t, "relock", "retest")
  /\ Acquire(t)
  /\ UNCHANGED <<connected, supplier, filter, listed, arg, was, told>>

TestFree(t) ==
  /\ ~ connected
  /\ Step(t, "test", "set")
  /\ UNCHANGED <<proxyVars, listed, arg, was, told>>

\* AlreadyConnected is thrown.
Refuse(t) ==
  /\ connected /\ ~ options.reconnect
  /\ Return(t, "test")
  /\ Released
  /\ UNCHANGED <<connected, supplier, filter, listed, was, told>>

\* Mutant: only the supplier is cleaned up.
FilterKept == filter' = filter

FilterDestroyed == filter' = Nil

cleanup_i == supplier' = Nil /\ connected' = FALSE /\ FilterDestroyed

\* The reverse lock gives lock_ up for the call of reconnected.
BeginReconnect(t) ==
  /\ connected /\ options.reconnect
  /\ Step(t, "test", "reconnected")
  /\ cleanup_i
  /\ Released
  /\ UNCHANGED <<listed, arg, was, told>>

Reconnected(t) ==
  /\ Step(t, "reconnected", "relock")
  /\ listed' = TRUE
  /\ UNCHANGED <<proxyVars, arg, was, told>>

\* Mutant: the second test is left out.
NotTested == FALSE

StillConnected == connected

\* Mutant: the call waits for its turn.
WaitOn(t) == Step(t, "retest", "relock") /\ arg' = arg

GiveUp(t) == Return(t, "retest")

\* Another thread has connected meanwhile: the call returns.
Retest(t) ==
  /\ \/ StillConnected /\ GiveUp(t) /\ Released
     \/ ~ StillConnected /\ Step(t, "retest", "set") /\ UNCHANGED <<lock, arg>>
  /\ UNCHANGED <<connected, supplier, filter, listed, was, told>>

SetSupplier(t) ==
  /\ Step(t, "set", "build")
  /\ supplier' = arg[t] /\ connected' = TRUE
  /\ UNCHANGED <<lock, filter, listed, arg, was, told>>

BuildFilter(t) ==
  /\ Step(t, "build", "connected")
  /\ filter' = arg[t]
  /\ Released
  /\ UNCHANGED <<connected, supplier, listed, arg, was, told>>

\* Mutant: the channel is not told.
NotTold == listed

ListedWhenConnected == TRUE

Connected(t) ==
  /\ Return(t, "connected")
  /\ listed' = ListedWhenConnected
  /\ UNCHANGED <<proxyVars, was, told>>

connect_push_supplier(t) ==
  /\ \/ Enter(t) \/ TestFree(t) \/ Refuse(t) \/ BeginReconnect(t)
     \/ Reconnected(t) \/ Retest(t) \/ SetSupplier(t) \/ BuildFilter(t)
     \/ Connected(t)
  /\ UNCHANGED <<options, used, mixed>>

-----------------------------------------------------------------------------
(* disconnect_push_consumer.                                               *)

EnterDisconnect(t) ==
  /\ Step(t, "disconnect", "take")
  /\ Acquire(t)
  /\ UNCHANGED <<connected, supplier, filter, listed, arg, was, told>>

\* _retn reads supplier_ and then resets it.
Take(t) ==
  /\ Step(t, "take", "cleanup")
  /\ was' = [was EXCEPT ![t] = connected]
  /\ arg' = [arg EXCEPT ![t] = supplier]
  /\ UNCHANGED <<proxyVars, listed, told>>

Cleanup(t) ==
  /\ Step(t, "cleanup", "disconnected")
  /\ supplier' = Nil /\ connected' = FALSE
  /\ IF was[t] THEN FilterDestroyed ELSE filter' = filter
  /\ was' = [was EXCEPT ![t] = FALSE]
  /\ Released
  /\ UNCHANGED <<listed, arg, told>>

HasSupplier(t) == arg[t] # Nil

\* The channel is told even if the proxy was not connected.
Disconnected(t) ==
  /\ IF HasSupplier(t) /\ options.callbacks
       THEN Step(t, "disconnected", "callback") /\ arg' = arg
       ELSE Return(t, "disconnected")
  /\ listed' = FALSE
  /\ UNCHANGED <<proxyVars, was, told>>

\* What disconnect_push_supplier throws is ignored.
Callback(t) ==
  /\ Return(t, "callback")
  /\ told' = told \cup {arg[t]}
  /\ UNCHANGED <<proxyVars, listed, was>>

disconnect_push_consumer(t) ==
  /\ \/ EnterDisconnect(t) \/ Take(t) \/ Cleanup(t) \/ Disconnected(t)
     \/ Callback(t)
  /\ UNCHANGED <<options, used, mixed>>

-----------------------------------------------------------------------------
Runs(t) == connect_push_supplier(t) \/ disconnect_push_consumer(t)

Next ==
  \E t \in Thread :
    \/ \E s \in Supplier : CallConnect(t, s)
    \/ CallDisconnect(t)
    \/ Runs(t)

Spec == Init /\ [][Next]_vars

\* A thread of the ORB runs on, and gets a lock that is free again and again.
FairSpec == Spec /\ \A t \in Thread : SF_vars(Runs(t))

-----------------------------------------------------------------------------
TypeOK ==
  /\ options \in [reconnect : BOOLEAN, callbacks : BOOLEAN]
  /\ lock \in Thread \cup {Nil}
  /\ connected \in BOOLEAN
  /\ supplier \in Supplier \cup {Nil} /\ filter \in Supplier \cup {Nil}
  /\ listed \in BOOLEAN
  /\ pc \in [Thread -> Connecting \cup Disconnecting \cup {"idle"}]
  /\ arg \in [Thread -> Supplier \cup {Nil}]
  /\ was \in [Thread -> BOOLEAN]
  /\ used \in SUBSET Supplier /\ told \in SUBSET Supplier
  /\ mixed \in BOOLEAN

Inside == {"test", "retest", "set", "build", "take", "cleanup"}

\* lock_ covers every access to the connection, also when connect_push_supplier
\* gives it up in the middle (108) and takes it again, and no call of the
\* channel or of a supplier is made under it (116, 142, 223, 234).
LockCovers == \A t \in Thread : pc[t] \in Inside <=> lock = t

\* Whenever the lock is free, the three members agree: connected_, a supplier_,
\* and a filter_ built for that supplier.
MembersAgree ==
  lock = Nil => /\ connected <=> supplier # Nil
                /\ filter = supplier

\* A supplier is called back at most once, and when it is, it is not the one
\* connected: disconnects of several threads share one supplier_ (215).
CalledBackOnce ==
  \A t \in Thread : pc[t] = "callback" => arg[t] \notin told \cup {supplier}

\* The connection is the place of SupplierSlot: taken by one supplier at a time,
\* whose end is told once, however the calls of several threads interleave.
Ended ==
  {arg[t] : t \in {u \in Thread :
                     pc[u] \in {"disconnected", "callback"}}} \ {Nil}

Slot == INSTANCE SupplierSlot WITH
  callbacks <- options.callbacks, conn <- supplier, ended <- Ended

ImplementsSlot == Slot!Spec

\* When no call runs, the channel knows whether the proxy is connected, provided
\* no connect overlapped a disconnect: the calls of connected and disconnected
\* are made outside the lock (142, 223).
ChannelKnows ==
  (\A t \in Thread : pc[t] = "idle") /\ ~ mixed => listed = connected

\* Every call of connect_push_supplier and disconnect_push_consumer returns.
CallsReturn == \A t \in Thread : pc[t] # "idle" ~> pc[t] = "idle"

=============================================================================
