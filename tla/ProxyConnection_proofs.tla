------------------------- MODULE ProxyConnection_proofs -------------------------
(***************************************************************************)
(* Proofs about the connection of a consumer proxy, for every set of       *)
(* threads and of suppliers and every setting of the channel's options.    *)
(***************************************************************************)
EXTENDS ProxyConnection, TLAPS

-----------------------------------------------------------------------------
(* The inductive invariant.                                                *)

\* The calls that still mean to connect, and those that have taken a supplier.
Offers == {"connect", "test", "reconnected", "relock", "retest", "set"}
Takes == {"disconnected", "callback"}

\* What holds of the members at each place inside the lock.
HolderInv ==
  \A t \in Thread :
    /\ pc[t] \in {"test", "retest", "take", "cleanup"} =>
         (connected <=> supplier # Nil) /\ filter = supplier
    /\ pc[t] = "set" => ~ connected /\ supplier = Nil /\ filter = Nil
    /\ pc[t] = "build" => connected /\ supplier = arg[t] /\ supplier # Nil
                         /\ filter = Nil
    /\ pc[t] = "cleanup" => was[t] = connected /\ arg[t] = supplier

\* Where each supplier is: offered by one call, connected, taken by one call,
\* or called back.
PlaceInv ==
  /\ told \subseteq used
  /\ supplier # Nil => supplier \in used \ told
  /\ \A t \in Thread :
       /\ pc[t] \in Offers => arg[t] # Nil
       /\ pc[t] = "callback" => arg[t] # Nil /\ options.callbacks
       /\ pc[t] \in Offers \cup Takes /\ arg[t] # Nil =>
            /\ arg[t] \in used \ told
            /\ arg[t] # supplier
       /\ \A u \in Thread :
            pc[t] \in Offers \cup Takes /\ pc[u] \in Offers \cup Takes
            /\ arg[t] = arg[u] /\ arg[t] # Nil => t = u

\* What the channel has been told, as long as connects and disconnects have not
\* overlapped: a call that will correct it is still running.
ListedInv ==
  ~ mixed =>
    /\ \A t, u \in Thread : pc[t] \in Connecting => pc[u] \notin Disconnecting
    /\ connected /\ ~ listed =>
         \E t \in Thread : pc[t] \in {"build", "connected"}
    /\ ~ connected /\ (listed \/ \E t \in Thread : pc[t] = "connected") =>
         \E t \in Thread :
           pc[t] \in {"reconnected", "relock", "retest", "set", "disconnected"}
    /\ \A t \in Thread : pc[t] = "disconnected" => ~ connected

ConnInv == TypeOK /\ LockCovers /\ MembersAgree /\ HolderInv /\ PlaceInv

-----------------------------------------------------------------------------
(* Each part of it is preserved by every step.                             *)

\* Every step keeps every variable in its type.
LEMMA TypeInductive == TypeOK /\ PlaceInv /\ [Next]_vars => TypeOK'
<1> SUFFICES ASSUME TypeOK, PlaceInv, [Next]_vars PROVE TypeOK'
  OBVIOUS
<1> USE ConnectionAssumption
    DEF TypeOK, Connecting, Disconnecting, Goto, Step, proxyVars
<1>1. ASSUME NEW t \in Thread, NEW s \in Supplier, CallConnect(t, s) PROVE TypeOK'
  BY <1>1 DEF CallConnect
<1>2. ASSUME NEW t \in Thread, CallDisconnect(t) PROVE TypeOK'
  BY <1>2 DEF CallDisconnect
<1>3. ASSUME NEW t \in Thread, Enter(t), UNCHANGED <<options, used, mixed>>
      PROVE  TypeOK'
  BY <1>3 DEF Enter, Acquire
<1>4. ASSUME NEW t \in Thread, TestFree(t), UNCHANGED <<options, used, mixed>>
      PROVE  TypeOK'
  BY <1>4 DEF TestFree
<1>5. ASSUME NEW t \in Thread, Refuse(t), UNCHANGED <<options, used, mixed>>
      PROVE  TypeOK'
  BY <1>5 DEF Refuse, Return, Released
<1>6. ASSUME NEW t \in Thread, BeginReconnect(t), UNCHANGED <<options, used, mixed>>
      PROVE  TypeOK'
  BY <1>6 DEF BeginReconnect, cleanup_i, FilterDestroyed, Released
<1>7. ASSUME NEW t \in Thread, Reconnected(t), UNCHANGED <<options, used, mixed>>
      PROVE  TypeOK'
  BY <1>7 DEF Reconnected
<1>8. ASSUME NEW t \in Thread, Retest(t), UNCHANGED <<options, used, mixed>>
      PROVE  TypeOK'
  BY <1>8 DEF Retest, StillConnected, GiveUp, Return, Released
<1>9. ASSUME NEW t \in Thread, SetSupplier(t), UNCHANGED <<options, used, mixed>>
      PROVE  TypeOK'
  BY <1>9 DEF SetSupplier
<1>10. ASSUME NEW t \in Thread, BuildFilter(t), UNCHANGED <<options, used, mixed>>
      PROVE  TypeOK'
  BY <1>10 DEF BuildFilter, Released
<1>11. ASSUME NEW t \in Thread, Connected(t), UNCHANGED <<options, used, mixed>>
      PROVE  TypeOK'
  BY <1>11 DEF Connected, ListedWhenConnected, Return
<1>12. ASSUME NEW t \in Thread, EnterDisconnect(t), UNCHANGED <<options, used, mixed>>
      PROVE  TypeOK'
  BY <1>12 DEF EnterDisconnect, Acquire
<1>13. ASSUME NEW t \in Thread, Take(t), UNCHANGED <<options, used, mixed>>
      PROVE  TypeOK'
  BY <1>13 DEF Take
<1>14. ASSUME NEW t \in Thread, Cleanup(t), UNCHANGED <<options, used, mixed>>
      PROVE  TypeOK'
  BY <1>14 DEF Cleanup, FilterDestroyed, Released
<1>15. ASSUME NEW t \in Thread, Disconnected(t), UNCHANGED <<options, used, mixed>>
      PROVE  TypeOK'
  <2>1. CASE HasSupplier(t) /\ options.callbacks
    BY <1>15, <2>1 DEF Disconnected
  <2>2. CASE ~ (HasSupplier(t) /\ options.callbacks)
    BY <1>15, <2>2 DEF Disconnected, Return
  <2> QED
    BY <2>1, <2>2
<1>16. ASSUME NEW t \in Thread, Callback(t), UNCHANGED <<options, used, mixed>>
      PROVE  TypeOK'
  BY <1>16 DEF Callback, Return, PlaceInv
<1>17. CASE UNCHANGED vars
  BY <1>17 DEF vars
<1> QED
  BY <1>1, <1>2, <1>3, <1>4, <1>5, <1>6, <1>7, <1>8, <1>9,
     <1>10, <1>11, <1>12, <1>13, <1>14, <1>15, <1>16, <1>17
  DEF Next, Runs, connect_push_supplier, disconnect_push_consumer

\* Every step keeps the lock around the accesses to the connection.
LEMMA LockInductive == TypeOK /\ LockCovers /\ [Next]_vars => LockCovers'
<1> SUFFICES ASSUME TypeOK, LockCovers, [Next]_vars PROVE LockCovers'
  OBVIOUS
<1> USE ConnectionAssumption
    DEF TypeOK, LockCovers, Inside, Connecting, Disconnecting, Goto, Step, proxyVars
<1>1. ASSUME NEW t \in Thread, NEW s \in Supplier, CallConnect(t, s) PROVE LockCovers'
  BY <1>1 DEF CallConnect
<1>2. ASSUME NEW t \in Thread, CallDisconnect(t) PROVE LockCovers'
  BY <1>2 DEF CallDisconnect
<1>3. ASSUME NEW t \in Thread, Enter(t), UNCHANGED <<options, used, mixed>>
      PROVE  LockCovers'
  BY <1>3 DEF Enter, Acquire
<1>4. ASSUME NEW t \in Thread, TestFree(t), UNCHANGED <<options, used, mixed>>
      PROVE  LockCovers'
  BY <1>4 DEF TestFree
<1>5. ASSUME NEW t \in Thread, Refuse(t), UNCHANGED <<options, used, mixed>>
      PROVE  LockCovers'
  BY <1>5 DEF Refuse, Return, Released
<1>6. ASSUME NEW t \in Thread, BeginReconnect(t), UNCHANGED <<options, used, mixed>>
      PROVE  LockCovers'
  BY <1>6 DEF BeginReconnect, cleanup_i, FilterDestroyed, Released
<1>7. ASSUME NEW t \in Thread, Reconnected(t), UNCHANGED <<options, used, mixed>>
      PROVE  LockCovers'
  BY <1>7 DEF Reconnected
<1>8. ASSUME NEW t \in Thread, Retest(t), UNCHANGED <<options, used, mixed>>
      PROVE  LockCovers'
  BY <1>8 DEF Retest, StillConnected, GiveUp, Return, Released
<1>9. ASSUME NEW t \in Thread, SetSupplier(t), UNCHANGED <<options, used, mixed>>
      PROVE  LockCovers'
  BY <1>9 DEF SetSupplier
<1>10. ASSUME NEW t \in Thread, BuildFilter(t), UNCHANGED <<options, used, mixed>>
      PROVE  LockCovers'
  BY <1>10 DEF BuildFilter, Released
<1>11. ASSUME NEW t \in Thread, Connected(t), UNCHANGED <<options, used, mixed>>
      PROVE  LockCovers'
  BY <1>11 DEF Connected, ListedWhenConnected, Return
<1>12. ASSUME NEW t \in Thread, EnterDisconnect(t), UNCHANGED <<options, used, mixed>>
      PROVE  LockCovers'
  BY <1>12 DEF EnterDisconnect, Acquire
<1>13. ASSUME NEW t \in Thread, Take(t), UNCHANGED <<options, used, mixed>>
      PROVE  LockCovers'
  BY <1>13 DEF Take
<1>14. ASSUME NEW t \in Thread, Cleanup(t), UNCHANGED <<options, used, mixed>>
      PROVE  LockCovers'
  BY <1>14 DEF Cleanup, FilterDestroyed, Released
<1>15. ASSUME NEW t \in Thread, Disconnected(t), UNCHANGED <<options, used, mixed>>
      PROVE  LockCovers'
  BY <1>15 DEF Disconnected, HasSupplier, Return
<1>16. ASSUME NEW t \in Thread, Callback(t), UNCHANGED <<options, used, mixed>>
      PROVE  LockCovers'
  BY <1>16 DEF Callback, Return
<1>17. CASE UNCHANGED vars
  BY <1>17 DEF vars
<1> QED
  BY <1>1, <1>2, <1>3, <1>4, <1>5, <1>6, <1>7, <1>8, <1>9,
     <1>10, <1>11, <1>12, <1>13, <1>14, <1>15, <1>16, <1>17
  DEF Next, Runs, connect_push_supplier, disconnect_push_consumer

\* A step of one thread does not disturb what another has read under the lock.
LEMMA HolderInductive == TypeOK /\ LockCovers /\ MembersAgree /\ HolderInv /\ PlaceInv /\ [Next]_vars => HolderInv'
<1> SUFFICES ASSUME TypeOK, LockCovers, MembersAgree, HolderInv, PlaceInv, [Next]_vars PROVE HolderInv'
  OBVIOUS
<1> USE ConnectionAssumption
    DEF TypeOK, LockCovers, Inside, MembersAgree, HolderInv, PlaceInv, Offers,
        Connecting, Disconnecting, Goto, Step, proxyVars
<1>1. ASSUME NEW t \in Thread, NEW s \in Supplier, CallConnect(t, s) PROVE HolderInv'
  BY <1>1 DEF CallConnect
<1>2. ASSUME NEW t \in Thread, CallDisconnect(t) PROVE HolderInv'
  BY <1>2 DEF CallDisconnect
<1>3. ASSUME NEW t \in Thread, Enter(t), UNCHANGED <<options, used, mixed>>
      PROVE  HolderInv'
  BY <1>3 DEF Enter, Acquire
<1>4. ASSUME NEW t \in Thread, TestFree(t), UNCHANGED <<options, used, mixed>>
      PROVE  HolderInv'
  BY <1>4 DEF TestFree
<1>5. ASSUME NEW t \in Thread, Refuse(t), UNCHANGED <<options, used, mixed>>
      PROVE  HolderInv'
  BY <1>5 DEF Refuse, Return, Released
<1>6. ASSUME NEW t \in Thread, BeginReconnect(t), UNCHANGED <<options, used, mixed>>
      PROVE  HolderInv'
  BY <1>6 DEF BeginReconnect, cleanup_i, FilterDestroyed, Released
<1>7. ASSUME NEW t \in Thread, Reconnected(t), UNCHANGED <<options, used, mixed>>
      PROVE  HolderInv'
  BY <1>7 DEF Reconnected
<1>8. ASSUME NEW t \in Thread, Retest(t), UNCHANGED <<options, used, mixed>>
      PROVE  HolderInv'
  BY <1>8 DEF Retest, StillConnected, GiveUp, Return, Released
<1>9. ASSUME NEW t \in Thread, SetSupplier(t), UNCHANGED <<options, used, mixed>>
      PROVE  HolderInv'
  BY <1>9 DEF SetSupplier
<1>10. ASSUME NEW t \in Thread, BuildFilter(t), UNCHANGED <<options, used, mixed>>
      PROVE  HolderInv'
  BY <1>10 DEF BuildFilter, Released
<1>11. ASSUME NEW t \in Thread, Connected(t), UNCHANGED <<options, used, mixed>>
      PROVE  HolderInv'
  BY <1>11 DEF Connected, ListedWhenConnected, Return
<1>12. ASSUME NEW t \in Thread, EnterDisconnect(t), UNCHANGED <<options, used, mixed>>
      PROVE  HolderInv'
  BY <1>12 DEF EnterDisconnect, Acquire
<1>13. ASSUME NEW t \in Thread, Take(t), UNCHANGED <<options, used, mixed>>
      PROVE  HolderInv'
  BY <1>13 DEF Take
<1>14. ASSUME NEW t \in Thread, Cleanup(t), UNCHANGED <<options, used, mixed>>
      PROVE  HolderInv'
  BY <1>14 DEF Cleanup, FilterDestroyed, Released
<1>15. ASSUME NEW t \in Thread, Disconnected(t), UNCHANGED <<options, used, mixed>>
      PROVE  HolderInv'
  BY <1>15 DEF Disconnected, HasSupplier, Return
<1>16. ASSUME NEW t \in Thread, Callback(t), UNCHANGED <<options, used, mixed>>
      PROVE  HolderInv'
  BY <1>16 DEF Callback, Return
<1>17. CASE UNCHANGED vars
  BY <1>17 DEF vars
<1> QED
  BY <1>1, <1>2, <1>3, <1>4, <1>5, <1>6, <1>7, <1>8, <1>9,
     <1>10, <1>11, <1>12, <1>13, <1>14, <1>15, <1>16, <1>17
  DEF Next, Runs, connect_push_supplier, disconnect_push_consumer

\* The members agree again when the lock is given up.
LEMMA MembersInductive == TypeOK /\ LockCovers /\ MembersAgree /\ HolderInv /\ [Next]_vars => MembersAgree'
<1> SUFFICES ASSUME TypeOK, LockCovers, MembersAgree, HolderInv, [Next]_vars PROVE MembersAgree'
  OBVIOUS
<1> USE ConnectionAssumption
    DEF TypeOK, LockCovers, Inside, MembersAgree, HolderInv, Goto, Step, proxyVars
<1>1. ASSUME NEW t \in Thread, NEW s \in Supplier, CallConnect(t, s) PROVE MembersAgree'
  BY <1>1 DEF CallConnect
<1>2. ASSUME NEW t \in Thread, CallDisconnect(t) PROVE MembersAgree'
  BY <1>2 DEF CallDisconnect
<1>3. ASSUME NEW t \in Thread, Enter(t), UNCHANGED <<options, used, mixed>>
      PROVE  MembersAgree'
  BY <1>3 DEF Enter, Acquire
<1>4. ASSUME NEW t \in Thread, TestFree(t), UNCHANGED <<options, used, mixed>>
      PROVE  MembersAgree'
  BY <1>4 DEF TestFree
<1>5. ASSUME NEW t \in Thread, Refuse(t), UNCHANGED <<options, used, mixed>>
      PROVE  MembersAgree'
  BY <1>5 DEF Refuse, Return, Released
<1>6. ASSUME NEW t \in Thread, BeginReconnect(t), UNCHANGED <<options, used, mixed>>
      PROVE  MembersAgree'
  BY <1>6 DEF BeginReconnect, cleanup_i, FilterDestroyed, Released
<1>7. ASSUME NEW t \in Thread, Reconnected(t), UNCHANGED <<options, used, mixed>>
      PROVE  MembersAgree'
  BY <1>7 DEF Reconnected
<1>8. ASSUME NEW t \in Thread, Retest(t), UNCHANGED <<options, used, mixed>>
      PROVE  MembersAgree'
  BY <1>8 DEF Retest, StillConnected, GiveUp, Return, Released
<1>9. ASSUME NEW t \in Thread, SetSupplier(t), UNCHANGED <<options, used, mixed>>
      PROVE  MembersAgree'
  BY <1>9 DEF SetSupplier
<1>10. ASSUME NEW t \in Thread, BuildFilter(t), UNCHANGED <<options, used, mixed>>
      PROVE  MembersAgree'
  BY <1>10 DEF BuildFilter, Released
<1>11. ASSUME NEW t \in Thread, Connected(t), UNCHANGED <<options, used, mixed>>
      PROVE  MembersAgree'
  BY <1>11 DEF Connected, ListedWhenConnected, Return
<1>12. ASSUME NEW t \in Thread, EnterDisconnect(t), UNCHANGED <<options, used, mixed>>
      PROVE  MembersAgree'
  BY <1>12 DEF EnterDisconnect, Acquire
<1>13. ASSUME NEW t \in Thread, Take(t), UNCHANGED <<options, used, mixed>>
      PROVE  MembersAgree'
  BY <1>13 DEF Take
<1>14. ASSUME NEW t \in Thread, Cleanup(t), UNCHANGED <<options, used, mixed>>
      PROVE  MembersAgree'
  BY <1>14 DEF Cleanup, FilterDestroyed, Released
<1>15. ASSUME NEW t \in Thread, Disconnected(t), UNCHANGED <<options, used, mixed>>
      PROVE  MembersAgree'
  BY <1>15 DEF Disconnected, HasSupplier, Return
<1>16. ASSUME NEW t \in Thread, Callback(t), UNCHANGED <<options, used, mixed>>
      PROVE  MembersAgree'
  BY <1>16 DEF Callback, Return
<1>17. CASE UNCHANGED vars
  BY <1>17 DEF vars
<1> QED
  BY <1>1, <1>2, <1>3, <1>4, <1>5, <1>6, <1>7, <1>8, <1>9,
     <1>10, <1>11, <1>12, <1>13, <1>14, <1>15, <1>16, <1>17
  DEF Next, Runs, connect_push_supplier, disconnect_push_consumer

\* No step gives a supplier a second place.
LEMMA PlaceInductive == TypeOK /\ LockCovers /\ MembersAgree /\ HolderInv /\ PlaceInv /\ [Next]_vars => PlaceInv'
<1> SUFFICES ASSUME TypeOK, LockCovers, MembersAgree, HolderInv, PlaceInv, [Next]_vars PROVE PlaceInv'
  OBVIOUS
<1> USE ConnectionAssumption
    DEF TypeOK, LockCovers, Inside, MembersAgree, HolderInv, PlaceInv, Offers,
        Takes, Connecting, Disconnecting, Goto, Step, proxyVars
<1>1. ASSUME NEW t \in Thread, NEW s \in Supplier, CallConnect(t, s) PROVE PlaceInv'
  BY <1>1 DEF CallConnect
<1>2. ASSUME NEW t \in Thread, CallDisconnect(t) PROVE PlaceInv'
  BY <1>2 DEF CallDisconnect
<1>3. ASSUME NEW t \in Thread, Enter(t), UNCHANGED <<options, used, mixed>>
      PROVE  PlaceInv'
  BY <1>3 DEF Enter, Acquire
<1>4. ASSUME NEW t \in Thread, TestFree(t), UNCHANGED <<options, used, mixed>>
      PROVE  PlaceInv'
  BY <1>4 DEF TestFree
<1>5. ASSUME NEW t \in Thread, Refuse(t), UNCHANGED <<options, used, mixed>>
      PROVE  PlaceInv'
  BY <1>5 DEF Refuse, Return, Released
<1>6. ASSUME NEW t \in Thread, BeginReconnect(t), UNCHANGED <<options, used, mixed>>
      PROVE  PlaceInv'
  BY <1>6 DEF BeginReconnect, cleanup_i, FilterDestroyed, Released
<1>7. ASSUME NEW t \in Thread, Reconnected(t), UNCHANGED <<options, used, mixed>>
      PROVE  PlaceInv'
  BY <1>7 DEF Reconnected
<1>8. ASSUME NEW t \in Thread, Retest(t), UNCHANGED <<options, used, mixed>>
      PROVE  PlaceInv'
  BY <1>8 DEF Retest, StillConnected, GiveUp, Return, Released
<1>9. ASSUME NEW t \in Thread, SetSupplier(t), UNCHANGED <<options, used, mixed>>
      PROVE  PlaceInv'
  BY <1>9 DEF SetSupplier
<1>10. ASSUME NEW t \in Thread, BuildFilter(t), UNCHANGED <<options, used, mixed>>
      PROVE  PlaceInv'
  BY <1>10 DEF BuildFilter, Released
<1>11. ASSUME NEW t \in Thread, Connected(t), UNCHANGED <<options, used, mixed>>
      PROVE  PlaceInv'
  BY <1>11 DEF Connected, ListedWhenConnected, Return
<1>12. ASSUME NEW t \in Thread, EnterDisconnect(t), UNCHANGED <<options, used, mixed>>
      PROVE  PlaceInv'
  BY <1>12 DEF EnterDisconnect, Acquire
<1>13. ASSUME NEW t \in Thread, Take(t), UNCHANGED <<options, used, mixed>>
      PROVE  PlaceInv'
  BY <1>13 DEF Take
<1>14. ASSUME NEW t \in Thread, Cleanup(t), UNCHANGED <<options, used, mixed>>
      PROVE  PlaceInv'
  BY <1>14 DEF Cleanup, FilterDestroyed, Released
<1>15. ASSUME NEW t \in Thread, Disconnected(t), UNCHANGED <<options, used, mixed>>
      PROVE  PlaceInv'
  BY <1>15 DEF Disconnected, HasSupplier, Return
<1>16. ASSUME NEW t \in Thread, Callback(t), UNCHANGED <<options, used, mixed>>
      PROVE  PlaceInv'
  BY <1>16 DEF Callback, Return
<1>17. CASE UNCHANGED vars
  BY <1>17 DEF vars
<1> QED
  BY <1>1, <1>2, <1>3, <1>4, <1>5, <1>6, <1>7, <1>8, <1>9,
     <1>10, <1>11, <1>12, <1>13, <1>14, <1>15, <1>16, <1>17
  DEF Next, Runs, connect_push_supplier, disconnect_push_consumer

\* What the channel was told stays right, or a call is left to correct it.
LEMMA ListedInductive == TypeOK /\ LockCovers /\ HolderInv /\ ListedInv /\ [Next]_vars => ListedInv'
<1> SUFFICES ASSUME TypeOK, LockCovers, HolderInv, ListedInv, [Next]_vars PROVE ListedInv'
  OBVIOUS
<1> USE ConnectionAssumption
    DEF TypeOK, LockCovers, Inside, HolderInv, ListedInv, Connecting, Disconnecting, Goto, Step, proxyVars
<1>1. ASSUME NEW t \in Thread, NEW s \in Supplier, CallConnect(t, s) PROVE ListedInv'
  BY <1>1 DEF CallConnect
<1>2. ASSUME NEW t \in Thread, CallDisconnect(t) PROVE ListedInv'
  BY <1>2 DEF CallDisconnect
<1>3. ASSUME NEW t \in Thread, Enter(t), UNCHANGED <<options, used, mixed>>
      PROVE  ListedInv'
  BY <1>3 DEF Enter, Acquire
<1>4. ASSUME NEW t \in Thread, TestFree(t), UNCHANGED <<options, used, mixed>>
      PROVE  ListedInv'
  BY <1>4 DEF TestFree
<1>5. ASSUME NEW t \in Thread, Refuse(t), UNCHANGED <<options, used, mixed>>
      PROVE  ListedInv'
  BY <1>5 DEF Refuse, Return, Released
<1>6. ASSUME NEW t \in Thread, BeginReconnect(t), UNCHANGED <<options, used, mixed>>
      PROVE  ListedInv'
  BY <1>6 DEF BeginReconnect, cleanup_i, FilterDestroyed, Released
<1>7. ASSUME NEW t \in Thread, Reconnected(t), UNCHANGED <<options, used, mixed>>
      PROVE  ListedInv'
  BY <1>7 DEF Reconnected
<1>8. ASSUME NEW t \in Thread, Retest(t), UNCHANGED <<options, used, mixed>>
      PROVE  ListedInv'
  BY <1>8 DEF Retest, StillConnected, GiveUp, Return, Released
<1>9. ASSUME NEW t \in Thread, SetSupplier(t), UNCHANGED <<options, used, mixed>>
      PROVE  ListedInv'
  BY <1>9 DEF SetSupplier
<1>10. ASSUME NEW t \in Thread, BuildFilter(t), UNCHANGED <<options, used, mixed>>
      PROVE  ListedInv'
  BY <1>10 DEF BuildFilter, Released
<1>11. ASSUME NEW t \in Thread, Connected(t), UNCHANGED <<options, used, mixed>>
      PROVE  ListedInv'
  BY <1>11 DEF Connected, ListedWhenConnected, Return
<1>12. ASSUME NEW t \in Thread, EnterDisconnect(t), UNCHANGED <<options, used, mixed>>
      PROVE  ListedInv'
  BY <1>12 DEF EnterDisconnect, Acquire
<1>13. ASSUME NEW t \in Thread, Take(t), UNCHANGED <<options, used, mixed>>
      PROVE  ListedInv'
  BY <1>13 DEF Take
<1>14. ASSUME NEW t \in Thread, Cleanup(t), UNCHANGED <<options, used, mixed>>
      PROVE  ListedInv'
  BY <1>14 DEF Cleanup, FilterDestroyed, Released
<1>15. ASSUME NEW t \in Thread, Disconnected(t), UNCHANGED <<options, used, mixed>>
      PROVE  ListedInv'
  BY <1>15 DEF Disconnected, HasSupplier, Return
<1>16. ASSUME NEW t \in Thread, Callback(t), UNCHANGED <<options, used, mixed>>
      PROVE  ListedInv'
  BY <1>16 DEF Callback, Return
<1>17. CASE UNCHANGED vars
  BY <1>17 DEF vars
<1> QED
  BY <1>1, <1>2, <1>3, <1>4, <1>5, <1>6, <1>7, <1>8, <1>9,
     <1>10, <1>11, <1>12, <1>13, <1>14, <1>15, <1>16, <1>17
  DEF Next, Runs, connect_push_supplier, disconnect_push_consumer

\* Every step of a proxy is a step of the place or leaves it alone.
LEMMA SlotStep == ConnInv /\ [Next]_vars => [Slot!Next]_Slot!vars
<1> SUFFICES ASSUME TypeOK, LockCovers, MembersAgree, HolderInv, PlaceInv, [Next]_vars
             PROVE  [Slot!Next]_Slot!vars
  BY DEF ConnInv
<1> USE ConnectionAssumption
    DEF TypeOK, LockCovers, Inside, Goto, Step, Connecting, Disconnecting, proxyVars
<1>1. ASSUME NEW t \in Thread, NEW s \in Supplier, CallConnect(t, s)
      PROVE  UNCHANGED Slot!vars
  BY <1>1 DEF Slot!vars, Ended, CallConnect
<1>2. ASSUME NEW t \in Thread, CallDisconnect(t)
      PROVE  UNCHANGED Slot!vars
  BY <1>2 DEF Slot!vars, Ended, CallDisconnect
<1>3. ASSUME NEW t \in Thread, Enter(t), UNCHANGED <<options, used, mixed>>
      PROVE  UNCHANGED Slot!vars
  BY <1>3 DEF Slot!vars, Ended, Enter, Acquire
<1>4. ASSUME NEW t \in Thread, TestFree(t), UNCHANGED <<options, used, mixed>>
      PROVE  UNCHANGED Slot!vars
  BY <1>4 DEF Slot!vars, Ended, TestFree
<1>5. ASSUME NEW t \in Thread, Refuse(t), UNCHANGED <<options, used, mixed>>
      PROVE  UNCHANGED Slot!vars
  BY <1>5 DEF Slot!vars, Ended, Refuse, Return, Released
<1>6. ASSUME NEW t \in Thread, BeginReconnect(t), UNCHANGED <<options, used, mixed>>
      PROVE  Slot!Replace
  <2>1. Ended' = Ended
    BY <1>6 DEF BeginReconnect, Ended
  <2>2. supplier # Nil
    BY <1>6 DEF BeginReconnect, HolderInv
  <2> QED
    BY <1>6, <2>1, <2>2 DEF BeginReconnect, cleanup_i, Slot!Replace
<1>7. ASSUME NEW t \in Thread, Reconnected(t), UNCHANGED <<options, used, mixed>>
      PROVE  UNCHANGED Slot!vars
  BY <1>7 DEF Slot!vars, Ended, Reconnected
<1>8. ASSUME NEW t \in Thread, Retest(t), UNCHANGED <<options, used, mixed>>
      PROVE  UNCHANGED Slot!vars
  BY <1>8 DEF Slot!vars, Ended, Retest, StillConnected, GiveUp, Return, Released
<1>9. ASSUME NEW t \in Thread, SetSupplier(t), UNCHANGED <<options, used, mixed>>
      PROVE  \E s \in Supplier : Slot!Connect(s)
  <2>1. arg[t] # Nil /\ arg[t] \notin told
    BY <1>9 DEF SetSupplier, PlaceInv, Offers
  <2>2. arg[t] \notin Ended
    BY <1>9 DEF SetSupplier, PlaceInv, Offers, Takes, Ended
  <2>3. Ended' = Ended
    BY <1>9 DEF SetSupplier, Ended
  <2>4. supplier = Nil /\ supplier' = arg[t] /\ told' = told
    BY <1>9 DEF SetSupplier, HolderInv
  <2>5. Slot!Connect(arg[t]) /\ arg[t] \in Supplier
    BY <1>9, <2>1, <2>2, <2>3, <2>4 DEF Slot!Connect
  <2> QED
    BY <2>5
<1>10. ASSUME NEW t \in Thread, BuildFilter(t), UNCHANGED <<options, used, mixed>>
      PROVE  UNCHANGED Slot!vars
  BY <1>10 DEF Slot!vars, Ended, BuildFilter, Released
<1>11. ASSUME NEW t \in Thread, Connected(t), UNCHANGED <<options, used, mixed>>
      PROVE  UNCHANGED Slot!vars
  BY <1>11 DEF Slot!vars, Ended, Connected, ListedWhenConnected, Return
<1>12. ASSUME NEW t \in Thread, EnterDisconnect(t), UNCHANGED <<options, used, mixed>>
      PROVE  UNCHANGED Slot!vars
  BY <1>12 DEF Slot!vars, Ended, EnterDisconnect, Acquire
<1>13. ASSUME NEW t \in Thread, Take(t), UNCHANGED <<options, used, mixed>>
      PROVE  UNCHANGED Slot!vars
  BY <1>13 DEF Slot!vars, Ended, Take
<1>14. ASSUME NEW t \in Thread, Cleanup(t), UNCHANGED <<options, used, mixed>>
      PROVE  Slot!Disconnect \/ UNCHANGED Slot!vars
  <2>1. supplier' = Nil /\ told' = told /\ arg' = arg
    BY <1>14 DEF Cleanup
  <2>2. arg[t] = supplier
    BY <1>14 DEF Cleanup, HolderInv
  <2>3. pc[t] = "cleanup" /\ pc' = [pc EXCEPT ![t] = "disconnected"]
    BY <1>14 DEF Cleanup
  <2>4. Ended' = (Ended \cup {supplier}) \ {Nil}
    BY <2>1, <2>2, <2>3 DEF Ended
  <2>5. Ended \ {Nil} = Ended
    BY DEF Ended
  <2>6. CASE supplier = Nil
    BY <1>14, <2>1, <2>4, <2>5, <2>6 DEF Slot!vars
  <2>7. CASE supplier # Nil
    BY <1>14, <2>1, <2>4, <2>5, <2>7 DEF Slot!Disconnect
  <2> QED
    BY <2>6, <2>7
<1>15. ASSUME NEW t \in Thread, Disconnected(t), UNCHANGED <<options, used, mixed>>
      PROVE  (\E s \in Supplier : Slot!Forget(s)) \/ UNCHANGED Slot!vars
  <2>1. supplier' = supplier /\ told' = told /\ pc[t] = "disconnected"
    BY <1>15 DEF Disconnected, Return
  <2>2. CASE HasSupplier(t) /\ options.callbacks
    <3>1. Ended' = Ended
      BY <1>15, <2>2 DEF Disconnected, Ended
    <3> QED
      BY <1>15, <2>1, <3>1 DEF Slot!vars
  <2>3. CASE ~ HasSupplier(t)
    <3>1. Ended' = Ended
      BY <1>15, <2>3 DEF Disconnected, Return, HasSupplier, Ended
    <3> QED
      BY <1>15, <2>1, <3>1 DEF Slot!vars
  <2>4. CASE HasSupplier(t) /\ ~ options.callbacks
    <3>1. arg[t] \in Ended /\ arg[t] \in Supplier
      BY <2>1, <2>4 DEF HasSupplier, Ended
    <3>2. \A u \in Thread : pc[u] \in Takes /\ arg[u] = arg[t] => u = t
      BY <2>1, <2>4 DEF HasSupplier, PlaceInv, Takes
    <3>3. /\ pc' = [pc EXCEPT ![t] = "idle"]
          /\ arg' = [arg EXCEPT ![t] = Nil]
      BY <1>15, <2>4 DEF Disconnected, Return
    <3>4. Ended' = Ended \ {arg[t]}
      BY <3>2, <3>3 DEF Ended, Takes
    <3> QED
      BY <1>15, <2>1, <2>4, <3>1, <3>4 DEF Slot!Forget
  <2> QED
    BY <2>2, <2>3, <2>4
<1>16. ASSUME NEW t \in Thread, Callback(t), UNCHANGED <<options, used, mixed>>
      PROVE  \E s \in Supplier : Slot!Tell(s)
  <2>1. /\ supplier' = supplier /\ told' = told \cup {arg[t]}
        /\ pc[t] = "callback" /\ pc' = [pc EXCEPT ![t] = "idle"]
        /\ arg' = [arg EXCEPT ![t] = Nil]
    BY <1>16 DEF Callback, Return
  <2>2. arg[t] # Nil /\ arg[t] \in Ended
    BY <2>1 DEF PlaceInv, Ended
  <2>3. \A u \in Thread : pc[u] \in Takes /\ arg[u] = arg[t] => u = t
    BY <2>1, <2>2 DEF PlaceInv, Takes
  <2>4. Ended' = Ended \ {arg[t]}
    BY <2>1, <2>3 DEF Ended, Takes
  <2>5. options.callbacks
    BY <2>1 DEF PlaceInv
  <2>6. Slot!Tell(arg[t]) /\ arg[t] \in Supplier
    BY <1>16, <2>1, <2>2, <2>4, <2>5 DEF Slot!Tell
  <2> QED
    BY <2>6
<1>17. CASE UNCHANGED vars
  BY <1>17 DEF vars, Slot!vars, Ended
<1> QED
  BY <1>1, <1>2, <1>3, <1>4, <1>5, <1>6, <1>7, <1>8, <1>9,
     <1>10, <1>11, <1>12, <1>13, <1>14, <1>15, <1>16, <1>17
  DEF Next, Runs, connect_push_supplier, disconnect_push_consumer, Slot!Next

\* The invariant holds initially and is preserved.
LEMMA InvInductive == ConnInv /\ [Next]_vars => ConnInv'
<1> SUFFICES ASSUME ConnInv, [Next]_vars PROVE ConnInv'
  OBVIOUS
<1>1. TypeOK /\ LockCovers /\ MembersAgree /\ HolderInv /\ PlaceInv
  BY DEF ConnInv
<1>2. TypeOK' /\ LockCovers'
  BY <1>1, TypeInductive, LockInductive
<1>3. HolderInv'
  BY <1>1, HolderInductive
<1>4. MembersAgree' /\ PlaceInv'
  BY <1>1, MembersInductive, PlaceInductive
<1> QED
  BY <1>2, <1>3, <1>4 DEF ConnInv

LEMMA InitInv == Init => ConnInv /\ ListedInv
<1> SUFFICES ASSUME Init PROVE ConnInv /\ ListedInv
  OBVIOUS
<1> USE ConnectionAssumption DEF Init
<1>1. TypeOK
  BY DEF TypeOK
<1>2. LockCovers
  BY DEF LockCovers, Inside
<1>3. MembersAgree /\ HolderInv
  BY DEF MembersAgree, HolderInv
<1>4. PlaceInv
  BY DEF PlaceInv, Offers, Takes
<1>5. ListedInv
  BY DEF ListedInv, Connecting
<1> QED
  BY <1>1, <1>2, <1>3, <1>4, <1>5 DEF ConnInv

\* The invariant holds in every reachable state.
THEOREM ConnectionInvariant == Spec => [](ConnInv /\ ListedInv)
<1>1. Init => ConnInv /\ ListedInv
  BY InitInv
<1>2. ConnInv /\ ListedInv /\ [Next]_vars => (ConnInv /\ ListedInv)'
  <2> SUFFICES ASSUME ConnInv, ListedInv, [Next]_vars
               PROVE  ConnInv' /\ ListedInv'
    OBVIOUS
  <2>1. ConnInv'
    BY InvInductive
  <2>2. TypeOK /\ LockCovers /\ HolderInv
    BY DEF ConnInv
  <2>3. ListedInv'
    BY <2>2, ListedInductive
  <2> QED
    BY <2>1, <2>3
<1> QED
  BY <1>1, <1>2, PTL DEF Spec

-----------------------------------------------------------------------------
(* What it says of the code.                                               *)

\* Every variable keeps its type; in particular the nil reference is never
\* called back (225).
THEOREM TypeCorrect == Spec => []TypeOK
<1>1. ConnInv => TypeOK
  BY DEF ConnInv
<1> QED
  BY <1>1, ConnectionInvariant, PTL

\* lock_ covers every access to the connection and no call out of the proxy.
THEOREM LockCoversAlways == Spec => []LockCovers
<1>1. ConnInv => LockCovers
  BY DEF ConnInv
<1> QED
  BY <1>1, ConnectionInvariant, PTL

\* connected_, supplier_ and filter_ agree whenever the lock is free.
THEOREM MembersAlwaysAgree == Spec => []MembersAgree
<1>1. ConnInv => MembersAgree
  BY DEF ConnInv
<1> QED
  BY <1>1, ConnectionInvariant, PTL

\* No supplier is called back twice or while it is connected.
THEOREM CalledBackAtMostOnce == Spec => []CalledBackOnce
<1>1. ConnInv => CalledBackOnce
  BY DEF ConnInv, PlaceInv, CalledBackOnce, Offers, Takes
<1> QED
  BY <1>1, ConnectionInvariant, PTL

\* With no call running, the channel knows whether the proxy is connected,
\* unless a connect overlapped a disconnect.
THEOREM ChannelAlwaysKnows == Spec => []ChannelKnows
<1>1. ConnInv /\ ListedInv => ChannelKnows
  BY DEF ConnInv, TypeOK, ListedInv, ChannelKnows
<1> QED
  BY <1>1, ConnectionInvariant, PTL

-----------------------------------------------------------------------------
(* The proxy implements the place of SupplierSlot.                         *)

THEOREM ImplementsSlotAlways == Spec => ImplementsSlot
<1>1. Init => Slot!Init
  BY DEF Init, Slot!Init, Ended
<1>2. ConnInv /\ [Next]_vars => [Slot!Next]_Slot!vars
  BY SlotStep
<1>3. ConnInv /\ ListedInv => ConnInv
  OBVIOUS
<1> QED
  BY <1>1, <1>2, <1>3, ConnectionInvariant, PTL DEF Spec, ImplementsSlot, Slot!Spec

================================================================================
