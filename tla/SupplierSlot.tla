------------------------------ MODULE SupplierSlot ------------------------------
(***************************************************************************)
(* What a consumer proxy promises its suppliers: one place, taken by at    *)
(* most one supplier at a time, by each only once.  The supplier a         *)
(* disconnect takes out is called back, once, if the channel does          *)
(* callbacks; the one a reconnection replaces is not.                      *)
(***************************************************************************)
CONSTANTS Supplier, Nil

VARIABLES callbacks, conn, ended, told

vars == <<callbacks, conn, ended, told>>

Init == callbacks \in BOOLEAN /\ conn = Nil /\ ended = {} /\ told = {}

Connect(s) ==
  /\ conn = Nil /\ s \notin ended \cup told
  /\ conn' = s
  /\ UNCHANGED <<callbacks, ended, told>>

Replace ==
  /\ conn # Nil
  /\ conn' = Nil
  /\ UNCHANGED <<callbacks, ended, told>>

Disconnect ==
  /\ conn # Nil
  /\ conn' = Nil
  /\ ended' = ended \cup {conn}
  /\ UNCHANGED <<callbacks, told>>

Tell(s) ==
  /\ callbacks /\ s \in ended
  /\ ended' = ended \ {s}
  /\ told' = told \cup {s}
  /\ UNCHANGED <<callbacks, conn>>

Forget(s) ==
  /\ ~ callbacks /\ s \in ended
  /\ ended' = ended \ {s}
  /\ UNCHANGED <<callbacks, conn, told>>

Next ==
  \/ Replace \/ Disconnect
  \/ \E s \in Supplier : Connect(s) \/ Tell(s) \/ Forget(s)

Spec == Init /\ [][Next]_vars

=================================================================================
