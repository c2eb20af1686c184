----------------------------- MODULE MCEdfChannel -----------------------------
(***************************************************************************)
(* Small instances of EdfChannel for TLC.  Four events: e1 has the latest  *)
(* deadline, e2 and e3 tie, and e4 comes from a source push does not know. *)
(***************************************************************************)
EXTENDS EdfChannel, TLC

CONSTANTS e1, e2, e3, e4

MCSupplier == {0, 1, 5}
MCEvent    == {e1, e2, e3, e4}
MCSource   == (e1 :> 0) @@ (e2 :> 1) @@ (e3 :> 0) @@ (e4 :> 5)
MCStart    == (e1 :> 50000) @@ (e2 :> 50000) @@ (e3 :> 0) @@ (e4 :> 0)

\* The smaller instance of the run of the start: known sources only.
FewSupplier == {0, 1}
FewEvent    == {e1, e2}
FewSource   == (e1 :> 0) @@ (e2 :> 1)
FewStart    == (e1 :> 50000) @@ (e2 :> 50000)

===============================================================================
