--------------------------- MODULE MCEdfFifoChannel ---------------------------
(***************************************************************************)
(* Small instances of EdfFifoChannel for TLC, with the events of           *)
(* MCEdfChannel.                                                           *)
(***************************************************************************)
EXTENDS EdfFifoChannel, TLC

CONSTANTS e1, e2, e3, e4

MCSupplier == {0, 1, 5}
MCEvent    == {e1, e2, e3, e4}
MCSource   == (e1 :> 0) @@ (e2 :> 1) @@ (e3 :> 0) @@ (e4 :> 5)
MCStart    == (e1 :> 50000) @@ (e2 :> 50000) @@ (e3 :> 0) @@ (e4 :> 0)

===============================================================================
