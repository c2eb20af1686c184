------------------------------ MODULE MCSuppliers ------------------------------
(***************************************************************************)
(* Suppliers with two suppliers, for which everything may fail that the    *)
(* code allows for.                                                        *)
(***************************************************************************)
EXTENDS Suppliers

MCFailures == {"create", "setup", "push", "sigint"}

===============================================================================
