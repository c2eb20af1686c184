----------------------------- MODULE MCTimeClient -----------------------------
(***************************************************************************)
(* Small instances of TimeClient for TLC: two threads, as in the code, and *)
(* three rounds instead of fifteen.                                        *)
(***************************************************************************)
EXTENDS TimeClient

===============================================================================
