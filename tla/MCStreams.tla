------------------------------- MODULE MCStreams -------------------------------
(***************************************************************************)
(* Streams with the three services, two publishers, two subscribers and    *)
(* two numbers instead of ten.                                           *)
(***************************************************************************)
EXTENDS Streams

CONSTANTS p1, p2, s1, s2

MCPublisher == {p1, p2}
MCSubscriber == {s1, s2}
MCSection == {"4.4", "4.5", "4.6"}

===============================================================================
