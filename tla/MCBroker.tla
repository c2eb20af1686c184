------------------------------- MODULE MCBroker -------------------------------
(***************************************************************************)
(* Small instances of Broker for TLC: two publishers, three messages of    *)
(* two topics, three subscribers for two slots.                            *)
(***************************************************************************)
EXTENDS Broker, TLC

CONSTANTS p1, p2, m1, m2, m3, s1, s2, s3

MCMsg     == {m1, m2, m3}
MCStream  == (p1 :> <<m1, m2>>) @@ (p2 :> <<m3>>)
MCTopicOf == (m1 :> 0) @@ (m2 :> 0) @@ (m3 :> 1)
\* m2 was created later than m1 and is due after m3.
MCStamp   == (m1 :> 0) @@ (m2 :> 3) @@ (m3 :> 1)
MCPeriod  == (0 :> 2) @@ (1 :> 3)

\* One message of each publisher for two calls of Subscribe, one for each topic,
\* and one message for three calls, of which one finds no slot if no two overlap.
FewStream == (p1 :> <<m1>>) @@ (p2 :> <<m3>>)
OneStream == (p1 :> <<m1>>) @@ (p2 :> <<>>)

MCSetups ==
  {[strategy |-> st, stream |-> MCStream, calls |-> {s1}] :
     st \in {"EDF", "RM", "FIFO"}}
  \cup {[strategy |-> "EDF", stream |-> FewStream, calls |-> {s1, s2}],
        [strategy |-> "EDF", stream |-> OneStream, calls |-> {s1, s2, s3}]}

MCWants   == (s1 :> 0) @@ (s2 :> 1) @@ (s3 :> 0)

===============================================================================
