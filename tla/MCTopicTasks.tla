----------------------------- MODULE MCTopicTasks -----------------------------
(***************************************************************************)
(* Small instances of TopicTasks for TLC: two of the three topics, two     *)
(* publishers, three messages of a topic and one that no task knows.       *)
(***************************************************************************)
EXTENDS TopicTasks, TLC

CONSTANTS p1, p2, m1, m2, m3, m4

MCTaskOrder == <<"High", "Low">>
MCMsg       == {m1, m2, m3, m4}
MCStream    == (p1 :> <<m1, m4, m3>>) @@ (p2 :> <<m2>>)
MCTopicOf   == (m1 :> "High") @@ (m2 :> "High") @@ (m3 :> "Low")
               @@ (m4 :> "unidentified")

===============================================================================
