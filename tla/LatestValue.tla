----------------------------- MODULE LatestValue -----------------------------
(***************************************************************************)
(* What the event service of lab 2 promises: for each topic a mailbox with *)
(* room for one message, in which a new message replaces one that has not  *)
(* been handled, and a task that handles what it finds there, once.        *)
(***************************************************************************)
EXTENDS Sequences

CONSTANTS Topic, Msg, NoMsg, TopicOf

VARIABLES
  fresh,    \* messages not yet put into a mailbox
  mailbox,  \* mailbox[t]: the message to be handled next, or NoMsg
  handled   \* handled[t]: what the task of the topic has handled, in order

mailVars == <<fresh, mailbox, handled>>

Init ==
  /\ fresh = Msg
  /\ mailbox = [t \in Topic |-> NoMsg]
  /\ handled = [t \in Topic |-> <<>>]

Put(m) ==
  /\ m \in fresh
  /\ TopicOf[m] \in Topic
  /\ fresh' = fresh \ {m}
  /\ mailbox' = [mailbox EXCEPT ![TopicOf[m]] = m]
  /\ UNCHANGED handled

Handle(t) ==
  /\ mailbox[t] # NoMsg
  /\ handled' = [handled EXCEPT ![t] = Append(@, mailbox[t])]
  /\ mailbox' = [mailbox EXCEPT ![t] = NoMsg]
  /\ UNCHANGED fresh

Next == (\E m \in Msg : Put(m)) \/ (\E t \in Topic : Handle(t))

Spec == Init /\ [][Next]_mailVars

===============================================================================
