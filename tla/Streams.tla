-------------------------------- MODULE Streams --------------------------------
(***************************************************************************)
(* The first event services of lab 2, prev/spring2020/lab2/exampleAnswers, *)
(* with their publishers and subscribers: the server of section 4.4 sends  *)
(* every subscriber a fixed sequence of data, that of 4.5 prints what is   *)
(* published, and that of 4.6 forwards it to the last subscriber.  (The    *)
(* server of 4.7 is module TopicTasks.)  es_pub.cc and es_sub.cc are the   *)
(* same in every section, and their classes are those of lab 3.            *)
(*                                                                         *)
(* Outside src/ is gRPC: a call runs on a thread of the server; its stream *)
(* is a sequence from the one side to the other; Write is false only when  *)
(* the call is over; Read waits, and is false when the stream is closed    *)
(* and read; Finish waits for the end of the call.  Each publisher         *)
(* publishes one piece of data, which stands for it.                       *)
(***************************************************************************)
EXTENDS Integers, Sequences, Functions

CONSTANTS Publisher, Subscriber, Nobody,
          Section,  \* the services considered, of "4.4", "4.5" and "4.6"
          Count     \* what a subscriber of 4.4 gets, ten in the source

ASSUME StreamsAssumption ==
  /\ Nobody \notin Subscriber
  /\ Section \subseteq {"4.4", "4.5", "4.6"}
  /\ Count \in Nat

VARIABLES
  section,    \* the service that runs
  server,     \* "off", "on" or "crashed"
  writer_,    \* the subscriber whose stream Publish writes to, or Nobody
  pub,        \* pub[p]: where the publisher is
  up,         \* up[p]: the stream of Publish, and whether it is closed
  publish,    \* publish[p]: where the call of Publish is
  sub,        \* sub[s]: where the subscriber is
  down,       \* down[s]: the stream of Subscribe
  subscribe,  \* subscribe[s]: where the call of Subscribe is
  received,   \* received[s]: what the subscriber has printed
  printed,    \* what the server has printed of the publishers
  stale       \* history: a writer was used after its call

pubVars == <<pub, up, publish>>
subVars == <<sub, down, subscribe, received>>
streamVars == <<section, server, writer_, pubVars, subVars, printed, stale>>

On == server = "on"

StreamInit ==
  /\ section \in Section /\ server = "off" /\ writer_ = Nobody
  /\ pub = [p \in Publisher |-> "start"]
  /\ up = [p \in Publisher |-> [data |-> <<>>, closed |-> FALSE]]
  /\ publish = [p \in Publisher |-> "none"]
  /\ sub = [s \in Subscriber |-> "start"]
  /\ down = [s \in Subscriber |-> <<>>]
  /\ subscribe = [s \in Subscriber |-> "none"]
  /\ received = [s \in Subscriber |-> <<>>]
  /\ printed = {} /\ stale = FALSE

-----------------------------------------------------------------------------
(* The publisher: es_pub.cc.                                               *)

\* The call may still be running as far as the publisher can tell.
CallAlive(p) == On /\ publish[p] \in {"call", "read", "forward"}

\* The constructor of class Publisher begins the call.
NewPublisher(p) ==
  /\ pub[p] = "start"
  /\ pub' = [pub EXCEPT ![p] = "write"]
  /\ publish' = [publish EXCEPT ![p] = IF On THEN "call" ELSE "lost"]
  /\ UNCHANGED <<section, server, writer_, up, subVars, printed, stale>>

\* Mutant: the stream is left open.
LeftOpen(stream) == stream

Closed(stream) == [stream EXCEPT !.closed = TRUE]

\* Publisher::Publish.  On a broken stream it gives up, and so does the program.
Publish(p) ==
  /\ pub[p] = "write"
  /\ \/ /\ up' = [up EXCEPT ![p].data = Append(@, p)]
        /\ pub' = [pub EXCEPT ![p] = "done"]
     \/ /\ ~ CallAlive(p)
        /\ up' = [up EXCEPT ![p] = Closed(@)]
        /\ pub' = [pub EXCEPT ![p] = "broken"]
  /\ UNCHANGED <<section, server, writer_, publish, subVars, printed, stale>>

\* Publisher::done, up to Finish.
done(p) ==
  /\ pub[p] = "done"
  /\ up' = [up EXCEPT ![p] = Closed(@)]
  /\ pub' = [pub EXCEPT ![p] = "finish"]
  /\ UNCHANGED <<section, server, writer_, publish, subVars, printed, stale>>

\* Finish, and the end of the program: its status is that of the call, if the
\* answer arrives before the server is gone.
FinishPublish(p) ==
  /\ pub[p] \in {"finish", "broken"}
  /\ \/ /\ publish[p] = "ok"
        /\ pub' = [pub EXCEPT ![p] = "finished"]
     \/ /\ publish[p] \in {"unimplemented", "lost"} \/ ~ On
        /\ pub' = [pub EXCEPT ![p] = "failed"]
  /\ UNCHANGED <<section, server, writer_, up, publish, subVars, printed, stale>>

-----------------------------------------------------------------------------
(* The subscriber: es_sub.cc.                                              *)

NewSubscriber(s) ==
  /\ sub[s] = "start"
  /\ sub' = [sub EXCEPT ![s] = "read"]
  /\ subscribe' = [subscribe EXCEPT ![s] = IF On THEN "call" ELSE "lost"]
  /\ UNCHANGED <<section, server, writer_, pubVars, down, received, printed,
                 stale>>

\* Mutant: if for while.
ReadOnce == "finish"

ReadAgain == "read"

\* The loop of Subscriber::Subscribe.  It ends with the stream, and the rest of
\* a stream whose server is gone may be lost.
ReadDown(s) ==
  /\ sub[s] = "read"
  /\ \/ /\ down[s] # <<>>
        /\ received' = [received EXCEPT ![s] = Append(@, Head(down[s]))]
        /\ down' = [down EXCEPT ![s] = Tail(@)]
        /\ sub' = [sub EXCEPT ![s] = ReadAgain]
     \/ /\ (down[s] = <<>> /\ subscribe[s] \in {"ok", "lost"}) \/ ~ On
        /\ sub' = [sub EXCEPT ![s] = "finish"]
        /\ UNCHANGED <<received, down>>
  /\ UNCHANGED <<section, server, writer_, pubVars, subscribe, printed, stale>>

\* Somebody ends the program, which may wait for an hour.
Quit(s) ==
  /\ sub[s] = "read"
  /\ sub' = [sub EXCEPT ![s] = "quit"]
  /\ UNCHANGED <<section, server, writer_, pubVars, down, subscribe, received,
                 printed, stale>>

\* Finish, whose status the program does not look at, and the sleep of main.
FinishSubscribe(s) ==
  /\ sub[s] = "finish"
  /\ sub' = [sub EXCEPT ![s] = "finished"]
  /\ UNCHANGED <<section, server, writer_, pubVars, down, subscribe, received,
                 printed, stale>>

-----------------------------------------------------------------------------
(* The server.                                                             *)

RunServer ==
  /\ server = "off"
  /\ server' = "on"
  /\ UNCHANGED <<section, writer_, pubVars, subVars, printed, stale>>

\* A subscriber that has gone is not written to: Write is false, and ignored.
Written(s, data) ==
  IF sub[s] = "read" THEN [down EXCEPT ![s] = Append(@, data)] ELSE down

\* Mutant: one turn too few.
TurnsShort(s) == Len(down[s]) + Len(received[s]) < Count - 1

TurnsLeft(s) == Len(down[s]) + Len(received[s]) < Count

\* Subscribe of section 4.4: one turn of its loop, or its end; the turns whose
\* Write is false leave no trace.
Subscribe44(s) ==
  /\ section = "4.4" /\ On /\ subscribe[s] = "call"
  /\ IF TurnsLeft(s) /\ sub[s] = "read"
       THEN /\ down' = Written(s, Len(down[s]) + Len(received[s]))
            /\ UNCHANGED subscribe
       ELSE subscribe' = [subscribe EXCEPT ![s] = "ok"] /\ UNCHANGED down
  /\ UNCHANGED <<section, server, writer_, pubVars, sub, received, printed,
                 stale>>

\* Section 4.4 does not override Publish.
Publish44(p) ==
  /\ section = "4.4" /\ On /\ publish[p] = "call"
  /\ publish' = [publish EXCEPT ![p] = "unimplemented"]
  /\ UNCHANGED <<section, server, writer_, pub, up, subVars, printed, stale>>

\* Subscribe of section 4.5 returns.
Subscribe45(s) ==
  /\ section = "4.5" /\ On /\ subscribe[s] = "call"
  /\ subscribe' = [subscribe EXCEPT ![s] = "ok"]
  /\ UNCHANGED <<section, server, writer_, pubVars, sub, down, received,
                 printed, stale>>

Taken(stream) == [stream EXCEPT !.data = Tail(@)]

\* Mutant: the call returns when the stream is closed, though it is not read.
ClosedOnly(stream) == stream.closed

AtEnd(stream) == stream.data = <<>> /\ stream.closed

\* reader->Read, and what is done with its outcome: the data is printed, or the
\* call returns.
Read(p, next) ==
  \/ /\ up[p].data # <<>>
     /\ printed' = printed \cup {Head(up[p].data)}
     /\ up' = [up EXCEPT ![p] = Taken(@)]
     /\ publish' = [publish EXCEPT ![p] = next]
  \/ /\ AtEnd(up[p])
     /\ publish' = [publish EXCEPT ![p] = "ok"]
     /\ UNCHANGED <<printed, up>>

\* Publish of section 4.5: one turn of its loop.
Publish45(p) ==
  /\ section = "4.5" /\ On /\ publish[p] \in {"call", "read"}
  /\ Read(p, "read")
  /\ UNCHANGED <<section, server, writer_, pub, subVars, stale>>

\* Subscribe of section 4.6 stores its writer and sleeps for an hour ...
Subscribe46(s) ==
  /\ section = "4.6" /\ On /\ subscribe[s] = "call"
  /\ writer_' = s
  /\ subscribe' = [subscribe EXCEPT ![s] = "sleep"]
  /\ UNCHANGED <<section, server, pubVars, sub, down, received, printed, stale>>

\* ... and returns, and leaves writer_ as it is.
SubscribeReturns(s) ==
  /\ On /\ subscribe[s] = "sleep"
  /\ subscribe' = [subscribe EXCEPT ![s] = "ok"]
  /\ UNCHANGED <<section, server, writer_, pubVars, sub, down, received,
                 printed, stale>>

Publish46(p) ==
  /\ section = "4.6" /\ On /\ publish[p] \in {"call", "read"}
  /\ Read(p, "forward")
  /\ UNCHANGED <<section, server, writer_, pub, subVars, stale>>

\* writer_->Write(td): nobody has subscribed yet, or the call of the writer is
\* over, and the pointer with it; whether that use crashes is left open.
Forward(p) ==
  /\ On /\ publish[p] = "forward"
  /\ \/ /\ writer_ # Nobody /\ subscribe[writer_] = "sleep"
        /\ down' = Written(writer_, p)
        /\ UNCHANGED <<server, stale>>
     \/ /\ writer_ = Nobody
        /\ server' = "crashed"
        /\ UNCHANGED <<down, stale>>
     \/ /\ writer_ # Nobody /\ subscribe[writer_] # "sleep"
        /\ stale' = TRUE /\ server' \in {"on", "crashed"}
        /\ UNCHANGED down
  /\ publish' = [publish EXCEPT ![p] = "read"]
  /\ UNCHANGED <<section, writer_, pub, up, sub, subscribe, received, printed>>

-----------------------------------------------------------------------------
PublisherNext(p) ==
  NewPublisher(p) \/ Publish(p) \/ done(p) \/ FinishPublish(p)

SubscriberNext(s) ==
  NewSubscriber(s) \/ ReadDown(s) \/ Quit(s) \/ FinishSubscribe(s)

PublishNext(p) == Publish44(p) \/ Publish45(p) \/ Publish46(p) \/ Forward(p)

SubscribeNext(s) == Subscribe44(s) \/ Subscribe45(s) \/ Subscribe46(s)

StreamNext ==
  \/ RunServer
  \/ \E p \in Publisher : PublisherNext(p) \/ PublishNext(p)
  \/ \E s \in Subscriber :
       SubscriberNext(s) \/ SubscribeNext(s) \/ SubscribeReturns(s)

StreamSpec == StreamInit /\ [][StreamNext]_streamVars

\* Every process and every thread of the server runs; when clients start, and
\* how long an hour is, is left open.
StreamFairSpec ==
  /\ StreamSpec
  /\ \A p \in Publisher :
       /\ WF_streamVars(Publish(p) \/ done(p) \/ FinishPublish(p))
       /\ WF_streamVars(PublishNext(p))
  /\ \A s \in Subscriber :
       /\ WF_streamVars(ReadDown(s) \/ FinishSubscribe(s))
       /\ WF_streamVars(SubscribeNext(s))

-----------------------------------------------------------------------------
StreamTypeOK ==
  /\ section \in Section /\ server \in {"off", "on", "crashed"}
  /\ writer_ \in Subscriber \cup {Nobody}
  /\ pub \in [Publisher ->
       {"start", "write", "done", "broken", "finish", "finished", "failed"}]
  /\ \A p \in Publisher : /\ up[p].data \in {<<>>, <<p>>}
                          /\ up[p].closed \in BOOLEAN
  /\ publish \in [Publisher ->
       {"none", "call", "read", "forward", "ok", "unimplemented", "lost"}]
  /\ sub \in [Subscriber -> {"start", "read", "quit", "finish", "finished"}]
  /\ subscribe \in [Subscriber -> {"none", "call", "sleep", "ok", "lost"}]
  /\ \A s \in Subscriber :
       Range(down[s] \o received[s]) \subseteq Publisher \cup 0 .. Count - 1
  /\ printed \subseteq Publisher /\ stale \in BOOLEAN

Gone == {s \in Subscriber : sub[s] = "quit"}

\* A publisher that prints "Finished." was heard: the server has printed its
\* data, and in section 4.6 has written it to the stream of a subscriber, unless
\* its writer was that of a subscriber gone or of a call already over.
FinishedMeansHeard ==
  \A p \in Publisher :
    pub[p] = "finished" =>
      /\ p \in printed
      /\ section = "4.6" =>
           \/ \E s \in Subscriber : p \in Range(down[s] \o received[s])
           \/ stale \/ Gone # {}

\* No data reaches two subscribers, or one of them twice (section 4.6).
ForwardedOnce ==
  \A s, t \in Subscriber :
    section = "4.6" =>
      /\ IsInjective(down[s] \o received[s])
      /\ s # t => Range(down[s] \o received[s])
                    \cap Range(down[t] \o received[t]) = {}

\* A subscriber of section 4.4 sees the numbers in order, and all of them if the
\* server is there to the end.
SequenceSeen ==
  \A s \in Subscriber :
    section = "4.4" =>
      /\ \A k \in 1 .. Len(received[s]) : received[s][k] = k - 1
      /\ sub[s] = "finished" /\ subscribe[s] = "ok" => Len(received[s]) = Count

\* What subscribers are sent, whole and once.
StreamInv == StreamTypeOK /\ SequenceSeen /\ ForwardedOnce

\* A program that publishes comes to its end: it and the call do not wait for
\* each other for ever (4.5 reads until the stream is closed).
PublishersEnd ==
  \A p \in Publisher :
    pub[p] = "write" ~> pub[p] \in {"finished", "failed"}

\* What a publisher was told is done is received in the end by a subscriber
\* (section 4.6).
ForwardedIsReceived ==
  \A p \in Publisher :
    section = "4.6" /\ pub[p] = "finished"
      ~> stale \/ server = "crashed" \/ Gone # {}
         \/ \E s \in Subscriber : p \in Range(received[s])

===============================================================================
