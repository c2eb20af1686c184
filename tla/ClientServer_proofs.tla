-------------------------- MODULE ClientServer_proofs --------------------------
(***************************************************************************)
(* Proofs about the programs of which a client and a server are modelled   *)
(* as a whole: the first event services of lab 2, for any number of        *)
(* publishers and subscribers and any length of the sequence; and the time *)
(* client of homework 5, for every number of threads and of rounds,        *)
(* whether or not calls of the server fail, provided the sleep of          *)
(* client.cpp lets each thread get the singleton before the next thread is *)
(* created.                                                                *)
(***************************************************************************)
EXTENDS Streams, TimeClient, FiniteSetTheorems, SequenceTheorems, TLAPS

-----------------------------------------------------------------------------
(* What a sequence holds, and that it holds it once.                       *)

\* A piece of data at the end of a stream.
LEMMA AtTheEnd ==
  ASSUME NEW S, NEW q \in Seq(S), NEW x \in S
  PROVE  /\ Append(q, x) \in Seq(S) /\ Len(Append(q, x)) = Len(q) + 1
         /\ \A k \in 1 .. Len(q) + 1 :
              Append(q, x)[k] = IF k <= Len(q) THEN q[k] ELSE x
         /\ Range(Append(q, x)) = Range(q) \cup {x}
         /\ IsInjective(q) /\ x \notin Range(q) => IsInjective(Append(q, x))
<1> DEFINE r == Append(q, x)
<1>1. /\ r \in Seq(S) /\ Len(r) = Len(q) + 1 /\ Len(q) \in Nat
      /\ DOMAIN q = 1 .. Len(q) /\ DOMAIN r = 1 .. Len(q) + 1
      /\ \A k \in 1 .. Len(q) + 1 : r[k] = IF k <= Len(q) THEN q[k] ELSE x
  OBVIOUS
<1> HIDE DEF r
<1>2. Range(r) = Range(q) \cup {x}
  <2>1. \A y \in Range(r) : y \in Range(q) \cup {x}
    BY <1>1 DEF Range
  <2>2. \A y \in Range(q) : y \in Range(r)
    BY <1>1 DEF Range
  <2>3. x \in Range(r)
    <3>1. Len(q) + 1 \in DOMAIN r /\ r[Len(q) + 1] = x
      BY <1>1
    <3> QED BY <3>1 DEF Range
  <2> QED BY <2>1, <2>2, <2>3
<1>3. ASSUME IsInjective(q), x \notin Range(q) PROVE IsInjective(r)
  <2> SUFFICES ASSUME NEW a \in DOMAIN r, NEW b \in DOMAIN r, r[a] = r[b] PROVE a = b
    BY DEF IsInjective
  <2>1. \A c \in DOMAIN q : q[c] # x
    BY <1>3 DEF Range
  <2> QED BY <1>1, <1>3, <2>1 DEF IsInjective
<1> QED BY <1>1, <1>2, <1>3 DEF r

\* A piece of data at the head of a stream.
LEMMA AtTheHead ==
  ASSUME NEW S, NEW q \in Seq(S), q # <<>>
  PROVE  /\ Head(q) \in S /\ Tail(q) \in Seq(S) /\ Len(Tail(q)) = Len(q) - 1
         /\ Len(q) \in Nat \ {0} /\ Head(q) = q[1]
         /\ \A k \in 1 .. Len(q) - 1 : Tail(q)[k] = q[k + 1]
         /\ Range(q) = Range(Tail(q)) \cup {Head(q)}
         /\ IsInjective(q) => IsInjective(Tail(q)) /\ Head(q) \notin Range(Tail(q))
<1> DEFINE r == Tail(q)  x == Head(q)
<1>1. /\ x \in S /\ r \in Seq(S) /\ Len(r) = Len(q) - 1 /\ Len(q) \in Nat \ {0}
      /\ DOMAIN q = 1 .. Len(q) /\ DOMAIN r = 1 .. Len(q) - 1 /\ x = q[1]
      /\ \A k \in 1 .. Len(q) - 1 : r[k] = q[k + 1]
  BY HeadTailProperties, EmptySeq
<1> HIDE DEF r, x
<1>2. Range(q) = Range(r) \cup {x}
  <2>1. ASSUME NEW y \in Range(q) PROVE y \in Range(r) \cup {x}
    <3>1. PICK k \in 1 .. Len(q) : y = q[k]
      BY <1>1 DEF Range
    <3>2. CASE k = 1
      BY <3>1, <3>2, <1>1
    <3>3. CASE k # 1
      <4>1. k - 1 \in DOMAIN r /\ r[k - 1] = q[(k - 1) + 1] /\ (k - 1) + 1 = k
        BY <3>1, <3>3, <1>1
      <4> QED BY <3>1, <4>1 DEF Range
    <3> QED BY <3>2, <3>3
  <2>2. \A y \in Range(r) : y \in Range(q)
    <3>1. \A k \in DOMAIN r : k + 1 \in DOMAIN q /\ r[k] = q[k + 1]
      BY <1>1
    <3> QED BY <3>1 DEF Range
  <2>3. x \in Range(q)
    <3>1. 1 \in DOMAIN q
      BY <1>1
    <3> QED BY <3>1, <1>1 DEF Range
  <2> QED BY <2>1, <2>2, <2>3
<1>3. ASSUME IsInjective(q) PROVE IsInjective(r) /\ x \notin Range(r)
  <2>1. \A k \in DOMAIN r : k + 1 \in DOMAIN q /\ r[k] = q[k + 1] /\ k \in Nat \ {0}
    BY <1>1
  <2>2. 1 \in DOMAIN q
    BY <1>1
  <2>3. IsInjective(r)
    <3> SUFFICES ASSUME NEW a \in DOMAIN r, NEW b \in DOMAIN r, r[a] = r[b] PROVE a = b
      BY DEF IsInjective
    <3>1. q[a + 1] = q[b + 1] /\ a + 1 \in DOMAIN q /\ b + 1 \in DOMAIN q
      BY <2>1
    <3>2. a + 1 = b + 1
      BY <3>1, <1>3 DEF IsInjective
    <3> QED BY <3>2, <2>1
  <2>4. x \notin Range(r)
    <3> SUFFICES ASSUME NEW k \in DOMAIN r, r[k] = x PROVE FALSE
      BY DEF Range
    <3>1. k + 1 = 1
      BY <2>1, <2>2, <1>1, <1>3 DEF IsInjective
    <3> QED BY <3>1, <2>1
  <2> QED BY <2>3, <2>4
<1> QED BY <1>1, <1>2, <1>3 DEF r, x

\* Two streams, one after the other.
LEMMA Concatenated ==
  ASSUME NEW S, NEW q \in Seq(S), NEW r \in Seq(S)
  PROVE  /\ Range(q) \subseteq S /\ Range(r) \subseteq S
         /\ Range(q \o r) = Range(q) \cup Range(r)
         /\ IsInjective(q) /\ IsInjective(r) /\ Range(q) \cap Range(r) = {}
              => IsInjective(q \o r)
<1> DEFINE u == q \o r
<1>1. /\ u \in Seq(S) /\ Len(q) \in Nat /\ Len(r) \in Nat
      /\ DOMAIN q = 1 .. Len(q) /\ DOMAIN r = 1 .. Len(r)
      /\ DOMAIN u = 1 .. Len(q) + Len(r)
      /\ \A k \in 1 .. Len(q) + Len(r) :
           u[k] = IF k <= Len(q) THEN q[k] ELSE r[k - Len(q)]
  BY LenProperties, ConcatProperties
<1>2. Range(q) \subseteq S /\ Range(r) \subseteq S
  <2>1. (\A k \in DOMAIN q : q[k] \in S) /\ (\A k \in DOMAIN r : r[k] \in S)
    BY <1>1, ElementOfSeq
  <2> QED BY <2>1 DEF Range
<1>3. Range(u) = Range(q) \cup Range(r)
  BY RangeConcatenation
<1> HIDE DEF u
<1>4. ASSUME IsInjective(q), IsInjective(r), Range(q) \cap Range(r) = {}
      PROVE  IsInjective(u)
  <2> SUFFICES ASSUME NEW a \in DOMAIN u, NEW b \in DOMAIN u, u[a] = u[b] PROVE a = b
    BY DEF IsInjective
  <2>1. \A c \in DOMAIN q, d \in DOMAIN r : q[c] # r[d]
    BY <1>4 DEF Range
  <2>2. a \in 1 .. Len(q) + Len(r) /\ b \in 1 .. Len(q) + Len(r)
    BY <1>1
  <2>3. CASE a <= Len(q) /\ b <= Len(q)
    BY <1>1, <1>4, <2>2, <2>3 DEF IsInjective
  <2>4. CASE a > Len(q) /\ b > Len(q)
    <3>1. a - Len(q) \in DOMAIN r /\ b - Len(q) \in DOMAIN r
      BY <1>1, <2>2, <2>4
    <3>2. r[a - Len(q)] = r[b - Len(q)]
      BY <1>1, <2>2, <2>4
    <3>3. a - Len(q) = b - Len(q)
      BY <1>4, <3>1, <3>2 DEF IsInjective
    <3> QED BY <3>3, <1>1, <2>2
  <2>5. CASE a <= Len(q) /\ b > Len(q)
    <3>1. a \in DOMAIN q /\ b - Len(q) \in DOMAIN r /\ q[a] = r[b - Len(q)]
      BY <1>1, <2>2, <2>5
    <3> QED BY <3>1, <2>1
  <2>6. CASE a > Len(q) /\ b <= Len(q)
    <3>1. b \in DOMAIN q /\ a - Len(q) \in DOMAIN r /\ q[b] = r[a - Len(q)]
      BY <1>1, <2>2, <2>6
    <3> QED BY <3>1, <2>1
  <2> QED BY <1>1, <2>2, <2>3, <2>4, <2>5, <2>6
<1> QED BY <1>2, <1>3, <1>4 DEF u

-----------------------------------------------------------------------------
(* The streams of lab 2: the inductive invariant.                          *)

Data == Publisher \cup 0 .. Count - 1

StreamTypes ==
  /\ section \in Section /\ server \in {"off", "on", "crashed"}
  /\ writer_ \in Subscriber \cup {Nobody}
  /\ pub \in [Publisher ->
       {"start", "write", "done", "broken", "finish", "finished", "failed"}]
  /\ up \in [Publisher -> [data : Seq(Publisher), closed : BOOLEAN]]
  /\ \A p \in Publisher : up[p].data \in {<<>>, <<p>>}
  /\ publish \in [Publisher ->
       {"none", "call", "read", "forward", "ok", "unimplemented", "lost"}]
  /\ sub \in [Subscriber -> {"start", "read", "quit", "finish", "finished"}]
  /\ subscribe \in [Subscriber -> {"none", "call", "sleep", "ok", "lost"}]
  /\ down \in [Subscriber -> Seq(Data)]
  /\ received \in [Subscriber -> Seq(Data)]
  /\ printed \subseteq Publisher /\ stale \in BOOLEAN

\* Where publisher p is, its stream, its call, and whether its data is printed.
PubOK(p) ==
  /\ pub[p] = "start" <=> publish[p] = "none"
  /\ pub[p] \in {"start", "write"} =>
       /\ up[p].data = <<>> /\ ~ up[p].closed
       /\ publish[p] \in {"none", "call", "unimplemented", "lost"}
  /\ pub[p] \in {"done", "finish"} => up[p].data = <<p>> \/ p \in printed
  /\ up[p].closed => pub[p] \in {"finish", "finished", "broken", "failed"}
  /\ pub[p] \in {"broken", "failed"} =>
       publish[p] \in {"unimplemented", "lost"} \/ server = "crashed"
  /\ pub[p] = "finished" => publish[p] = "ok"
  /\ server = "off" => publish[p] \in {"none", "lost"}
  /\ p \in printed => up[p].data = <<>> /\ pub[p] \notin {"start", "write"}
  /\ publish[p] = "ok" => p \in printed
  /\ publish[p] \in {"none", "call"} => p \notin printed

\* What subscriber s was sent.
Told(s) == Range(down[s]) \cup Range(received[s])
Heard(p) == \E s \in Subscriber : p \in Told(s)

\* Section 4.6 forwards what it has printed, before it reads on.
HeardOK(p) ==
  /\ publish[p] = "forward" => section = "4.6" /\ p \in printed
  /\ section = "4.6" =>
       /\ Heard(p) => p \in printed /\ publish[p] \in {"read", "ok"}
       /\ p \in printed /\ publish[p] \in {"read", "ok"} =>
            \/ Heard(p) \/ stale \/ Gone # {}
            \/ publish[p] = "read" /\ server = "crashed"

\* No two places hold the same data.
OnceInv ==
  section = "4.6" =>
    \A s \in Subscriber :
      /\ IsInjective(down[s]) /\ IsInjective(received[s])
      /\ Range(down[s]) \cap Range(received[s]) = {}
      /\ \A t \in Subscriber : s # t => Told(s) \cap Told(t) = {}

\* A subscriber whose call runs reads, or has gone.
SubOK(s) ==
  /\ sub[s] = "start" <=> subscribe[s] = "none"
  /\ server = "off" => subscribe[s] \in {"none", "lost"}
  /\ On /\ subscribe[s] \in {"call", "sleep"} => sub[s] \in {"read", "quit"}
  /\ subscribe[s] = "sleep" => section = "4.6"

\* The stream of section 4.4 goes on where the subscriber is.
SequenceOK(s) ==
  /\ \A k \in 1 .. Len(received[s]) : received[s][k] = k - 1
  /\ \A k \in 1 .. Len(down[s]) : down[s][k] = Len(received[s]) + k - 1
  /\ Len(down[s]) + Len(received[s]) <= Count
  /\ subscribe[s] = "ok" /\ sub[s] = "read" => Len(down[s]) + Len(received[s]) = Count
  /\ subscribe[s] = "ok" /\ sub[s] \in {"finish", "finished"} => Len(received[s]) = Count

SequenceInv ==
  section = "4.4" => server # "crashed" /\ \A s \in Subscriber : SequenceOK(s)

StreamInd ==
  /\ StreamTypes
  /\ \A p \in Publisher : PubOK(p) /\ HeardOK(p)
  /\ OnceInv
  /\ \A s \in Subscriber : SubOK(s)
  /\ SequenceInv

-----------------------------------------------------------------------------
(* What a step leaves alone.                                               *)

\* The server begins, goes on, or crashes.
ServerGoesOn ==
  \/ server' = server
  \/ server = "off" /\ server' = "on"
  \/ server = "on" /\ server' = "crashed"

LEMMA PubFrame ==
  ASSUME NEW p \in Publisher, PubOK(p), ServerGoesOn,
         pub'[p] = pub[p], up'[p] = up[p], publish'[p] = publish[p],
         p \in printed' <=> p \in printed
  PROVE  PubOK(p)'
BY DEF PubOK, ServerGoesOn

LEMMA HeardFrame ==
  ASSUME NEW p \in Publisher, HeardOK(p), ServerGoesOn, section' = section,
         publish'[p] = publish[p], p \in printed' <=> p \in printed,
         Heard(p)' <=> Heard(p), stale => stale', Gone # {} => Gone' # {}
  PROVE  HeardOK(p)'
BY DEF HeardOK, ServerGoesOn

LEMMA SubFrame ==
  ASSUME NEW s \in Subscriber, SubOK(s), ServerGoesOn, section' = section,
         sub'[s] = sub[s], subscribe'[s] = subscribe[s]
  PROVE  SubOK(s)'
BY DEF SubOK, ServerGoesOn, On

\* A step of a publisher, or of its call, that sends nothing to a subscriber.
LEMMA PublisherFrame ==
  ASSUME StreamInd, UNCHANGED <<section, server, subVars, stale>>,
         StreamTypes', \A p \in Publisher : (PubOK(p) /\ HeardOK(p))'
  PROVE  StreamInd'
<1>1. OnceInv'
  BY DEF StreamInd, OnceInv, Told, subVars
<1>2. \A s \in Subscriber : SubOK(s)'
  BY DEF StreamInd, SubOK, subVars, On
<1>3. SequenceInv'
  BY DEF StreamInd, SequenceInv, SequenceOK, subVars
<1> QED BY <1>1, <1>2, <1>3 DEF StreamInd

\* A step of a subscriber, or of its call, that takes nothing from it.
LEMMA SubscriberFrame ==
  ASSUME StreamInd, UNCHANGED <<section, server, pubVars, down, received, printed, stale>>,
         StreamTypes', Gone # {} => Gone' # {}, \A s \in Subscriber : SubOK(s)',
         section = "4.4" => \A s \in Subscriber : SequenceOK(s)'
  PROVE  StreamInd'
<1>1. OnceInv'
  BY DEF StreamInd, OnceInv, Told
<1>2. ASSUME NEW p \in Publisher PROVE (PubOK(p) /\ HeardOK(p))'
  <2>1. ServerGoesOn /\ (Heard(p)' <=> Heard(p))
    BY DEF ServerGoesOn, Heard, Told
  <2> QED BY <2>1, PubFrame, HeardFrame DEF StreamInd, pubVars
<1>3. SequenceInv'
  BY DEF StreamInd, SequenceInv
<1> QED BY <1>1, <1>2, <1>3 DEF StreamInd

-----------------------------------------------------------------------------
(* The steps of the publisher and of its call.                             *)

LEMMA StreamInitHolds == StreamInit => StreamInd
<1> SUFFICES ASSUME StreamInit PROVE StreamInd
  OBVIOUS
<1> USE DEF StreamInit
<1>1. StreamTypes
  <2>1. <<>> \in Seq(Publisher) /\ <<>> \in Seq(Data)
    OBVIOUS
  <2>2. up \in [Publisher -> [data : Seq(Publisher), closed : BOOLEAN]]
    BY <2>1
  <2>3. down \in [Subscriber -> Seq(Data)] /\ received \in [Subscriber -> Seq(Data)]
    BY <2>1
  <2> QED BY <2>2, <2>3 DEF StreamTypes
<1>2. \A s \in Subscriber : down[s] = <<>> /\ received[s] = <<>>
  OBVIOUS
<1>3. Range(<<>>) = {} /\ IsInjective(<<>>) /\ Len(<<>>) = 0
  BY DEF Range, IsInjective
<1>4. \A s \in Subscriber : Told(s) = {}
  BY <1>2, <1>3 DEF Told
<1>5. \A p \in Publisher : PubOK(p) /\ HeardOK(p)
  BY <1>4 DEF PubOK, HeardOK, Heard
<1>6. OnceInv
  BY <1>2, <1>3, <1>4 DEF OnceInv
<1>7. \A s \in Subscriber : SubOK(s)
  BY DEF SubOK, On
<1>8. SequenceInv
  BY <1>2, <1>3, StreamsAssumption DEF SequenceInv, SequenceOK
<1> QED BY <1>1, <1>5, <1>6, <1>7, <1>8 DEF StreamInd

LEMMA PublisherHolds ==
  ASSUME StreamInd, NEW p \in Publisher, PublisherNext(p)
  PROVE  StreamInd'
<1>1. /\ UNCHANGED <<section, server, writer_, subVars, printed, stale>>
      /\ StreamTypes /\ ServerGoesOn
  BY DEF PublisherNext, NewPublisher, Publish, done, FinishPublish, StreamInd, ServerGoesOn
<1>2. /\ \A q \in Publisher \ {p} :
           pub'[q] = pub[q] /\ up'[q] = up[q] /\ publish'[q] = publish[q]
  BY <1>1 DEF PublisherNext, NewPublisher, Publish, done, FinishPublish, StreamTypes
<1>3. \A q \in Publisher : Heard(q)' <=> Heard(q)
  BY <1>1 DEF Heard, Told, subVars
<1>4. Gone' = Gone
  BY <1>1 DEF Gone, subVars
<1>5. StreamTypes'
  <2>1. <<p>> \in Seq(Publisher)
    OBVIOUS
  <2>2. CASE NewPublisher(p)
    BY <1>1, <2>2 DEF NewPublisher, StreamTypes, subVars
  <2>3. CASE Publish(p)
    <3>1. PubOK(p) /\ pub[p] = "write"
      BY <2>3 DEF Publish, StreamInd
    <3>2. up[p].data = <<>>
      BY <3>1 DEF PubOK
    <3>3. Append(up[p].data, p) = <<p>>
      BY <3>2
    <3>4. \/ up' = [up EXCEPT ![p].data = <<p>>]
          \/ up' = [up EXCEPT ![p] = [@ EXCEPT !.closed = TRUE]]
      BY <2>3, <3>3 DEF Publish, Closed
    <3>5. up' \in [Publisher -> [data : Seq(Publisher), closed : BOOLEAN]]
      BY <1>1, <2>1, <3>4 DEF StreamTypes
    <3>6. up'[p].data \in {<<>>, <<p>>}
      BY <1>1, <3>2, <3>4 DEF StreamTypes
    <3>7. \A q \in Publisher : up'[q].data \in {<<>>, <<q>>}
      BY <1>1, <1>2, <3>6 DEF StreamTypes
    <3>8. /\ publish' = publish
          /\ pub' \in [Publisher ->
               {"start", "write", "done", "broken", "finish", "finished", "failed"}]
      BY <1>1, <2>3 DEF Publish, StreamTypes
    <3> QED BY <1>1, <3>5, <3>7, <3>8 DEF StreamTypes, subVars
  <2>4. CASE done(p)
    BY <1>1, <2>4 DEF done, Closed, StreamTypes, subVars
  <2>5. CASE FinishPublish(p)
    BY <1>1, <2>5 DEF FinishPublish, StreamTypes, subVars
  <2> QED BY <2>2, <2>3, <2>4, <2>5 DEF PublisherNext
<1>6. PubOK(p)' /\ HeardOK(p)'
  <2>1. PubOK(p) /\ HeardOK(p)
    BY DEF StreamInd
  <2>2. CASE NewPublisher(p)
    BY <1>1, <1>3, <1>4, <2>1, <2>2 DEF NewPublisher, StreamTypes, PubOK, HeardOK, On
  <2>3. CASE Publish(p)
    <3>1. /\ pub[p] = "write" /\ up[p].data = <<>> /\ ~ up[p].closed
          /\ publish'[p] = publish[p]
      BY <2>1, <2>3 DEF Publish, PubOK
    <3>2. CASE up' = [up EXCEPT ![p].data = Append(@, p)] /\ pub' = [pub EXCEPT ![p] = "done"]
      <4>1. up[p].closed = FALSE /\ Append(up[p].data, p) = <<p>>
        BY <1>1, <3>1 DEF StreamTypes
      <4>2. up'[p].data = <<p>> /\ up'[p].closed = FALSE
        BY <1>1, <3>2, <4>1 DEF StreamTypes
      <4>3. pub'[p] = "done"
        BY <1>1, <3>2 DEF StreamTypes
      <4> QED BY <1>1, <1>3, <1>4, <2>1, <3>1, <4>2, <4>3 DEF PubOK, HeardOK
    <3>3. CASE /\ ~ CallAlive(p)
               /\ up' = [up EXCEPT ![p] = Closed(@)] /\ pub' = [pub EXCEPT ![p] = "broken"]
      <4>1. up'[p].data = <<>> /\ pub'[p] = "broken"
        BY <1>1, <3>1, <3>3 DEF StreamTypes, Closed
      <4>2. publish[p] \in {"unimplemented", "lost"} \/ server = "crashed"
        BY <1>1, <2>1, <3>1, <3>3 DEF CallAlive, On, StreamTypes, PubOK
      <4> QED BY <1>1, <1>3, <1>4, <2>1, <3>1, <4>1, <4>2 DEF PubOK, HeardOK
    <3> QED BY <2>3, <3>2, <3>3 DEF Publish
  <2>4. CASE done(p)
    BY <1>1, <1>3, <1>4, <2>1, <2>4 DEF done, Closed, StreamTypes, PubOK, HeardOK
  <2>5. CASE FinishPublish(p)
    BY <1>1, <1>3, <1>4, <2>1, <2>5 DEF FinishPublish, StreamTypes, PubOK, HeardOK, On
  <2> QED BY <2>2, <2>3, <2>4, <2>5 DEF PublisherNext
<1>7. ASSUME NEW q \in Publisher PROVE (PubOK(q) /\ HeardOK(q))'
  <2>1. CASE q = p
    BY <1>6, <2>1
  <2>2. CASE q # p
    BY <1>1, <1>2, <1>3, <1>4, <2>2, PubFrame, HeardFrame DEF StreamInd
  <2> QED BY <2>1, <2>2
<1> QED BY <1>1, <1>5, <1>7, PublisherFrame

\* reader->Read takes the one piece of data, or the call returns.
LEMMA CallHolds ==
  ASSUME StreamInd, NEW p \in Publisher,
         Publish44(p) \/ Publish45(p) \/ Publish46(p)
  PROVE  StreamInd'
<1>1. /\ UNCHANGED <<section, server, writer_, pub, subVars, stale>>
      /\ StreamTypes /\ ServerGoesOn /\ On /\ publish[p] \in {"call", "read"}
      /\ PubOK(p) /\ HeardOK(p)
  BY DEF Publish44, Publish45, Publish46, StreamInd, ServerGoesOn
<1>2. \A q \in Publisher : Heard(q)' <=> Heard(q)
  BY <1>1 DEF Heard, Told, subVars
<1>3. Gone' = Gone
  BY <1>1 DEF Gone, subVars
<1>4. \/ section = "4.4" /\ UNCHANGED <<up, printed>> /\ publish[p] = "call"
         /\ publish' = [publish EXCEPT ![p] = "unimplemented"]
      \/ /\ UNCHANGED <<up, printed>> /\ up[p].data = <<>> /\ up[p].closed
         /\ publish' = [publish EXCEPT ![p] = "ok"]
      \/ \E next \in {"read", "forward"} :
           /\ next = IF section = "4.6" THEN "forward" ELSE "read"
           /\ up[p].data = <<p>> /\ printed' = printed \cup {p}
           /\ up' = [up EXCEPT ![p].data = <<>>]
           /\ publish' = [publish EXCEPT ![p] = next]
  <2>1. CASE Publish44(p)
    BY <2>1 DEF Publish44
  <2>2. CASE \E next \in {"read", "forward"} :
                /\ next = IF section = "4.6" THEN "forward" ELSE "read"
                /\ Read(p, next)
    <3>1. PICK next \in {"read", "forward"} :
             /\ next = IF section = "4.6" THEN "forward" ELSE "read"
             /\ Read(p, next)
      BY <2>2
    <3>2. CASE AtEnd(up[p]) /\ publish' = [publish EXCEPT ![p] = "ok"]
               /\ UNCHANGED <<printed, up>>
      BY <3>2 DEF AtEnd
    <3>3. CASE /\ up[p].data # <<>>
               /\ printed' = printed \cup {Head(up[p].data)}
               /\ up' = [up EXCEPT ![p] = Taken(@)]
               /\ publish' = [publish EXCEPT ![p] = next]
      <4>1. up[p].data = <<p>>
        BY <1>1, <3>3 DEF StreamTypes
      <4>2. Head(up[p].data) = p /\ Tail(up[p].data) = <<>>
        BY <4>1
      <4>3. up' = [up EXCEPT ![p].data = <<>>]
        BY <3>3, <4>2 DEF Taken
      <4> QED BY <3>1, <3>3, <4>1, <4>2, <4>3
    <3> QED BY <3>1, <3>2, <3>3 DEF Read
  <2>3. CASE Publish45(p)
    BY <2>2, <2>3 DEF Publish45
  <2>4. CASE Publish46(p)
    BY <2>2, <2>4 DEF Publish46
  <2> QED BY <2>1, <2>3, <2>4
<1>5. CASE section = "4.4" /\ UNCHANGED <<up, printed>> /\ publish[p] = "call"
           /\ publish' = [publish EXCEPT ![p] = "unimplemented"]
  <2>1. publish'[p] = "unimplemented"
    BY <1>1, <1>5 DEF StreamTypes
  <2>2. PubOK(p)' /\ HeardOK(p)'
    BY <1>1, <1>5, <2>1 DEF PubOK, HeardOK, On
  <2>3. StreamTypes'
    BY <1>1, <1>5 DEF StreamTypes, subVars
  <2>4. ASSUME NEW q \in Publisher \ {p} PROVE (PubOK(q) /\ HeardOK(q))'
    <3>1. publish'[q] = publish[q]
      BY <1>1, <1>5 DEF StreamTypes
    <3> QED BY <1>1, <1>2, <1>3, <1>5, <3>1, PubFrame, HeardFrame DEF StreamInd
  <2> QED BY <1>1, <2>2, <2>3, <2>4, PublisherFrame
<1>6. CASE /\ UNCHANGED <<up, printed>> /\ up[p].data = <<>> /\ up[p].closed
           /\ publish' = [publish EXCEPT ![p] = "ok"]
  <2>1. publish'[p] = "ok"
    BY <1>1, <1>6 DEF StreamTypes
  <2>2. pub[p] = "finish" /\ <<p>> # <<>>
    BY <1>1, <1>6 DEF PubOK, On
  <2>3. p \in printed /\ publish[p] = "read"
    BY <1>1, <1>6, <2>2 DEF PubOK
  <2>4. PubOK(p)' /\ HeardOK(p)'
    BY <1>1, <1>2, <1>3, <1>6, <2>1, <2>2, <2>3 DEF PubOK, HeardOK, On
  <2>5. StreamTypes'
    BY <1>1, <1>6 DEF StreamTypes, subVars
  <2>6. ASSUME NEW q \in Publisher \ {p} PROVE (PubOK(q) /\ HeardOK(q))'
    <3>1. publish'[q] = publish[q]
      BY <1>1, <1>6 DEF StreamTypes
    <3> QED BY <1>1, <1>2, <1>3, <1>6, <3>1, PubFrame, HeardFrame DEF StreamInd
  <2> QED BY <1>1, <2>4, <2>5, <2>6, PublisherFrame
<1>7. CASE \E next \in {"read", "forward"} :
              /\ next = IF section = "4.6" THEN "forward" ELSE "read"
              /\ up[p].data = <<p>> /\ printed' = printed \cup {p}
              /\ up' = [up EXCEPT ![p].data = <<>>]
              /\ publish' = [publish EXCEPT ![p] = next]
  <2>1. PICK next \in {"read", "forward"} :
              /\ next = IF section = "4.6" THEN "forward" ELSE "read"
              /\ up[p].data = <<p>> /\ printed' = printed \cup {p}
              /\ up' = [up EXCEPT ![p].data = <<>>]
              /\ publish' = [publish EXCEPT ![p] = next]
    BY <1>7
  <2>2. /\ publish'[p] = next /\ up'[p].data = <<>> /\ up'[p].closed = up[p].closed
        /\ p \in printed'
    BY <1>1, <2>1 DEF StreamTypes
  <2>3. p \notin printed /\ pub[p] \notin {"start", "write", "broken", "failed", "finished"}
    <3>1. <<p>> # <<>>
      OBVIOUS
    <3> QED BY <1>1, <2>1, <3>1 DEF PubOK, On
  <2>4. PubOK(p)'
    BY <1>1, <2>2, <2>3 DEF PubOK, On
  <2>5. HeardOK(p)'
    BY <1>1, <1>2, <2>1, <2>2, <2>3 DEF HeardOK
  <2>6. StreamTypes'
    <3>1. <<>> \in Seq(Publisher)
      OBVIOUS
    <3>2. /\ up' \in [Publisher -> [data : Seq(Publisher), closed : BOOLEAN]]
          /\ \A q \in Publisher : up'[q].data \in {<<>>, <<q>>}
      BY <1>1, <2>1, <3>1 DEF StreamTypes
    <3> QED BY <1>1, <2>1, <3>2 DEF StreamTypes, subVars
  <2>7. ASSUME NEW q \in Publisher \ {p} PROVE (PubOK(q) /\ HeardOK(q))'
    <3>1. publish'[q] = publish[q] /\ up'[q] = up[q] /\ (q \in printed' <=> q \in printed)
      BY <1>1, <2>1 DEF StreamTypes
    <3> QED BY <1>1, <1>2, <1>3, <3>1, PubFrame, HeardFrame DEF StreamInd
  <2> QED BY <1>1, <2>4, <2>5, <2>6, <2>7, PublisherFrame
<1> QED BY <1>4, <1>5, <1>6, <1>7

-----------------------------------------------------------------------------
(* The steps of the subscriber and of its call.                            *)

\* What has been sent is in the stream or has been read.
LEMMA Sums ==
  \A sent, read, all \in Nat :
    /\ sent = 0 /\ sent + read = all => read = all
    /\ sent + read <= all /\ ~ (sent + read < all) => sent + read = all
OBVIOUS

LEMMA SequenceFrame ==
  ASSUME NEW s \in Subscriber, SequenceOK(s), UNCHANGED <<down, received>>,
         sub'[s] = sub[s], subscribe'[s] = subscribe[s]
  PROVE  SequenceOK(s)'
BY DEF SequenceOK

\* A subscriber, or its call, goes on, and nothing is sent or read.
LEMMA SubscriberHolds ==
  ASSUME StreamInd, NEW s \in Subscriber,
         \/ NewSubscriber(s) \/ Quit(s) \/ FinishSubscribe(s)
         \/ Subscribe45(s) \/ Subscribe46(s) \/ SubscribeReturns(s)
         \/ ReadDown(s) /\ UNCHANGED <<down, received>>
         \/ Subscribe44(s) /\ UNCHANGED down
  PROVE  StreamInd'
<1> DEFINE Begins == /\ sub[s] = "start" /\ sub' = [sub EXCEPT ![s] = "read"]
                     /\ subscribe' = [subscribe EXCEPT ![s] = IF On THEN "call" ELSE "lost"]
                     /\ writer_' = writer_
           Leaves == /\ sub[s] = "read" /\ sub' = [sub EXCEPT ![s] = "quit"]
                     /\ UNCHANGED <<subscribe, writer_>>
           Ends == /\ sub[s] = "finish" /\ sub' = [sub EXCEPT ![s] = "finished"]
                   /\ UNCHANGED <<subscribe, writer_>>
           Stops == /\ sub[s] = "read" /\ sub' = [sub EXCEPT ![s] = "finish"]
                    /\ (down[s] = <<>> /\ subscribe[s] \in {"ok", "lost"}) \/ ~ On
                    /\ UNCHANGED <<subscribe, writer_>>
           Returns == /\ On /\ subscribe[s] \in {"call", "sleep"}
                      /\ subscribe' = [subscribe EXCEPT ![s] = "ok"]
                      /\ section = "4.4" => subscribe[s] = "sleep" \/ ~ (TurnsLeft(s) /\ sub[s] = "read")
                      /\ UNCHANGED <<sub, writer_>>
           Sleeps == /\ section = "4.6" /\ On /\ subscribe[s] = "call" /\ writer_' = s
                     /\ subscribe' = [subscribe EXCEPT ![s] = "sleep"]
                     /\ UNCHANGED sub
<1>1. /\ UNCHANGED <<section, server, pubVars, down, received, printed, stale>>
      /\ StreamTypes /\ ServerGoesOn /\ SubOK(s)
      /\ section = "4.4" => server # "crashed" /\ SequenceOK(s)
  BY DEF NewSubscriber, Quit, FinishSubscribe, Subscribe45, Subscribe46, SubscribeReturns,
         ReadDown, Subscribe44, StreamInd, ServerGoesOn, SequenceInv
<1>2. Begins \/ Leaves \/ Ends \/ Stops \/ Returns \/ Sleeps
  <2>1. CASE ReadDown(s) /\ UNCHANGED <<down, received>>
    <3>1. CASE /\ down[s] # <<>>
               /\ received' = [received EXCEPT ![s] = Append(@, Head(down[s]))]
      <4>1. received[s] \in Seq(Data) /\ down[s] \in Seq(Data) /\ received'[s] = Append(received[s], Head(down[s]))
        BY <1>1, <3>1 DEF StreamTypes
      <4>2. Len(Append(received[s], Head(down[s]))) = Len(received[s]) + 1
            /\ Len(received[s]) \in Nat
        BY <3>1, <4>1, AtTheHead, AtTheEnd
      <4>3. received'[s] = received[s]
        BY <2>1
      <4> QED BY <4>1, <4>2, <4>3
    <3> QED BY <2>1, <3>1 DEF ReadDown
  <2>2. CASE Subscribe44(s) /\ UNCHANGED down
    <3>1. CASE TurnsLeft(s) /\ sub[s] = "read"
      <4>1. /\ down[s] \in Seq(Data) /\ received[s] \in Seq(Data)
            /\ down'[s] = Append(down[s], Len(down[s]) + Len(received[s]))
        BY <1>1, <2>2, <3>1 DEF Subscribe44, Written, StreamTypes
      <4>2. Len(Append(down[s], Len(down[s]) + Len(received[s]))) = Len(down[s]) + 1
            /\ Len(down[s]) \in Nat
        BY <4>1
      <4> QED BY <2>2, <4>1, <4>2
    <3> QED BY <2>2, <3>1 DEF Subscribe44
  <2>3. CASE \/ NewSubscriber(s) \/ Quit(s) \/ FinishSubscribe(s)
             \/ Subscribe45(s) \/ Subscribe46(s) \/ SubscribeReturns(s)
    BY <2>3 DEF NewSubscriber, Quit, FinishSubscribe, Subscribe45, Subscribe46, SubscribeReturns
  <2> QED BY <2>1, <2>2, <2>3
<1>3. \A t \in Subscriber \ {s} : sub'[t] = sub[t] /\ subscribe'[t] = subscribe[t]
  BY <1>1, <1>2 DEF StreamTypes
<1>4. StreamTypes' /\ SubOK(s)' /\ (Gone # {} => Gone' # {})
      /\ (section = "4.4" => SequenceOK(s)')
  <2>0. down[s] \in Seq(Data) /\ received[s] \in Seq(Data)
        /\ Len(down[s]) \in Nat /\ Len(received[s]) \in Nat /\ Count \in Nat
    BY <1>1, StreamsAssumption DEF StreamTypes
  <2>1. CASE Begins
    <3>1. sub'[s] = "read" /\ subscribe'[s] \in {"call", "lost"} /\ (subscribe'[s] = "call" => On)
      BY <1>1, <2>1 DEF StreamTypes
    <3>2. StreamTypes'
      BY <1>1, <2>1 DEF StreamTypes, pubVars
    <3>3. Gone # {} => Gone' # {}
      BY <1>1, <1>3, <2>1 DEF Gone
    <3>4. SubOK(s)'
      BY <1>1, <3>1 DEF SubOK, On
    <3>5. section = "4.4" => SequenceOK(s)'
      BY <1>1, <3>1 DEF SequenceOK
    <3> QED BY <3>2, <3>3, <3>4, <3>5
  <2>2. CASE Leaves
    <3>1. sub'[s] = "quit" /\ subscribe'[s] = subscribe[s]
      BY <1>1, <2>2 DEF StreamTypes
    <3>2. StreamTypes'
      BY <1>1, <2>2 DEF StreamTypes, pubVars
    <3>3. Gone' # {}
      BY <3>1 DEF Gone
    <3>4. SubOK(s)'
      BY <1>1, <2>2, <3>1 DEF SubOK, On
    <3>5. section = "4.4" => SequenceOK(s)'
      BY <1>1, <3>1 DEF SequenceOK
    <3> QED BY <3>2, <3>3, <3>4, <3>5
  <2>3. CASE Ends
    <3>1. sub'[s] = "finished" /\ subscribe'[s] = subscribe[s]
      BY <1>1, <2>3 DEF StreamTypes
    <3>2. StreamTypes'
      BY <1>1, <2>3 DEF StreamTypes, pubVars
    <3>3. Gone # {} => Gone' # {}
      BY <1>1, <1>3, <2>3 DEF Gone
    <3>4. SubOK(s)'
      BY <1>1, <2>3, <3>1 DEF SubOK, On
    <3>5. section = "4.4" => SequenceOK(s)'
      BY <1>1, <2>3, <3>1 DEF SequenceOK
    <3> QED BY <3>2, <3>3, <3>4, <3>5
  <2>4. CASE Stops
    <3>1. sub'[s] = "finish" /\ subscribe'[s] = subscribe[s]
      BY <1>1, <2>4 DEF StreamTypes
    <3>2. StreamTypes'
      BY <1>1, <2>4 DEF StreamTypes, pubVars
    <3>3. Gone # {} => Gone' # {}
      BY <1>1, <1>3, <2>4 DEF Gone
    <3>4. SubOK(s)'
      BY <1>1, <2>4, <3>1 DEF SubOK, On
    <3>5. section = "4.4" => SequenceOK(s)'
      <4>1. subscribe[s] = "ok" /\ section = "4.4" => Len(down[s]) = 0
        BY <1>1, <2>4 DEF SubOK, On, StreamTypes
      <4>2. ASSUME section = "4.4", subscribe[s] = "ok" PROVE Len(received[s]) = Count
        <5>1. Len(down[s]) = 0 /\ Len(down[s]) + Len(received[s]) = Count
          BY <1>1, <2>4, <4>1, <4>2 DEF SequenceOK
        <5> QED BY <2>0, <5>1, Sums
      <4> QED BY <1>1, <3>1, <4>2 DEF SequenceOK
    <3> QED BY <3>2, <3>3, <3>4, <3>5
  <2>5. CASE Returns
    <3>1. sub'[s] = sub[s] /\ subscribe'[s] = "ok"
      BY <1>1, <2>5 DEF StreamTypes
    <3>2. StreamTypes'
      BY <1>1, <2>5 DEF StreamTypes, pubVars
    <3>3. Gone # {} => Gone' # {}
      BY <2>5 DEF Gone
    <3>4. SubOK(s)'
      BY <1>1, <2>5, <3>1 DEF SubOK, On
    <3>5. section = "4.4" => SequenceOK(s)'
      <4>1. section = "4.4" => sub[s] \notin {"finish", "finished"} /\ ~ (TurnsLeft(s) /\ sub[s] = "read")
        BY <1>1, <2>5 DEF SubOK
      <4>2. section = "4.4" /\ sub[s] = "read" => Len(down[s]) + Len(received[s]) = Count
        <5>1. section = "4.4" => Len(down[s]) + Len(received[s]) <= Count
          BY <1>1 DEF SequenceOK
        <5>2. section = "4.4" /\ sub[s] = "read" => ~ (Len(down[s]) + Len(received[s]) < Count)
          BY <4>1 DEF TurnsLeft
        <5> QED BY <2>0, <5>1, <5>2, Sums
      <4> QED BY <1>1, <3>1, <4>1, <4>2 DEF SequenceOK
    <3> QED BY <3>2, <3>3, <3>4, <3>5
  <2>6. CASE Sleeps
    <3>1. sub'[s] = sub[s] /\ subscribe'[s] = "sleep"
      BY <1>1, <2>6 DEF StreamTypes
    <3>2. StreamTypes'
      BY <1>1, <2>6 DEF StreamTypes, pubVars
    <3>3. Gone # {} => Gone' # {}
      BY <2>6 DEF Gone
    <3>4. SubOK(s)'
      BY <1>1, <2>6, <3>1 DEF SubOK, On
    <3> QED BY <2>6, <3>2, <3>3, <3>4
  <2> QED BY <1>2, <2>1, <2>2, <2>3, <2>4, <2>5, <2>6
<1>5. ASSUME NEW t \in Subscriber
      PROVE  SubOK(t)' /\ (section = "4.4" => SequenceOK(t)')
  <2>1. CASE t = s
    BY <1>4, <2>1
  <2>2. CASE t # s
    BY <1>1, <1>3, <2>2, SubFrame, SequenceFrame DEF StreamInd, SequenceInv
  <2> QED BY <2>1, <2>2
<1> QED BY <1>1, <1>4, <1>5, SubscriberFrame

\* What the subscriber prints is the oldest of what it was sent.
LEMMA ReadHolds ==
  ASSUME StreamInd, NEW s \in Subscriber, ReadDown(s), down[s] # <<>>,
         received' = [received EXCEPT ![s] = Append(@, Head(down[s]))],
         down' = [down EXCEPT ![s] = Tail(@)],
         sub' = [sub EXCEPT ![s] = ReadAgain]
  PROVE  StreamInd'
<1>1. /\ UNCHANGED <<section, server, writer_, pubVars, sub, subscribe, printed, stale>>
      /\ StreamTypes /\ StreamTypes' /\ ServerGoesOn
  <2>1. /\ UNCHANGED <<section, server, writer_, pubVars, subscribe, printed, stale>>
        /\ StreamTypes /\ sub[s] = "read"
    BY DEF ReadDown, StreamInd
  <2>2. sub' = sub
    BY <2>1 DEF ReadAgain, StreamTypes
  <2>3. down[s] \in Seq(Data) /\ received[s] \in Seq(Data)
    BY <2>1 DEF StreamTypes
  <2>4. Tail(down[s]) \in Seq(Data) /\ Append(received[s], Head(down[s])) \in Seq(Data)
    BY <2>3, AtTheHead, AtTheEnd
  <2>5. StreamTypes'
    BY <2>1, <2>2, <2>4 DEF StreamTypes, pubVars
  <2> QED BY <2>1, <2>2, <2>5 DEF ServerGoesOn
<1> DEFINE d == Head(down[s])
<1>2. /\ down[s] \in Seq(Data) /\ received[s] \in Seq(Data)
      /\ down'[s] = Tail(down[s]) /\ received'[s] = Append(received[s], d)
      /\ \A t \in Subscriber \ {s} : down'[t] = down[t] /\ received'[t] = received[t]
  BY <1>1 DEF StreamTypes
<1>3. /\ d \in Data /\ Len(down'[s]) = Len(down[s]) - 1 /\ Len(down[s]) \in Nat \ {0}
      /\ d = down[s][1] /\ \A k \in 1 .. Len(down[s]) - 1 : down'[s][k] = down[s][k + 1]
      /\ Range(down[s]) = Range(down'[s]) \cup {d}
      /\ IsInjective(down[s]) => IsInjective(down'[s]) /\ d \notin Range(down'[s])
  <2> DEFINE q == down[s]  r == Tail(q)
  <2>1. /\ d \in Data /\ Len(r) = Len(q) - 1 /\ Len(q) \in Nat \ {0} /\ d = q[1]
        /\ \A k \in 1 .. Len(q) - 1 : r[k] = q[k + 1]
        /\ Range(q) = Range(r) \cup {d}
        /\ IsInjective(q) => IsInjective(r) /\ d \notin Range(r)
    <3>1. q \in Seq(Data) /\ q # <<>> /\ d = Head(q)
      BY <1>2
    <3> HIDE DEF q, d
    <3> QED BY <3>1, AtTheHead
  <2>2. down'[s] = r
    BY <1>2
  <2> HIDE DEF r
  <2> QED BY <2>1, <2>2
<1>4. /\ Len(received'[s]) = Len(received[s]) + 1 /\ Len(received[s]) \in Nat
      /\ \A k \in 1 .. Len(received[s]) + 1 :
           received'[s][k] = IF k <= Len(received[s]) THEN received[s][k] ELSE d
      /\ Range(received'[s]) = Range(received[s]) \cup {d}
      /\ IsInjective(received[s]) /\ d \notin Range(received[s]) => IsInjective(received'[s])
  BY <1>2, <1>3, AtTheEnd
<1> HIDE DEF d
<1>5. \A t \in Subscriber : Told(t)' = Told(t)
  BY <1>2, <1>3, <1>4 DEF Told
<1>6. OnceInv'
  <2> SUFFICES ASSUME section = "4.6", NEW t \in Subscriber
               PROVE  (/\ IsInjective(down[t]) /\ IsInjective(received[t])
                       /\ Range(down[t]) \cap Range(received[t]) = {}
                       /\ \A u \in Subscriber : t # u => Told(t) \cap Told(u) = {})'
    BY <1>1 DEF OnceInv
  <2>1. /\ IsInjective(down[t]) /\ IsInjective(received[t])
        /\ Range(down[t]) \cap Range(received[t]) = {}
        /\ \A u \in Subscriber : t # u => Told(t) \cap Told(u) = {}
    BY DEF StreamInd, OnceInv
  <2>2. CASE t = s
    BY <1>3, <1>4, <1>5, <2>1, <2>2
  <2>3. CASE t # s
    BY <1>2, <1>5, <2>1, <2>3
  <2> QED BY <2>2, <2>3
<1>7. ASSUME NEW p \in Publisher PROVE (PubOK(p) /\ HeardOK(p))'
  <2>1. Heard(p)' <=> Heard(p)
    BY <1>5 DEF Heard
  <2>2. Gone' = Gone
    BY <1>1 DEF Gone
  <2> QED BY <1>1, <2>1, <2>2, PubFrame, HeardFrame DEF StreamInd, pubVars
<1>8. ASSUME NEW t \in Subscriber PROVE SubOK(t)'
  BY <1>1, SubFrame DEF StreamInd
<1>9. SequenceInv'
  <2> SUFFICES ASSUME section = "4.4", NEW t \in Subscriber PROVE SequenceOK(t)'
    BY <1>1 DEF StreamInd, SequenceInv
  <2>1. SequenceOK(t)
    BY DEF StreamInd, SequenceInv
  <2>2. CASE t # s
    BY <1>1, <1>2, <2>1, <2>2 DEF SequenceOK
  <2>3. CASE t = s
    <3>0. sub[s] = "read" /\ Count \in Nat
      BY StreamsAssumption DEF ReadDown
    <3>1. d = Len(received[s])
      BY <1>3, <1>4, <2>1, <2>3 DEF SequenceOK
    <3>2. \A k \in 1 .. Len(received'[s]) : received'[s][k] = k - 1
      BY <1>4, <2>1, <2>3, <3>1 DEF SequenceOK
    <3>3. \A k \in 1 .. Len(down'[s]) : down'[s][k] = Len(received'[s]) + k - 1
      <4> SUFFICES ASSUME NEW k \in 1 .. Len(down'[s])
                   PROVE  down'[s][k] = Len(received'[s]) + k - 1
        OBVIOUS
      <4>1. k + 1 \in 1 .. Len(down[s]) /\ k \in 1 .. Len(down[s]) - 1
        BY <1>3
      <4>2. down'[s][k] = Len(received[s]) + (k + 1) - 1
        BY <1>3, <2>1, <2>3, <4>1 DEF SequenceOK
      <4> QED BY <1>4, <4>1, <4>2
    <3>4. Len(down'[s]) + Len(received'[s]) = Len(down[s]) + Len(received[s])
      <4>1. PICK sent \in Nat, got \in Nat : sent = Len(down[s]) /\ got = Len(received[s])
        BY <1>3, <1>4
      <4>2. Len(down'[s]) = sent - 1 /\ Len(received'[s]) = got + 1
        BY <1>3, <1>4, <4>1
      <4>3. (sent - 1) + (got + 1) = sent + got
        OBVIOUS
      <4> QED BY <4>1, <4>2, <4>3
    <3> QED BY <1>1, <2>1, <2>3, <3>0, <3>2, <3>3, <3>4 DEF SequenceOK
  <2> QED BY <2>2, <2>3
<1> QED BY <1>1, <1>6, <1>7, <1>8, <1>9 DEF StreamInd

\* One turn of Subscribe of section 4.4 sends the next number.
LEMMA TurnHolds ==
  ASSUME StreamInd, NEW s \in Subscriber, Subscribe44(s),
         TurnsLeft(s), sub[s] = "read"
  PROVE  StreamInd'
<1>a. /\ section = "4.4" /\ On /\ subscribe[s] = "call"
      /\ UNCHANGED <<section, server, writer_, pubVars, sub, subscribe, received, printed, stale>>
  BY DEF Subscribe44
<1>0. /\ down[s] \in Seq(Data) /\ StreamTypes /\ ServerGoesOn /\ Count \in Nat
      /\ Len(received[s]) \in Nat /\ Len(down[s]) \in Nat
      /\ down' = [down EXCEPT ![s] = Append(@, Len(down[s]) + Len(received[s]))]
  BY <1>a, StreamsAssumption DEF StreamInd, StreamTypes, Subscribe44, Written, ServerGoesOn
<1>1. PICK sent \in Nat, got \in Nat : sent = Len(down[s]) /\ got = Len(received[s])
  BY <1>0
<1> DEFINE d == sent + got
<1>2. d \in Data /\ d + 1 <= Count /\ d \in Nat
  <2>1. sent + got < Count
    BY <1>1 DEF TurnsLeft
  <2>2. d \in 0 .. Count - 1 /\ d + 1 <= Count
    BY <1>0, <2>1
  <2> QED BY <2>2 DEF Data
<1>3. /\ down' = [down EXCEPT ![s] = Append(@, d)]
      /\ down'[s] = Append(down[s], d)
      /\ \A t \in Subscriber \ {s} : down'[t] = down[t]
  BY <1>0, <1>1 DEF StreamTypes
<1>4. /\ down'[s] \in Seq(Data) /\ Len(down'[s]) = sent + 1
      /\ \A k \in 1 .. sent + 1 :
           down'[s][k] = IF k <= sent THEN down[s][k] ELSE d
  <2> DEFINE r == Append(down[s], d)
  <2>1. down[s] \in Seq(Data) /\ d \in Data
    BY <1>0, <1>2
  <2> HIDE DEF d
  <2>2. /\ r \in Seq(Data) /\ Len(r) = Len(down[s]) + 1
        /\ \A k \in 1 .. Len(down[s]) + 1 : r[k] = IF k <= Len(down[s]) THEN down[s][k] ELSE d
    BY <2>1, AtTheEnd
  <2>3. down'[s] = r
    BY <1>3
  <2> HIDE DEF r
  <2> QED BY <1>1, <2>2, <2>3
<1>5. StreamTypes'
  <2>1. down' \in [Subscriber -> Seq(Data)]
    BY <1>0, <1>3, <1>4 DEF StreamTypes
  <2> QED BY <1>0, <1>a, <2>1 DEF StreamTypes, pubVars
<1>6. ASSUME NEW p \in Publisher PROVE (PubOK(p) /\ HeardOK(p))'
  <2>1. PubOK(p)'
    BY <1>0, <1>a, PubFrame DEF StreamInd, pubVars
  <2>2. HeardOK(p)'
    BY <1>a DEF StreamInd, HeardOK, pubVars
  <2> QED BY <2>1, <2>2
<1>7. OnceInv'
  BY <1>a DEF OnceInv
<1>8. ASSUME NEW t \in Subscriber PROVE SubOK(t)'
  BY <1>0, <1>a, SubFrame DEF StreamInd
<1>9. ASSUME NEW t \in Subscriber PROVE SequenceOK(t)'
  <2>1. SequenceOK(t)
    BY <1>a DEF StreamInd, SequenceInv
  <2>2. CASE t # s
    BY <1>3, <1>a, <2>1, <2>2 DEF SequenceOK
  <2>3. CASE t = s
    <3>1. \A k \in 1 .. Len(down'[s]) : down'[s][k] = Len(received[s]) + k - 1
      <4> SUFFICES ASSUME NEW k \in 1 .. sent + 1 PROVE down'[s][k] = got + k - 1
        BY <1>1, <1>4, <1>a
      <4>0. /\ sent \in Nat /\ got \in Nat /\ k \in Int
            /\ k \in 1 .. Len(down[s]) \/ k = sent + 1
        BY <1>1
      <4>1. CASE k \in 1 .. Len(down[s])
        <5>1. down[s][k] = got + k - 1
          BY <1>1, <2>1, <2>3, <4>1 DEF SequenceOK
        <5>2. k <= sent
          BY <1>1, <4>1
        <5>3. down'[s][k] = down[s][k]
          BY <1>4, <4>0, <5>2
        <5> QED BY <5>1, <5>3
      <4>2. CASE k = sent + 1
        <5>1. down'[s][sent + 1] = d
          BY <1>4, <4>0
        <5> QED BY <4>0, <4>2, <5>1
      <4> QED BY <4>0, <4>1, <4>2
    <3>2. Len(down'[s]) + Len(received[s]) <= Count
      <4>0. sent \in Nat /\ got \in Nat
        BY <1>1
      <4>1. (sent + 1) + got = d + 1
        BY <4>0
      <4> QED BY <1>1, <1>2, <1>4, <4>1
    <3> QED BY <1>a, <2>1, <2>3, <3>1, <3>2 DEF SequenceOK
  <2> QED BY <2>2, <2>3
<1>10. SequenceInv'
  BY <1>9, <1>a DEF SequenceInv, StreamInd
<1> QED BY <1>5, <1>6, <1>7, <1>8, <1>10 DEF StreamInd

\* The data that goes to the stream of a subscriber is in no other stream.
LEMMA SentOnce ==
  ASSUME StreamTypes, OnceInv, section = "4.6", NEW p \in Publisher, ~ Heard(p),
         NEW w \in Subscriber, down' = [down EXCEPT ![w] = Append(@, p)],
         UNCHANGED <<section, received>>
  PROVE  /\ OnceInv' /\ down' \in [Subscriber -> Seq(Data)]
         /\ Heard(p)' /\ \A q \in Publisher \ {p} : Heard(q)' <=> Heard(q)
<1>1. /\ down[w] \in Seq(Data) /\ p \in Data
      /\ down'[w] = Append(down[w], p)
      /\ \A t \in Subscriber \ {w} : down'[t] = down[t]
      /\ \A t \in Subscriber : received'[t] = received[t]
  BY DEF StreamTypes, Data
<1>2. /\ down'[w] \in Seq(Data) /\ Range(down'[w]) = Range(down[w]) \cup {p}
      /\ IsInjective(down[w]) /\ p \notin Range(down[w]) => IsInjective(down'[w])
  <2> DEFINE r == Append(down[w], p)
  <2>1. /\ r \in Seq(Data) /\ Range(r) = Range(down[w]) \cup {p}
        /\ IsInjective(down[w]) /\ p \notin Range(down[w]) => IsInjective(r)
    BY <1>1, AtTheEnd
  <2> HIDE DEF r
  <2>2. down'[w] = r
    BY <1>1 DEF r
  <2> QED BY <2>1, <2>2
<1>3. down' \in [Subscriber -> Seq(Data)]
  BY <1>1, <1>2 DEF StreamTypes
<1>4. /\ Told(w)' = Told(w) \cup {p}
      /\ \A t \in Subscriber \ {w} : Told(t)' = Told(t)
  BY <1>1, <1>2 DEF Told
<1>5. \A t \in Subscriber : p \notin Told(t)
  BY DEF Heard
<1>6. OnceInv'
  <2> SUFFICES ASSUME NEW s \in Subscriber
               PROVE  (/\ IsInjective(down[s]) /\ IsInjective(received[s])
                       /\ Range(down[s]) \cap Range(received[s]) = {}
                       /\ \A t \in Subscriber : s # t => Told(s) \cap Told(t) = {})'
    BY DEF OnceInv
  <2>1. /\ IsInjective(down[s]) /\ IsInjective(received[s])
        /\ Range(down[s]) \cap Range(received[s]) = {}
        /\ \A t \in Subscriber : s # t => Told(s) \cap Told(t) = {}
    BY DEF OnceInv
  <2>2. \A t \in Subscriber : s # t => Told(s)' \cap Told(t)' = {}
    BY <1>4, <1>5, <2>1
  <2>3. /\ IsInjective(down'[s]) /\ IsInjective(received'[s])
        /\ Range(down'[s]) \cap Range(received'[s]) = {}
    <3>1. CASE s = w
      BY <1>1, <1>2, <1>5, <2>1, <3>1 DEF Told
    <3>2. CASE s # w
      BY <1>1, <2>1, <3>2
    <3> QED BY <3>1, <3>2
  <2> QED BY <2>2, <2>3
<1>7. Heard(p)'
  BY <1>4 DEF Heard
<1>8. ASSUME NEW q \in Publisher \ {p} PROVE Heard(q)' <=> Heard(q)
  BY <1>4 DEF Heard
<1> QED BY <1>3, <1>6, <1>7, <1>8

\* writer_->Write(td), of a subscriber that reads, that has gone, of nobody, or
\* of a call that is over.
LEMMA ForwardHolds ==
  ASSUME StreamInd, NEW p \in Publisher, Forward(p)
  PROVE  StreamInd'
<1>1. /\ UNCHANGED <<section, writer_, pub, up, sub, subscribe, received, printed>>
      /\ StreamTypes /\ On /\ publish[p] = "forward" /\ PubOK(p) /\ HeardOK(p) /\ OnceInv
      /\ publish' = [publish EXCEPT ![p] = "read"]
  BY DEF Forward, StreamInd
<1>2. section = "4.6" /\ p \in printed /\ ~ Heard(p)
  BY <1>1 DEF HeardOK
<1>3. \/ /\ \E w \in Subscriber : down' = [down EXCEPT ![w] = Append(@, p)]
         /\ UNCHANGED <<server, stale>>
      \/ UNCHANGED <<down, server, stale>> /\ Gone # {}
      \/ UNCHANGED <<down, stale>> /\ server' = "crashed"
      \/ UNCHANGED down /\ stale' = TRUE /\ server' \in {"on", "crashed"}
  <2>1. CASE /\ writer_ # Nobody /\ subscribe[writer_] = "sleep"
             /\ down' = Written(writer_, p)
             /\ UNCHANGED <<server, stale>>
    <3>1. writer_ \in Subscriber
      BY <1>1, <2>1 DEF StreamTypes
    <3>2. sub[writer_] \in {"read", "quit"}
      BY <1>1, <2>1, <3>1 DEF StreamInd, SubOK
    <3>3. sub[writer_] = "quit" => Gone # {}
      BY <3>1 DEF Gone
    <3> QED BY <2>1, <3>1, <3>2, <3>3 DEF Written
  <2>2. CASE writer_ = Nobody /\ server' = "crashed" /\ UNCHANGED <<down, stale>>
    BY <2>2
  <2>3. CASE stale' = TRUE /\ server' \in {"on", "crashed"} /\ UNCHANGED down
    BY <2>3
  <2> QED BY <2>1, <2>2, <2>3 DEF Forward
<1>4. /\ OnceInv' /\ down' \in [Subscriber -> Seq(Data)]
      /\ \A q \in Publisher \ {p} : Heard(q)' <=> Heard(q)
      /\ Heard(p)' \/ stale' \/ Gone # {} \/ server' = "crashed"
  <2>1. CASE \E w \in Subscriber : down' = [down EXCEPT ![w] = Append(@, p)]
    BY <1>1, <1>2, <2>1, SentOnce
  <2>2. CASE UNCHANGED down
    <3>1. \A t \in Subscriber : Told(t)' = Told(t)
      BY <1>1, <2>2 DEF Told
    <3>2. OnceInv'
      BY <1>1, <2>2, <3>1 DEF OnceInv
    <3>3. \A q \in Publisher : Heard(q)' <=> Heard(q)
      BY <3>1 DEF Heard
    <3>4. stale' \/ Gone # {} \/ server' = "crashed"
      <4>1. ASSUME NEW w \in Subscriber, down' = [down EXCEPT ![w] = Append(@, p)]
            PROVE  FALSE
        <5>1. down[w] \in Seq(Data) /\ p \in Data /\ down'[w] = Append(down[w], p)
          BY <1>1, <4>1 DEF StreamTypes, Data
        <5>2. Len(Append(down[w], p)) = Len(down[w]) + 1 /\ Len(down[w]) \in Nat
          BY <5>1
        <5>3. down'[w] = down[w]
          BY <2>2
        <5> QED BY <5>1, <5>2, <5>3
      <4> QED BY <1>3, <4>1
    <3> QED BY <1>1, <2>2, <3>2, <3>3, <3>4 DEF StreamTypes
  <2> QED BY <1>3, <2>1, <2>2
<1>5. Gone' = Gone /\ ServerGoesOn /\ (stale => stale') /\ stale' \in BOOLEAN
      /\ server' \in {"on", "crashed"}
  BY <1>1, <1>3 DEF Gone, ServerGoesOn, On, StreamTypes
<1>6. /\ publish'[p] = "read"
      /\ \A q \in Publisher \ {p} : publish'[q] = publish[q]
  BY <1>1 DEF StreamTypes
<1>7. StreamTypes'
  BY <1>1, <1>4, <1>5 DEF StreamTypes
<1>8. PubOK(p)' /\ HeardOK(p)'
  <2>1. PubOK(p)'
    BY <1>1, <1>2, <1>5, <1>6 DEF PubOK, On
  <2>2. HeardOK(p)'
    BY <1>1, <1>2, <1>4, <1>5, <1>6 DEF HeardOK
  <2> QED BY <2>1, <2>2
<1>9. ASSUME NEW q \in Publisher PROVE (PubOK(q) /\ HeardOK(q))'
  <2>1. CASE q = p
    BY <1>8, <2>1
  <2>2. CASE q # p
    BY <1>1, <1>4, <1>5, <1>6, <2>2, PubFrame, HeardFrame DEF StreamInd
  <2> QED BY <2>1, <2>2
<1>10. ASSUME NEW t \in Subscriber PROVE SubOK(t)'
  BY <1>1, <1>5, SubFrame DEF StreamInd
<1>11. SequenceInv'
  BY <1>1, <1>2 DEF SequenceInv
<1> QED BY <1>4, <1>7, <1>9, <1>10, <1>11 DEF StreamInd

-----------------------------------------------------------------------------
(* The theorems.                                                           *)

LEMMA RunHolds ==
  ASSUME StreamInd, RunServer
  PROVE  StreamInd'
<1>1. /\ UNCHANGED <<section, writer_, pubVars, subVars, printed, stale>>
      /\ server' = "on" /\ ServerGoesOn
  BY DEF RunServer, ServerGoesOn
<1>2. StreamTypes'
  BY <1>1 DEF StreamInd, StreamTypes, pubVars, subVars
<1>3. ASSUME NEW p \in Publisher PROVE (PubOK(p) /\ HeardOK(p))'
  <2>1. (Heard(p)' <=> Heard(p)) /\ Gone' = Gone
    BY <1>1 DEF Heard, Told, Gone, subVars
  <2> QED BY <1>1, <2>1, PubFrame, HeardFrame DEF StreamInd, pubVars
<1>4. OnceInv'
  BY <1>1 DEF StreamInd, OnceInv, Told, subVars
<1>5. ASSUME NEW s \in Subscriber PROVE SubOK(s)'
  BY <1>1 DEF RunServer, StreamInd, SubOK, subVars, On
<1>6. SequenceInv'
  BY <1>1 DEF StreamInd, SequenceInv, SequenceOK, subVars
<1> QED BY <1>2, <1>3, <1>4, <1>5, <1>6 DEF StreamInd

LEMMA StreamsInductive == StreamSpec => []StreamInd
<1>1. ASSUME StreamInd, [StreamNext]_streamVars PROVE StreamInd'
  <2>1. CASE RunServer
    BY <1>1, <2>1, RunHolds
  <2>2. ASSUME NEW p \in Publisher, PublisherNext(p) \/ PublishNext(p) PROVE StreamInd'
    BY <1>1, <2>2, PublisherHolds, CallHolds, ForwardHolds DEF PublishNext
  <2>3. ASSUME NEW s \in Subscriber,
               SubscriberNext(s) \/ SubscribeNext(s) \/ SubscribeReturns(s)
        PROVE  StreamInd'
    <3>1. CASE ReadDown(s)
      <4>1. CASE UNCHANGED <<down, received>>
        BY <1>1, <3>1, <4>1, SubscriberHolds
      <4>2. CASE ~ UNCHANGED <<down, received>>
        <5>1. /\ down[s] # <<>>
              /\ received' = [received EXCEPT ![s] = Append(@, Head(down[s]))]
              /\ down' = [down EXCEPT ![s] = Tail(@)]
              /\ sub' = [sub EXCEPT ![s] = ReadAgain]
          BY <3>1, <4>2 DEF ReadDown
        <5> QED BY <1>1, <3>1, <5>1, ReadHolds
      <4> QED BY <4>1, <4>2
    <3>2. CASE Subscribe44(s)
      <4>1. CASE TurnsLeft(s) /\ sub[s] = "read"
        BY <1>1, <3>2, <4>1, TurnHolds
      <4>2. CASE ~ (TurnsLeft(s) /\ sub[s] = "read")
        <5>1. UNCHANGED down
          BY <3>2, <4>2 DEF Subscribe44
        <5> QED BY <1>1, <3>2, <5>1, SubscriberHolds
      <4> QED BY <4>1, <4>2
    <3>3. CASE \/ NewSubscriber(s) \/ Quit(s) \/ FinishSubscribe(s)
               \/ Subscribe45(s) \/ Subscribe46(s) \/ SubscribeReturns(s)
      BY <1>1, <3>3, SubscriberHolds
    <3> QED BY <2>3, <3>1, <3>2, <3>3 DEF SubscriberNext, SubscribeNext
  <2>4. CASE UNCHANGED streamVars
    <3>1. UNCHANGED <<section, server, writer_, pubVars, subVars, printed, stale>>
      BY <2>4 DEF streamVars
    <3>2. StreamTypes' /\ Gone' = Gone
      BY <1>1, <3>1 DEF StreamInd, StreamTypes, pubVars, subVars, Gone
    <3>3. ASSUME NEW p \in Publisher PROVE (PubOK(p) /\ HeardOK(p))'
      <4>1. ServerGoesOn /\ (Heard(p)' <=> Heard(p))
        BY <3>1 DEF ServerGoesOn, Heard, Told, subVars
      <4> QED BY <1>1, <3>1, <3>2, <4>1, PubFrame, HeardFrame DEF StreamInd, pubVars
    <3> QED BY <1>1, <3>1, <3>2, <3>3, PublisherFrame
  <2> QED BY <1>1, <2>1, <2>2, <2>3, <2>4 DEF StreamNext
<1> QED BY StreamInitHolds, <1>1, PTL DEF StreamSpec

\* What subscribers are sent, whole and once, for any number of publishers and
\* of subscribers: a subscriber of section 4.4 prints the numbers in order, and
\* all of them when its call has ended well; and the data of section 4.6 is in
\* one place at most of all the streams and of all that was printed.
THEOREM StreamsSafe == StreamSpec => []StreamInv
<1>1. ASSUME StreamInd PROVE StreamInv
  <2>1. /\ StreamTypes /\ OnceInv /\ SequenceInv
        /\ \A s \in Subscriber : down[s] \in Seq(Data) /\ received[s] \in Seq(Data)
    BY <1>1 DEF StreamInd, StreamTypes
  <2>2. \A s \in Subscriber :
          /\ Range(down[s] \o received[s]) = Told(s) /\ Told(s) \subseteq Data
          /\ IsInjective(down[s]) /\ IsInjective(received[s])
               /\ Range(down[s]) \cap Range(received[s]) = {}
               => IsInjective(down[s] \o received[s])
    BY <2>1, Concatenated DEF Told
  <2>3. StreamTypeOK
    <3>1. \A p \in Publisher : up[p].closed \in BOOLEAN
      BY <2>1 DEF StreamTypes
    <3> QED BY <2>1, <2>2, <3>1 DEF StreamTypes, StreamTypeOK, Data
  <2>4. ForwardedOnce
    BY <2>1, <2>2 DEF ForwardedOnce, OnceInv
  <2>5. SequenceSeen
    BY <2>1 DEF SequenceSeen, SequenceInv, SequenceOK
  <2> QED BY <2>3, <2>4, <2>5 DEF StreamInv
<1> QED BY StreamsInductive, <1>1, PTL

\* A publisher that prints "Finished." was heard: the server has printed its
\* data, and in section 4.6 has written it to a subscriber, unless its writer
\* was that of a subscriber gone or of a call already over.
THEOREM FinishedIsHeard == StreamSpec => []FinishedMeansHeard
<1>1. ASSUME StreamInd PROVE FinishedMeansHeard
  <2> SUFFICES ASSUME NEW p \in Publisher, pub[p] = "finished"
               PROVE  /\ p \in printed
                      /\ section = "4.6" =>
                           \/ \E s \in Subscriber : p \in Range(down[s] \o received[s])
                           \/ stale \/ Gone # {}
    BY DEF FinishedMeansHeard
  <2>1. publish[p] = "ok" /\ p \in printed /\ HeardOK(p)
    BY <1>1 DEF StreamInd, PubOK
  <2>2. \A s \in Subscriber : Range(down[s] \o received[s]) = Told(s)
    BY <1>1, Concatenated DEF StreamInd, StreamTypes, Told
  <2> QED BY <2>1, <2>2 DEF HeardOK, Heard
<1> QED BY StreamsInductive, <1>1, PTL

-----------------------------------------------------------------------------
(* The time client of homework 5: the inductive invariant.                 *)

PC == {"none", "test", "new", "return", "enter", "install", "loop", "pause",
       "call", "leave", "end"}

Outside == {"none", "test", "new", "return"}

\* The threads that have made an instance.
Makers == {t \in foundNone : pc[t] # "new"}

\* The threads exist in the order of their creation; the instances are as many as
\* the threads that found none and went on, and whoever is past getInstance has
\* one of them.
InstanceInv ==
  /\ \A t \in Thread : pc[t] = "none" <=> t > mpc
  /\ made = Cardinality(Makers) /\ uniqueInstance = made
  /\ \A t \in Thread :
       /\ client[t] = 0 <=> pc[t] \in Outside
       /\ client[t] <= made
       /\ pc[t] = "new" => t \in foundNone
       /\ t \in foundNone => pc[t] \notin {"none", "test"}
       /\ pc[t] = "return" => made # 0

\* A thread that waits or calls has a round to do.
RoundInv ==
  \A t \in Thread : pc[t] \in {"pause", "call"} => round[t] < Rounds

\* The threads that have counted themselves in instance c and not given up their
\* reference.
Counted(c) == {t \in Thread : client[t] = c /\ pc[t] \in Working \cup {"leave"}}

\* Those that have left its run, with their reference or without it.
Left(c) == {t \in Thread : client[t] = c /\ pc[t] = "end"}

\* No reference is given up by a thread that is still there; a thread that leaves
\* by an exception may keep its own.
CountOK(c) ==
  /\ Cardinality(Counted(c)) <= ref_count[c]
  /\ ref_count[c] <= Cardinality(Counted(c) \cup Left(c))

CountInv == \A c \in Thread : CountOK(c)

\* The server goes down with the last reference to an instance: who counts itself
\* in it after that comes after the one that gave it up.
DownOK(c) == Left(c) # {} /\ (overtaken \/ Counted(c) = {})

DownInv == serverDown => \E c \in Thread : DownOK(c)

IndInv == TypeOK /\ InstanceInv /\ RoundInv /\ CountInv /\ DownInv

-----------------------------------------------------------------------------
(* Counting threads.                                                       *)

\* Sets of threads are finite, and no larger than the set of all threads.
LEMMA ThreadSets ==
  ASSUME NEW S, S \subseteq Thread
  PROVE  IsFiniteSet(S) /\ Cardinality(S) \in 0 .. NumThreads
<1>1. IsFiniteSet(Thread) /\ Cardinality(Thread) = NumThreads
  BY TimeClientAssumption, FS_Interval DEF Thread
<1>2. IsFiniteSet(S) /\ Cardinality(S) <= Cardinality(Thread)
  BY <1>1, FS_Subset
<1> QED BY <1>1, <1>2, FS_CardinalityType, TimeClientAssumption

\* A thread more, and a thread less.
LEMMA OneMore ==
  ASSUME NEW S, S \subseteq Thread, NEW t \in Thread, t \notin S
  PROVE  Cardinality(S \cup {t}) = Cardinality(S) + 1
BY ThreadSets, FS_AddElement

LEMMA OneLess ==
  ASSUME NEW S, S \subseteq Thread, NEW t \in S
  PROVE  Cardinality(S \ {t}) = Cardinality(S) - 1
BY ThreadSets, FS_RemoveElement

LEMMA LastOne ==
  ASSUME NEW S, S \subseteq Thread, Cardinality(S) = 0
  PROVE  S = {}
BY ThreadSets, FS_EmptySet

\* A thread that moves is counted, or has left, as its new place says, and in its
\* instance only.
LEMMA MoveIn ==
  ASSUME pc \in [Thread -> PC], NEW t \in Thread, NEW x \in Working \cup {"leave"},
         pc' = [pc EXCEPT ![t] = x], client' = client, NEW c
  PROVE  /\ client[t] = c => Counted(c)' = Counted(c) \cup {t} /\ Left(c)' = Left(c) \ {t}
         /\ client[t] # c => Counted(c)' = Counted(c) /\ Left(c)' = Left(c)
<1>1. x # "end"
  BY DEF Working
<1> QED BY <1>1 DEF Counted, Left

LEMMA MoveOut ==
  ASSUME pc \in [Thread -> PC], NEW t \in Thread, pc' = [pc EXCEPT ![t] = "end"],
         client' = client, NEW c
  PROVE  /\ client[t] = c => Counted(c)' = Counted(c) \ {t} /\ Left(c)' = Left(c) \cup {t}
         /\ client[t] # c => Counted(c)' = Counted(c) /\ Left(c)' = Left(c)
BY DEF Counted, Left, Working

LEMMA MoveOutside ==
  ASSUME pc \in [Thread -> PC], NEW t \in Thread, NEW x, pc' = [pc EXCEPT ![t] = x],
         \A u \in Thread : u # t => client'[u] = client[u],
         {pc[t], x} \cap (Working \cup {"leave", "end"}) = {}, NEW c
  PROVE  Counted(c)' = Counted(c) /\ Left(c)' = Left(c)
BY DEF Counted, Left, Working

-----------------------------------------------------------------------------
(* The steps keep the invariant.                                           *)

\* Initially it holds.
LEMMA InitInd == Init => IndInv
<1> SUFFICES ASSUME Init PROVE IndInv
  OBVIOUS
<1> USE TimeClientAssumption DEF Init
<1>1. TypeOK
  <2>1. /\ mpc \in 0 .. 2 * NumThreads + 1
        /\ uniqueInstance \in 0 .. NumThreads /\ made \in 0 .. NumThreads
    OBVIOUS
  <2>2. /\ client \in [Thread -> 0 .. NumThreads]
        /\ ref_count \in [Thread -> 0 .. NumThreads]
        /\ round \in [Thread -> 0 .. Rounds] /\ hup \in [Thread -> BOOLEAN]
    OBVIOUS
  <2>3. /\ {handler, killed, serverDown, leftLocked, overtaken, stray} \subseteq BOOLEAN
        /\ failed \subseteq Thread /\ foundNone \subseteq Thread /\ initialized \subseteq Thread
    OBVIOUS
  <2> QED BY <2>1, <2>2, <2>3 DEF TypeOK
<1>2. Cardinality({}) = 0
  BY FS_EmptySet
<1>3. InstanceInv /\ RoundInv
  <2>1. Makers = {}
    BY DEF Makers
  <2> QED BY <1>2, <2>1 DEF InstanceInv, RoundInv, Thread, Outside
<1>4. ASSUME NEW c \in Thread PROVE CountOK(c)
  <2>1. Counted(c) = {} /\ Left(c) = {}
    BY DEF Counted, Left, Working
  <2>2. Counted(c) \cup Left(c) = {} /\ ref_count[c] = 0
    BY <2>1
  <2> QED BY <1>2, <2>1, <2>2 DEF CountOK
<1>5. CountInv /\ DownInv
  BY <1>4 DEF CountInv, DownInv
<1> QED BY <1>1, <1>3, <1>5 DEF IndInv

\* Who makes an instance is one thread more that has made one.
LEMMA OneMaker ==
  ASSUME TypeOK, InstanceInv, NEW t \in Thread, NewInstance(t)
  PROVE  made + 1 = Cardinality(Makers \cup {t}) /\ made + 1 \in 1 .. NumThreads
<1>1. t \notin Makers /\ Makers \subseteq Thread
  BY DEF NewInstance, Makers, TypeOK
<1>2. Cardinality(Makers \cup {t}) = made + 1
  BY <1>1, OneMore DEF InstanceInv
<1>3. Cardinality(Makers \cup {t}) \in 0 .. NumThreads /\ made \in Nat
  BY <1>1, ThreadSets DEF TypeOK
<1> QED BY <1>2, <1>3, TimeClientAssumption

\* A thread that is past getInstance has an instance to count itself in.
LEMMA HasInstance ==
  ASSUME TypeOK, InstanceInv, NEW t \in Thread, pc[t] \notin Outside
  PROVE  client[t] \in Thread
BY TimeClientAssumption DEF TypeOK, InstanceInv, Thread

\* Every action keeps every variable in its type.
LEMMA TypeStep ==
  ASSUME IndInv, [Next]_vars PROVE TypeOK'
<1>1. \A t \in Thread : NewInstance(t) => made + 1 \in 1 .. NumThreads
  BY OneMaker DEF IndInv
<1> USE TimeClientAssumption DEF IndInv, TypeOK, instVars, countVars, sigVars
<1>2. ASSUME Main PROVE TypeOK'
  <2>1. mpc' \in 0 .. 2 * NumThreads + 1
    BY <1>2 DEF Main, Create, SetTimers, Join
  <2>2. pc' = pc \/ pc' = [pc EXCEPT ![mpc + 1] = "test"]
    BY <1>2 DEF Main, Create, SetTimers, Join
  <2> QED BY <1>2, <2>1, <2>2 DEF Main
<1>3. ASSUME NEW t \in Thread, Timeout(t) PROVE TypeOK'
  BY <1>3 DEF Timeout, Ended, Joined
<1>4. ASSUME NEW t \in Thread, GetInstance(t) PROVE TypeOK'
  <2>1. CASE TestInstance(t)
    BY <1>4, <2>1 DEF GetInstance, TestInstance, IsNull
  <2>2. CASE NewInstance(t)
    <3>1. made + 1 \in 0 .. NumThreads
      BY <1>1, <2>2
    <3> QED BY <1>4, <2>2, <3>1 DEF GetInstance, NewInstance
  <2>3. CASE ReturnInstance(t)
    BY <1>4, <2>3 DEF GetInstance, ReturnInstance
  <2> QED BY <1>4, <2>1, <2>2, <2>3 DEF GetInstance
<1>5. ASSUME NEW t \in Thread, Enter(t) PROVE TypeOK'
  <2>1. PICK c \in Thread : c = client[t]
    BY <1>5, HasInstance DEF Enter, Outside
  <2>2. CASE /\ ref_count' = [ref_count EXCEPT ![c] = @ + 1]
             /\ initialized' = initialized \cup {c}
             /\ overtaken' = (overtaken \/ \E u \in Thread : Ended(u))
             /\ pc' = [pc EXCEPT ![t] = "install"]
             /\ UNCHANGED <<leftLocked, failed>>
    <3>1. ref_count[c] + 1 \in 0 .. NumThreads
      <4> DEFINE S == Counted(c) \cup Left(c)
      <4>1. t \notin S /\ S \subseteq Thread /\ S \cup {t} \subseteq Thread
        BY <1>5 DEF Enter, Counted, Left, Working
      <4>2. Cardinality(S \cup {t}) = Cardinality(S) + 1
        BY <4>1, OneMore
      <4>3. Cardinality(S \cup {t}) \in 0 .. NumThreads /\ Cardinality(S) \in 0 .. NumThreads
        BY <4>1, ThreadSets
      <4>4. ref_count[c] <= Cardinality(S) /\ ref_count[c] \in Nat
        BY DEF CountInv, CountOK
      <4> QED BY <4>2, <4>3, <4>4
    <3>2. ref_count' \in [Thread -> 0 .. NumThreads]
      BY <2>2, <3>1
    <3> QED BY <1>5, <2>2, <3>2 DEF Enter
  <2>3. CASE /\ pc' = [pc EXCEPT ![t] = "end"] /\ failed' = failed \cup {t}
             /\ UNCHANGED countVars
    BY <1>5, <2>3 DEF Enter
  <2> QED BY <1>5, <2>1, <2>2, <2>3 DEF Enter
<1>6. ASSUME NEW t \in Thread, InstallHandler(t) PROVE TypeOK'
  BY <1>6 DEF InstallHandler
<1>7. ASSUME NEW t \in Thread, Loop(t) PROVE TypeOK'
  BY <1>7 DEF Loop
<1>8. ASSUME NEW t \in Thread, Deliver(t) PROVE TypeOK'
  BY <1>8 DEF Deliver, Caught
<1>9. ASSUME NEW t \in Thread, Call(t) PROVE TypeOK'
  BY <1>9 DEF Call, RoundInv
<1>10. ASSUME NEW t \in Thread, Leave(t) PROVE TypeOK'
  <2>0. PICK c \in Thread : c = client[t]
    BY <1>10, HasInstance DEF Leave, Outside
  <2>1. t \in Counted(c) /\ Counted(c) \subseteq Thread /\ Counted(c) \ {t} \subseteq Thread
    BY <1>10, <2>0 DEF Leave, Counted
  <2>2. Cardinality(Counted(c) \ {t}) = Cardinality(Counted(c)) - 1
    BY <2>1, OneLess
  <2>3. Cardinality(Counted(c) \ {t}) \in Nat /\ Cardinality(Counted(c)) \in Nat
    BY <2>1, ThreadSets
  <2>4. ref_count[c] - 1 \in 0 .. NumThreads
    <3>1. ref_count[c] \in 0 .. NumThreads /\ Cardinality(Counted(c)) <= ref_count[c]
      BY DEF CountInv, CountOK
    <3>2. Cardinality(Counted(c)) >= 1
      BY <2>2, <2>3
    <3> QED BY <2>3, <3>1, <3>2
  <2>5. ref_count' \in [Thread -> 0 .. NumThreads]
    BY <1>10, <2>0, <2>4 DEF Leave
  <2>6. serverDown' \in BOOLEAN /\ leftLocked' \in BOOLEAN /\ failed' \subseteq Thread
    BY <1>10 DEF Leave, LastReference
  <2> QED BY <1>10, <2>5, <2>6 DEF Leave
<1>11. CASE UNCHANGED vars
  BY <1>11 DEF vars
<1> QED
  BY <1>2, <1>3, <1>4, <1>5, <1>6, <1>7, <1>8, <1>9, <1>10, <1>11
  DEF Next, Terminated, Step, SigHup, Run

\* However the threads meet in getInstance, each instance has its maker.
LEMMA InstanceStep ==
  ASSUME IndInv, [Next]_vars PROVE InstanceInv'
<1> USE TimeClientAssumption DEF IndInv, InstanceInv
<1>1. /\ pc \in [Thread -> PC] /\ client \in [Thread -> 0 .. NumThreads]
      /\ mpc \in Nat /\ Thread \subseteq Nat /\ made \in Nat /\ foundNone \subseteq Thread
  BY DEF TypeOK, PC, Thread
<1>2. ASSUME UNCHANGED <<mpc, instVars>>, NEW t \in Thread,
             pc[t] \notin Outside, NEW x \in PC \ Outside,
             pc' = [pc EXCEPT ![t] = x]
      PROVE  InstanceInv'
  <2>1. Makers' = Makers
    BY <1>1, <1>2 DEF instVars, Makers, Outside
  <2> QED BY <1>1, <1>2, <2>1 DEF instVars, Outside
<1>3. ASSUME UNCHANGED <<mpc, pc, instVars>> PROVE InstanceInv'
  BY <1>3 DEF instVars, Makers
<1>4. CASE Main
  <2>1. UNCHANGED instVars
    BY <1>4 DEF Main
  <2>2. CASE Create
    <3>1. mpc < NumThreads /\ mpc + 1 \in Thread /\ mpc' = mpc + 1
          /\ pc' = [pc EXCEPT ![mpc + 1] = "test"]
      BY <2>2, <1>1 DEF Create, Thread
    <3>2. pc[mpc + 1] = "none" /\ mpc + 1 \notin foundNone
      BY <1>1, <3>1
    <3>3. Makers' = Makers
      BY <1>1, <2>1, <3>1, <3>2 DEF instVars, Makers
    <3> QED BY <1>1, <2>1, <3>1, <3>2, <3>3 DEF instVars, Outside
  <2>3. CASE SetTimers \/ Join
    <3>1. mpc >= NumThreads /\ mpc' = mpc + 1 /\ pc' = pc
      BY <2>3, <1>1 DEF SetTimers, Join
    <3>2. \A t \in Thread : t <= NumThreads
      BY DEF Thread
    <3>3. Makers' = Makers
      BY <2>1, <3>1 DEF instVars, Makers
    <3> QED BY <1>1, <2>1, <3>1, <3>2, <3>3 DEF instVars
  <2> QED BY <1>4, <2>2, <2>3 DEF Main
<1>5. ASSUME NEW t \in Thread, GetInstance(t) PROVE InstanceInv'
  <2>1. mpc' = mpc
    BY <1>5 DEF GetInstance
  <2>2. CASE TestInstance(t)
    <3>1. Makers' = Makers
      BY <1>1, <2>2 DEF TestInstance, IsNull, Makers
    <3> QED BY <1>1, <2>1, <2>2, <3>1 DEF TestInstance, IsNull, Outside
  <2>3. CASE NewInstance(t)
    <3>1. Makers' = Makers \cup {t}
      BY <1>1, <2>3 DEF NewInstance, Makers
    <3>2. made' = Cardinality(Makers') /\ made' = made + 1
      BY <2>3, <3>1, OneMaker DEF NewInstance
    <3> QED BY <1>1, <2>1, <2>3, <3>2 DEF NewInstance, Outside
  <2>4. CASE ReturnInstance(t)
    <3>1. Makers' = Makers
      BY <1>1, <2>4 DEF ReturnInstance, Makers
    <3> QED BY <1>1, <2>1, <2>4, <3>1 DEF ReturnInstance, Outside
  <2> QED BY <1>5, <2>2, <2>3, <2>4 DEF GetInstance
<1>6. ASSUME NEW t \in Thread, Enter(t) PROVE InstanceInv'
  BY <1>2, <1>6 DEF Enter, PC, Outside
<1>7. ASSUME NEW t \in Thread, InstallHandler(t) \/ Loop(t) \/ Call(t) \/ Leave(t)
      PROVE  InstanceInv'
  BY <1>2, <1>7 DEF InstallHandler, Loop, Call, Leave, PC, Outside
<1>8. ASSUME NEW t \in Thread, Deliver(t) PROVE InstanceInv'
  <2>1. UNCHANGED <<mpc, instVars>>
    BY <1>8 DEF Deliver
  <2>2. CASE pc[t] = "pause" /\ pc' = [pc EXCEPT ![t] = "call"]
    BY <1>2, <2>1, <2>2 DEF PC, Outside
  <2>3. CASE pc' = pc
    BY <1>3, <2>1, <2>3
  <2> QED BY <1>1, <1>8, <2>2, <2>3 DEF Deliver, Caught
<1>9. ASSUME NEW t \in Thread, Timeout(t) PROVE InstanceInv'
  BY <1>3, <1>9 DEF Timeout
<1>10. CASE UNCHANGED vars
  BY <1>3, <1>10 DEF vars
<1> QED
  BY <1>4, <1>5, <1>6, <1>7, <1>8, <1>9, <1>10
  DEF Next, Terminated, Step, SigHup, Run

\* A thread waits only if it has a round to do.
LEMMA RoundStep ==
  ASSUME IndInv, [Next]_vars PROVE RoundInv'
<1> USE DEF IndInv, RoundInv
<1>1. pc \in [Thread -> PC] /\ round \in [Thread -> 0 .. Rounds]
  BY DEF TypeOK, PC
<1>2. CASE Main
  BY <1>1, <1>2 DEF Main, Create, SetTimers, Join
<1>3. ASSUME NEW t \in Thread, Timeout(t) PROVE RoundInv'
  BY <1>3 DEF Timeout
<1>4. ASSUME NEW t \in Thread, GetInstance(t) PROVE RoundInv'
  BY <1>1, <1>4 DEF GetInstance, TestInstance, NewInstance, ReturnInstance
<1>5. ASSUME NEW t \in Thread, Enter(t) \/ InstallHandler(t) \/ Leave(t) PROVE RoundInv'
  BY <1>1, <1>5 DEF Enter, InstallHandler, Leave
<1>6. ASSUME NEW t \in Thread, Loop(t) PROVE RoundInv'
  BY <1>1, <1>6 DEF Loop, HasRounds
<1>7. ASSUME NEW t \in Thread, Call(t) PROVE RoundInv'
  BY <1>1, <1>7 DEF Call
<1>8. ASSUME NEW t \in Thread, Deliver(t) PROVE RoundInv'
  BY <1>1, <1>8 DEF Deliver, Caught
<1>9. CASE UNCHANGED vars
  BY <1>9 DEF vars
<1> QED
  BY <1>2, <1>3, <1>4, <1>5, <1>6, <1>7, <1>8, <1>9
  DEF Next, Terminated, Step, SigHup, Run

\* A step that moves no thread into Counted or Left, or out of it.
LEMMA SamePlaces ==
  ASSUME CountInv, DownInv, UNCHANGED <<ref_count, serverDown>>,
         overtaken => overtaken',
         \A c \in Thread : Counted(c)' = Counted(c) /\ Left(c)' = Left(c)
  PROVE  CountInv' /\ DownInv'
BY DEF CountInv, DownInv, CountOK, DownOK

\* A step of one thread leaves the other instances as they were.
LEMMA OtherInstances ==
  ASSUME CountInv, ref_count \in [Thread -> 0 .. NumThreads], NEW d \in Thread, NEW k,
         ref_count' = [ref_count EXCEPT ![d] = k], CountOK(d)',
         \A c \in Thread : c # d => Counted(c)' = Counted(c) /\ Left(c)' = Left(c)
  PROVE  CountInv'
<1> SUFFICES ASSUME NEW c \in Thread, c # d PROVE CountOK(c)'
  BY DEF CountInv
<1>1. ref_count'[c] = ref_count[c] /\ Counted(c)' = Counted(c) /\ Left(c)' = Left(c)
  OBVIOUS
<1> QED BY <1>1 DEF CountInv, CountOK

\* The count of references follows the threads, and the server goes down with
\* the last of them.
LEMMA CountStep ==
  ASSUME IndInv, [Next]_vars PROVE CountInv' /\ DownInv'
<1>1. /\ pc \in [Thread -> PC] /\ ref_count \in [Thread -> 0 .. NumThreads]
      /\ overtaken \in BOOLEAN /\ serverDown \in BOOLEAN /\ NumThreads \in Nat
      /\ TypeOK /\ CountInv /\ DownInv /\ InstanceInv
  BY TimeClientAssumption DEF IndInv, TypeOK, PC
<1>2. ASSUME NEW c \in Thread
      PROVE  /\ Counted(c) \subseteq Thread /\ Left(c) \subseteq Thread
             /\ Cardinality(Counted(c)) \in Nat
             /\ Cardinality(Counted(c) \cup Left(c)) \in Nat
             /\ ref_count[c] \in Nat /\ CountOK(c)
  <2>1. Counted(c) \subseteq Thread /\ Left(c) \subseteq Thread
        /\ Counted(c) \cup Left(c) \subseteq Thread
    BY DEF Counted, Left
  <2>2. /\ Cardinality(Counted(c)) \in Nat
        /\ Cardinality(Counted(c) \cup Left(c)) \in Nat
    BY <2>1, ThreadSets
  <2> QED BY <1>1, <2>1, <2>2 DEF CountInv
<1>3. ASSUME UNCHANGED <<pc, client, ref_count, serverDown, overtaken>>
      PROVE  CountInv' /\ DownInv'
  <2>1. \A c \in Thread : Counted(c)' = Counted(c) /\ Left(c)' = Left(c)
    BY <1>3 DEF Counted, Left
  <2> QED BY <1>1, <1>3, <2>1, SamePlaces
<1>4. ASSUME NEW t \in Thread, NEW x, pc' = [pc EXCEPT ![t] = x],
             UNCHANGED <<ref_count, serverDown, overtaken>>,
             \/ /\ {pc[t], x} \cap (Working \cup {"leave", "end"}) = {}
                /\ \A u \in Thread : u # t => client'[u] = client[u]
             \/ {pc[t], x} \subseteq Working \cup {"leave"} /\ client' = client
      PROVE  CountInv' /\ DownInv'
  <2>1. CASE /\ {pc[t], x} \cap (Working \cup {"leave", "end"}) = {}
             /\ \A u \in Thread : u # t => client'[u] = client[u]
    <3>1. \A c \in Thread : Counted(c)' = Counted(c) /\ Left(c)' = Left(c)
      BY <2>1, <1>1, <1>4, MoveOutside
    <3> QED BY <3>1, <1>1, <1>4, SamePlaces
  <2>2. CASE {pc[t], x} \subseteq Working \cup {"leave"} /\ client' = client
    <3>1. ASSUME NEW c \in Thread PROVE Counted(c)' = Counted(c) /\ Left(c)' = Left(c)
      <4>1. client[t] = c => t \in Counted(c) /\ t \notin Left(c)
        BY <2>2 DEF Counted, Left, Working
      <4>2. /\ client[t] = c => Counted(c)' = Counted(c) \cup {t} /\ Left(c)' = Left(c) \ {t}
            /\ client[t] # c => Counted(c)' = Counted(c) /\ Left(c)' = Left(c)
        BY <2>2, <1>1, <1>4, MoveIn
      <4> QED BY <4>1, <4>2
    <3> QED BY <3>1, <1>1, <1>4, SamePlaces
  <2> QED BY <1>4, <2>1, <2>2
<1>5. CASE Main
  <2>1. CASE Create
    <3>1. mpc + 1 \in Thread /\ pc[mpc + 1] = "none"
      BY <2>1, <1>1 DEF Create, InstanceInv, Thread, TypeOK
    <3> QED BY <1>4, <1>5, <2>1, <3>1 DEF Main, Create, countVars, instVars, Working
  <2>2. CASE SetTimers \/ Join
    BY <1>3, <1>5, <2>2 DEF Main, SetTimers, Join, countVars, instVars
  <2> QED BY <1>5, <2>1, <2>2 DEF Main
<1>6. ASSUME NEW t \in Thread, Timeout(t) PROVE CountInv' /\ DownInv'
  BY <1>3, <1>6 DEF Timeout, countVars, instVars
<1>7. ASSUME NEW t \in Thread, GetInstance(t) PROVE CountInv' /\ DownInv'
  <2>1. /\ pc[t] \in {"test", "new", "return"}
        /\ \E x \in {"new", "return", "enter"} : pc' = [pc EXCEPT ![t] = x]
        /\ \A u \in Thread : u # t => client'[u] = client[u]
        /\ UNCHANGED <<ref_count, serverDown, overtaken>>
    <3>1. client \in [Thread -> 0 .. NumThreads]
      BY <1>1 DEF TypeOK
    <3> QED BY <1>7, <3>1
            DEF GetInstance, TestInstance, NewInstance, ReturnInstance, countVars
  <2> QED BY <1>4, <2>1 DEF Working
<1>8. ASSUME NEW t \in Thread, Enter(t) PROVE CountInv' /\ DownInv'
  <2>0. PICK d \in Thread : d = client[t]
    BY <1>1, <1>8, HasInstance DEF Enter, Outside
  <2>1. /\ t \notin Counted(d) /\ t \notin Left(d)
        /\ serverDown' = serverDown /\ client' = client
    BY <1>8 DEF Enter, Counted, Left, Working, instVars
  <2>2. ASSUME NEW S, NEW T, S \subseteq Thread, T \subseteq Thread,
               t \notin S, t \notin T
        PROVE  Cardinality((S \cup {t}) \cup T) = Cardinality(S \cup T) + 1
    <3>1. (S \cup {t}) \cup T = (S \cup T) \cup {t}
      OBVIOUS
    <3> QED BY <2>2, <3>1, OneMore
  <2>3. CASE /\ ref_count' = [ref_count EXCEPT ![d] = @ + 1]
             /\ overtaken' = (overtaken \/ \E u \in Thread : Ended(u))
             /\ pc' = [pc EXCEPT ![t] = "install"]
    <3>1. \A c \in Thread :
            /\ d = c => Counted(c)' = Counted(c) \cup {t} /\ Left(c)' = Left(c) \ {t}
            /\ d # c => Counted(c)' = Counted(c) /\ Left(c)' = Left(c)
      <4>1. "install" \in Working \cup {"leave"}
        BY DEF Working
      <4> QED BY <1>1, <2>0, <2>1, <2>3, <4>1, MoveIn
    <3>2. Counted(d)' = Counted(d) \cup {t} /\ Left(d)' = Left(d)
      BY <2>1, <3>1
    <3>3. Cardinality(Counted(d)') = Cardinality(Counted(d)) + 1
      BY <1>2, <2>1, <3>2, OneMore
    <3>4. Cardinality(Counted(d)' \cup Left(d)') = Cardinality(Counted(d) \cup Left(d)) + 1
      BY <1>2, <2>1, <2>2, <3>2
    <3>5. CountOK(d)'
      <4>1. ref_count'[d] = ref_count[d] + 1
        BY <1>1, <2>3
      <4> QED BY <1>2, <3>3, <3>4, <4>1 DEF CountOK
    <3>6. CountInv'
      BY <1>1, <2>3, <3>1, <3>5, OtherInstances
    <3>7. ASSUME NEW c \in Thread, DownOK(c) PROVE DownOK(c)'
      <4>1. overtaken'
        BY <2>3, <3>7 DEF DownOK, Left, Ended
      <4>2. Left(c)' = Left(c)
        BY <3>1, <3>2
      <4> QED BY <3>7, <4>1, <4>2 DEF DownOK
    <3> QED BY <1>1, <2>1, <3>6, <3>7 DEF DownInv
  <2>4. CASE pc' = [pc EXCEPT ![t] = "end"] /\ UNCHANGED <<ref_count, overtaken>>
    <3>1. \A c \in Thread :
            /\ d = c => Counted(c)' = Counted(c) \ {t} /\ Left(c)' = Left(c) \cup {t}
            /\ d # c => Counted(c)' = Counted(c) /\ Left(c)' = Left(c)
      BY <1>1, <2>0, <2>1, <2>4, MoveOut
    <3>2. Counted(d)' = Counted(d) /\ Left(d)' = Left(d) \cup {t}
      BY <2>1, <3>1
    <3>3. Cardinality(Counted(d)' \cup Left(d)') = Cardinality(Counted(d) \cup Left(d)) + 1
      <4>1. Counted(d)' \cup Left(d)' = (Left(d) \cup {t}) \cup Counted(d)
        BY <3>2
      <4>2. Left(d) \cup Counted(d) = Counted(d) \cup Left(d)
        OBVIOUS
      <4> QED BY <1>2, <2>1, <2>2, <4>1, <4>2
    <3>4. CountOK(d)'
      BY <1>2, <2>4, <3>2, <3>3 DEF CountOK
    <3>5. ref_count' = [ref_count EXCEPT ![d] = ref_count[d]]
      BY <1>1, <2>4
    <3>6. CountInv'
      BY <1>1, <3>1, <3>4, <3>5, OtherInstances
    <3>7. ASSUME NEW c \in Thread, DownOK(c) PROVE DownOK(c)'
      BY <2>4, <3>1, <3>2, <3>7 DEF DownOK
    <3> QED BY <1>1, <2>1, <3>6, <3>7 DEF DownInv
  <2> QED BY <1>8, <2>0, <2>3, <2>4 DEF Enter, countVars
<1>9. ASSUME NEW t \in Thread, InstallHandler(t) \/ Loop(t)
      PROVE  CountInv' /\ DownInv'
  <2>1. /\ pc[t] \in Working /\ client' = client
        /\ \E x \in Working \cup {"leave"} : pc' = [pc EXCEPT ![t] = x]
        /\ UNCHANGED <<ref_count, serverDown, overtaken>>
    BY <1>9 DEF InstallHandler, Loop, countVars, instVars, Working
  <2> QED BY <1>4, <2>1
<1>10. ASSUME NEW t \in Thread, Deliver(t) PROVE CountInv' /\ DownInv'
  <2>1. UNCHANGED <<client, ref_count, serverDown, overtaken>>
    BY <1>10 DEF Deliver, countVars, instVars
  <2>2. CASE pc[t] = "pause" /\ pc' = [pc EXCEPT ![t] = "call"]
    BY <1>4, <2>1, <2>2 DEF Working
  <2>3. CASE pc' = pc
    BY <1>3, <2>1, <2>3
  <2> QED BY <1>1, <1>10, <2>2, <2>3 DEF Deliver, Caught
<1>11. ASSUME NEW t \in Thread, NEW d \in Thread, d = client[t], client' = client,
              pc[t] \in Working \cup {"leave"}, pc' = [pc EXCEPT ![t] = "end"]
       PROVE  /\ Counted(d)' = Counted(d) \ {t} /\ Left(d)' = Left(d) \cup {t}
              /\ Cardinality(Counted(d)') = Cardinality(Counted(d)) - 1
              /\ Counted(d)' \cup Left(d)' = Counted(d) \cup Left(d)
              /\ \A c \in Thread : c # d => Counted(c)' = Counted(c) /\ Left(c)' = Left(c)
  <2>1. t \in Counted(d)
    BY <1>11 DEF Counted
  <2>2. \A c \in Thread :
          /\ d = c => Counted(c)' = Counted(c) \ {t} /\ Left(c)' = Left(c) \cup {t}
          /\ d # c => Counted(c)' = Counted(c) /\ Left(c)' = Left(c)
    BY <1>1, <1>11, MoveOut
  <2>3. Counted(d)' = Counted(d) \ {t} /\ Left(d)' = Left(d) \cup {t}
    BY <2>2
  <2>4. Cardinality(Counted(d)') = Cardinality(Counted(d)) - 1
    BY <1>2, <2>1, <2>3, OneLess
  <2> QED BY <2>1, <2>2, <2>3, <2>4
<1>12. ASSUME NEW t \in Thread, Call(t) PROVE CountInv' /\ DownInv'
  <2>1. /\ pc[t] \in Working /\ client' = client
        /\ UNCHANGED <<ref_count, serverDown, overtaken>>
    BY <1>12 DEF Call, countVars, instVars, Working
  <2>2. CASE pc' = [pc EXCEPT ![t] = "loop"]
    BY <1>4, <2>1, <2>2 DEF Working
  <2>3. CASE pc' = [pc EXCEPT ![t] = "end"]
    <3>0. PICK d \in Thread : d = client[t]
      BY <1>1, <2>1, HasInstance DEF Outside, Working
    <3>1. /\ Counted(d)' = Counted(d) \ {t} /\ Left(d)' = Left(d) \cup {t}
          /\ Cardinality(Counted(d)') = Cardinality(Counted(d)) - 1
          /\ Counted(d)' \cup Left(d)' = Counted(d) \cup Left(d)
          /\ \A c \in Thread : c # d => Counted(c)' = Counted(c) /\ Left(c)' = Left(c)
      BY <1>11, <2>1, <2>3, <3>0
    <3>2. CountOK(d)'
      <4>1. CountOK(d) /\ ref_count[d] \in Nat /\ Cardinality(Counted(d)) \in Nat
        BY <1>2
      <4>2. Cardinality(Counted(d)') <= ref_count[d]
        BY <3>1, <4>1 DEF CountOK
      <4>3. ref_count[d] <= Cardinality(Counted(d)' \cup Left(d)')
        BY <3>1, <4>1 DEF CountOK
      <4> QED BY <2>1, <4>2, <4>3 DEF CountOK
    <3>3. ref_count' = [ref_count EXCEPT ![d] = ref_count[d]]
      BY <1>1, <2>1
    <3>4. CountInv'
      BY <1>1, <3>1, <3>2, <3>3, OtherInstances
    <3>5. ASSUME NEW c \in Thread, DownOK(c) PROVE DownOK(c)'
      BY <2>1, <3>1, <3>5 DEF DownOK
    <3> QED BY <1>1, <2>1, <3>4, <3>5 DEF DownInv
  <2> QED BY <1>12, <2>2, <2>3 DEF Call
<1>13. ASSUME NEW t \in Thread, Leave(t) PROVE CountInv' /\ DownInv'
  <2>0. PICK d \in Thread : d = client[t]
    BY <1>1, <1>13, HasInstance DEF Leave, Outside
  <2>1. /\ pc[t] = "leave" /\ client' = client /\ overtaken' = overtaken
        /\ ref_count' = [ref_count EXCEPT ![d] = @ - 1]
        /\ pc' = [pc EXCEPT ![t] = "end"]
    BY <2>0, <1>13 DEF Leave, instVars
  <2>2. /\ Counted(d)' = Counted(d) \ {t} /\ Left(d)' = Left(d) \cup {t}
        /\ Cardinality(Counted(d)') = Cardinality(Counted(d)) - 1
        /\ Counted(d)' \cup Left(d)' = Counted(d) \cup Left(d)
        /\ \A c \in Thread : c # d => Counted(c)' = Counted(c) /\ Left(c)' = Left(c)
    BY <1>11, <2>0, <2>1
  <2>3. Cardinality(Counted(d)') <= ref_count[d] - 1
    <3>1. /\ Cardinality(Counted(d)) <= ref_count[d] /\ ref_count[d] \in Nat
          /\ Cardinality(Counted(d)) \in Nat
      BY <1>2 DEF CountOK
    <3>2. Cardinality(Counted(d)') = Cardinality(Counted(d)) - 1
      BY <2>2
    <3> QED BY <3>1, <3>2
  <2>4. CountOK(d)'
    <3>1. ref_count'[d] = ref_count[d] - 1 /\ ref_count[d] \in Nat
      BY <1>1, <2>1
    <3>2. /\ ref_count[d] <= Cardinality(Counted(d) \cup Left(d))
          /\ Cardinality(Counted(d) \cup Left(d)) \in Nat
      BY <1>2 DEF CountOK
    <3>3. Cardinality(Counted(d)' \cup Left(d)') = Cardinality(Counted(d) \cup Left(d))
      BY <2>2
    <3>4. ref_count'[d] <= Cardinality(Counted(d)' \cup Left(d)')
      BY <3>1, <3>2, <3>3
    <3> QED BY <2>3, <3>1, <3>4 DEF CountOK
  <2>5. CountInv'
    BY <1>1, <2>1, <2>2, <2>4, OtherInstances
  <2>6. ref_count[d] - 1 = 0 \/ serverDown' = serverDown
    BY <1>1, <1>13, <2>0 DEF Leave, LastReference
  <2>7. CASE ref_count[d] - 1 = 0
    <3>1. Counted(d) \ {t} \subseteq Thread
      BY <1>2
    <3>2. Cardinality(Counted(d) \ {t}) \in Nat
      BY <1>1, <3>1, ThreadSets
    <3>3. Cardinality(Counted(d) \ {t}) = 0
      <4>1. Counted(d)' = Counted(d) \ {t}
        BY <2>2
      <4>2. Cardinality(Counted(d) \ {t}) <= ref_count[d] - 1
        BY <2>3, <4>1
      <4> QED BY <2>7, <3>2, <4>2
    <3>4. Counted(d)' = {}
      BY <2>2, <3>1, <3>3, LastOne
    <3> QED BY <2>2, <2>5, <3>4 DEF DownInv, DownOK
  <2>8. CASE serverDown' = serverDown
    <3>1. ASSUME NEW c \in Thread, DownOK(c) PROVE DownOK(c)'
      BY <2>1, <2>2, <3>1 DEF DownOK
    <3> QED BY <1>1, <2>5, <2>8, <3>1 DEF DownInv
  <2> QED BY <2>6, <2>7, <2>8
<1>14. CASE UNCHANGED vars
  BY <1>3, <1>14 DEF vars, countVars, instVars
<1> QED
  BY <1>5, <1>6, <1>7, <1>8, <1>9, <1>10, <1>12, <1>13, <1>14
  DEF Next, Terminated, Step, SigHup, Run

\* The inductive invariant holds in every reachable state.
THEOREM Invariance == Spec => []IndInv
<1>1. IndInv /\ [Next]_vars => IndInv'
  BY TypeStep, InstanceStep, RoundStep, CountStep DEF IndInv
<1> QED BY InitInd, <1>1, PTL DEF Spec

\* However long the sleep of client.cpp:90 is and however the threads meet in
\* getInstance, they share one client object unless two of them found none.
THEOREM ClientShared == Spec => []ClientInv
<1>1. IndInv => ClientInv
  <2> SUFFICES ASSUME IndInv, Cardinality(foundNone) <= 1,
                      NEW t \in Thread, NEW u \in Thread, client[t] # 0, client[u] # 0
               PROVE  client[t] = client[u]
    BY DEF ClientInv, SharedUnlessRaced, OneInstance, IndInv
  <2>1. foundNone \subseteq Thread /\ Makers \subseteq foundNone
    BY DEF IndInv, TypeOK, Makers
  <2>2. Cardinality(Makers) <= Cardinality(foundNone)
    BY <2>1, ThreadSets, FS_Subset
  <2>3. Cardinality(Makers) \in Nat /\ Cardinality(foundNone) \in Nat
    <3>1. Makers \subseteq Thread
      BY <2>1
    <3> QED BY <2>1, <3>1, ThreadSets, TimeClientAssumption
  <2>4. made <= 1 /\ made \in Nat
    BY <2>2, <2>3 DEF IndInv, InstanceInv
  <2>5. /\ client[t] \in Nat /\ client[t] <= made
        /\ client[u] \in Nat /\ client[u] <= made
    BY TimeClientAssumption DEF IndInv, InstanceInv, TypeOK
  <2> QED BY <2>4, <2>5
<1> QED BY <1>1, Invariance, PTL

\* And the server is not shut down while a thread that was counted in time, and in
\* the object of the others, has rounds to do, whichever calls fail.
THEOREM ShutDownByLast == Spec => []NeverShutDownWhileUsed
<1>1. IndInv => NeverShutDownWhileUsed
  <2> SUFFICES ASSUME IndInv, serverDown, ~ overtaken, OneInstance,
                      NEW t \in Thread, pc[t] \in Working
               PROVE  FALSE
    BY DEF NeverShutDownWhileUsed
  <2>1. PICK c \in Thread : Left(c) # {} /\ Counted(c) = {}
    BY DEF IndInv, DownInv, DownOK
  <2>2. c # 0
    BY TimeClientAssumption DEF Thread
  <2>3. PICK u \in Thread : client[u] = c
    BY <2>1 DEF Left
  <2>4. client[t] # 0
    BY DEF IndInv, InstanceInv, Working, Outside
  <2>5. client[t] = c
    BY <2>2, <2>3, <2>4 DEF OneInstance
  <2> QED BY <2>1, <2>5 DEF Counted
<1> QED BY <1>1, Invariance, PTL

================================================================================
