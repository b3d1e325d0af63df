-------------------------- MODULE Subscriber_proofs --------------------------
(***************************************************************************)
(* Proofs about Subscriber, for every set of requests, tracks and streams: *)
(* type correctness, the agreement of the subscriptions with their timers, *)
(* names and aliases, and that a subscription moves as the state machine   *)
(* of the core package allows.                                             *)
(***************************************************************************)
EXTENDS Subscriber, TLAPS

Messages == {"ok", "error", "publish", "done", "done0", "fin", "reset"}

\* A request the peer knows of names a track; one it does not know of has not
\* begun on our side and has nothing in flight.
Known ==
  \A s \in Ids :
    IF peer[s] = "none" THEN stage[s] = "idle" /\ toUs[s] = <<>> ELSE track[s] \in Tracks

\* What a track name or a data stream leads to is a request the peer knows of.
Owned ==
  /\ \A t \in Tracks : byName[t] # None => peer[byName[t]] # "none"
  /\ \A k \in Streams : IF owner[k] = None THEN reader[k] = "none" ELSE peer[owner[k]] # "none"

\* What is left of a nonempty sequence is a sequence of the same set.
LEMMA TailType ==
  ASSUME NEW T, NEW s \in Seq(T), s # <<>>
  PROVE  Tail(s) \in Seq(T) /\ Head(s) \in T
OBVIOUS

\* The alias of a request that names a track is an alias.
LEMMA AliasType ==
  ASSUME NEW s \in Ids, track[s] \in Tracks
  PROVE  AliasOf(s) \in Aliases /\ AliasOf(s) # None
BY SubscriberAssumption DEF AliasOf

\* Reading a message and cancelling a request keep the type of what is in flight.
LEMMA ReceiveType ==
  ASSUME TypeOK, NEW s \in Ids, NEW m, Receive(s, m) \/ Abort(s)
  PROVE  toUs' \in [Ids -> Seq(Messages)]
<1>1. toUs \in [Ids -> Seq(Messages)]
  BY DEF TypeOK, Messages
<1>2. CASE Abort(s)
  <2>1. <<>> \in Seq(Messages)
    OBVIOUS
  <2>2. QED
    BY <1>1, <1>2, <2>1 DEF Abort
<1>3. CASE Receive(s, m)
  <2>1. toUs[s] \in Seq(Messages) /\ toUs[s] # <<>>
    BY <1>1, <1>3 DEF Receive
  <2>2. Tail(toUs[s]) \in Seq(Messages)
    BY <2>1, TailType
  <2>3. QED
    BY <1>1, <1>3, <2>2 DEF Receive
<1>4. QED
  BY <1>2, <1>3

\* So does a message of the peer.
LEMMA SendType ==
  ASSUME TypeOK, NEW s \in Ids, NEW ms \in Seq(Messages), Send(s, ms)
  PROVE  toUs' \in [Ids -> Seq(Messages)]
<1>1. toUs \in [Ids -> Seq(Messages)]
  BY DEF TypeOK, Messages
<1>2. toUs[s] \o ms \in Seq(Messages) /\ <<>> \in Seq(Messages)
  BY <1>1
<1>3. (IF s \in cancelled THEN <<>> ELSE toUs[s] \o ms) \in Seq(Messages)
  BY <1>2
<1>4. QED
  BY <1>1, <1>3 DEF Send

\* Removing a subscription keeps the types of the tables.
LEMMA RemoveType ==
  ASSUME TypeOK, NEW s \in Ids, Remove(s)
  PROVE  /\ subs' \subseteq Ids
         /\ track' \in [Ids -> Tracks \cup {None}]
         /\ alias' \in [Ids -> Aliases \cup {None}]
         /\ byAlias' \in [Aliases -> Ids \cup {None}]
         /\ byName' \in [Tracks -> Ids \cup {None}]
BY DEF TypeOK, Remove, Unrouted

\* So does deleting its state.
LEMMA DeleteType ==
  ASSUME TypeOK, NEW s \in Ids, Delete(s) \/ Fail(s) \/ Unchanged
  PROVE  /\ subs' \subseteq Ids /\ draining' \subseteq Ids
         /\ track' \in [Ids -> Tracks \cup {None}]
         /\ alias' \in [Ids -> Aliases \cup {None}]
         /\ byAlias' \in [Aliases -> Ids \cup {None}]
         /\ byName' \in [Tracks -> Ids \cup {None}]
         /\ owner' \in [Streams -> Ids \cup {None}]
         /\ unread' \in [Streams -> 0 .. MaxObjects]
         /\ finish' \in [Streams -> {"no", "fin", "reset"}]
         /\ reader' \in [Streams -> {"none", "open", "closed"}]
<1>1. CASE Delete(s)
  BY <1>1, RemoveType DEF TypeOK, Delete, StopReaders
<1>2. CASE Unchanged
  BY <1>2 DEF TypeOK, Unchanged, manager, data
<1>3. QED
  BY <1>1, <1>2 DEF Fail

\* The variables have their types, and requests are known, in the first state.
LEMMA InitTyped == Init => TypeOK /\ Known /\ Owned
<1> SUFFICES ASSUME Init PROVE TypeOK /\ Known /\ Owned
  OBVIOUS
<1>1. \A S : <<>> \in Seq(S)
  OBVIOUS
<1>2. 0 \in 0 .. MaxObjects
  BY SubscriberAssumption
<1>3. toUs \in [Ids -> Seq({"ok", "error", "publish", "done", "done0", "fin", "reset"})]
  BY <1>1 DEF Init
<1>4. /\ owner \in [Streams -> Ids \cup {None}]
      /\ unread \in [Streams -> 0 .. MaxObjects]
      /\ finish \in [Streams -> {"no", "fin", "reset"}]
      /\ reader \in [Streams -> {"none", "open", "closed"}]
  BY <1>2 DEF Init
<1>5. TypeOK
  BY <1>3, <1>4 DEF Init, TypeOK
<1>6. QED
  BY <1>5 DEF Init, Known, Owned

\* A step keeps the types, and what is known.
LEMMA StepTyped == TypeOK /\ Known /\ Owned /\ [Next]_vars => TypeOK' /\ Known'
<1> SUFFICES ASSUME TypeOK, Known, Owned, [Next]_vars PROVE TypeOK' /\ Known'
  OBVIOUS
<1> USE DEF manager, wire, data
<1>0. CASE UNCHANGED vars
  BY <1>0 DEF TypeOK, Known, vars
<1>1. ASSUME NEW s \in Ours, NEW t \in Tracks, Subscribe(s, t) PROVE TypeOK' /\ Known'
  <2>1. s \in Ids
    BY DEF Ids
  <2>2. TypeOK'
    BY <1>1, <2>1 DEF TypeOK, Subscribe, Stage
  <2>3. QED
    BY <1>1, <2>1, <2>2 DEF TypeOK, Known, Subscribe, Stage
<1>2. ASSUME NEW s \in Ids, ReadOk(s) PROVE TypeOK' /\ Known'
  <2>1. toUs' \in [Ids -> Seq(Messages)] /\ track[s] \in Tracks /\ toUs[s] # <<>>
    BY <1>2, ReceiveType DEF ReadOk, Known, Receive
  <2>2. AliasOf(s) \in Aliases
    BY <2>1, AliasType
  <2>3. TypeOK'
    BY <1>2, <2>1, <2>2 DEF TypeOK, ReadOk, Stage, RegisterAlias, Messages
  <2>4. QED
    BY <1>2, <2>1, <2>3 DEF TypeOK, Known, ReadOk, Stage, Receive
<1>3. ASSUME NEW s \in Ids, RejectOk(s) \/ SubscribeFails(s) PROVE TypeOK' /\ Known'
  <2>1. toUs' \in [Ids -> Seq(Messages)] /\ track[s] \in Tracks /\ toUs[s] # <<>>
    BY <1>3, ReceiveType DEF RejectOk, SubscribeFails, Known, Receive
  <2>2. TypeOK'
    BY <1>3, <2>1, RemoveType DEF TypeOK, RejectOk, SubscribeFails, Stage, Messages, Abort
  <2>3. QED
    BY <1>3, <2>1, <2>2
    DEF TypeOK, Known, RejectOk, SubscribeFails, Stage, Receive, Abort, Remove
<1>4. ASSUME NEW s \in Ids, ReadDone(s) PROVE TypeOK' /\ Known'
  <2>1. toUs' \in [Ids -> Seq(Messages)] /\ toUs[s] # <<>>
    BY <1>4, ReceiveType DEF ReadDone, Receive
  <2>2. TypeOK'
    BY <1>4, <2>1, DeleteType DEF TypeOK, ReadDone, Messages
  <2>3. track' = track
    BY <1>4 DEF ReadDone, Delete, Remove, Unchanged
  <2>4. QED
    BY <1>4, <2>1, <2>2, <2>3 DEF TypeOK, Known, ReadDone, Receive
<1>5. ASSUME NEW s \in Ids, DrainEnds(s) PROVE TypeOK' /\ Known'
  BY <1>5, DeleteType DEF TypeOK, Known, DrainEnds, Delete, Remove
<1>6. ASSUME NEW s \in Ids, ReadEnd(s) PROVE TypeOK' /\ Known'
  <2>1. toUs' \in [Ids -> Seq(Messages)] /\ toUs[s] # <<>>
    BY <1>6, ReceiveType DEF ReadEnd, Receive
  <2>2. TypeOK'
    BY <1>6, <2>1, DeleteType DEF TypeOK, ReadEnd, Stage, Messages
  <2>3. track' = track
    BY <1>6 DEF ReadEnd, Fail, Delete, Remove, Unchanged
  <2>4. QED
    BY <1>6, <2>1, <2>2, <2>3 DEF TypeOK, Known, ReadEnd, Receive, Stage
<1>7. ASSUME NEW s \in Ids, Unsubscribe(s) PROVE TypeOK' /\ Known'
  <2>1. toUs' \in [Ids -> Seq(Messages)]
    BY <1>7, ReceiveType DEF Unsubscribe
  <2>2. TypeOK'
    BY <1>7, <2>1 DEF TypeOK, Unsubscribe, Stage, Messages, Abort
  <2>3. QED
    BY <1>7, <2>1, <2>2 DEF TypeOK, Known, Unsubscribe, Stage, Abort
<1>8. ASSUME NEW s \in Ids, Left(s) PROVE TypeOK' /\ Known'
  <2>1. TypeOK'
    BY <1>8, DeleteType DEF TypeOK, Left, Stage
  <2>2. QED
    BY <1>8, <2>1 DEF TypeOK, Known, Left, Stage, Delete, Remove
<1>9. ASSUME NEW s \in Ids, Datagram(s) PROVE TypeOK' /\ Known'
  BY <1>9 DEF TypeOK, Known, Datagram, Route
<1>10. ASSUME NEW p \in Theirs, RefusePublish(p) \/ TakePublish(p) PROVE TypeOK' /\ Known'
  <2>1. p \in Ids
    BY DEF Ids
  <2>2. toUs' \in [Ids -> Seq(Messages)] /\ toUs[p] # <<>> /\ track[p] \in Tracks
    BY <1>10, <2>1, ReceiveType DEF RefusePublish, TakePublish, Receive, Known
  <2>3. CASE RefusePublish(p)
    <3>1. TypeOK'
      BY <2>1, <2>2, <2>3 DEF TypeOK, RefusePublish, Stage, Messages
    <3>2. QED
      BY <2>1, <2>2, <2>3, <3>1 DEF TypeOK, Known, RefusePublish, Stage, Receive
  <2>4. CASE TakePublish(p)
    <3> DEFINE mine == byName[track[p]]
    <3>1. mine \in Ids \cup {None} /\ (mine # None => peer[mine] # "none")
      BY <2>2 DEF TypeOK, Owned
    <3>2. \/ closed' = TRUE /\ UNCHANGED <<manager, stage, cancelled>>
          \/ closed' = closed /\ Stage(p, "accepting") /\ UNCHANGED <<manager, cancelled>>
          \/ /\ mine # None /\ closed' = closed /\ Remove(mine)
             /\ cancelled' = cancelled \cup {mine}
             /\ stage' = [stage EXCEPT ![p] = "accepting", ![mine] = "over"]
      BY <2>4 DEF TakePublish
    <3>3. UNCHANGED <<draining, peer, data, missed>>
      BY <2>4 DEF TakePublish
    <3>4. Receive(p, "publish")
      BY <2>4 DEF TakePublish
    <3> HIDE DEF mine
    <3>5. TypeOK'
      <4>1. CASE closed' = TRUE /\ UNCHANGED <<manager, stage, cancelled>>
        BY <2>2, <3>3, <4>1 DEF TypeOK, Messages
      <4>2. CASE closed' = closed /\ Stage(p, "accepting") /\ UNCHANGED <<manager, cancelled>>
        BY <2>1, <2>2, <3>3, <4>2 DEF TypeOK, Messages, Stage
      <4>3. CASE /\ mine # None /\ closed' = closed /\ Remove(mine)
                 /\ cancelled' = cancelled \cup {mine}
                 /\ stage' = [stage EXCEPT ![p] = "accepting", ![mine] = "over"]
        BY <2>1, <2>2, <3>1, <3>3, <4>3, RemoveType DEF TypeOK, Messages
      <4>4. QED
        BY <3>2, <4>1, <4>2, <4>3
    <3>6. track' = track /\ peer' = peer
      BY <3>2, <3>3 DEF Remove
    <3>7. \A r \in Ids : stage'[r] # stage[r] => r = p \/ (r = mine /\ mine # None)
      BY <2>1, <3>2 DEF TypeOK, Stage
    <3>8. \A r \in Ids : toUs'[r] # toUs[r] => r = p
      BY <3>4 DEF TypeOK, Receive
    <3>9. QED
      BY <2>1, <2>2, <3>1, <3>5, <3>6, <3>7, <3>8 DEF TypeOK, Known
  <2>5. QED
    BY <1>10, <2>3, <2>4
<1>11. ASSUME NEW p \in Theirs, AcceptPublish(p) PROVE TypeOK' /\ Known'
  <2>1. p \in Ids
    BY DEF Ids
  <2>2. track[p] \in Tracks /\ peer[p] # "none"
    BY <1>11, <2>1 DEF AcceptPublish, Known
  <2>3. AliasOf(p) \in Aliases
    BY <2>1, <2>2, AliasType
  <2>4. TypeOK'
    BY <1>11, <2>1, <2>2, <2>3 DEF TypeOK, AcceptPublish, Stage
  <2>5. QED
    BY <1>11, <2>1, <2>2, <2>4 DEF TypeOK, Known, AcceptPublish, Stage
<1>12. ASSUME NEW k \in Streams, StreamStep(k) PROVE TypeOK' /\ Known'
  <2>1. CASE ReadHeader(k) \/ ReadStreamEnd(k)
    BY <2>1 DEF TypeOK, Known, ReadHeader, ReadStreamEnd
  <2>2. CASE ReadObject(k)
    <3>1. unread[k] - 1 \in 0 .. MaxObjects
      BY <2>2, SubscriberAssumption DEF TypeOK, ReadObject
    <3>2. unread' \in [Streams -> 0 .. MaxObjects]
      BY <2>2, <3>1 DEF TypeOK, ReadObject
    <3>3. missed' \subseteq Ids
      BY <2>2 DEF TypeOK, ReadObject, Route
    <3>4. QED
      BY <2>2, <3>2, <3>3 DEF TypeOK, Known, ReadObject
  <2>3. CASE ReadMalformed(k)
    <3> DEFINE s == byAlias[AliasOf(owner[k])]
    <3>1. s \in Ids \cup {None}
      <4>1. owner[k] \in Ids /\ track[owner[k]] \in Tracks
        BY <2>3 DEF ReadMalformed, Owned, Known, TypeOK
      <4>2. QED
        BY <4>1, AliasType DEF TypeOK
    <3>2. /\ reader' = [reader EXCEPT ![k] = "closed"]
          /\ UNCHANGED <<manager, draining, closed, peer, owner, unread, finish, missed>>
      BY <2>3 DEF ReadMalformed
    <3>3. CASE s # None /\ stage[s] = "open"
      <4>1. Abort(s) /\ Stage(s, "leaving")
        BY <2>3, <3>3 DEF ReadMalformed
      <4> HIDE DEF s
      <4>2. toUs' \in [Ids -> Seq(Messages)]
        BY <3>1, <3>3, <4>1, ReceiveType
      <4>3. TypeOK'
        BY <3>1, <3>2, <3>3, <4>1, <4>2 DEF TypeOK, Abort, Stage, Messages
      <4>4. QED
        BY <3>1, <3>2, <3>3, <4>1, <4>3 DEF TypeOK, Known, Abort, Stage
    <3>4. CASE ~(s # None /\ stage[s] = "open")
      <4>1. UNCHANGED <<cancelled, toUs, stage>>
        BY <2>3, <3>4 DEF ReadMalformed
      <4>2. QED
        BY <3>2, <4>1 DEF TypeOK, Known
    <3>5. QED
      BY <3>3, <3>4
  <2>4. QED
    BY <1>12, <2>1, <2>2, <2>3 DEF StreamStep
<1>13. ASSUME PeerStep PROVE TypeOK' /\ Known'
  <2>1. ASSUME NEW s \in Ours, PeerAnswers(s) PROVE TypeOK' /\ Known'
    <3>1. s \in Ids
      BY DEF Ids
    <3>2. <<"ok">> \in Seq(Messages) /\ <<"error">> \in Seq(Messages)
      BY DEF Messages
    <3>3. toUs' \in [Ids -> Seq(Messages)]
      BY <2>1, <3>1, <3>2, SendType DEF PeerAnswers
    <3>4. TypeOK'
      BY <2>1, <3>1, <3>3 DEF TypeOK, PeerAnswers, PeerAt, Messages
    <3>5. QED
      BY <2>1, <3>1, <3>4 DEF TypeOK, Known, PeerAnswers, PeerAt, Send
  <2>2. ASSUME NEW p \in Theirs, NEW t \in Tracks, PeerPublishes(p, t) PROVE TypeOK' /\ Known'
    <3>1. p \in Ids
      BY DEF Ids
    <3>2. <<"publish">> \in Seq(Messages)
      BY DEF Messages
    <3>3. toUs' \in [Ids -> Seq(Messages)]
      BY <2>2, <3>1, <3>2, SendType DEF PeerPublishes
    <3>4. TypeOK'
      BY <2>2, <3>1, <3>3 DEF TypeOK, PeerPublishes, PeerAt, Messages
    <3>5. QED
      BY <2>2, <3>1, <3>4 DEF TypeOK, Known, PeerPublishes, PeerAt, Send
  <2>3. ASSUME NEW k \in Streams, NEW s \in Ids, PeerOpens(k, s) PROVE TypeOK' /\ Known'
    BY <2>3 DEF TypeOK, Known, PeerOpens
  <2>4. ASSUME NEW k \in Streams, PeerWrites(k) PROVE TypeOK' /\ Known'
    <3>1. unread[k] + 1 \in 0 .. MaxObjects
      BY <2>4, SubscriberAssumption DEF TypeOK, PeerWrites
    <3>2. QED
      BY <2>4, <3>1 DEF TypeOK, Known, PeerWrites
  <2>5. ASSUME NEW k \in Streams, PeerFinishes(k) PROVE TypeOK' /\ Known'
    BY <2>5 DEF TypeOK, Known, PeerFinishes
  <2>6. ASSUME NEW s \in Ids, PeerDone(s) PROVE TypeOK' /\ Known'
    <3> DEFINE ms == <<IF {k \in Streams : owner[k] = s} = {} THEN "done0" ELSE "done", "fin">>
    <3>1. ms \in Seq(Messages)
      BY DEF Messages
    <3>2. Send(s, ms) /\ PeerAt(s, "done")
      BY <2>6 DEF PeerDone
    <3> HIDE DEF ms
    <3>3. toUs' \in [Ids -> Seq(Messages)]
      BY <3>1, <3>2, SendType
    <3>4. /\ UNCHANGED <<manager, draining, stage, closed, cancelled, data, missed>>
          /\ peer[s] = "live"
      BY <2>6 DEF PeerDone
    <3>5. TypeOK'
      BY <3>2, <3>3, <3>4 DEF TypeOK, PeerAt, Messages
    <3>6. QED
      BY <3>2, <3>4, <3>5 DEF TypeOK, Known, PeerAt, Send
  <2>7. ASSUME NEW s \in Ids, PeerResets(s) PROVE TypeOK' /\ Known'
    <3>1. <<"reset">> \in Seq(Messages)
      BY DEF Messages
    <3>2. toUs' \in [Ids -> Seq(Messages)]
      BY <2>7, <3>1, SendType DEF PeerResets
    <3>3. TypeOK'
      BY <2>7, <3>2 DEF TypeOK, PeerResets, PeerAt, ResetStreams, Messages
    <3>4. QED
      BY <2>7, <3>3 DEF TypeOK, Known, PeerResets, PeerAt, Send
  <2>8. ASSUME NEW s \in Ids, PeerCancelled(s) PROVE TypeOK' /\ Known'
    BY <2>8 DEF TypeOK, Known, PeerCancelled, PeerAt, ResetStreams
  <2>9. QED
    BY <1>13, <2>1, <2>2, <2>3, <2>4, <2>5, <2>6, <2>7, <2>8 DEF PeerStep
<1>14. QED
  BY <1>0, <1>1, <1>2, <1>3, <1>4, <1>5, <1>6, <1>7, <1>8, <1>9, <1>10, <1>11, <1>12, <1>13
  DEF Next, OurStep, PublishStep

\* A step keeps what names and streams lead to.
LEMMA StepOwned == TypeOK /\ Known /\ Owned /\ [Next]_vars => Owned'
<1> SUFFICES ASSUME TypeOK, Known, Owned, [Next]_vars PROVE Owned'
  OBVIOUS
<1> USE DEF manager, wire, data
\* The peer does not forget a request.
<1>1. \A s \in Ids : peer[s] # "none" => peer'[s] # "none"
  <2>1. CASE \E s \in Ids : OurStep(s)
    BY <2>1 DEF OurStep, ReadOk, RejectOk, SubscribeFails, ReadDone, DrainEnds, ReadEnd,
      Unsubscribe, Left, Datagram
  <2>2. CASE \E p \in Theirs : PublishStep(p)
    BY <2>2 DEF PublishStep, RefusePublish, TakePublish, AcceptPublish
  <2>3. CASE \E k \in Streams : StreamStep(k)
    BY <2>3 DEF StreamStep, ReadHeader, ReadObject, ReadMalformed, ReadStreamEnd
  <2>4. CASE \E s \in Ours, t \in Tracks : Subscribe(s, t)
    BY <2>4 DEF TypeOK, Subscribe
  <2>5. CASE PeerStep
    BY <2>5 DEF TypeOK, PeerStep, PeerAnswers, PeerPublishes, PeerOpens, PeerWrites,
      PeerFinishes, PeerDone, PeerResets, PeerCancelled, PeerAt
  <2>6. QED
    BY <2>1, <2>2, <2>3, <2>4, <2>5 DEF Next, vars
<1>2. \A t \in Tracks : byName'[t] # byName[t] =>
        byName'[t] = None \/ (byName'[t] \in Ids /\ peer'[byName'[t]] # "none")
  <2>1. CASE UNCHANGED byName
    BY <2>1
  <2>2. ASSUME NEW s \in Ours, NEW t \in Tracks, Subscribe(s, t)
        PROVE  \A u \in Tracks : byName'[u] # byName[u] => byName'[u] = s /\ peer'[s] # "none"
    BY <2>2 DEF TypeOK, Subscribe, Ids
  <2>3. ASSUME NEW p \in Theirs, AcceptPublish(p)
        PROVE  \A u \in Tracks : byName'[u] # byName[u] => byName'[u] = p /\ peer'[p] # "none"
    BY <2>3 DEF TypeOK, AcceptPublish, Known, Ids
  <2>4. ASSUME NEW s, Remove(s)
        PROVE  \A u \in Tracks : byName'[u] # byName[u] => byName'[u] = None
    BY <2>4 DEF TypeOK, Remove
  <2>5. \/ UNCHANGED byName
        \/ \E s : Remove(s)
        \/ \E s \in Ours, t \in Tracks : Subscribe(s, t)
        \/ \E p \in Theirs : AcceptPublish(p)
    BY DEF vars, Next, OurStep, PublishStep, StreamStep, PeerStep, ReadOk,
      RejectOk, SubscribeFails, ReadDone, DrainEnds, ReadEnd, Unsubscribe, Left, Datagram,
      RefusePublish, TakePublish, ReadHeader, ReadObject, ReadMalformed,
      ReadStreamEnd, PeerAnswers, PeerPublishes, PeerOpens, PeerWrites, PeerFinishes, PeerDone,
      PeerResets, PeerCancelled, Delete, Fail, Unchanged
  <2>6. QED
    BY <2>1, <2>2, <2>3, <2>4, <2>5 DEF TypeOK, Ids
<1>3. \A t \in Tracks : byName'[t] # None => peer'[byName'[t]] # "none"
  BY <1>1, <1>2 DEF TypeOK, Owned
<1>4. \A k \in Streams :
        /\ owner'[k] = owner[k] \/ (owner[k] = None /\ owner'[k] \in Ids /\ peer'[owner'[k]] # "none")
        /\ reader[k] = "none" /\ reader'[k] # "none" => owner[k] # None
  <2>1. ASSUME NEW j \in Streams, NEW s \in Ids, PeerOpens(j, s)
        PROVE  /\ reader' = reader /\ peer'[s] # "none" /\ owner[j] = None
               /\ owner' = [owner EXCEPT ![j] = s]
    BY <2>1 DEF PeerOpens
  <2>2. ASSUME NEW j \in Streams, StreamStep(j)
        PROVE  /\ UNCHANGED owner
               /\ \A k \in Streams : reader[k] = "none" /\ reader'[k] # "none" => owner[k] # None
    BY <2>2 DEF TypeOK, StreamStep, ReadHeader, ReadObject, ReadMalformed, ReadStreamEnd
  <2>3. ASSUME NEW a, StopReaders(a)
        PROVE  \A k \in Streams : reader[k] = "none" => reader'[k] = "none"
    BY <2>3 DEF TypeOK, StopReaders
  <2>4. \/ UNCHANGED <<owner, reader>>
        \/ \E a : StopReaders(a) /\ UNCHANGED owner
        \/ \E j \in Streams : StreamStep(j)
        \/ \E j \in Streams, s \in Ids : PeerOpens(j, s)
    BY DEF vars, Next, OurStep, PublishStep, PeerStep, Subscribe, ReadOk,
      RejectOk, SubscribeFails, ReadDone, DrainEnds, ReadEnd, Unsubscribe, Left, Datagram,
      RefusePublish, TakePublish, AcceptPublish, PeerAnswers, PeerPublishes, PeerWrites,
      PeerFinishes, PeerDone, PeerResets, PeerCancelled, Delete, Fail, Unchanged
  <2>5. QED
    BY <2>1, <2>2, <2>3, <2>4 DEF TypeOK
<1>5. \A k \in Streams : IF owner'[k] = None THEN reader'[k] = "none" ELSE peer'[owner'[k]] # "none"
  <2> SUFFICES ASSUME NEW k \in Streams
               PROVE  IF owner'[k] = None THEN reader'[k] = "none" ELSE peer'[owner'[k]] # "none"
    OBVIOUS
  <2>1. CASE owner'[k] = owner[k]
    BY <1>1, <1>4, <2>1 DEF Owned, TypeOK
  <2>2. CASE owner'[k] # owner[k]
    BY <1>4, <2>2, SubscriberAssumption DEF Owned, TypeOK
  <2>3. QED
    BY <2>1, <2>2
<1>6. QED
  BY <1>3, <1>5 DEF Owned

\* The variables have their types in every state.
THEOREM TypeCorrect == Spec => []TypeOK
<1>1. Spec => [](TypeOK /\ Known /\ Owned)
  BY InitTyped, StepTyped, StepOwned, PTL DEF Spec
<1>2. QED
  BY <1>1, PTL

-----------------------------------------------------------------------------
(* A subscription moves as the core state machine allows.                  *)

\* A step moves no request but along the stages of its life: into a wait for an
\* answer, on to an open request, and from anywhere to its end.
StagesMove ==
  \A s \in Ids :
    \/ stage'[s] = stage[s]
    \/ stage[s] = "idle" /\ stage'[s] \in {"asked", "accepting"}
    \/ stage[s] \in {"asked", "accepting"} /\ stage'[s] = "open"
    \/ stage[s] = "open" /\ stage'[s] = "leaving"
    \/ stage'[s] = "over"

\* Every step does so.
LEMMA StagesStep == TypeOK /\ [Next]_vars => StagesMove
<1> SUFFICES ASSUME TypeOK, [Next]_vars PROVE StagesMove
  OBVIOUS
<1> USE DEF StagesMove, TypeOK, Stage
<1>1. CASE \E s \in Ids : OurStep(s)
  BY <1>1 DEF OurStep, ReadOk, RejectOk, SubscribeFails, ReadDone, DrainEnds, ReadEnd,
    Unsubscribe, Left, Datagram
<1>2. ASSUME NEW p \in Theirs, PublishStep(p) PROVE StagesMove
  <2>1. CASE RefusePublish(p)
    BY <2>1 DEF RefusePublish
  <2>2. CASE TakePublish(p)
    <3>1. \/ UNCHANGED stage
          \/ stage[p] = "idle" /\ stage' = [stage EXCEPT ![p] = "accepting"]
          \/ /\ stage[p] = "idle"
             /\ stage' = [stage EXCEPT ![p] = "accepting", ![byName[track[p]]] = "over"]
      BY <2>2 DEF TakePublish
    <3>2. QED
      BY <3>1
  <2>3. CASE AcceptPublish(p)
    BY <2>3 DEF AcceptPublish
  <2>4. QED
    BY <1>2, <2>1, <2>2, <2>3 DEF PublishStep
<1>3. CASE \E k \in Streams : StreamStep(k)
  BY <1>3 DEF StreamStep, ReadHeader, ReadObject, ReadMalformed, ReadStreamEnd
<1>4. CASE \E s \in Ours, t \in Tracks : Subscribe(s, t)
  BY <1>4 DEF Subscribe
<1>5. CASE PeerStep
  BY <1>5 DEF PeerStep, PeerAnswers, PeerPublishes, PeerOpens, PeerWrites,
    PeerFinishes, PeerDone, PeerResets, PeerCancelled
<1>6. QED
  BY <1>1, <1>2, <1>3, <1>4, <1>5 DEF Next, vars

\* The subscriptions implement the subscription state machine of the core package:
\* what they do is a behaviour of SubscriptionStateMachine, so no late answer,
\* PUBLISH or data brings a request back that has ended.
THEOREM ImplementsStateMachine == Spec => LivesOnce
<1>1. Init => Life!Init
  BY DEF Init, Life!Init, Life!Initial, StateOf
<1>2. TypeOK /\ TypeOK' /\ [Next]_vars => [Life!Next]_([s \in Ids |-> StateOf(s)])
  <2> SUFFICES ASSUME TypeOK, TypeOK', [Next]_vars PROVE Life!Next
    OBVIOUS
  <2>1. StagesMove
    BY StagesStep
  <2>2. \A s \in Ids : StateOf(s)' \in {"pending", "active", "ended"}
    BY DEF StateOf
  <2>3. Life!Transitions = [pending |-> {"active", "error", "ended"},
                            active  |-> {"ended", "error"},
                            ended   |-> {},
                            error   |-> {}]
    BY DEF Life!Transitions, Life!SubscriptionTransitions
  <2>4. \A s \in Ids : StateOf(s)' = StateOf(s) \/ StateOf(s)' \in Life!Transitions[StateOf(s)]
    BY <2>1, <2>3 DEF StagesMove, StateOf, TypeOK
  <2>5. [s \in Ids |-> StateOf(s)]' \in [Ids -> DOMAIN Life!Transitions]
    BY <2>2, <2>3
  <2>6. QED
    BY <2>4, <2>5 DEF Life!Next, Life!CanTransition
<1>3. QED
  BY <1>1, <1>2, TypeCorrect, PTL DEF Spec, LivesOnce, Life!Spec

-----------------------------------------------------------------------------
(* The subscriptions, their timers, their names and their aliases agree.   *)

\* Where the requests that have a subscription, a timer or an alias are.
Held ==
  \A s \in Ids :
    /\ s \in subs => stage[s] \in {"asked", "open", "leaving"}
    /\ stage[s] = "asked" => s \in subs
    /\ s \in draining => s \in subs /\ stage[s] # "asked"
    /\ IF alias[s] = None THEN s \in subs => stage[s] = "asked"
       ELSE alias[s] = AliasOf(s) /\ stage[s] \in {"open", "leaving", "over"}

\* A track name leads to a subscription of that track.
NamesHeld ==
  \A t \in Tracks : byName[t] # None => byName[t] \in subs /\ track[byName[t]] = t

\* A Track Alias leads to a subscription that has it.
Routes ==
  \A a \in Aliases : byAlias[a] # None => byAlias[a] \in subs /\ alias[byAlias[a]] = a

\* A subscription that has an alias is found by it.
Found == \A s \in subs : alias[s] # None => byAlias[alias[s]] = s

Agree == Held /\ NamesHeld /\ Routes

\* No Track Alias is given to two requests, which a publisher of this code base
\* keeps to (nextPublicationAlias).
OneAliasEach ==
  \A r, s \in Ids : \A t, u \in Tracks : Alias[<<r, t>>] = Alias[<<s, u>>] => r = s

\* Removing a subscription, whether its streams and its timer are stopped too or
\* not, takes its routes along and nobody else's.
LEMMA RemoveKeeps ==
  ASSUME TypeOK, NamesHeld, Routes, NEW s \in Ids, Remove(s)
  PROVE  /\ NamesHeld' /\ Routes'
         /\ Found => Found'
         /\ subs' = subs \ {s} /\ track' = track /\ alias' = alias
<1>1. subs' = subs \ {s} /\ track' = track /\ alias' = alias
  BY DEF Remove
<1>2. \A a \in Aliases : byAlias'[a] = IF byAlias[a] = s THEN None ELSE byAlias[a]
  BY DEF Remove, Unrouted, Routes, TypeOK
<1>3. \A t \in Tracks : byName'[t] = None \/ (byName'[t] = byName[t] /\ byName[t] # s)
  BY DEF Remove, NamesHeld, TypeOK
<1>4. NamesHeld'
  BY <1>1, <1>3 DEF NamesHeld
<1>5. Routes'
  BY <1>1, <1>2 DEF Routes
<1>6. Found => Found'
  BY <1>1, <1>2 DEF Found, TypeOK
<1>7. QED
  BY <1>1, <1>4, <1>5, <1>6

\* An action that leaves the tables and the tracks alone keeps what they agree on.
LEMMA TablesKept ==
  ASSUME UNCHANGED manager
  PROVE  /\ NamesHeld => NamesHeld'
         /\ Routes => Routes'
         /\ Found => Found'
         /\ \A s \in Ids : AliasOf(s)' = AliasOf(s)
BY DEF manager, NamesHeld, Routes, Found, AliasOf

\* In the first state there is nothing to disagree on.
LEMMA InitAgree == Init => Agree /\ Found /\ missed = {}
BY DEF Init, Agree, Held, NamesHeld, Routes, Found

\* Giving a request an alias that only it can have, and routing it to the request
\* unless another one has it already.
LEMMA AliasGiven ==
  ASSUME TypeOK, Routes, NEW s \in Ids, track[s] \in Tracks, alias[s] = None,
         alias' = [alias EXCEPT ![s] = AliasOf(s)],
         s \in subs', subs \subseteq subs', subs' \subseteq subs \cup {s},
         \/ byAlias' = [byAlias EXCEPT ![AliasOf(s)] = s]
         \/ byAlias' = [byAlias EXCEPT ![AliasOf(s)] = IF @ = None THEN s ELSE @]
  PROVE  Routes'
<1> DEFINE a == AliasOf(s)
<1>1. a \in Aliases /\ a # None
  BY AliasType
<1> HIDE DEF a
<1>2. /\ alias' = [alias EXCEPT ![s] = a]
      /\ \/ byAlias' = [byAlias EXCEPT ![a] = s]
         \/ byAlias' = [byAlias EXCEPT ![a] = IF @ = None THEN s ELSE @]
  BY DEF a
<1>3. \A b \in Aliases : byAlias'[b] = byAlias[b] \/ (b = a /\ byAlias'[b] = s)
  BY <1>2 DEF TypeOK
<1>4. ASSUME NEW b \in Aliases, byAlias[b] # None
      PROVE  byAlias[b] \in subs /\ byAlias[b] # s /\ alias'[byAlias[b]] = b
  BY <1>2, <1>4, SubscriberAssumption DEF Routes, TypeOK
<1>5. alias'[s] = a
  BY <1>2 DEF TypeOK
<1>6. QED
  BY <1>1, <1>3, <1>4, <1>5 DEF Routes

\* The tables after a step whose only change to them is that of one alias.
LEMMA AliasFound ==
  ASSUME TypeOK, Held, Routes, Found, OneAliasEach, NEW s \in Ids, track[s] \in Tracks,
         Known, alias[s] = None,
         alias' = [alias EXCEPT ![s] = AliasOf(s)],
         s \in subs', subs' \subseteq subs \cup {s},
         \/ byAlias' = [byAlias EXCEPT ![AliasOf(s)] = s]
         \/ byAlias' = [byAlias EXCEPT ![AliasOf(s)] = IF @ = None THEN s ELSE @]
  PROVE  Found'
<1> DEFINE a == AliasOf(s)
<1>1. a \in Aliases /\ a # None
  BY AliasType
<1>2. \A r \in Ids : alias[r] # None => alias[r] # a
  <2> SUFFICES ASSUME NEW r \in Ids, alias[r] # None, alias[r] = a PROVE FALSE
    OBVIOUS
  <2>1. track[r] \in Tracks /\ alias[r] = AliasOf(r)
    BY DEF Held, Known
  <2>2. Alias[<<r, track[r]>>] = Alias[<<s, track[s]>>]
    BY <2>1 DEF AliasOf
  <2>3. r = s
    BY <2>1, <2>2 DEF OneAliasEach
  <2>4. QED
    BY <2>3
<1>3. byAlias[a] = None
  BY <1>1, <1>2 DEF Routes, TypeOK
<1>4. byAlias' = [byAlias EXCEPT ![a] = s] /\ alias' = [alias EXCEPT ![s] = a]
  BY <1>3
<1> HIDE DEF a
<1>5. QED
  BY <1>1, <1>2, <1>4 DEF Found, TypeOK

\* A step keeps the agreement, and that every alias finds its subscription when no
\* two requests share one.
LEMMA StepAgree ==
  ASSUME TypeOK, TypeOK', Known, Owned, Agree, [Next]_vars
  PROVE  Agree' /\ (OneAliasEach /\ Found => Found')
<1> USE DEF Agree
<1> DEFINE Goal == Agree' /\ (OneAliasEach /\ Found => Found')
<1>0. CASE UNCHANGED <<manager, stage, draining>>
  <2>1. Held'
    BY <1>0 DEF manager, Held, AliasOf
  <2>2. QED
    BY <1>0, <2>1, TablesKept
<1>1. ASSUME NEW s, stage[s] = "open", Stage(s, "leaving"), UNCHANGED <<manager, draining>>
      PROVE  Goal
  <2>1. Held'
    BY <1>1 DEF manager, Held, AliasOf, Stage, TypeOK
  <2>2. QED
    BY <1>1, <2>1, TablesKept
<1>2. ASSUME NEW s \in Ours, NEW t \in Tracks, Subscribe(s, t) PROVE Goal
  <2>1. /\ s \in Ids /\ s \notin subs /\ alias[s] = None /\ stage[s] = "idle"
        /\ subs' = subs \cup {s} /\ stage' = [stage EXCEPT ![s] = "asked"]
        /\ track' = [track EXCEPT ![s] = t] /\ byName' = [byName EXCEPT ![t] = s]
        /\ UNCHANGED <<alias, byAlias, draining>>
    BY <1>2 DEF Subscribe, Stage, Held, Ids
  <2>2. \A r \in Ids \ {s} : AliasOf(r)' = AliasOf(r)
    BY <2>1 DEF AliasOf, TypeOK
  <2>3. Held'
    BY <2>1, <2>2 DEF Held, TypeOK
  <2>4. NamesHeld'
    BY <2>1, SubscriberAssumption DEF NamesHeld, TypeOK
  <2>5. Routes' /\ (Found => Found')
    BY <2>1 DEF Routes, Found
  <2>6. QED
    BY <2>3, <2>4, <2>5
<1>3. ASSUME NEW p \in Theirs, NEW t \in Tracks, PeerPublishes(p, t) PROVE Goal
  <2>1. /\ p \in Ids /\ p \notin subs /\ alias[p] = None
        /\ track' = [track EXCEPT ![p] = t]
        /\ UNCHANGED <<subs, stage, alias, byAlias, byName, draining>>
    BY <1>3 DEF PeerPublishes, Known, Held, Ids
  <2>2. \A r \in Ids \ {p} : AliasOf(r)' = AliasOf(r)
    BY <2>1 DEF AliasOf, TypeOK
  <2>3. Held'
    BY <2>1, <2>2 DEF Held
  <2>4. NamesHeld'
    BY <2>1 DEF NamesHeld, TypeOK
  <2>5. Routes' /\ (Found => Found')
    BY <2>1 DEF Routes, Found
  <2>6. QED
    BY <2>3, <2>4, <2>5
<1>4. ASSUME NEW s \in Ids, ReadOk(s) PROVE Goal
  <2>1. CASE AliasAccepted(s)
    <3>1. /\ stage[s] = "asked" /\ alias' = [alias EXCEPT ![s] = AliasOf(s)]
          /\ byAlias' = [byAlias EXCEPT ![AliasOf(s)] = s]
          /\ stage' = [stage EXCEPT ![s] = "open"]
          /\ UNCHANGED <<subs, track, byName, draining>>
      BY <1>4, <2>1 DEF ReadOk, RegisterAlias, Stage
    <3>2. s \in subs /\ alias[s] = None /\ track[s] \in Tracks
      BY <3>1 DEF Held, Known
    <3>3. AliasOf(s) # None /\ \A r \in Ids : AliasOf(r)' = AliasOf(r)
      BY <3>1, <3>2, AliasType DEF AliasOf
    <3>4. Held'
      BY <3>1, <3>2, <3>3 DEF Held, TypeOK
    <3>5. NamesHeld'
      BY <3>1 DEF NamesHeld
    <3>6. Routes'
      BY <3>1, <3>2, AliasGiven
    <3>7. OneAliasEach /\ Found => Found'
      BY <3>1, <3>2, AliasFound
    <3>8. QED
      BY <3>4, <3>5, <3>6, <3>7
  <2>2. CASE ~AliasAccepted(s)
    <3>1. UNCHANGED <<manager, stage, draining>>
      BY <1>4, <2>2 DEF ReadOk, manager
    <3>2. QED
      BY <1>0, <3>1
  <2>3. QED
    BY <2>1, <2>2
<1>5. ASSUME NEW p \in Theirs, AcceptPublish(p) PROVE Goal
  <2>1. /\ p \in Ids /\ p \notin subs /\ alias[p] = None /\ stage[p] = "accepting"
        /\ subs' = subs \cup {p} /\ stage' = [stage EXCEPT ![p] = "open"]
        /\ byName' = [byName EXCEPT ![track[p]] = p]
        /\ alias' = [alias EXCEPT ![p] = AliasOf(p)]
        /\ byAlias' = [byAlias EXCEPT ![AliasOf(p)] = IF @ = None THEN p ELSE @]
        /\ UNCHANGED <<track, draining>>
    BY <1>5 DEF AcceptPublish, Stage, Held, Ids
  <2>2. track[p] \in Tracks
    BY <2>1 DEF Known
  <2>3. AliasOf(p) # None /\ \A r \in Ids : AliasOf(r)' = AliasOf(r)
    BY <2>1, <2>2, AliasType DEF AliasOf
  <2>4. Held'
    BY <2>1, <2>3 DEF Held, TypeOK
  <2>5. NamesHeld'
    BY <2>1, <2>2, SubscriberAssumption DEF NamesHeld, TypeOK
  <2>6. Routes'
    BY <2>1, <2>2, AliasGiven
  <2>7. OneAliasEach /\ Found => Found'
    BY <2>1, <2>2, AliasFound
  <2>8. QED
    BY <2>4, <2>5, <2>6, <2>7
<1>6. ASSUME NEW s \in Ids, RejectOk(s) \/ SubscribeFails(s) PROVE Goal
  <2>1. /\ stage[s] = "asked" /\ Remove(s) /\ stage' = [stage EXCEPT ![s] = "over"]
        /\ UNCHANGED draining
    BY <1>6 DEF RejectOk, SubscribeFails, Stage
  <2>2. /\ NamesHeld' /\ Routes' /\ (Found => Found')
        /\ subs' = subs \ {s} /\ track' = track /\ alias' = alias
    BY <2>1, RemoveKeeps
  <2>3. Held'
    BY <2>1, <2>2 DEF Held, AliasOf, TypeOK
  <2>4. QED
    BY <2>2, <2>3
<1>7. ASSUME NEW s \in Ids, DrainEnds(s) \/ Left(s) \/ ReadDone(s) \/ ReadEnd(s) PROVE Goal
  <2>1. /\ stage[s] # "asked"
        /\ UNCHANGED stage \/ stage' = [stage EXCEPT ![s] = "over"]
    BY <1>7 DEF DrainEnds, Left, ReadDone, ReadEnd, Stage, Held
  <2>2. CASE Delete(s)
    <3>1. /\ NamesHeld' /\ Routes' /\ (Found => Found')
          /\ subs' = subs \ {s} /\ track' = track /\ alias' = alias
      BY <2>2, RemoveKeeps DEF Delete
    <3>2. draining' = draining \ {s}
      BY <2>2 DEF Delete
    <3>3. Held'
      BY <2>1, <3>1, <3>2 DEF Held, AliasOf, TypeOK
    <3>4. QED
      BY <3>1, <3>3
  <2>3. CASE ~Delete(s)
    <3>1. /\ UNCHANGED manager
          /\ \/ s \notin subs /\ UNCHANGED draining
             \/ s \in subs /\ UNCHANGED stage /\ draining' = draining \cup {s}
      BY <1>7, <2>3 DEF DrainEnds, Left, ReadDone, ReadEnd, Fail, Unchanged, manager
    <3>2. Held'
      BY <2>1, <3>1 DEF Held, AliasOf, TypeOK, manager
    <3>3. QED
      BY <3>1, <3>2, TablesKept
  <2>4. QED
    BY <2>2, <2>3
<1>8. ASSUME NEW p \in Theirs, RefusePublish(p) PROVE Goal
  <2>1. /\ p \in Ids /\ stage[p] = "idle" /\ stage' = [stage EXCEPT ![p] = "over"]
        /\ UNCHANGED <<manager, draining>>
    BY <1>8 DEF RefusePublish, Stage, Ids
  <2>2. Held'
    BY <2>1 DEF Held, manager, AliasOf, TypeOK
  <2>3. QED
    BY <2>1, <2>2, TablesKept
<1>9. ASSUME NEW p \in Theirs, TakePublish(p) PROVE Goal
  <2> DEFINE mine == byName[track[p]]
  <2>1. p \in Ids /\ stage[p] = "idle" /\ track[p] \in Tracks
    BY <1>9 DEF TakePublish, Ids, Receive, Known
  <2>2. mine # None => mine \in Ids /\ mine \in subs
    BY <2>1 DEF NamesHeld, TypeOK
  <2>3. UNCHANGED draining
    BY <1>9 DEF TakePublish
  <2>4. \/ UNCHANGED <<manager, stage>>
        \/ stage' = [stage EXCEPT ![p] = "accepting"] /\ UNCHANGED manager
        \/ /\ mine # None /\ alias[mine] = None /\ Remove(mine)
           /\ stage' = [stage EXCEPT ![p] = "accepting", ![mine] = "over"]
    BY <1>9 DEF TakePublish, Stage
  <2> HIDE DEF mine
  <2>5. CASE UNCHANGED <<manager, stage>>
    BY <1>0, <2>3, <2>5
  <2>6. CASE stage' = [stage EXCEPT ![p] = "accepting"] /\ UNCHANGED manager
    <3>1. Held'
      BY <2>1, <2>3, <2>6 DEF Held, manager, AliasOf, TypeOK
    <3>2. QED
      BY <2>6, <3>1, TablesKept
  <2>7. CASE /\ mine # None /\ alias[mine] = None /\ Remove(mine)
             /\ stage' = [stage EXCEPT ![p] = "accepting", ![mine] = "over"]
    <3>1. /\ NamesHeld' /\ Routes' /\ (Found => Found')
          /\ subs' = subs \ {mine} /\ track' = track /\ alias' = alias
      BY <2>2, <2>7, RemoveKeeps
    <3>2. stage[mine] = "asked"
      BY <2>2, <2>7 DEF Held
    <3>3. /\ p # mine /\ stage'[p] = "accepting" /\ stage'[mine] = "over"
          /\ \A r \in Ids \ {p, mine} : stage'[r] = stage[r]
      BY <2>1, <2>2, <2>7, <3>2 DEF TypeOK
    <3>4. p \notin subs /\ alias[p] = None
      BY <2>1 DEF Held
    <3>5. Held'
      <4> SUFFICES ASSUME NEW r \in Ids PROVE Held!(r)'
        BY DEF Held
      <4>1. QED
        BY <2>2, <2>3, <2>7, <3>1, <3>2, <3>3, <3>4 DEF Held, AliasOf
    <3>6. QED
      BY <3>1, <3>5
  <2>8. QED
    BY <2>4, <2>5, <2>6, <2>7
<1>10. ASSUME NEW k \in Streams, StreamStep(k) PROVE Goal
  <2>1. \/ UNCHANGED <<manager, stage, draining>>
        \/ \E s : stage[s] = "open" /\ Stage(s, "leaving") /\ UNCHANGED <<manager, draining>>
    BY <1>10 DEF StreamStep, ReadHeader, ReadObject, ReadMalformed, ReadStreamEnd
  <2>2. QED
    BY <1>0, <1>1, <2>1
<1>11. ASSUME NEW s \in Ids, Unsubscribe(s) \/ Datagram(s) PROVE Goal
  <2>1. \/ UNCHANGED <<manager, stage, draining>>
        \/ stage[s] = "open" /\ Stage(s, "leaving") /\ UNCHANGED <<manager, draining>>
    BY <1>11 DEF Unsubscribe, Datagram
  <2>2. QED
    BY <1>0, <1>1, <2>1
<1>12. ASSUME PeerStep PROVE Goal
  <2>1. \/ UNCHANGED <<manager, stage, draining>>
        \/ \E p \in Theirs, t \in Tracks : PeerPublishes(p, t)
    BY <1>12 DEF PeerStep, PeerAnswers, PeerOpens, PeerWrites, PeerFinishes, PeerDone,
      PeerResets, PeerCancelled
  <2>2. QED
    BY <1>0, <1>3, <2>1
<1>13. QED
  <2>1. UNCHANGED vars => UNCHANGED <<manager, stage, draining>>
    BY DEF vars
  <2>2. QED
    BY <1>0, <1>2, <1>4, <1>5, <1>6, <1>7, <1>8, <1>9, <1>10, <1>11, <1>12, <2>1
    DEF Next, OurStep, PublishStep

\* The tables agree in every state.
LEMMA Agreement == Spec => [](TypeOK /\ Known /\ Owned /\ Agree)
<1>1. TypeOK /\ Known /\ Owned /\ Agree /\ [Next]_vars
        => TypeOK' /\ Known' /\ Owned' /\ Agree'
  BY StepTyped, StepOwned, StepAgree
<1>2. QED
  BY <1>1, InitTyped, InitAgree, PTL DEF Spec

\* No subscription is kept for a request that is over, and no drain timer runs for
\* a subscription that is gone.
THEOREM NothingOrphaned == Spec => []NoOrphan
<1>1. Agree /\ TypeOK => NoOrphan
  BY DEF Agree, Held, NoOrphan, TypeOK
<1>2. QED
  BY <1>1, Agreement, PTL

\* An object is dropped only for a subscription that its alias does not find.
LEMMA StepMissed ==
  ASSUME TypeOK, Known, Owned, Agree, Found, missed = {}, [Next]_vars
  PROVE  missed' = {}
<1>1. ASSUME NEW s \in Ids, Route(s) PROVE missed' = {}
  BY <1>1, SubscriberAssumption DEF Route, Found, Agree, Held
<1>2. ASSUME NEW k \in Streams, ReadObject(k) PROVE missed' = {}
  <2>1. owner[k] \in Ids /\ Route(owner[k])
    BY <1>2 DEF ReadObject, Owned, TypeOK
  <2>2. QED
    BY <1>1, <2>1
<1>3. ASSUME NEW s \in Ids, Datagram(s) PROVE missed' = {}
  BY <1>1, <1>3 DEF Datagram
<1>4. \/ UNCHANGED missed
      \/ \E s \in Ids : Datagram(s)
      \/ \E k \in Streams : ReadObject(k)
  <2>1. ASSUME NEW s \in Ids, OurStep(s) PROVE UNCHANGED missed \/ Datagram(s)
    BY <2>1 DEF OurStep, ReadOk, RejectOk, SubscribeFails, ReadDone, DrainEnds, ReadEnd,
      Unsubscribe, Left
  <2>2. ASSUME NEW p \in Theirs, PublishStep(p) PROVE UNCHANGED missed
    BY <2>2 DEF PublishStep, RefusePublish, TakePublish, AcceptPublish
  <2>3. ASSUME NEW k \in Streams, StreamStep(k) PROVE UNCHANGED missed \/ ReadObject(k)
    BY <2>3 DEF StreamStep, ReadHeader, ReadMalformed, ReadStreamEnd
  <2>4. ASSUME NEW s \in Ours, NEW t \in Tracks, Subscribe(s, t) PROVE UNCHANGED missed
    BY <2>4 DEF Subscribe
  <2>5. ASSUME PeerStep PROVE UNCHANGED missed
    BY <2>5 DEF PeerStep, PeerAnswers, PeerPublishes, PeerOpens, PeerWrites, PeerFinishes,
      PeerDone, PeerResets, PeerCancelled
  <2>6. QED
    BY <2>1, <2>2, <2>3, <2>4, <2>5 DEF Next, vars
<1>5. QED
  BY <1>2, <1>3, <1>4

\* When no two requests share an alias, every one finds its subscription and nothing
\* is dropped.
LEMMA AlwaysFound ==
  ASSUME OneAliasEach
  PROVE  Spec => [](TypeOK /\ Agree /\ Found /\ NoEstablishedDrop)
<1>1. Init => NoEstablishedDrop
  BY InitAgree DEF NoEstablishedDrop
<1>2. TypeOK /\ Known /\ Owned /\ Agree /\ Found /\ NoEstablishedDrop /\ [Next]_vars
        => TypeOK' /\ Known' /\ Owned' /\ Agree' /\ Found' /\ NoEstablishedDrop'
  BY StepTyped, StepOwned, StepAgree, StepMissed DEF NoEstablishedDrop
<1>3. QED
  BY <1>1, <1>2, InitTyped, InitAgree, PTL DEF Spec

\* The alias table and the subscriptions never disagree: an entry leads to a
\* subscription that has the alias, and a subscription with an alias is found by it
\* until it is removed.
THEOREM RouteTableHolds ==
  ASSUME OneAliasEach
  PROVE  Spec => []RouteTable
<1>1. Agree /\ Found => RouteTable
  BY DEF Agree, Routes, Found, RouteTable
<1>2. QED
  BY <1>1, AlwaysFound, PTL

\* No object of a subscription that has its alias is dropped while the subscription
\* is held, however the other subscriptions begin, drain and end.
THEOREM NothingDropped ==
  ASSUME OneAliasEach
  PROVE  Spec => []NoEstablishedDrop
<1>1. QED
  BY AlwaysFound, PTL

\* A subscription that goes with an alias takes the streams being read along, also
\* when other requests share the alias.
THEOREM StreamsAreStopped == Spec => StreamsStopped
<1> DEFINE Stopped == \A s \in subs, k \in Streams :
             s \notin subs' /\ owner[k] = s /\ alias[s] # None => reader'[k] # "open"
<1>1. ASSUME TypeOK, Agree, [Next]_vars PROVE Stopped
  <2> USE <1>1
  <2>1. ASSUME NEW s \in Ids, Delete(s) PROVE Stopped
    <3>1. subs' = subs \ {s} /\ StopReaders(alias[s])
      BY <2>1 DEF Delete, Remove
    <3>2. alias[s] # None => alias[s] = AliasOf(s)
      BY DEF Agree, Held
    <3>3. QED
      BY <3>1, <3>2 DEF StopReaders, TypeOK
  <2>2. ASSUME NEW s \in Ids, alias[s] = None, Remove(s) PROVE Stopped
    BY <2>2 DEF Remove
  <2>3. CASE subs \subseteq subs'
    BY <2>3
  <2>4. ASSUME NEW s \in Ids, OurStep(s) PROVE Stopped
    <3>1. \/ subs \subseteq subs'
          \/ Delete(s)
          \/ Remove(s) /\ stage[s] = "asked"
      BY <2>4 DEF OurStep, ReadOk, RejectOk, SubscribeFails, ReadDone, DrainEnds, ReadEnd,
        Unsubscribe, Left, Datagram, Fail, Unchanged, manager
    <3>2. stage[s] = "asked" => alias[s] = None
      BY DEF Agree, Held
    <3>3. QED
      BY <2>1, <2>2, <2>3, <3>1, <3>2
  <2>5. ASSUME NEW p \in Theirs, PublishStep(p) PROVE Stopped
    <3>1. \/ subs \subseteq subs'
          \/ LET mine == byName[track[p]] IN
               Remove(mine) /\ alias[mine] = None /\ mine \in subs
          \/ LET mine == byName[track[p]] IN Remove(mine) /\ mine \notin subs
      BY <2>5 DEF PublishStep, RefusePublish, TakePublish, AcceptPublish, manager
    <3>2. ASSUME NEW m, Remove(m), m \notin subs PROVE subs \subseteq subs'
      BY <3>2 DEF Remove
    <3>3. QED
      BY <2>2, <2>3, <3>1, <3>2 DEF TypeOK
  <2>6. CASE \E k \in Streams : StreamStep(k)
    BY <2>3, <2>6 DEF StreamStep, ReadHeader, ReadObject, ReadMalformed, ReadStreamEnd, manager
  <2>7. CASE \E s \in Ours, t \in Tracks : Subscribe(s, t)
    BY <2>3, <2>7 DEF Subscribe
  <2>8. CASE PeerStep
    BY <2>3, <2>8 DEF PeerStep, PeerAnswers, PeerPublishes, PeerOpens, PeerWrites, PeerFinishes,
      PeerDone, PeerResets, PeerCancelled, manager
  <2>9. QED
    BY <2>3, <2>4, <2>5, <2>6, <2>7, <2>8 DEF Next, vars, manager
<1>2. TypeOK /\ Agree /\ [Next]_vars => [Stopped]_vars
  BY <1>1
<1> HIDE DEF Stopped
<1>3. Spec => [][Stopped]_vars
  BY <1>2, Agreement, PTL DEF Spec
<1>4. QED
  BY <1>3 DEF StreamsStopped, Stopped
=============================================================================
