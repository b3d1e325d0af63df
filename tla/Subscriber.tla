----------------------------- MODULE Subscriber -----------------------------
(***************************************************************************)
(* The subscriptions a MOQTSession holds (draft-18/22) and the objects it  *)
(* routes to them: packages/session/src/subscription-manager.ts,           *)
(* object-router.ts and the SUBSCRIBE, PUBLISH and PUBLISH_DONE handling of*)
(* session.ts.  A subscription begins with our SUBSCRIBE or with a PUBLISH *)
(* of the peer, and its objects come on data streams and in datagrams that *)
(* name it only by a Track Alias.  A request stream, a data stream and a   *)
(* datagram are not ordered relative to each other, so data can come before*)
(* the SUBSCRIBE_OK that names its alias and after the PUBLISH_DONE.       *)
(*                                                                         *)
(* The peer keeps to the protocol.  It is the publisher: it answers our    *)
(* SUBSCRIBEs, PUBLISHes tracks of its own, opens data streams for them,   *)
(* and ends a subscription by PUBLISH_DONE and FIN, or by a reset.         *)
(***************************************************************************)
EXTENDS Integers, Sequences, FiniteSets

CONSTANTS
  Ours,              \* Request IDs of our SUBSCRIBEs, used in ascending order
  Theirs,            \* Request IDs of the peer's PUBLISHes
  Tracks,            \* track names
  Streams,           \* data streams the peer may open (a set of integers)
  MaxObjects,        \* bound: unread objects on a data stream
  MaxSubscriptions,  \* maxSubscriptions
  Timed,             \* requests with a delivery timeout: subscription.drainMs > 0
  Draft22,           \* draft-22, which allows several subscriptions of a track
  Aliases, Alias,    \* Track Aliases, and the one the peer gives to a request for a track
  None               \* no request, track or alias

Ids == Ours \cup Theirs

ASSUME SubscriberAssumption ==
  /\ Ours \subseteq Int /\ Theirs \subseteq Int /\ Streams \subseteq Int
  /\ Ours \cap Theirs = {}
  /\ MaxObjects \in Nat /\ MaxSubscriptions \in Nat
  /\ Timed \subseteq Ids
  /\ Draft22 \in BOOLEAN
  /\ Alias \in [Ids \X Tracks -> Aliases]
  /\ None \notin Ids \cup Tracks \cup Aliases

VARIABLES
  subs,      \* subscriptions: the requests that have a subscription
  track,     \* the track a request names
  alias,     \* subscription.trackAlias
  byAlias,   \* subscriptionsByAlias
  byName,    \* subscriptionsByTrackName
  draining,  \* requests with a timer in retireTimers
  stage,     \* how far a request is on our side
  closed,    \* the session closed itself
  peer,      \* how far a request is on the peer's side
  toUs,      \* messages in flight on the request stream
  cancelled, \* requests whose end (reset, STOP_SENDING, error) is on its way to the peer
  owner,     \* the request a data stream carries objects of
  unread,    \* objects on a data stream that we have not read
  finish,    \* how the peer ended a data stream
  reader,    \* our reading of a data stream
  missed     \* history: owners of objects dropped while subscribed

manager == <<subs, track, alias, byAlias, byName>>
wire    == <<peer, toUs, cancelled>>
data    == <<owner, unread, finish, reader>>
vars    == <<manager, draining, stage, closed, wire, data, missed>>

TypeOK ==
  /\ subs \subseteq Ids /\ draining \subseteq Ids /\ cancelled \subseteq Ids
  /\ track \in [Ids -> Tracks \cup {None}]
  /\ alias \in [Ids -> Aliases \cup {None}]
  /\ byAlias \in [Aliases -> Ids \cup {None}]
  /\ byName \in [Tracks -> Ids \cup {None}]
  /\ stage \in [Ids -> {"idle", "asked", "accepting", "open", "leaving", "over"}]
  /\ closed \in BOOLEAN
  /\ peer \in [Ids -> {"none", "asked", "live", "done", "gone"}]
  /\ toUs \in [Ids -> Seq({"ok", "error", "publish", "done", "done0", "fin", "reset"})]
  /\ owner \in [Streams -> Ids \cup {None}]
  /\ unread \in [Streams -> 0 .. MaxObjects]
  /\ finish \in [Streams -> {"no", "fin", "reset"}]
  /\ reader \in [Streams -> {"none", "open", "closed"}]
  /\ missed \subseteq Ids

Init ==
  /\ subs = {} /\ draining = {} /\ cancelled = {} /\ missed = {}
  /\ track = [s \in Ids |-> None]
  /\ alias = [s \in Ids |-> None]
  /\ byAlias = [a \in Aliases |-> None]
  /\ byName = [t \in Tracks |-> None]
  /\ stage = [s \in Ids |-> "idle"]
  /\ closed = FALSE
  /\ peer = [s \in Ids |-> "none"]
  /\ toUs = [s \in Ids |-> <<>>]
  /\ owner = [k \in Streams |-> None]
  /\ unread = [k \in Streams |-> 0]
  /\ finish = [k \in Streams |-> "no"]
  /\ reader = [k \in Streams |-> "none"]

-----------------------------------------------------------------------------
(* Parts of the SubscriptionManager and of the handlers.                   *)

\* The Track Alias the peer gives to request s.  A publisher of this code base
\* takes a new one per subscription (nextPublicationAlias); a relay may use one
\* per track, or break the rule and give one alias to two tracks.
AliasOf(s) == Alias[<<s, track[s]>>]

\* acceptTrackAlias: the alias names no other track of ours.
AliasAccepted(s) ==
  ~\E r \in subs \ {s} : alias[r] = AliasOf(s) /\ track[r] # track[s]

\* Mutant of Unrouted: only the track name is forgotten.
UnroutedByName(s) == UNCHANGED byAlias

\* The routes left when subscription s is removed: every alias entry of s goes.
Unrouted(s) ==
  byAlias' = [a \in Aliases |-> IF byAlias[a] = s THEN None ELSE byAlias[a]]

\* SubscriptionManager.remove: nothing when s is not there, else its routes and
\* the entry of its track name, whoever's it is.
Remove(s) ==
  /\ subs' = subs \ {s}
  /\ IF s \in subs
     THEN Unrouted(s) /\ byName' = [byName EXCEPT ![track[s]] = None]
     ELSE UNCHANGED <<byAlias, byName>>
  /\ UNCHANGED <<track, alias>>

\* Mutant of StopReaders: the streams are left to be read.
StopNoReaders(a) == UNCHANGED reader

\* cancelSubgroupStreams: STOP_SENDING for each stream of an alias being read.
StopReaders(a) ==
  reader' = [k \in Streams |->
    IF reader[k] = "open" /\ a # None /\ AliasOf(owner[k]) = a
    THEN "closed" ELSE reader[k]]

\* Mutant of Delete: the timer of the subscription is left running.
DeleteLeavingTimer(s) ==
  /\ StopReaders(alias[s])
  /\ Remove(s)
  /\ UNCHANGED <<draining, owner, unread, finish>>

\* deleteSubscriptionState
Delete(s) ==
  /\ draining' = draining \ {s}
  /\ StopReaders(alias[s])
  /\ Remove(s)
  /\ UNCHANGED <<owner, unread, finish>>

Unchanged == UNCHANGED <<draining, data>> /\ UNCHANGED manager

\* Mutant of Fail: the subscription is kept.
FailKeeping(s) == Unchanged

\* failSubscription: nothing when the subscription is gone already.
Fail(s) == IF s \in subs THEN Delete(s) ELSE Unchanged

Receive(s, m) ==
  /\ ~closed /\ toUs[s] # <<>> /\ Head(toUs[s]) = m
  /\ toUs' = [toUs EXCEPT ![s] = Tail(@)]

Stage(s, new) == stage' = [stage EXCEPT ![s] = new]

\* The request is cancelled on our side: its stream is reset and stopped, so
\* nothing more is read from it and the peer will learn of it.
Abort(s) == cancelled' = cancelled \cup {s} /\ toUs' = [toUs EXCEPT ![s] = <<>>]

-----------------------------------------------------------------------------
(* Our requests and their answers.                                         *)

\* subscribe(): refused at the limit; otherwise the subscription is there before
\* the SUBSCRIBE is sent, without an alias.
Subscribe(s, t) ==
  /\ ~closed /\ stage[s] = "idle"
  /\ \A r \in Ours : r < s => stage[r] # "idle"
  /\ Cardinality(subs) < MaxSubscriptions
  /\ subs' = subs \cup {s}
  /\ track' = [track EXCEPT ![s] = t]
  /\ byName' = [byName EXCEPT ![t] = s]
  /\ Stage(s, "asked")
  /\ peer' = [peer EXCEPT ![s] = "asked"]
  /\ UNCHANGED <<alias, byAlias, draining, closed, toUs, cancelled, data, missed>>

\* Mutant of RegisterAlias: the table is not written.
RegisterNoAlias(s) == UNCHANGED byAlias

\* SubscriptionManager.registerAlias: the alias names s, whatever it named before.
RegisterAlias(s) == byAlias' = [byAlias EXCEPT ![AliasOf(s)] = s]

\* Mutant of ReadOk: an answer of a request that was settled otherwise is taken.
ReadOkLate(s) ==
  /\ Receive(s, "ok")
  /\ IF AliasAccepted(s)
     THEN /\ alias' = [alias EXCEPT ![s] = AliasOf(s)]
          /\ RegisterAlias(s)
          /\ Stage(s, "open")
          /\ UNCHANGED closed
     ELSE closed' = TRUE /\ UNCHANGED <<alias, byAlias, stage>>
  /\ UNCHANGED <<subs, track, byName, draining, peer, cancelled, data, missed>>

\* SUBSCRIBE_OK: the alias is checked against the other subscriptions and
\* registered.  A clash closes the session.
ReadOk(s) ==
  /\ stage[s] = "asked" /\ Receive(s, "ok")
  /\ IF AliasAccepted(s)
     THEN /\ alias' = [alias EXCEPT ![s] = AliasOf(s)]
          /\ RegisterAlias(s)
          /\ Stage(s, "open")
          /\ UNCHANGED closed
     ELSE closed' = TRUE /\ UNCHANGED <<alias, byAlias, stage>>
  /\ UNCHANGED <<subs, track, byName, draining, peer, cancelled, data, missed>>

\* A SUBSCRIBE_OK with a Mandatory Track Property we do not know cancels the
\* subscription (d22 3.7).
RejectOk(s) ==
  /\ ~closed /\ stage[s] = "asked" /\ toUs[s] # <<>> /\ Head(toUs[s]) = "ok"
  /\ Abort(s) /\ Stage(s, "over")
  /\ Remove(s)
  /\ UNCHANGED <<draining, closed, peer, data, missed>>

\* REQUEST_ERROR, or the end of the stream before an answer: subscribe() rejects
\* and takes the subscription back.
SubscribeFails(s) ==
  /\ stage[s] = "asked"
  /\ Receive(s, "error")
  /\ Stage(s, "over")
  /\ Remove(s)
  /\ UNCHANGED <<draining, closed, peer, cancelled, data, missed>>

\* PUBLISH_DONE (retireSubscription): the routes stay for the drain time, unless
\* no timeout applies or the peer opened no stream ("done0").
ReadDone(s) ==
  /\ stage[s] = "open"
  /\ \E m \in {"done", "done0"} :
       /\ Receive(s, m)
       /\ IF s \notin subs THEN Unchanged
          ELSE IF s \in Timed /\ m = "done"
          THEN draining' = draining \cup {s} /\ UNCHANGED <<manager, data>>
          ELSE Delete(s)
  /\ UNCHANGED <<stage, closed, peer, cancelled, missed>>

\* The drain time of a subscription is over.
DrainEnds(s) ==
  /\ ~closed /\ s \in draining
  /\ Delete(s)
  /\ UNCHANGED <<stage, closed, wire, missed>>

\* readRequestStream: a FIN or a reset of the peer fails the subscription if it
\* is still there, and ends our side of the stream.
ReadEnd(s) ==
  /\ stage[s] = "open"
  /\ \E m \in {"fin", "reset"} : Receive(s, m)
  /\ Fail(s)
  /\ Stage(s, "over")
  /\ UNCHANGED <<closed, peer, cancelled, missed>>

\* unsubscribe() up to its await: the request stream is aborted.
Unsubscribe(s) ==
  /\ ~closed /\ s \in subs /\ stage[s] = "open"
  /\ Abort(s) /\ Stage(s, "leaving")
  /\ UNCHANGED <<manager, draining, closed, peer, data, missed>>

\* The abort is done: unsubscribe(), or cancelMalformedTrack, deletes the state.
Left(s) ==
  /\ ~closed /\ stage[s] = "leaving"
  /\ Delete(s)
  /\ Stage(s, "over")
  /\ UNCHANGED <<closed, wire, missed>>

-----------------------------------------------------------------------------
(* The peer's PUBLISH.                                                     *)

\* handleIncomingPublishDraft18 up to the writing of the answer, when it refuses:
\* too many subscriptions, or (draft-18) a subscription of the track with an
\* alias.
RefusePublish(p) ==
  /\ stage[p] = "idle" /\ Receive(p, "publish")
  /\ \/ Cardinality(subs) >= MaxSubscriptions
     \/ ~Draft22 /\ byName[track[p]] # None /\ alias[byName[track[p]]] # None
  /\ Stage(p, "over")
  /\ cancelled' = cancelled \cup {p}
  /\ UNCHANGED <<manager, draining, closed, peer, data, missed>>

\* The same when it accepts.  Our own SUBSCRIBE of the track, still without an
\* answer, is cancelled first (resolveDuplicatePublish, draft-18).
TakePublish(p) ==
  LET mine == byName[track[p]] IN
  /\ stage[p] = "idle" /\ Receive(p, "publish")
  /\ Cardinality(subs) < MaxSubscriptions
  /\ IF ~AliasAccepted(p) THEN closed' = TRUE /\ UNCHANGED <<manager, stage, cancelled>>
     ELSE /\ UNCHANGED closed
          /\ IF Draft22 \/ mine = None
             THEN Stage(p, "accepting") /\ UNCHANGED <<manager, cancelled>>
             ELSE /\ alias[mine] = None
                  /\ Remove(mine)
                  /\ cancelled' = cancelled \cup {mine}
                  /\ stage' = [stage EXCEPT ![p] = "accepting", ![mine] = "over"]
  /\ UNCHANGED <<draining, peer, data, missed>>

\* REQUEST_OK is written: the subscription is added.  safeRegisterAlias keeps an
\* alias that another subscription has.
AcceptPublish(p) ==
  LET a == AliasOf(p) IN
  /\ ~closed /\ stage[p] = "accepting"
  /\ subs' = subs \cup {p}
  /\ byName' = [byName EXCEPT ![track[p]] = p]
  /\ alias' = [alias EXCEPT ![p] = a]
  /\ byAlias' = [byAlias EXCEPT ![a] = IF @ = None THEN p ELSE @]
  /\ Stage(p, "open")
  /\ UNCHANGED <<track, draining, closed, wire, data, missed>>

-----------------------------------------------------------------------------
(* Data.                                                                   *)

\* An object of request s is looked up by its alias, and dropped when it has no
\* entry.
Route(s) ==
  missed' = IF byAlias[AliasOf(s)] = None /\ s \in subs /\ alias[s] # None
            THEN missed \cup {s} ELSE missed

\* A data stream's header is read, and the stream can be stopped from now on.
ReadHeader(k) ==
  /\ ~closed /\ owner[k] # None /\ reader[k] = "none"
  /\ reader' = [reader EXCEPT ![k] = "open"]
  /\ UNCHANGED <<manager, draining, stage, closed, wire, owner, unread, finish, missed>>

\* Mutant of ReadObject: an object is read before it has come.
ReadObjectEarly(k) ==
  /\ ~closed /\ reader[k] = "open"
  /\ unread' = [unread EXCEPT ![k] = @ - 1]
  /\ Route(owner[k])
  /\ UNCHANGED <<manager, draining, stage, closed, wire, owner, finish, reader>>

\* An object is read from the stream and routed.
ReadObject(k) ==
  /\ ~closed /\ reader[k] = "open" /\ unread[k] > 0
  /\ unread' = [unread EXCEPT ![k] = @ - 1]
  /\ Route(owner[k])
  /\ UNCHANGED <<manager, draining, stage, closed, wire, owner, finish, reader>>

\* An object that makes its Track malformed: the stream is cancelled, and the
\* subscription its alias names is cancelled like by unsubscribe().
ReadMalformed(k) ==
  LET s == byAlias[AliasOf(owner[k])] IN
  /\ ~closed /\ reader[k] = "open" /\ unread[k] > 0
  /\ reader' = [reader EXCEPT ![k] = "closed"]
  /\ IF s # None /\ stage[s] = "open"
     THEN Abort(s) /\ Stage(s, "leaving")
     ELSE UNCHANGED <<cancelled, toUs, stage>>
  /\ UNCHANGED <<manager, draining, closed, peer, owner, unread, finish, missed>>

\* The stream ends: after its last object, or at any time by a reset.
ReadStreamEnd(k) ==
  /\ ~closed /\ reader[k] = "open"
  /\ finish[k] = "reset" \/ (finish[k] = "fin" /\ unread[k] = 0)
  /\ reader' = [reader EXCEPT ![k] = "closed"]
  /\ UNCHANGED <<manager, draining, stage, closed, wire, owner, unread, finish, missed>>

\* A datagram of request s arrives, as late as may be.
Datagram(s) ==
  /\ ~closed /\ peer[s] \in {"live", "done", "gone"} /\ track[s] # None
  /\ Route(s)
  /\ UNCHANGED <<manager, draining, stage, closed, wire, data>>

-----------------------------------------------------------------------------
(* The peer.                                                               *)

\* The peer writes on the request stream of s, unless we have cancelled it.
Send(s, ms) == toUs' = [toUs EXCEPT ![s] = IF s \in cancelled THEN <<>> ELSE @ \o ms]

PeerAt(s, new) == peer' = [peer EXCEPT ![s] = new]

\* Without draft-22 the peer keeps one subscription of a track.
Free(s, t) == Draft22 \/ ~\E r \in Ids \ {s} : peer[r] = "live" /\ track[r] = t

\* What the peer had not finished on the data streams of s is reset.
ResetStreams(s) ==
  finish' = [k \in Streams |-> IF owner[k] = s /\ finish[k] = "no" THEN "reset" ELSE finish[k]]

PeerAnswers(s) ==
  /\ peer[s] = "asked" /\ s \notin cancelled
  /\ \/ Free(s, track[s]) /\ PeerAt(s, "live") /\ Send(s, <<"ok">>)
     \/ PeerAt(s, "gone") /\ Send(s, <<"error">>)
  /\ UNCHANGED <<manager, draining, stage, closed, cancelled, data, missed>>

PeerPublishes(p, t) ==
  /\ peer[p] = "none" /\ Free(p, t)
  /\ PeerAt(p, "live") /\ Send(p, <<"publish">>)
  /\ track' = [track EXCEPT ![p] = t]
  /\ UNCHANGED <<subs, alias, byAlias, byName, draining, stage, closed, cancelled, data, missed>>

PeerOpens(k, s) ==
  /\ owner[k] = None /\ \A j \in Streams : j < k => owner[j] # None
  /\ peer[s] = "live"
  /\ owner' = [owner EXCEPT ![k] = s]
  /\ UNCHANGED <<manager, draining, stage, closed, wire, unread, finish, reader, missed>>

PeerWrites(k) ==
  /\ owner[k] # None /\ finish[k] = "no" /\ unread[k] < MaxObjects
  /\ unread' = [unread EXCEPT ![k] = @ + 1]
  /\ UNCHANGED <<manager, draining, stage, closed, wire, owner, finish, reader, missed>>

PeerFinishes(k) ==
  /\ owner[k] # None /\ finish[k] = "no"
  /\ finish' = [finish EXCEPT ![k] = "fin"]
  /\ UNCHANGED <<manager, draining, stage, closed, wire, owner, unread, reader, missed>>

\* PUBLISH_DONE, with the number of streams opened, and the end of the stream.
PeerDone(s) ==
  LET mine == {k \in Streams : owner[k] = s} IN
  /\ peer[s] = "live" /\ \A k \in mine : finish[k] # "no"
  /\ PeerAt(s, "done")
  /\ Send(s, <<IF mine = {} THEN "done0" ELSE "done", "fin">>)
  /\ UNCHANGED <<manager, draining, stage, closed, cancelled, data, missed>>

PeerResets(s) ==
  /\ peer[s] = "live"
  /\ PeerAt(s, "gone") /\ Send(s, <<"reset">>)
  /\ ResetStreams(s)
  /\ UNCHANGED <<manager, draining, stage, closed, cancelled, owner, unread, reader, missed>>

\* The peer learns that we have cancelled the request.
PeerCancelled(s) ==
  /\ s \in cancelled /\ peer[s] \in {"asked", "live"}
  /\ PeerAt(s, "gone")
  /\ ResetStreams(s)
  /\ UNCHANGED <<manager, draining, stage, closed, toUs, cancelled, owner, unread, reader,
                 missed>>

-----------------------------------------------------------------------------
OurStep(s) ==
  \/ ReadOk(s) \/ RejectOk(s) \/ SubscribeFails(s) \/ ReadDone(s) \/ DrainEnds(s)
  \/ ReadEnd(s) \/ Unsubscribe(s) \/ Left(s) \/ Datagram(s)
PublishStep(p) == RefusePublish(p) \/ TakePublish(p) \/ AcceptPublish(p)
StreamStep(k) == ReadHeader(k) \/ ReadObject(k) \/ ReadMalformed(k) \/ ReadStreamEnd(k)
PeerStep ==
  \/ \E s \in Ours : PeerAnswers(s)
  \/ \E p \in Theirs, t \in Tracks : PeerPublishes(p, t)
  \/ \E k \in Streams, s \in Ids : PeerOpens(k, s)
  \/ \E k \in Streams : PeerWrites(k) \/ PeerFinishes(k)
  \/ \E s \in Ids : PeerDone(s) \/ PeerResets(s) \/ PeerCancelled(s)

Next ==
  \/ \E s \in Ours, t \in Tracks : Subscribe(s, t)
  \/ \E s \in Ids : OurStep(s)
  \/ \E p \in Theirs : PublishStep(p)
  \/ \E k \in Streams : StreamStep(k)
  \/ PeerStep

Spec == Init /\ [][Next]_vars

\* The session reads what arrives, its timers fire and its awaits resume; nothing
\* is asked of the peer or of the application.
Fairness ==
  \A s \in Ids :
    /\ WF_vars(ReadOk(s) \/ RejectOk(s)) /\ WF_vars(SubscribeFails(s))
    /\ WF_vars(ReadDone(s)) /\ WF_vars(DrainEnds(s)) /\ WF_vars(ReadEnd(s))
    /\ WF_vars(Left(s)) /\ WF_vars(AcceptPublish(s))

FairSpec == Spec /\ Fairness

-----------------------------------------------------------------------------
(* Properties.                                                             *)

\* Every entry of the alias table leads to a subscription that has that alias,
\* and a subscription that shares its alias with no other is found by it, from
\* its SUBSCRIBE_OK to the end of its drain: the table that routes the objects and
\* the list of subscriptions never disagree.
RouteTable ==
  /\ \A a \in Aliases : byAlias[a] # None => byAlias[a] \in subs /\ alias[byAlias[a]] = a
  /\ \A s \in subs :
       alias[s] # None /\ (\A r \in subs \ {s} : alias[r] # alias[s]) => byAlias[alias[s]] = s

\* No object of a subscription is dropped while the subscription is held and has
\* its alias, whatever other subscriptions begin and end meanwhile.
NoEstablishedDrop == missed = {}

\* A request that is over holds no subscription unless it waits for its drain,
\* and only subscriptions wait: nothing is kept for a request that can never be
\* unsubscribed again, and no timer runs for one already gone.
NoOrphan ==
  /\ \A s \in subs : stage[s] = "over" => s \in draining
  /\ draining \subseteq subs

\* When a subscription with an alias goes, no stream of it stays open to be read:
\* its streams get STOP_SENDING in the same step.
StreamsStopped ==
  [][\A s \in subs, k \in Streams :
       s \notin subs' /\ owner[k] = s /\ alias[s] # None => reader'[k] # "open"]_vars

\* A subscription the peer has ended is let go: by its end, by its drain or
\* because the session closed.
EndedIsForgotten ==
  \A s \in Ids : s \in subs /\ peer[s] \in {"done", "gone"} ~> (s \notin subs \/ closed)

\* The state of a request as SubscriptionStateMachine knows it.
StateOf(s) ==
  CASE stage[s] \in {"idle", "asked", "accepting"} -> "pending"
    [] stage[s] = "open" -> "active"
    [] OTHER -> "ended"

Life == INSTANCE StateMachine WITH
  Machines <- Ids, Class <- "subscription", state <- [s \in Ids |-> StateOf(s)]

\* Every request moves as the subscription state machine of the core package
\* allows: an answer, a PUBLISH or data that comes late never revives a request
\* that has been left, refused or ended.
LivesOnce == Life!Spec

\* What the comment in retireSubscription says: once a PUBLISH_DONE has left a
\* subscription draining, what arrives on its request stream does not end the
\* drain.
DrainKept ==
  [][\A s \in draining : toUs'[s] # toUs[s] => s \in draining']_vars
=============================================================================
